---------------------------- MODULE WatcherProofs ----------------------------
(***************************************************************************)
(* Proofs about internal/watcher and internal/state, for any number of     *)
(* processes, repositories, artifacts and faults.                          *)
(***************************************************************************)
EXTENDS Watcher, TLAPS

-----------------------------------------------------------------------------
(* The inductive invariant, in four parts.                                 *)

Deploying == {"deploy", "applying", "save"}
Fetched   == {"pull"} \union Deploying
InRepo    == {"fetch"} \union Fetched

\* Only one process is anywhere in a cycle.
OneCycle == \A p \in Proc : pc[p] \in Cycle => holders = {p}

\* A dry run never gets beyond the annotations.
DryStops == \A p \in Proc : pc[p] \in Fetched => ~IsDryRun(p)

\* What each registry call of a cycle returned is no older than what the
\* call before it returned, and no newer than the tag.
OrderAt(p) ==
  /\ pc[p] \in InRepo => 0 < cur[p] /\ cur[p] <= tag[at[p]]
  /\ pc[p] \in Fetched => cur[p] <= ann[p] /\ ann[p] <= tag[at[p]]
  /\ pc[p] \in Deploying => /\ Pulled(p).repo = at[p]
                            /\ ann[p] <= Pulled(p).digest
                            /\ Pulled(p).digest <= tag[at[p]]

\* What the target of the current repository looks like.
HostAt(p) ==
  /\ pc[p] = "applying" => host[at[p]] = Applied(ann[p], Pulled(p).digest, FALSE)
  /\ pc[p] = "save" => host[at[p]] = Applied(ann[p], Pulled(p).digest, TRUE)

\* Nothing is ahead of the registry.
NotAhead ==
  /\ \A r \in Repo : disk[r] <= tag[r] /\ host[r].files <= tag[r]
  /\ \A p \in Proc, r \in Repo : mem[p][r] <= tag[r]

\* A deploying process remembers at least what the file records, works on
\* something newer, and vouches only for what is on the host.
AheadOfFile(p) == ~IsDryRun(p) /\ pc[p] # "off" => \A r \in Repo : disk[r] <= mem[p][r]
WorksOnNew(p)  == pc[p] \in InRepo => mem[p][at[p]] < cur[p]
Vouches(p) ==
  ~IsDryRun(p) => \A r \in Repo :
                    mem[p][r] # 0 /\ mem[p][r] = tag[r] => host[r] = Whole(tag[r])

Remembers == \A p \in Proc : AheadOfFile(p) /\ WorksOnNew(p) /\ Vouches(p)

CycleInv == TypeOK /\ OneCycle /\ DryStops

FreshInv == \A p \in Proc : OrderAt(p) /\ HostAt(p)

StoreInv == NotAhead /\ Remembers /\ VouchedIsDeployed

-----------------------------------------------------------------------------
(* Types, and one cycle at a time.                                         *)

LEMMA TypeInit == Init => TypeOK
  BY WatcherAssumption DEF Init, TypeOK, Lock!Init, Repo, Place, Digest, Dir, Empty, Applied, Cycle

LEMMA TypeNext ==
  ASSUME TypeOK, [Next]_vars
  PROVE  TypeOK'
  <1>a. /\ 0 \in Digest
        /\ 1 \in Place
        /\ \A i \in Repo : i + 1 \in Place
    BY WatcherAssumption DEF Repo, Digest, Place
  <1> USE <1>a DEF TypeOK, Goto, Cycle
  <1>1. ASSUME NEW p \in Proc, Work(p) \/ Exit(p) \/ Cancel(p) \/ Crash(p) PROVE TypeOK'
    <2>1. CASE Start(p)
      BY <2>1 DEF Start
    <2>2. CASE Acquire(p)
      BY <2>2 DEF Acquire, Lock!Take
    <2>3. CASE Skip(p)
      BY <2>3 DEF Skip, MayFail
    <2>4. CASE Resolve(p)
      <3>1. at[p] \in Repo /\ tag[at[p]] \in Digest
        BY <2>4 DEF Resolve, InLoop
      <3>2. CASE NeedsDeploy(p, tag[at[p]])
        BY <2>4, <3>1, <3>2 DEF Resolve
      <3>3. CASE ~NeedsDeploy(p, tag[at[p]])
        <4>1. /\ NextRepo(p)
              /\ UNCHANGED <<tag, disk, mem, holders, art, host, cancelled, faults>>
          BY <2>4, <3>3 DEF Resolve
        <4> QED
          BY <4>1, <3>1 DEF NextRepo
      <3> QED
        BY <3>2, <3>3
    <2>5. CASE ResolveFails(p)
      BY <2>5 DEF ResolveFails, NextRepo, MayFail, InLoop
    <2>6. CASE Fetch(p)
      <3>1. at[p] \in Repo /\ tag[at[p]] \in Digest
        BY <2>6 DEF Fetch
      <3>2. CASE tag[at[p]] \in Invalid \/ IsDryRun(p)
        <4>1. /\ NextRepo(p)
              /\ UNCHANGED <<tag, disk, mem, holders, art, host, cancelled, faults>>
          BY <2>6, <3>2 DEF Fetch
        <4> QED
          BY <4>1, <3>1 DEF NextRepo
      <3>3. CASE ~(tag[at[p]] \in Invalid \/ IsDryRun(p))
        BY <2>6, <3>1, <3>3 DEF Fetch
      <3> QED
        BY <3>2, <3>3
    <2>7. CASE FetchFails(p)
      BY <2>7 DEF FetchFails, NextRepo, MayFail
    <2>8. CASE Pull(p)
      BY <2>8 DEF Pull, Dir
    <2>9. CASE PullFails(p)
      BY <2>9 DEF PullFails, NextRepo, MayFail, Dir, Empty
    <2>10. CASE Refuse(p)
      BY <2>10 DEF Refuse, NextRepo, MayFail
    <2>11. CASE Apply(p)
      <3>1. at[p] \in Repo /\ Name[at[p]] \in Dir
        BY <2>11 DEF Apply, Dir
      <3>2. Applied(ann[p], Pulled(p).digest, FALSE)
              \in [spec : Digest, files : Digest, whole : BOOLEAN]
        BY <3>1 DEF Pulled, Applied
      <3> QED
        BY <2>11, <3>1, <3>2 DEF Apply
    <2>12. CASE Succeed(p)
      <3>1. at[p] \in Repo
        BY <2>12 DEF Succeed
      <3>2. Applied(host[at[p]].spec, host[at[p]].files, TRUE)
              \in [spec : Digest, files : Digest, whole : BOOLEAN]
        BY <3>1 DEF Applied
      <3> QED
        BY <2>12, <3>1, <3>2 DEF Succeed
    <2>13. CASE Fail(p)
      BY <2>13 DEF Fail, NextRepo, MayFail
    <2>14. CASE Save(p)
      BY <2>14 DEF Save, NextRepo, Recorded
    <2>15. CASE SaveFails(p)
      BY <2>15 DEF SaveFails, NextRepo, MayFail, Recorded
    <2>16. CASE Release(p)
      BY <2>16 DEF Release, Lock!Drop
    <2>17. CASE Tick(p)
      BY <2>17 DEF Tick
    <2>18. CASE Exit(p)
      BY <2>18 DEF Exit, Ended
    <2>19. CASE Cancel(p)
      BY <2>19 DEF Cancel, MayFail
    <2>20. CASE Crash(p)
      BY <2>20 DEF Crash, MayFail, Ended
    <2> QED
      BY <1>1, <2>1, <2>2, <2>3, <2>4, <2>5, <2>6, <2>7, <2>8, <2>9, <2>10, <2>11, <2>12, <2>13, <2>14, <2>15, <2>16, <2>17, <2>18, <2>19, <2>20 DEF Work
  <1>2. ASSUME NEW r \in Repo, Push(r) PROVE TypeOK'
    BY <1>2 DEF Push, Pushable, MayFail
  <1>3. CASE UNCHANGED vars
    BY <1>3 DEF vars
  <1> QED
    BY <1>1, <1>2, <1>3 DEF Next

\* The state of the watcher is always well formed, and each process that is
\* past the loop head of RunOnce is at one of the configured repositories.
THEOREM WatcherTypes == Spec => []TypeOK
  BY TypeInit, TypeNext, PTL DEF Spec

LEMMA CycleNext ==
  ASSUME CycleInv, [Next]_vars
  PROVE  (OneCycle /\ DryStops)'
  <1> USE DEF CycleInv, TypeOK, OneCycle, DryStops, Cycle, Fetched, Deploying, IsDryRun, Goto
  <1>1. ASSUME NEW p \in Proc, Work(p) \/ Exit(p) \/ Cancel(p) \/ Crash(p) PROVE (OneCycle /\ DryStops)'
    <2>1. CASE Start(p)
      BY <2>1 DEF Start
    <2>2. CASE Acquire(p)
      BY <2>2 DEF Acquire, Lock!Take
    <2>3. CASE Skip(p)
      BY <2>3 DEF Skip, MayFail
    <2>4. CASE Resolve(p)
      BY <2>4 DEF Resolve, NextRepo, InLoop
    <2>5. CASE ResolveFails(p)
      BY <2>5 DEF ResolveFails, NextRepo, MayFail, InLoop
    <2>6. CASE Fetch(p)
      BY <2>6 DEF Fetch, NextRepo
    <2>7. CASE FetchFails(p)
      BY <2>7 DEF FetchFails, NextRepo, MayFail
    <2>8. CASE Pull(p)
      BY <2>8 DEF Pull
    <2>9. CASE PullFails(p)
      BY <2>9 DEF PullFails, NextRepo, MayFail
    <2>10. CASE Refuse(p)
      BY <2>10 DEF Refuse, NextRepo, MayFail
    <2>11. CASE Apply(p)
      BY <2>11 DEF Apply, Pulled, Applied
    <2>12. CASE Succeed(p)
      BY <2>12 DEF Succeed
    <2>13. CASE Fail(p)
      BY <2>13 DEF Fail, NextRepo, MayFail
    <2>14. CASE Save(p)
      BY <2>14 DEF Save, NextRepo, Recorded
    <2>15. CASE SaveFails(p)
      BY <2>15 DEF SaveFails, NextRepo, MayFail, Recorded
    <2>16. CASE Release(p)
      BY <2>16 DEF Release, Lock!Drop
    <2>17. CASE Tick(p)
      BY <2>17 DEF Tick
    <2>18. CASE Exit(p)
      BY <2>18 DEF Exit, Ended
    <2>19. CASE Cancel(p)
      BY <2>19 DEF Cancel, MayFail
    <2>20. CASE Crash(p)
      BY <2>20 DEF Crash, MayFail, Ended
    <2> QED
      BY <1>1, <2>1, <2>2, <2>3, <2>4, <2>5, <2>6, <2>7, <2>8, <2>9, <2>10, <2>11, <2>12, <2>13, <2>14, <2>15, <2>16, <2>17, <2>18, <2>19, <2>20 DEF Work
  <1>2. ASSUME NEW r \in Repo, Push(r) PROVE (OneCycle /\ DryStops)'
    BY <1>2 DEF Push, Pushable, MayFail
  <1>3. CASE UNCHANGED vars
    BY <1>3 DEF vars
  <1> QED
    BY <1>1, <1>2, <1>3 DEF Next

LEMMA CycleInit == Init => CycleInv
  BY TypeInit DEF Init, CycleInv, OneCycle, DryStops, Cycle, Fetched, Deploying

LEMMA CycleInvariant == Spec => []CycleInv
  <1>1. CycleInv /\ [Next]_vars => CycleInv'
    BY TypeNext, CycleNext DEF CycleInv
  <1> QED
    BY CycleInit, <1>1, PTL DEF Spec

-----------------------------------------------------------------------------
(* What a cycle holds, while CI only pushes new artifacts.                 *)

LEMMA FreshNext ==
  ASSUME CycleInv, FreshInv, ~Rollback, [Next]_vars
  PROVE  FreshInv'
  <1>a. /\ Digest \subseteq Nat
        /\ \A r \in Repo : Name[r] \in Dir
    BY WatcherAssumption DEF Digest, Dir
  <1> USE <1>a DEF CycleInv, TypeOK, FreshInv, OrderAt, HostAt, Cycle, InRepo, Fetched, Deploying,
      Pulled, Goto
  <1>1. ASSUME NEW p \in Proc, Work(p) \/ Exit(p) \/ Cancel(p) \/ Crash(p) PROVE FreshInv'
    <2>a. pc[p] \in Cycle => \A q \in Proc \ {p} : pc[q] \notin Cycle
      BY DEF CycleInv, OneCycle
    <2> USE <2>a
    <2>1. CASE Start(p)
      BY <2>1 DEF Start
    <2>2. CASE Acquire(p)
      BY <2>2 DEF Acquire, Lock!Take
    <2>3. CASE Skip(p)
      BY <2>3 DEF Skip, MayFail
    <2>4. CASE Resolve(p)
      <3>0. at[p] \in Repo /\ tag[at[p]] \in Nat \ {0}
        BY <2>4 DEF Resolve, InLoop
      <3>1. OrderAt(p)' /\ HostAt(p)'
        <4>1. CASE NeedsDeploy(p, tag[at[p]])
          <5>1. pc'[p] = "fetch" /\ cur'[p] = tag[at[p]] /\ at' = at /\ tag' = tag
            BY <2>4, <4>1 DEF Resolve
          <5> HIDE <1>a, <2>a DEF CycleInv, FreshInv, TypeOK, Pulled
          <5> QED
            BY <5>1, <3>0
        <4>2. CASE ~NeedsDeploy(p, tag[at[p]])
          <5>1. pc'[p] = "loop"
            BY <2>4, <4>2 DEF Resolve, NextRepo
          <5> QED
            BY <5>1
        <4> QED
          BY <4>1, <4>2
      <3>2. ASSUME NEW q \in Proc \ {p} PROVE OrderAt(q)' /\ HostAt(q)'
        BY <2>4 DEF Resolve, NextRepo, InLoop
      <3> QED
        BY <3>1, <3>2 DEF FreshInv
    <2>5. CASE ResolveFails(p)
      BY <2>5 DEF ResolveFails, NextRepo, MayFail, InLoop
    <2>6. CASE Fetch(p)
      <3>0. at[p] \in Repo /\ tag[at[p]] \in Nat /\ cur[p] \in Nat
        BY <2>6 DEF Fetch
      <3>1. OrderAt(p)' /\ HostAt(p)'
        <4>1. CASE tag[at[p]] \in Invalid \/ IsDryRun(p)
          <5>1. pc'[p] = "loop"
            BY <2>6, <4>1 DEF Fetch, NextRepo
          <5> QED
            BY <5>1
        <4>2. CASE ~(tag[at[p]] \in Invalid \/ IsDryRun(p))
          <5>1. /\ pc'[p] = "pull" /\ ann'[p] = tag[at[p]]
                /\ cur' = cur /\ at' = at /\ tag' = tag
            BY <2>6, <4>2 DEF Fetch
          <5>2. 0 < cur[p] /\ cur[p] <= tag[at[p]]
            BY <2>6 DEF Fetch
          <5> HIDE <1>a, <2>a DEF CycleInv, FreshInv, TypeOK, Pulled
          <5> QED
            BY <5>1, <5>2, <3>0
        <4> QED
          BY <4>1, <4>2
      <3>2. ASSUME NEW q \in Proc \ {p} PROVE OrderAt(q)' /\ HostAt(q)'
        BY <2>6 DEF Fetch, NextRepo
      <3> QED
        BY <3>1, <3>2 DEF FreshInv
    <2>7. CASE FetchFails(p)
      BY <2>7 DEF FetchFails, NextRepo, MayFail
    <2>8. CASE Pull(p)
      <3>0. at[p] \in Repo /\ tag[at[p]] \in Nat
        BY <2>8 DEF Pull
      <3>1. OrderAt(p)' /\ HostAt(p)'
        <4>1. /\ pc'[p] = "deploy" /\ Pulled(p)' = [repo |-> at[p], digest |-> tag[at[p]]]
              /\ cur' = cur /\ ann' = ann /\ at' = at /\ tag' = tag
          BY <2>8, <3>0 DEF Pull
        <4>2. 0 < cur[p] /\ cur[p] <= tag[at[p]] /\ cur[p] <= ann[p] /\ ann[p] <= tag[at[p]]
          BY <2>8 DEF Pull
        <4>3. ann[p] \in Nat /\ cur[p] \in Nat
          OBVIOUS
        <4> HIDE <1>a, <2>a DEF CycleInv, FreshInv, TypeOK, Pulled
        <4> QED
          BY <4>1, <4>2, <4>3, <3>0
      <3>2. ASSUME NEW q \in Proc \ {p} PROVE OrderAt(q)' /\ HostAt(q)'
        BY <2>8 DEF Pull
      <3> QED
        BY <3>1, <3>2 DEF FreshInv
    <2>9. CASE PullFails(p)
      BY <2>9 DEF PullFails, NextRepo, MayFail
    <2>10. CASE Refuse(p)
      BY <2>10 DEF Refuse, NextRepo, MayFail
    <2>11. CASE Apply(p)
      BY <2>11 DEF Apply, Pulled, Applied
    <2>12. CASE Succeed(p)
      <3>1. OrderAt(p)' /\ HostAt(p)'
        <4>1. /\ pc'[p] = "save" /\ host'[at[p]] = Applied(host[at[p]].spec, host[at[p]].files, TRUE)
              /\ cur' = cur /\ ann' = ann /\ at' = at /\ tag' = tag /\ art' = art
          BY <2>12 DEF Succeed
        <4>2. host[at[p]] = Applied(ann[p], Pulled(p).digest, FALSE)
          BY <2>12 DEF Succeed
        <4> HIDE <1>a, <2>a DEF CycleInv, FreshInv, TypeOK, Pulled
        <4>3. host'[at[p]] = Applied(ann[p], Pulled(p).digest, TRUE)
          BY <4>1, <4>2 DEF Applied
        <4>4. Pulled(p)' = Pulled(p)
          BY <4>1 DEF Pulled
        <4>5. OrderAt(p) /\ pc[p] = "applying"
          BY <2>12 DEF Succeed, FreshInv
        <4> QED
          BY <4>1, <4>3, <4>4, <4>5
      <3>2. ASSUME NEW q \in Proc \ {p} PROVE OrderAt(q)' /\ HostAt(q)'
        BY <2>12 DEF Succeed
      <3> QED
        BY <3>1, <3>2 DEF FreshInv
    <2>13. CASE Fail(p)
      BY <2>13 DEF Fail, NextRepo, MayFail
    <2>14. CASE Save(p)
      BY <2>14 DEF Save, NextRepo, Recorded
    <2>15. CASE SaveFails(p)
      BY <2>15 DEF SaveFails, NextRepo, MayFail, Recorded
    <2>16. CASE Release(p)
      BY <2>16 DEF Release, Lock!Drop
    <2>17. CASE Tick(p)
      BY <2>17 DEF Tick
    <2>18. CASE Exit(p)
      BY <2>18 DEF Exit, Ended
    <2>19. CASE Cancel(p)
      BY <2>19 DEF Cancel, MayFail
    <2>20. CASE Crash(p)
      BY <2>20 DEF Crash, MayFail, Ended
    <2> QED
      BY <1>1, <2>1, <2>2, <2>3, <2>4, <2>5, <2>6, <2>7, <2>8, <2>9, <2>10, <2>11, <2>12, <2>13, <2>14, <2>15, <2>16, <2>17, <2>18, <2>19, <2>20 DEF Work
  <1>2. ASSUME NEW r \in Repo, Push(r) PROVE FreshInv'
    <2>1. tag' \in [Repo -> Digest] /\ \A x \in Repo : tag[x] <= tag'[x]
      <3>1. PICK d \in Digest : d = tag[r] + 1 /\ tag' = [tag EXCEPT ![r] = d]
        BY <1>2 DEF Push, Pushable
      <3>2. tag \in [Repo -> Digest]
        OBVIOUS
      <3> HIDE DEF CycleInv, FreshInv, TypeOK
      <3>3. tag' \in [Repo -> Digest] /\ \A x \in Repo : tag[x] \in Nat
        BY <3>1, <3>2
      <3>4. \A x \in Repo : tag'[x] = IF x = r THEN tag[r] + 1 ELSE tag[x]
        BY <3>1, <3>2
      <3> QED
        BY <3>3, <3>4
    <2> SUFFICES ASSUME NEW q \in Proc PROVE OrderAt(q)' /\ HostAt(q)'
      BY <1>2 DEF FreshInv
    <2>2. /\ pc' = pc /\ cur' = cur /\ ann' = ann /\ at' = at /\ art' = art /\ host' = host
          /\ OrderAt(q) /\ HostAt(q)
      BY <1>2 DEF Push
    <2>3. pc[q] \in InRepo => /\ at[q] \in Repo /\ tag[at[q]] <= tag'[at[q]]
                              /\ tag[at[q]] \in Nat /\ tag'[at[q]] \in Nat
      BY <2>1
    <2>4. cur[q] \in Nat /\ ann[q] \in Nat
      OBVIOUS
    <2>5. pc[q] \in InRepo => Pulled(q).digest \in Nat
      BY <2>3
    <2> HIDE DEF CycleInv, FreshInv, TypeOK, Pulled
    <2>6. Pulled(q)' = Pulled(q)
      BY <2>2 DEF Pulled
    <2>7. OrderAt(q)'
      BY <2>2, <2>3, <2>4, <2>5, <2>6
    <2>8. HostAt(q)'
      BY <2>2, <2>6
    <2> QED
      BY <2>7, <2>8
  <1>3. CASE UNCHANGED vars
    BY <1>3 DEF vars
  <1> QED
    BY <1>1, <1>2, <1>3 DEF Next

LEMMA FreshInit == Init => FreshInv
  BY DEF Init, FreshInv, OrderAt, HostAt, InRepo, Fetched, Deploying

LEMMA FreshInvariant ==
  ASSUME ~Rollback
  PROVE  Spec => []FreshInv
  <1>1. CycleInv /\ FreshInv /\ [Next]_vars => FreshInv'
    BY FreshNext
  <1> QED
    BY FreshInit, CycleInvariant, <1>1, PTL DEF Spec

\* A deploy reads what its own cycle pulled for its own repository, never
\* something older than the annotations it follows (Pull, deploy.Run).
THEOREM WatcherOwnPull ==
  ASSUME ~Rollback
  PROVE  Spec => []DeploysOwnPull
  <1>1. CycleInv /\ FreshInv => DeploysOwnPull
    <2> SUFFICES ASSUME CycleInv, FreshInv,
                        NEW p \in Proc, pc[p] \in {"deploy", "applying"}
                 PROVE  /\ Pulled(p).repo = at[p]
                        /\ Pulled(p).digest >= ann[p]
                        /\ ann[p] >= cur[p]
      BY DEF DeploysOwnPull
    <2>1. at[p] \in Repo /\ ann[p] \in Nat /\ cur[p] \in Nat /\ Pulled(p).digest \in Nat
      BY WatcherAssumption DEF CycleInv, TypeOK, Cycle, Pulled, Dir, Digest
    <2>2. OrderAt(p)
      BY DEF FreshInv
    <2> QED
      BY <2>1, <2>2 DEF OrderAt, Deploying, Fetched
  <1> QED
    BY <1>1, CycleInvariant, FreshInvariant, PTL

-----------------------------------------------------------------------------
(* What the state file vouches for, when one process deploys.              *)

OneDeployer == \A p, q \in Proc : ~IsDryRun(p) /\ ~IsDryRun(q) => p = q

\* A process that has pulled is the one that deploys.
LEMMA OnlyDeployer ==
  ASSUME OneDeployer, CycleInv, NEW p \in Proc, pc[p] \in Fetched, NEW q \in Proc \ {p}
  PROVE  IsDryRun(q)
  BY DEF OneDeployer, CycleInv, DryStops

\* A step that moves processes along and touches nothing they share.
Undisturbed ==
  /\ UNCHANGED <<tag, disk, mem, host>>
  /\ \A q \in Proc : /\ pc[q] = "off" => pc'[q] = "off"
                     /\ pc'[q] \in InRepo => /\ pc[q] \in InRepo
                                             /\ at'[q] = at[q]
                                             /\ cur'[q] = cur[q]

LEMMA StoreUndisturbed ==
  ASSUME StoreInv, Undisturbed
  PROVE  StoreInv'
  <1>1. NotAhead' /\ VouchedIsDeployed'
    BY DEF StoreInv, Undisturbed, NotAhead, VouchedIsDeployed
  <1>2. ASSUME NEW p \in Proc PROVE AheadOfFile(p)' /\ WorksOnNew(p)' /\ Vouches(p)'
    BY DEF StoreInv, Undisturbed, Remembers, AheadOfFile, WorksOnNew, Vouches
  <1> QED
    BY <1>1, <1>2 DEF StoreInv, Remembers

\* What Set is about to make of the file is sound.
RecordedWell(p) ==
  \A r \in Repo : /\ disk[r] <= Recorded(p)[r] /\ Recorded(p)[r] <= tag[r]
                  /\ Recorded(p)[r] \in Nat
                  /\ Recorded(p)[r] # 0 /\ Recorded(p)[r] = tag[r] => host[r] = Whole(tag[r])

LEMMA RecordedIsWell ==
  ASSUME CycleInv, FreshInv, StoreInv, NEW p \in Proc, pc[p] = "save"
  PROVE  RecordedWell(p)
  <1>1. ~IsDryRun(p) /\ at[p] \in Repo
    BY DEF CycleInv, TypeOK, DryStops, Cycle, Fetched, Deploying
  <1>2. /\ mem[p] \in [Repo -> Nat] /\ tag \in [Repo -> Nat] /\ disk \in [Repo -> Nat]
        /\ cur[p] \in Nat /\ ann[p] \in Nat /\ Pulled(p).digest \in Nat
    BY <1>1, WatcherAssumption DEF CycleInv, TypeOK, Digest, Pulled, Dir
  <1>3. /\ OrderAt(p) /\ host[at[p]] = Applied(ann[p], Pulled(p).digest, TRUE)
        /\ AheadOfFile(p) /\ WorksOnNew(p) /\ Vouches(p) /\ NotAhead
    BY DEF FreshInv, StoreInv, Remembers, HostAt
  <1> SUFFICES ASSUME NEW r \in Repo
               PROVE  /\ disk[r] <= Recorded(p)[r] /\ Recorded(p)[r] <= tag[r]
                      /\ Recorded(p)[r] \in Nat
                      /\ Recorded(p)[r] # 0 /\ Recorded(p)[r] = tag[r] => host[r] = Whole(tag[r])
    BY DEF RecordedWell
  <1>4. CASE r = at[p]
    <2>1. Recorded(p)[r] = cur[p]
      BY <1>1, <1>2, <1>4 DEF Recorded
    <2>2. /\ cur[p] <= tag[r] /\ cur[p] <= ann[p] /\ ann[p] <= tag[r]
          /\ ann[p] <= Pulled(p).digest /\ Pulled(p).digest <= tag[r]
      BY <1>3, <1>4 DEF OrderAt, InRepo, Fetched, Deploying
    <2>3. disk[r] <= mem[p][r] /\ mem[p][r] < cur[p]
      BY <1>1, <1>3, <1>4 DEF AheadOfFile, WorksOnNew, InRepo, Fetched, Deploying
    <2>4. disk[r] <= cur[p]
      BY <2>3, <1>2
    <2>5. CASE cur[p] = tag[r]
      <3>1. ann[p] = tag[r] /\ Pulled(p).digest = tag[r]
        BY <2>2, <2>5, <1>2
      <3>2. host[r] = Applied(tag[r], tag[r], TRUE)
        BY <3>1, <1>3, <1>4
      <3> QED
        BY <2>1, <2>2, <2>4, <3>2, <1>2 DEF Whole
    <2>6. CASE cur[p] # tag[r]
      BY <2>1, <2>2, <2>4, <2>6, <1>2
    <2> QED
      BY <2>5, <2>6
  <1>5. CASE r # at[p]
    <2>1. Recorded(p)[r] = mem[p][r]
      BY <1>2, <1>5 DEF Recorded
    <2> QED
      BY <2>1, <1>1, <1>2, <1>3 DEF AheadOfFile, Vouches, NotAhead
  <1> QED
    BY <1>4, <1>5

LEMMA StoreNext ==
  ASSUME OneDeployer, ~Rollback, CycleInv, FreshInv, StoreInv, [Next]_vars
  PROVE  StoreInv'
  <1>a. /\ pc \in [Proc -> Cycle \union {"off", "ready", "rest"}] /\ at \in [Proc -> Place]
        /\ cur \in [Proc -> Digest] /\ ann \in [Proc -> Digest]
        /\ mem \in [Proc -> [Repo -> Digest]] /\ tag \in [Repo -> Digest]
        /\ host \in [Repo -> [spec : Digest, files : Digest, whole : BOOLEAN]]
        /\ \A p \in Proc : pc[p] \in Cycle \ {"loop"} => at[p] \in Repo
        /\ Cycle = {"loop", "fetch", "pull", "deploy", "applying", "save"}
    BY DEF CycleInv, TypeOK, Cycle
  <1>b. /\ \A r \in Repo : tag[r] \in Nat /\ disk[r] \in Nat
        /\ \A p \in Proc : cur[p] \in Nat /\ \A r \in Repo : mem[p][r] \in Nat
    BY WatcherAssumption DEF CycleInv, TypeOK, Digest
  <1>c. /\ NotAhead /\ VouchedIsDeployed
        /\ \A p \in Proc : AheadOfFile(p) /\ WorksOnNew(p) /\ Vouches(p)
    BY DEF StoreInv, Remembers
  <1>d. \A p \in Proc : OrderAt(p)
    BY DEF FreshInv
  <1>e. \A p \in Proc : pc[p] \in Fetched => ~IsDryRun(p)
    BY DEF CycleInv, DryStops
  <1> USE <1>c DEF StoreInv
  <1>1. ASSUME NEW p \in Proc, Work(p) \/ Exit(p) \/ Cancel(p) \/ Crash(p) PROVE StoreInv'
    <2>1. CASE Start(p)
      <3>1. /\ mem' = [mem EXCEPT ![p] = disk] /\ pc' = [pc EXCEPT ![p] = "ready"]
            /\ UNCHANGED <<tag, disk, host, at, cur>>
        BY <2>1 DEF Start, Goto
      <3>2. mem'[p] = disk /\ \A q \in Proc \ {p} : mem'[q] = mem[q] /\ pc'[q] = pc[q]
        BY <3>1, <1>a
      <3>3. pc'[p] = "ready"
        BY <3>1, <1>a
      <3>4. NotAhead'
        BY <3>1, <3>2 DEF NotAhead
      <3>5. AheadOfFile(p)' /\ WorksOnNew(p)' /\ Vouches(p)'
        BY <3>1, <3>2, <3>3, <1>b DEF AheadOfFile, WorksOnNew, Vouches, VouchedIsDeployed,
           InRepo, Fetched, Deploying
      <3>6. ASSUME NEW q \in Proc \ {p}
            PROVE  AheadOfFile(q)' /\ WorksOnNew(q)' /\ Vouches(q)'
        BY <3>1, <3>2, <1>c DEF AheadOfFile, WorksOnNew, Vouches
      <3>7. VouchedIsDeployed'
        BY <3>1 DEF VouchedIsDeployed
      <3> QED
        BY <3>4, <3>5, <3>6, <3>7 DEF Remembers
    <2>2. CASE Acquire(p)
      BY <2>2, <1>a, StoreUndisturbed DEF Acquire, Lock!Take, Goto, Undisturbed, InRepo, Fetched, Deploying
    <2>3. CASE Skip(p)
      BY <2>3, <1>a, StoreUndisturbed DEF Skip, MayFail, Goto, Undisturbed, InRepo, Fetched, Deploying
    <2>4. CASE Resolve(p)
      <3>1. at[p] \in Repo /\ tag[at[p]] \in Nat /\ mem[p][at[p]] \in Nat
        BY <2>4, <1>a, <1>b DEF Resolve, InLoop
      <3>2. CASE NeedsDeploy(p, tag[at[p]])
        <4>1. /\ pc'[p] = "fetch" /\ cur'[p] = tag[at[p]]
              /\ UNCHANGED <<tag, disk, mem, host, at>>
              /\ \A q \in Proc \ {p} : pc'[q] = pc[q] /\ cur'[q] = cur[q]
          BY <2>4, <3>2, <1>a DEF Resolve, Goto
        <4>2. mem[p][at[p]] < tag[at[p]]
          BY <3>1, <3>2 DEF NeedsDeploy, NotAhead
        <4>3. pc[p] = "loop"
          BY <2>4 DEF Resolve, InLoop
        <4>4. NotAhead' /\ VouchedIsDeployed'
          BY <4>1 DEF NotAhead, VouchedIsDeployed
        <4>5. WorksOnNew(p)'
          BY <4>1, <4>2 DEF WorksOnNew
        <4>6. AheadOfFile(p)' /\ Vouches(p)'
          BY <4>1, <4>3, <1>c DEF AheadOfFile, Vouches
        <4>7. ASSUME NEW q \in Proc \ {p}
              PROVE  AheadOfFile(q)' /\ WorksOnNew(q)' /\ Vouches(q)'
          BY <4>1, <1>c DEF AheadOfFile, WorksOnNew, Vouches
        <4> QED
          BY <4>4, <4>5, <4>6, <4>7 DEF Remembers
      <3>3. CASE ~NeedsDeploy(p, tag[at[p]])
        <4>1. /\ UNCHANGED <<tag, disk, mem, host>>
              /\ NextRepo(p) /\ pc[p] = "loop"
          BY <2>4, <3>3 DEF Resolve, InLoop
        <4>2. Undisturbed
          BY <4>1, <1>a DEF Undisturbed, NextRepo, Goto, InRepo, Fetched, Deploying
        <4> QED
          BY <4>1, <4>2, StoreUndisturbed
      <3> QED
        BY <3>2, <3>3
    <2>5. CASE ResolveFails(p)
      BY <2>5, <1>a, StoreUndisturbed DEF ResolveFails, NextRepo, MayFail, InLoop, Goto, Undisturbed, InRepo, Fetched, Deploying
    <2>6. CASE Fetch(p)
      BY <2>6, <1>a, StoreUndisturbed DEF Fetch, NextRepo, Goto, Undisturbed, InRepo, Fetched, Deploying
    <2>7. CASE FetchFails(p)
      BY <2>7, <1>a, StoreUndisturbed DEF FetchFails, NextRepo, MayFail, Goto, Undisturbed, InRepo, Fetched, Deploying
    <2>8. CASE Pull(p)
      BY <2>8, <1>a, StoreUndisturbed DEF Pull, Goto, Undisturbed, InRepo, Fetched, Deploying
    <2>9. CASE PullFails(p)
      BY <2>9, <1>a, StoreUndisturbed DEF PullFails, NextRepo, MayFail, Goto, Undisturbed, InRepo, Fetched, Deploying
    <2>10. CASE Refuse(p)
      BY <2>10, <1>a, StoreUndisturbed DEF Refuse, NextRepo, MayFail, Goto, Undisturbed, InRepo, Fetched, Deploying
    <2>11. CASE Apply(p)
      <3>0. at[p] \in Repo /\ pc[p] \in Deploying /\ pc[p] \in Fetched /\ pc[p] \in InRepo
        BY <2>11, <1>a DEF Apply, Deploying, Fetched, InRepo
      <3>1. /\ pc'[p] \in Deploying /\ UNCHANGED <<tag, disk, mem, at, cur>>
            /\ \A r \in Repo \ {at[p]} : host'[r] = host[r]
            /\ \A q \in Proc \ {p} : pc'[q] = pc[q]
        BY <2>11, <1>a DEF Apply, Goto, Deploying
      <3>2. host'[at[p]].files <= tag[at[p]]
        <4>1. host'[at[p]].files = Pulled(p).digest
          BY <2>11, <1>a, <3>0 DEF Apply, Applied
        <4> QED
          BY <4>1, <1>d, <3>0 DEF OrderAt
      <3>3. mem[p][at[p]] < tag[at[p]] /\ disk[at[p]] < tag[at[p]]
        <4>1. mem[p][at[p]] < cur[p] /\ cur[p] <= tag[at[p]]
          BY <3>0, <1>c, <1>d DEF WorksOnNew, OrderAt
        <4>2. disk[at[p]] <= mem[p][at[p]]
          BY <3>0, <1>c, <1>e DEF AheadOfFile, Fetched, Deploying
        <4> QED
          BY <4>1, <4>2, <3>0, <1>b
      <3>4. NotAhead'
        BY <3>1, <3>2 DEF NotAhead
      <3>5. AheadOfFile(p)' /\ WorksOnNew(p)' /\ Vouches(p)'
        BY <3>0, <3>1, <3>3, <1>b, <1>c DEF AheadOfFile, WorksOnNew, Vouches, Deploying
      <3>6. ASSUME NEW q \in Proc \ {p}
            PROVE  AheadOfFile(q)' /\ WorksOnNew(q)' /\ Vouches(q)'
        <4>1. IsDryRun(q)
          BY <3>0, OnlyDeployer
        <4> QED
          BY <4>1, <3>1, <1>c DEF AheadOfFile, WorksOnNew, Vouches, IsDryRun
      <3>7. VouchedIsDeployed'
        BY <3>1, <3>3, <1>b DEF VouchedIsDeployed
      <3> QED
        BY <3>4, <3>5, <3>6, <3>7 DEF Remembers
    <2>12. CASE Succeed(p)
      <3>0. at[p] \in Repo /\ pc[p] \in Deploying /\ pc[p] \in Fetched /\ pc[p] \in InRepo
        BY <2>12, <1>a DEF Succeed, Deploying, Fetched, InRepo
      <3>1. /\ pc'[p] \in Deploying /\ UNCHANGED <<tag, disk, mem, at, cur>>
            /\ \A r \in Repo \ {at[p]} : host'[r] = host[r]
            /\ \A q \in Proc \ {p} : pc'[q] = pc[q]
        BY <2>12, <1>a DEF Succeed, Goto, Deploying
      <3>2. host'[at[p]].files <= tag[at[p]]
        <4>1. host'[at[p]].files = host[at[p]].files
          BY <2>12, <1>a, <3>0 DEF Succeed, Applied
        <4> QED
          BY <4>1, <3>0 DEF NotAhead
      <3>3. mem[p][at[p]] < tag[at[p]] /\ disk[at[p]] < tag[at[p]]
        <4>1. mem[p][at[p]] < cur[p] /\ cur[p] <= tag[at[p]]
          BY <3>0, <1>c, <1>d DEF WorksOnNew, OrderAt
        <4>2. disk[at[p]] <= mem[p][at[p]]
          BY <3>0, <1>c, <1>e DEF AheadOfFile, Fetched, Deploying
        <4> QED
          BY <4>1, <4>2, <3>0, <1>b
      <3>4. NotAhead'
        BY <3>1, <3>2 DEF NotAhead
      <3>5. AheadOfFile(p)' /\ WorksOnNew(p)' /\ Vouches(p)'
        BY <3>0, <3>1, <3>3, <1>b, <1>c DEF AheadOfFile, WorksOnNew, Vouches, Deploying
      <3>6. ASSUME NEW q \in Proc \ {p}
            PROVE  AheadOfFile(q)' /\ WorksOnNew(q)' /\ Vouches(q)'
        <4>1. IsDryRun(q)
          BY <3>0, OnlyDeployer
        <4> QED
          BY <4>1, <3>1, <1>c DEF AheadOfFile, WorksOnNew, Vouches, IsDryRun
      <3>7. VouchedIsDeployed'
        BY <3>1, <3>3, <1>b DEF VouchedIsDeployed
      <3> QED
        BY <3>4, <3>5, <3>6, <3>7 DEF Remembers
    <2>13. CASE Fail(p)
      BY <2>13, <1>a, StoreUndisturbed DEF Fail, NextRepo, MayFail, Goto, Undisturbed, InRepo, Fetched, Deploying
    <2>14. CASE Save(p)
      <3>1. /\ pc[p] = "save" /\ pc'[p] = "loop" /\ UNCHANGED <<tag, host>>
            /\ mem'[p] = Recorded(p) /\ disk' = Recorded(p)
            /\ \A q \in Proc \ {p} : /\ mem'[q] = mem[q] /\ pc'[q] = pc[q]
                                     /\ cur'[q] = cur[q] /\ at'[q] = at[q]
        BY <2>14, <1>a DEF Save, NextRepo, Goto
      <3>2. RecordedWell(p)
        BY <3>1, RecordedIsWell
      <3>3. NotAhead'
        BY <3>1, <3>2, <1>b DEF NotAhead, RecordedWell
      <3>4. AheadOfFile(p)' /\ WorksOnNew(p)' /\ Vouches(p)'
        BY <3>1, <3>2 DEF AheadOfFile, WorksOnNew, Vouches, RecordedWell, InRepo, Fetched, Deploying
      <3>5. ASSUME NEW q \in Proc \ {p}
            PROVE  AheadOfFile(q)' /\ WorksOnNew(q)' /\ Vouches(q)'
        <4>1. IsDryRun(q)
          BY <3>1, OnlyDeployer DEF Fetched, Deploying
        <4> QED
          BY <4>1, <3>1, <1>c DEF AheadOfFile, WorksOnNew, Vouches, IsDryRun
      <3>6. VouchedIsDeployed'
        BY <3>1, <3>2 DEF VouchedIsDeployed, RecordedWell
      <3> QED
        BY <3>3, <3>4, <3>5, <3>6 DEF Remembers
    <2>15. CASE SaveFails(p)
      <3>1. /\ pc[p] = "save" /\ pc'[p] = "loop" /\ UNCHANGED <<tag, host, disk>>
            /\ mem'[p] = Recorded(p)
            /\ \A q \in Proc \ {p} : /\ mem'[q] = mem[q] /\ pc'[q] = pc[q]
                                     /\ cur'[q] = cur[q] /\ at'[q] = at[q]
        BY <2>15, <1>a DEF SaveFails, NextRepo, Goto
      <3>2. RecordedWell(p)
        BY <3>1, RecordedIsWell
      <3>3. NotAhead'
        BY <3>1, <3>2, <1>b DEF NotAhead, RecordedWell
      <3>4. AheadOfFile(p)' /\ WorksOnNew(p)' /\ Vouches(p)'
        BY <3>1, <3>2 DEF AheadOfFile, WorksOnNew, Vouches, RecordedWell, InRepo, Fetched, Deploying
      <3>5. ASSUME NEW q \in Proc \ {p}
            PROVE  AheadOfFile(q)' /\ WorksOnNew(q)' /\ Vouches(q)'
        BY <3>1, <1>c DEF AheadOfFile, WorksOnNew, Vouches
      <3>6. VouchedIsDeployed'
        BY <3>1 DEF VouchedIsDeployed
      <3> QED
        BY <3>3, <3>4, <3>5, <3>6 DEF Remembers
    <2>16. CASE Release(p)
      BY <2>16, <1>a, StoreUndisturbed DEF Release, Lock!Drop, Goto, Undisturbed, InRepo, Fetched, Deploying
    <2>17. CASE Tick(p)
      BY <2>17, <1>a, StoreUndisturbed DEF Tick, Goto, Undisturbed, InRepo, Fetched, Deploying
    <2>18. CASE Exit(p)
      <3>1. /\ pc'[p] = "off" /\ mem'[p] = [r \in Repo |-> 0]
            /\ UNCHANGED <<tag, disk, host>>
            /\ \A q \in Proc \ {p} : /\ mem'[q] = mem[q] /\ pc'[q] = pc[q]
                                     /\ cur'[q] = cur[q] /\ at'[q] = at[q]
        BY <2>18, <1>a DEF Exit, Ended, Goto
      <3>2. NotAhead'
        BY <3>1, <1>b DEF NotAhead
      <3>3. AheadOfFile(p)' /\ WorksOnNew(p)' /\ Vouches(p)'
        BY <3>1 DEF AheadOfFile, WorksOnNew, Vouches, InRepo, Fetched, Deploying
      <3>4. ASSUME NEW q \in Proc \ {p}
            PROVE  AheadOfFile(q)' /\ WorksOnNew(q)' /\ Vouches(q)'
        BY <3>1, <1>c DEF AheadOfFile, WorksOnNew, Vouches
      <3>5. VouchedIsDeployed'
        BY <3>1 DEF VouchedIsDeployed
      <3> QED
        BY <3>2, <3>3, <3>4, <3>5 DEF Remembers
    <2>19. CASE Cancel(p)
      BY <2>19, <1>a, StoreUndisturbed DEF Cancel, MayFail, Goto, Undisturbed, InRepo, Fetched, Deploying
    <2>20. CASE Crash(p)
      <3>1. /\ pc'[p] = "off" /\ mem'[p] = [r \in Repo |-> 0]
            /\ UNCHANGED <<tag, disk, host>>
            /\ \A q \in Proc \ {p} : /\ mem'[q] = mem[q] /\ pc'[q] = pc[q]
                                     /\ cur'[q] = cur[q] /\ at'[q] = at[q]
        BY <2>20, <1>a DEF Crash, Ended, Goto
      <3>2. NotAhead'
        BY <3>1, <1>b DEF NotAhead
      <3>3. AheadOfFile(p)' /\ WorksOnNew(p)' /\ Vouches(p)'
        BY <3>1 DEF AheadOfFile, WorksOnNew, Vouches, InRepo, Fetched, Deploying
      <3>4. ASSUME NEW q \in Proc \ {p}
            PROVE  AheadOfFile(q)' /\ WorksOnNew(q)' /\ Vouches(q)'
        BY <3>1, <1>c DEF AheadOfFile, WorksOnNew, Vouches
      <3>5. VouchedIsDeployed'
        BY <3>1 DEF VouchedIsDeployed
      <3> QED
        BY <3>2, <3>3, <3>4, <3>5 DEF Remembers
    <2> QED
      BY <1>1, <2>1, <2>2, <2>3, <2>4, <2>5, <2>6, <2>7, <2>8, <2>9, <2>10, <2>11, <2>12, <2>13, <2>14, <2>15, <2>16, <2>17, <2>18, <2>19, <2>20 DEF Work
  <1>2. ASSUME NEW r \in Repo, Push(r) PROVE StoreInv'
    <2>1. PICK d \in Digest : d = tag[r] + 1 /\ tag' = [tag EXCEPT ![r] = d]
      BY <1>2 DEF Push, Pushable
    <2>2. tag'[r] = tag[r] + 1 /\ \A x \in Repo \ {r} : tag'[x] = tag[x]
      BY <2>1, <1>a
    <2>3. UNCHANGED <<disk, mem, pc, at, cur, host>>
      BY <1>2 DEF Push
    <2>4. \A x \in Repo : host[x].files \in Nat
      BY <1>a, WatcherAssumption DEF Digest
    <2>5. NotAhead'
      BY <2>2, <2>3, <2>4, <1>b DEF NotAhead
    <2>6. VouchedIsDeployed'
      BY <2>2, <2>3, <1>b DEF VouchedIsDeployed, NotAhead
    <2>7. ASSUME NEW q \in Proc PROVE AheadOfFile(q)' /\ WorksOnNew(q)' /\ Vouches(q)'
      BY <2>2, <2>3, <1>b DEF AheadOfFile, WorksOnNew, Vouches, NotAhead
    <2> QED
      BY <2>5, <2>6, <2>7 DEF Remembers
  <1>3. CASE UNCHANGED vars
    BY <1>3, StoreUndisturbed DEF vars, Undisturbed
  <1> QED
    BY <1>1, <1>2, <1>3 DEF Next

LEMMA StoreInit == Init => StoreInv
  BY DEF Init, StoreInv, NotAhead, Remembers, AheadOfFile, WorksOnNew, Vouches,
     VouchedIsDeployed, Applied, InRepo, Fetched, Deploying

LEMMA StoreInvariant ==
  ASSUME OneDeployer, ~Rollback
  PROVE  Spec => []StoreInv
  <1>1. CycleInv /\ FreshInv /\ StoreInv /\ [Next]_vars => StoreInv'
    BY StoreNext
  <1> QED
    BY StoreInit, CycleInvariant, FreshInvariant, <1>1, PTL DEF Spec

\* If one process deploys and CI only pushes new artifacts, a recorded digest
\* that is the tag's says that exactly that artifact is on the host, whole.
THEOREM WatcherVouches ==
  ASSUME OneDeployer, ~Rollback
  PROVE  Spec => []VouchedIsDeployed
  BY StoreInvariant, PTL DEF StoreInv

\* Under the same assumptions no digest the state file records is deployed
\* again, whatever fails and whenever the process is restarted.
THEOREM WatcherNoRedeploy ==
  ASSUME OneDeployer, ~Rollback
  PROVE  Spec => []RecordedIsNotRedeployed
  <1>1. CycleInv /\ StoreInv => RecordedIsNotRedeployed
    <2> SUFFICES ASSUME CycleInv, StoreInv, NEW p \in Proc, pc[p] = "applying"
                 PROVE  disk[at[p]] # cur[p]
      BY DEF RecordedIsNotRedeployed
    <2>1. ~IsDryRun(p) /\ at[p] \in Repo
      BY DEF CycleInv, TypeOK, DryStops, Cycle, Fetched, Deploying
    <2>2. disk[at[p]] \in Nat /\ mem[p][at[p]] \in Nat /\ cur[p] \in Nat
      BY <2>1, WatcherAssumption DEF CycleInv, TypeOK, Digest
    <2>3. disk[at[p]] <= mem[p][at[p]] /\ mem[p][at[p]] < cur[p]
      BY <2>1 DEF StoreInv, Remembers, AheadOfFile, WorksOnNew, InRepo, Fetched, Deploying
    <2> QED
      BY <2>2, <2>3
  <1> QED
    BY <1>1, CycleInvariant, StoreInvariant, PTL

-----------------------------------------------------------------------------
(* What a single step may do to the shared state.                          *)

Shared == <<disk, art, host>>

\* A step is taken by one process, or by CI, and the others stay where they
\* are; the state they share is changed by one that has an artifact to deploy.
LEMMA OneActs ==
  ASSUME CycleInv, Next
  PROVE  \/ UNCHANGED <<pc, at, disk, art, host>>
         \/ \E p \in Proc : /\ \A q \in Proc \ {p} : pc'[q] = pc[q] /\ at'[q] = at[q]
                            /\ UNCHANGED Shared \/ pc[p] \in Fetched
  <1>a. pc \in [Proc -> Cycle \union {"off", "ready", "rest"}] /\ at \in [Proc -> Place]
    BY DEF CycleInv, TypeOK
  <1>1. ASSUME NEW r \in Repo, Push(r) PROVE UNCHANGED <<pc, at, disk, art, host>>
    BY <1>1 DEF Push
  <1>2. ASSUME NEW p \in Proc, Work(p) \/ Exit(p) \/ Cancel(p) \/ Crash(p)
        PROVE  /\ \A q \in Proc \ {p} : pc'[q] = pc[q] /\ at'[q] = at[q]
               /\ UNCHANGED Shared \/ pc[p] \in Fetched
    <2> USE <1>a DEF Goto, Shared, NextRepo
    <2>1. CASE Start(p) \/ Acquire(p) \/ Skip(p) \/ Release(p) \/ Tick(p)
      BY <2>1 DEF Start, Acquire, Skip, Release, Tick
    <2>2. CASE Resolve(p)
      BY <2>2 DEF Resolve
    <2>3. CASE Fetch(p)
      BY <2>3 DEF Fetch
    <2>4. CASE ResolveFails(p) \/ FetchFails(p) \/ Refuse(p)
      BY <2>4 DEF ResolveFails, FetchFails, Refuse
    <2>5. CASE Pull(p) \/ PullFails(p)
      BY <2>5 DEF Pull, PullFails, Fetched
    <2>6. CASE Apply(p) \/ Succeed(p) \/ Fail(p)
      BY <2>6 DEF Apply, Succeed, Fail, Fetched, Deploying
    <2>7. CASE Save(p) \/ SaveFails(p)
      BY <2>7 DEF Save, SaveFails, Fetched, Deploying
    <2>8. CASE Exit(p) \/ Cancel(p) \/ Crash(p)
      BY <2>8 DEF Exit, Cancel, Crash, Ended
    <2> QED
      BY <1>2, <2>1, <2>2, <2>3, <2>4, <2>5, <2>6, <2>7, <2>8 DEF Work
  <1> QED
    BY <1>1, <1>2 DEF Next

\* Whatever else runs, no step of `orascout check' changes a target, the
\* state file or an artifact directory (the dry-run return of cycleOne).
THEOREM WatcherCheck == Spec => CheckChangesNothing
  <1>1. ASSUME CycleInv, [Next]_vars
        PROVE  [\A p \in Proc : Mode[p] = "check" /\ pc'[p] # pc[p]
                                 => UNCHANGED <<disk, art, host>>]_vars
    <2> SUFFICES ASSUME Next, NEW p \in Proc, IsDryRun(p), pc'[p] # pc[p]
                 PROVE  UNCHANGED Shared
      BY <1>1 DEF Shared, IsDryRun
    <2>1. pc[p] \notin Fetched
      BY <1>1 DEF CycleInv, DryStops
    <2> QED
      BY <1>1, <2>1, OneActs DEF Shared
  <1> QED
    BY <1>1, CycleInvariant, PTL DEF Spec, CheckChangesNothing

-----------------------------------------------------------------------------
(* Neither record nor target goes back.                                    *)

\* What was pulled is no older than what is on the target it is meant for.
PulledIsNews ==
  \A p \in Proc : pc[p] = "deploy" => host[at[p]].files <= Pulled(p).digest

\* A process that is about to deploy got there by Pull, or was there before,
\* and then nothing it needs has changed: nobody else is in a cycle.
LEMMA ReadyToDeploy ==
  ASSUME CycleInv, Next, NEW p \in Proc, pc'[p] = "deploy"
  PROVE  \/ Pull(p)
         \/ pc[p] = "deploy" /\ at'[p] = at[p] /\ UNCHANGED <<art, host>>
  <1>a. pc \in [Proc -> Cycle \union {"off", "ready", "rest"}] /\ at \in [Proc -> Place]
    BY DEF CycleInv, TypeOK
  <1>1. CASE pc[p] = "deploy"
    <2>1. \A q \in Proc \ {p} : pc[q] \notin Fetched
      BY <1>1 DEF CycleInv, OneCycle, Cycle, Fetched, Deploying
    <2>2. CASE UNCHANGED <<pc, at, disk, art, host>>
      BY <1>1, <2>2
    <2>3. ASSUME NEW q \in Proc \ {p},
                 \A x \in Proc \ {q} : pc'[x] = pc[x] /\ at'[x] = at[x],
                 UNCHANGED Shared \/ pc[q] \in Fetched
          PROVE  at'[p] = at[p] /\ UNCHANGED <<art, host>>
      BY <2>1, <2>3 DEF Shared
    <2>4. ASSUME \A x \in Proc \ {p} : pc'[x] = pc[x] /\ at'[x] = at[x]
          PROVE  at'[p] = at[p] /\ UNCHANGED <<art, host>>
      <3>1. ASSUME NEW r \in Repo, Push(r) PROVE at'[p] = at[p] /\ UNCHANGED <<art, host>>
        BY <3>1 DEF Push
      <3>2. CASE Cancel(p)
        BY <3>2 DEF Cancel
      <3>3. ASSUME Work(p) \/ Exit(p) \/ Crash(p) PROVE FALSE
        BY <3>3, <1>a, <1>1 DEF Work, Start, Acquire, Skip, Resolve, ResolveFails, Fetch,
           FetchFails, Pull, PullFails, Refuse, Apply, Succeed, Fail, Save, SaveFails,
           Release, Tick, Exit, Crash, Ended, Goto, NextRepo, InLoop
      <3>4. ASSUME NEW q \in Proc \ {p}, Work(q) \/ Exit(q) \/ Cancel(q) \/ Crash(q)
            PROVE  at'[p] = at[p] /\ UNCHANGED <<art, host>>
        <4> USE <2>1, <1>a DEF Fetched, Deploying
        <4>1. pc[q] \notin Cycle
          BY <1>1 DEF CycleInv, OneCycle, Cycle
        <4>2. ~(\/ Resolve(q) \/ ResolveFails(q) \/ Fetch(q) \/ FetchFails(q) \/ Pull(q)
                \/ PullFails(q) \/ Refuse(q) \/ Apply(q) \/ Succeed(q) \/ Fail(q)
                \/ Save(q) \/ SaveFails(q) \/ Release(q))
          BY <4>1 DEF Resolve, ResolveFails, Fetch, FetchFails, Pull, PullFails, Refuse,
             Apply, Succeed, Fail, Save, SaveFails, Release, InLoop, Cycle
        <4> QED
          BY <3>4, <4>2 DEF Work, Start, Acquire, Skip, Tick, Exit, Cancel, Crash, Ended
      <3> QED
        BY <3>1, <3>2, <3>3, <3>4 DEF Next
    <2> QED
      BY <1>1, <2>2, <2>3, <2>4, OneActs
  <1>2. CASE pc[p] # "deploy"
    <2>1. ASSUME NEW r \in Repo, Push(r) PROVE FALSE
      BY <2>1, <1>2 DEF Push
    <2>2. ASSUME NEW q \in Proc \ {p}, Work(q) \/ Exit(q) \/ Cancel(q) \/ Crash(q) PROVE FALSE
      BY <2>2, <1>a, <1>2 DEF Work, Start, Acquire, Skip, Resolve, ResolveFails, Fetch,
         FetchFails, Pull, PullFails, Refuse, Apply, Succeed, Fail, Save, SaveFails,
         Release, Tick, Exit, Cancel, Crash, Ended, Goto, NextRepo
    <2>3. ASSUME Work(p) \/ Exit(p) \/ Cancel(p) \/ Crash(p) PROVE Pull(p)
      BY <2>3, <1>a, <1>2 DEF Work, Start, Acquire, Skip, Resolve, ResolveFails, Fetch,
         FetchFails, PullFails, Refuse, Apply, Succeed, Fail, Save, SaveFails,
         Release, Tick, Exit, Cancel, Crash, Ended, Goto, NextRepo
    <2> QED
      BY <2>1, <2>2, <2>3 DEF Next
  <1> QED
    BY <1>1, <1>2

LEMMA PulledIsNewsInvariant ==
  ASSUME OneDeployer, ~Rollback
  PROVE  Spec => []PulledIsNews
  <1>1. Init => PulledIsNews
    BY DEF Init, PulledIsNews
  <1>2. ASSUME CycleInv, StoreInv, PulledIsNews, [Next]_vars PROVE PulledIsNews'
    <2>1. CASE UNCHANGED vars
      BY <1>2, <2>1 DEF vars, PulledIsNews, Pulled
    <2>2. CASE Next
      <3> SUFFICES ASSUME NEW p \in Proc, pc'[p] = "deploy"
                   PROVE  host'[at'[p]].files <= Pulled(p)'.digest
        BY DEF PulledIsNews
      <3>1. CASE pc[p] = "deploy" /\ at'[p] = at[p] /\ UNCHANGED <<art, host>>
        BY <1>2, <3>1 DEF PulledIsNews, Pulled
      <3>2. CASE Pull(p)
        <4>1. at[p] \in Repo /\ Name[at[p]] \in Dir /\ art \in [Dir -> [repo : Repo \union {0}, digest : Digest]]
          BY <1>2, <3>2 DEF Pull, CycleInv, TypeOK, Cycle, Dir
        <4>2. Pulled(p)'.digest = tag[at[p]] /\ at' = at /\ host' = host
          BY <3>2, <4>1 DEF Pull, Pulled
        <4> QED
          BY <1>2, <4>1, <4>2 DEF StoreInv, NotAhead
      <3> QED
        BY <1>2, <2>2, <3>1, <3>2, ReadyToDeploy
    <2> QED
      BY <1>2, <2>1, <2>2
  <1> QED
    BY <1>1, <1>2, CycleInvariant, StoreInvariant, PTL DEF Spec

\* If one process deploys and CI only pushes new artifacts, neither the record
\* nor the target of a repository ever goes back to an earlier artifact.
THEOREM WatcherNeverGoesBack ==
  ASSUME OneDeployer, ~Rollback
  PROVE  Spec => NeverGoesBack
  <1>1. ASSUME CycleInv, FreshInv, StoreInv, PulledIsNews, [Next]_vars
        PROVE  [\A r \in Repo : disk'[r] >= disk[r] /\ host'[r].files >= host[r].files]_vars
    <2>a. /\ disk \in [Repo -> Nat]
          /\ host \in [Repo -> [spec : Digest, files : Nat, whole : BOOLEAN]]
          /\ \A p \in Proc : pc[p] \in Cycle \ {"loop"} => at[p] \in Repo
      BY <1>1, WatcherAssumption DEF CycleInv, TypeOK, Digest
    <2> SUFFICES ASSUME Next, NEW r \in Repo
                 PROVE  disk'[r] >= disk[r] /\ host'[r].files >= host[r].files
      BY <1>1
    <2>b. disk[r] >= disk[r] /\ host[r].files >= host[r].files
      BY <2>a
    <2>1. CASE UNCHANGED <<disk, host>>
      BY <2>b, <2>1
    <2>2. ASSUME NEW p \in Proc, Save(p) PROVE disk'[r] >= disk[r] /\ host' = host
      <3>1. RecordedWell(p) /\ disk' = Recorded(p) /\ host' = host
        BY <1>1, <2>2, RecordedIsWell DEF Save
      <3> QED
        BY <3>1, <2>a DEF RecordedWell
    <2>3. ASSUME NEW p \in Proc, Apply(p)
          PROVE  host'[r].files >= host[r].files /\ disk' = disk
      <3>1. at[p] \in Repo /\ host[at[p]].files <= Pulled(p).digest
        BY <1>1, <2>a, <2>3 DEF Apply, PulledIsNews, Cycle
      <3>2. Pulled(p).digest \in Nat
        BY <1>1, <3>1, WatcherAssumption DEF CycleInv, TypeOK, Pulled, Dir, Digest
      <3>3. CASE r = at[p]
        <4>1. host'[r].files = Pulled(p).digest
          BY <2>3, <2>a, <3>1, <3>3 DEF Apply, Applied
        <4> QED
          BY <2>3, <2>a, <3>1, <3>2, <3>3, <4>1 DEF Apply
      <3>4. CASE r # at[p]
        BY <2>3, <2>a, <2>b, <3>4 DEF Apply
      <3> QED
        BY <3>3, <3>4
    <2>4. ASSUME NEW p \in Proc, Succeed(p)
          PROVE  host'[r].files >= host[r].files /\ disk' = disk
      <3>1. at[p] \in Repo
        BY <2>a, <2>4 DEF Succeed, Cycle
      <3>2. host'[r].files = host[r].files
        BY <2>4, <2>a, <3>1 DEF Succeed, Applied
      <3> QED
        BY <2>4, <2>b, <3>2 DEF Succeed
    <2>5. ASSUME NEW p \in Proc, Work(p) \/ Exit(p) \/ Cancel(p) \/ Crash(p),
                 ~Save(p), ~Apply(p), ~Succeed(p)
          PROVE  UNCHANGED <<disk, host>>
      BY <2>5 DEF Work, Start, Acquire, Skip, Resolve, ResolveFails, Fetch, FetchFails, Pull,
         PullFails, Refuse, Fail, SaveFails, Release, Tick, Exit, Cancel, Crash
    <2>6. ASSUME NEW x \in Repo, Push(x) PROVE UNCHANGED <<disk, host>>
      BY <2>6 DEF Push
    <2> QED
      BY <2>b, <2>1, <2>2, <2>3, <2>4, <2>5, <2>6 DEF Next
  <1> QED
    BY <1>1, CycleInvariant, FreshInvariant, StoreInvariant, PulledIsNewsInvariant, PTL
    DEF Spec, NeverGoesBack

-----------------------------------------------------------------------------
(* What a cycle holds while the tags stand still, new artifact or old.     *)

CalmAt(p) ==
  /\ pc[p] \in InRepo => cur[p] = tag[at[p]]
  /\ pc[p] \in Fetched => ann[p] = tag[at[p]]
  /\ pc[p] \in Deploying => Pulled(p) = [repo |-> at[p], digest |-> tag[at[p]]]
  /\ pc[p] = "applying" => host[at[p]] = Applied(tag[at[p]], tag[at[p]], FALSE)
  /\ pc[p] = "save" => host[at[p]] = Whole(tag[at[p]])

CalmInv == \A p \in Proc : CalmAt(p)

LEMMA CalmStep ==
  ASSUME CycleInv, CalmInv, [CalmNext]_vars
  PROVE  CalmInv'
  <1>a. \A r \in Repo : Name[r] \in Dir
    BY DEF Dir
  <1> USE <1>a DEF CycleInv, TypeOK, CalmInv, CalmAt, Cycle, InRepo, Fetched, Deploying,
      Pulled, Goto
  <1>1. ASSUME NEW p \in Proc, Work(p) \/ Exit(p) \/ Cancel(p) \/ Crash(p) PROVE CalmInv'
    <2>a. pc[p] \in Cycle => \A q \in Proc \ {p} : pc[q] \notin Cycle
      BY DEF OneCycle
    <2> USE <2>a
    <2>1. CASE Start(p)
      BY <2>1 DEF Start
    <2>2. CASE Acquire(p)
      BY <2>2 DEF Acquire, Lock!Take
    <2>3. CASE Skip(p)
      BY <2>3 DEF Skip, MayFail
    <2>4. CASE Resolve(p)
      <3>1. CalmAt(p)'
        <4>1. CASE ~NeedsDeploy(p, tag[at[p]])
          <5>1. pc'[p] = "loop"
            BY <2>4, <4>1 DEF Resolve, NextRepo, InLoop
          <5> QED
            BY <5>1
        <4>2. CASE ~(~NeedsDeploy(p, tag[at[p]]))
          <5>1. pc'[p] = "fetch" /\ cur'[p] = tag[at[p]] /\ at' = at /\ tag' = tag
            BY <2>4, <4>2 DEF Resolve, InLoop
          <5>2. at[p] \in Repo
            BY <2>4 DEF Resolve, InLoop
          <5> HIDE <1>a, <2>a DEF CycleInv, TypeOK, CalmInv, Pulled
          <5> QED
            BY <5>1, <5>2
        <4> QED
          BY <4>1, <4>2
      <3>2. ASSUME NEW q \in Proc \ {p} PROVE CalmAt(q)'
        BY <2>4 DEF Resolve, NextRepo, InLoop
      <3> QED
        BY <3>1, <3>2 DEF CalmInv
    <2>5. CASE ResolveFails(p)
      BY <2>5 DEF ResolveFails, NextRepo, MayFail, InLoop
    <2>6. CASE Fetch(p)
      <3>1. CalmAt(p)'
        <4>1. CASE tag[at[p]] \in Invalid \/ IsDryRun(p)
          <5>1. pc'[p] = "loop"
            BY <2>6, <4>1 DEF Fetch, NextRepo
          <5> QED
            BY <5>1
        <4>2. CASE ~(tag[at[p]] \in Invalid \/ IsDryRun(p))
          <5>1. /\ pc'[p] = "pull" /\ ann'[p] = tag[at[p]]
                /\ cur' = cur /\ at' = at /\ tag' = tag
            BY <2>6, <4>2 DEF Fetch
          <5>2. cur[p] = tag[at[p]]
            BY <2>6 DEF Fetch
          <5> HIDE <1>a, <2>a DEF CycleInv, TypeOK, CalmInv, Pulled
          <5> QED
            BY <5>1, <5>2
        <4> QED
          BY <4>1, <4>2
      <3>2. ASSUME NEW q \in Proc \ {p} PROVE CalmAt(q)'
        BY <2>6 DEF Fetch, NextRepo
      <3> QED
        BY <3>1, <3>2 DEF CalmInv
    <2>7. CASE FetchFails(p)
      BY <2>7 DEF FetchFails, NextRepo, MayFail
    <2>8. CASE Pull(p)
      BY <2>8 DEF Pull
    <2>9. CASE PullFails(p)
      BY <2>9 DEF PullFails, NextRepo, MayFail
    <2>10. CASE Refuse(p)
      BY <2>10 DEF Refuse, NextRepo, MayFail
    <2>11. CASE Apply(p)
      <3>1. CalmAt(p)'
        <4>1. /\ pc'[p] = "applying" /\ at[p] \in Repo
              /\ host'[at[p]] = Applied(ann[p], Pulled(p).digest, FALSE)
              /\ cur' = cur /\ ann' = ann /\ at' = at /\ tag' = tag /\ art' = art
          BY <2>11 DEF Apply
        <4>2. /\ cur[p] = tag[at[p]] /\ ann[p] = tag[at[p]]
              /\ Pulled(p) = [repo |-> at[p], digest |-> tag[at[p]]]
          BY <2>11 DEF Apply
        <4> HIDE <1>a, <2>a DEF CycleInv, TypeOK, CalmInv, Pulled
        <4>3. Pulled(p)' = Pulled(p)
          BY <4>1 DEF Pulled
        <4>4. host'[at[p]] = Applied(tag[at[p]], tag[at[p]], FALSE)
          BY <4>1, <4>2
        <4> QED
          BY <4>1, <4>2, <4>3, <4>4
      <3>2. ASSUME NEW q \in Proc \ {p} PROVE CalmAt(q)'
        BY <2>11 DEF Apply
      <3> QED
        BY <3>1, <3>2 DEF CalmInv
    <2>12. CASE Succeed(p)
      <3>1. CalmAt(p)'
        <4>1. /\ pc'[p] = "save"
              /\ host'[at[p]] = Applied(host[at[p]].spec, host[at[p]].files, TRUE)
              /\ cur' = cur /\ ann' = ann /\ at' = at /\ tag' = tag /\ art' = art
          BY <2>12 DEF Succeed
        <4>2. /\ cur[p] = tag[at[p]] /\ ann[p] = tag[at[p]]
              /\ Pulled(p) = [repo |-> at[p], digest |-> tag[at[p]]]
              /\ host[at[p]] = Applied(tag[at[p]], tag[at[p]], FALSE)
          BY <2>12 DEF Succeed
        <4> HIDE <1>a, <2>a DEF CycleInv, TypeOK, CalmInv, Pulled
        <4>3. Pulled(p)' = Pulled(p)
          BY <4>1 DEF Pulled
        <4>4. host'[at[p]] = Whole(tag[at[p]])
          BY <4>1, <4>2 DEF Applied, Whole
        <4> QED
          BY <4>1, <4>2, <4>3, <4>4
      <3>2. ASSUME NEW q \in Proc \ {p} PROVE CalmAt(q)'
        BY <2>12 DEF Succeed
      <3> QED
        BY <3>1, <3>2 DEF CalmInv
    <2>13. CASE Fail(p)
      BY <2>13 DEF Fail, NextRepo, MayFail
    <2>14. CASE Save(p)
      BY <2>14 DEF Save, NextRepo, Recorded
    <2>15. CASE SaveFails(p)
      BY <2>15 DEF SaveFails, NextRepo, MayFail, Recorded
    <2>16. CASE Release(p)
      BY <2>16 DEF Release, Lock!Drop
    <2>17. CASE Tick(p)
      BY <2>17 DEF Tick
    <2>18. CASE Exit(p)
      BY <2>18 DEF Exit, Ended
    <2>19. CASE Cancel(p)
      BY <2>19 DEF Cancel, MayFail
    <2>20. CASE Crash(p)
      BY <2>20 DEF Crash, MayFail, Ended
    <2> QED
      BY <1>1, <2>1, <2>2, <2>3, <2>4, <2>5, <2>6, <2>7, <2>8, <2>9, <2>10,
         <2>11, <2>12, <2>13, <2>14, <2>15, <2>16, <2>17, <2>18, <2>19, <2>20 DEF Work
  <1>2. ASSUME NEW r \in Repo, Push(r), tag' # tag => holders = {} PROVE CalmInv'
    <2>1. tag' # tag => \A p \in Proc : pc[p] \notin Cycle
      BY <1>2 DEF OneCycle
    <2>2. UNCHANGED <<pc, at, cur, ann, art, host>>
      BY <1>2 DEF Push
    <2> QED
      BY <2>1, <2>2
  <1>3. CASE UNCHANGED vars
    BY <1>3 DEF vars
  <1> QED
    BY <1>1, <1>2, <1>3 DEF CalmNext, Next

LEMMA CalmInvariant == Calm => [](CycleInv /\ CalmInv)
  <1>1. Init => CycleInv /\ CalmInv
    BY CycleInit DEF Init, CalmInv, CalmAt, InRepo, Fetched, Deploying
  <1>2. CycleInv /\ [CalmNext]_vars => CycleInv'
    BY TypeNext, CycleNext DEF CycleInv, CalmNext
  <1>3. CycleInv /\ CalmInv /\ [CalmNext]_vars => CalmInv'
    BY CalmStep
  <1> QED
    BY <1>1, <1>2, <1>3, PTL DEF Calm

\* While no tag moves during a cycle, what Set records is what the target
\* holds, pushes back to an earlier artifact and any number of processes
\* included (cycleOne: ResolveDigest, FetchAnnotations, Pull, deploy.Run, Set).
THEOREM WatcherRecords == Calm => []RecordsWhatItDeployed
  <1>1. CycleInv /\ CalmInv => RecordsWhatItDeployed
    BY DEF CalmInv, CalmAt, RecordsWhatItDeployed, InRepo, Fetched, Deploying
  <1> QED
    BY <1>1, CalmInvariant, PTL

\* The same for what a deploy reads, with Rollback or without (Pull, Run).
THEOREM WatcherCalmOwnPull == Calm => []DeploysOwnPull
  <1>1. CycleInv /\ CalmInv => DeploysOwnPull
    <2> SUFFICES ASSUME CycleInv, CalmInv,
                        NEW p \in Proc, pc[p] \in {"deploy", "applying"}
                 PROVE  /\ Pulled(p).repo = at[p]
                        /\ Pulled(p).digest >= ann[p]
                        /\ ann[p] >= cur[p]
      BY DEF DeploysOwnPull
    <2>1. ann[p] \in Nat
      BY WatcherAssumption DEF CycleInv, TypeOK, Digest
    <2>2. cur[p] = ann[p] /\ Pulled(p).repo = at[p] /\ Pulled(p).digest = ann[p]
      <3>1. CalmAt(p)
        BY DEF CalmInv
      <3> HIDE DEF Pulled
      <3> QED
        BY <3>1 DEF CalmAt, InRepo, Fetched, Deploying
    <2> QED
      BY <2>1, <2>2
  <1> QED
    BY <1>1, CalmInvariant, PTL
=============================================================================
