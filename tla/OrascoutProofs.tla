---------------------------- MODULE OrascoutProofs ----------------------------
(***************************************************************************)
(* Proofs about the daemon on its machine: that it does what module        *)
(* Watcher says, and what is left of that when the power is lost.          *)
(***************************************************************************)
EXTENDS Orascout, WatcherProofs

-----------------------------------------------------------------------------
(* The inductive invariant of what module Orascout adds.                   *)

\* What is in state.json.tmp when it is about to be renamed is what Save of
\* module Watcher writes: nobody else has been at the file.
DraftInv ==
  /\ writing \in [Proc -> {"no", "fill", "rename"}]
  /\ draft \subseteq [Repo -> Digest]
  /\ \A p \in Proc : /\ writing[p] # "no" => pc[p] = "save"
                     /\ writing[p] = "rename" => draft = {Recorded(p)}

\* What can be found after a loss of power are files of the types they have.
DurableOK ==
  /\ durable.disk \in [Repo -> Digest]
  /\ durable.host \in [Repo -> [spec : Digest, files : Digest, whole : BOOLEAN]]
  /\ durable.art \in [Dir -> [repo : Repo \union {0}, digest : Digest]]

\* Whoever has something to ship is still in its cycle; a log that is behind
\* has someone to ship it, as long as nothing has gone wrong.
LogsInv ==
  /\ did \in [Proc -> BOOLEAN]
  /\ behind \in BOOLEAN
  /\ losses \in 0 .. MaxLosses
  /\ cancelled # {} => faults > 0
  /\ \A p \in Proc : did[p] => pc[p] \in Cycle
  /\ behind => faults > 0 \/ losses > 0 \/ \E p \in Proc : did[p]

SysInv == CycleInv /\ DraftInv /\ DurableOK /\ LogsInv

\* The files a loss of power leaves are no newer than the tags, and vouch for
\* no more than the files there are now.
DurableInv ==
  \A r \in Repo :
    /\ durable.disk[r] <= tag[r] /\ durable.host[r].files <= tag[r]
    /\ durable.disk[r] # 0 /\ durable.disk[r] = tag[r] => durable.host[r] = Whole(tag[r])

-----------------------------------------------------------------------------
(* Every step is one of module Watcher, but for two: a log push that fails *)
(* is one more fault, and a loss of power is no step of Watcher at all.    *)

LEMMA SysSteps ==
  ASSUME DraftInv, [SysNext]_sysvars
  PROVE  \/ [Next]_vars /\ losses' = losses
         \/ \E p \in Proc : PushLogsFails(p)
         \/ PowerLoss
  <1> USE DEF sysvars, new
  <1>1. ASSUME NEW p \in Proc, SysWork(p), ~PushLogsFails(p)
        PROVE  [Next]_vars /\ losses' = losses
    <2>1. CASE /\ \/ Start(p) \/ Acquire(p) \/ Skip(p) \/ ResolveFails(p)
                  \/ Fetch(p) \/ FetchFails(p) \/ Pull(p) \/ PullFails(p)
                  \/ Refuse(p) \/ Apply(p) \/ Succeed(p) \/ Fail(p) \/ Tick(p)
               /\ UNCHANGED new
      BY <2>1 DEF Next, Work
    <2>2. CASE SysResolve(p)
      BY <2>2 DEF SysResolve, Next, Work
    <2>3. CASE OpenDraft(p) \/ FillDraft(p) \/ PushLogs(p)
      BY <2>3 DEF OpenDraft, FillDraft, PushLogs
    <2>4. CASE RenameDraft(p)
      <3>1. PICK c \in draft : RenameTo(p, c)
        BY <2>4 DEF RenameDraft
      <3>2. c = Recorded(p) /\ pc[p] = "save"
        BY <3>1 DEF RenameTo, DraftInv
      <3>3. Save(p)
        BY <3>1, <3>2 DEF RenameTo, Save
      <3> QED
        BY <3>1, <3>3 DEF RenameTo, Next, Work
    <2>5. CASE DraftFails(p)
      BY <2>5 DEF DraftFails, Next, Work
    <2>6. CASE SysRelease(p)
      BY <2>6 DEF SysRelease, Next, Work
    <2> QED
      BY <1>1, <2>1, <2>2, <2>3, <2>4, <2>5, <2>6 DEF SysWork
  <1>2. ASSUME NEW p \in Proc, SysExit(p) \/ SysCrash(p) \/ (Cancel(p) /\ UNCHANGED new)
        PROVE  [Next]_vars /\ losses' = losses
    BY <1>2 DEF SysExit, SysCrash, Next
  <1>3. ASSUME NEW r \in Repo, Push(r) /\ UNCHANGED new
        PROVE  [Next]_vars /\ losses' = losses
    BY <1>3 DEF Next
  <1>4. CASE Flush
    BY <1>4 DEF Flush
  <1>5. CASE UNCHANGED sysvars
    BY <1>5
  <1> QED
    BY <1>1, <1>2, <1>3, <1>4, <1>5 DEF SysNext

\* A failed push of the logs is seen by no process.
LEMMA PushLogsUnseen ==
  ASSUME TypeOK, NEW p \in Proc, PushLogsFails(p)
  PROVE  UNCHANGED observed /\ faults' \in Nat
  BY DEF PushLogsFails, MayFail, TypeOK

-----------------------------------------------------------------------------
(* The parts of Watcher's invariant survive a loss of power.               *)

LEMMA SysCycleNext ==
  ASSUME SysInv, [SysNext]_sysvars
  PROVE  CycleInv'
  <1> USE DEF SysInv
  <1>1. CASE [Next]_vars
    BY <1>1, TypeNext, CycleNext DEF CycleInv
  <1>2. ASSUME NEW p \in Proc, PushLogsFails(p) PROVE CycleInv'
    <2>1. UNCHANGED observed /\ faults' \in Nat
      BY <1>2, PushLogsUnseen DEF CycleInv
    <2>2. TypeOK'
      BY <2>1 DEF CycleInv, TypeOK, observed
    <2>3. OneCycle' /\ DryStops'
      BY <2>1 DEF CycleInv, OneCycle, DryStops, observed, IsDryRun
    <2> QED
      BY <2>2, <2>3 DEF CycleInv
  <1>3. CASE PowerLoss
    <2>1. TypeOK'
      <3>1. 0 \in Digest /\ 1 \in Place
        BY WatcherAssumption DEF Digest, Place
      <3> QED
        BY <1>3, <3>1 DEF PowerLoss, CycleInv, TypeOK, DurableOK, Cycle
    <2>2. OneCycle' /\ DryStops'
      BY <1>3 DEF PowerLoss, OneCycle, DryStops, Cycle, Fetched, Deploying
    <2> QED
      BY <2>1, <2>2 DEF CycleInv
  <1> QED
    BY <1>1, <1>2, <1>3, SysSteps

LEMMA SysFreshNext ==
  ASSUME SysInv, FreshInv, ~Rollback, [SysNext]_sysvars
  PROVE  FreshInv'
  <1> USE DEF SysInv
  <1>1. CASE [Next]_vars
    BY <1>1, FreshNext
  <1>2. ASSUME NEW p \in Proc, PushLogsFails(p) PROVE FreshInv'
    <2>1. UNCHANGED observed
      BY <1>2 DEF PushLogsFails
    <2> QED
      BY <2>1 DEF observed, FreshInv, OrderAt, HostAt, Pulled
  <1>3. CASE PowerLoss
    BY <1>3 DEF PowerLoss, FreshInv, OrderAt, HostAt, InRepo, Fetched, Deploying
  <1> QED
    BY <1>1, <1>2, <1>3, SysSteps

LEMMA SysStoreNext ==
  ASSUME OneDeployer, ~Rollback, SysInv, FreshInv, StoreInv, DurableInv, [SysNext]_sysvars
  PROVE  StoreInv'
  <1> USE DEF SysInv
  <1>1. CASE [Next]_vars
    BY <1>1, StoreNext
  <1>2. ASSUME NEW p \in Proc, PushLogsFails(p) PROVE StoreInv'
    <2>1. Undisturbed
      BY <1>2 DEF PushLogsFails, observed, Undisturbed
    <2> QED
      BY <2>1, StoreUndisturbed
  <1>3. CASE PowerLoss
    <2>1. VouchedIsDeployed'
      BY <1>3 DEF PowerLoss, DurableInv, VouchedIsDeployed
    <2>2. NotAhead'
      <3>1. \A r \in Repo : 0 <= tag[r]
        BY WatcherAssumption DEF CycleInv, TypeOK, Digest
      <3> QED
        BY <1>3, <3>1 DEF PowerLoss, DurableInv, NotAhead
    <2>3. Remembers'
      BY <1>3 DEF PowerLoss, Remembers, AheadOfFile, WorksOnNew, Vouches, InRepo, Fetched, Deploying
    <2> QED
      BY <2>1, <2>2, <2>3 DEF StoreInv
  <1> QED
    BY <1>1, <1>2, <1>3, SysSteps

-----------------------------------------------------------------------------
(* The parts Orascout adds.                                                *)

LEMMA DraftNext ==
  ASSUME SysInv, [SysNext]_sysvars
  PROVE  DraftInv'
  <1>a. \A p, q \in Proc : pc[p] \in Cycle /\ pc[q] \in Cycle => p = q
    <2>1. \A p \in Proc : pc[p] \in Cycle => holders = {p}
      BY DEF SysInv, CycleInv, OneCycle
    <2> QED
      BY <2>1
  <1> USE DEF SysInv, CycleInv, DraftInv, TypeOK, new, Goto
  <1>1. ASSUME UNCHANGED <<writing, draft>>,
               \A p \in Proc : pc[p] = "save" => UNCHANGED <<pc[p], mem[p], at[p], cur[p]>>
        PROVE  DraftInv'
    BY <1>1 DEF Recorded
  <1>2. ASSUME NEW p \in Proc, SysWork(p) PROVE DraftInv'
    <2>1. CASE /\ \/ Start(p) \/ Acquire(p) \/ Skip(p) \/ ResolveFails(p)
                  \/ Fetch(p) \/ FetchFails(p) \/ Pull(p) \/ PullFails(p)
                  \/ Refuse(p) \/ Apply(p) \/ Succeed(p) \/ Fail(p) \/ Tick(p)
               /\ UNCHANGED new
      <3>1. pc[p] # "save" /\ \A q \in Proc \ {p} : UNCHANGED <<pc[q], mem[q], at[q], cur[q]>>
        <4>1. CASE Start(p) \/ Acquire(p) \/ Skip(p) \/ ResolveFails(p)
          BY <4>1 DEF Start, Acquire, Skip, ResolveFails, InLoop, NextRepo
        <4>2. CASE Fetch(p) \/ FetchFails(p)
          BY <4>2 DEF Fetch, FetchFails, NextRepo
        <4>3. CASE Pull(p) \/ PullFails(p) \/ Refuse(p)
          BY <4>3 DEF Pull, PullFails, Refuse, NextRepo
        <4>4. CASE Apply(p)
          BY <4>4 DEF Apply
        <4>5. CASE Succeed(p)
          BY <4>5 DEF Succeed
        <4>6. CASE Fail(p) \/ Tick(p)
          BY <4>6 DEF Fail, Tick, NextRepo
        <4> QED
          BY <2>1, <4>1, <4>2, <4>3, <4>4, <4>5, <4>6
      <3> QED
        BY <1>1, <2>1, <3>1
    <2>2. CASE SysResolve(p) \/ SysRelease(p)
      <3>1. \A q \in Proc : pc[q] = "save" => UNCHANGED <<pc[q], mem[q], at[q], cur[q]>>
        BY <2>2 DEF SysResolve, Resolve, InLoop, NextRepo, SysRelease, Release
      <3> QED
        BY <1>1, <2>2, <3>1 DEF SysResolve, SysRelease
    <2>3. CASE PushLogs(p) \/ PushLogsFails(p)
      BY <1>1, <2>3 DEF PushLogs, PushLogsFails, observed, vars
    <2>4. ASSUME OpenDraft(p) \/ FillDraft(p) PROVE DraftInv'
      <3>1. pc[p] = "save" /\ UNCHANGED <<pc, mem, at, cur>>
        BY <2>4 DEF OpenDraft, FillDraft, vars
      <3>2. \A q \in Proc \ {p} : writing[q] = "no"
        BY <1>a, <3>1 DEF Cycle
      <3>3. Recorded(p) \in [Repo -> Digest]
        BY DEF Recorded
      <3>4. \A q \in Proc : Recorded(q)' = Recorded(q)
        BY <3>1 DEF Recorded
      <3>5. CASE OpenDraft(p)
        BY <3>1, <3>2, <3>5 DEF OpenDraft
      <3>6. CASE FillDraft(p)
        BY <3>1, <3>2, <3>3, <3>4, <3>6 DEF FillDraft
      <3> QED
        BY <2>4, <3>5, <3>6
    <2>5. ASSUME RenameDraft(p) \/ DraftFails(p) PROVE DraftInv'
      <3>1. pc[p] = "save"
        BY <2>5 DEF RenameDraft, RenameTo, DraftFails, SaveFails
      <3>2. \A q \in Proc \ {p} : writing[q] = "no"
        BY <1>a, <3>1 DEF Cycle
      <3>3. writing' = [writing EXCEPT ![p] = "no"] /\ draft' \subseteq draft
        BY <2>5 DEF RenameDraft, RenameTo, DraftFails
      <3> QED
        BY <3>2, <3>3
    <2> QED
      BY <1>2, <2>1, <2>2, <2>3, <2>4, <2>5 DEF SysWork
  <1>3. ASSUME NEW p \in Proc, SysCrash(p) PROVE DraftInv'
    <2>1. /\ writing' = [writing EXCEPT ![p] = "no"] /\ draft' = draft
          /\ \A q \in Proc \ {p} : UNCHANGED <<pc[q], mem[q], at[q], cur[q]>>
      BY <1>3 DEF SysCrash, Crash, Ended
    <2> QED
      BY <2>1 DEF Recorded
  <1>4. ASSUME NEW p \in Proc, SysExit(p) PROVE DraftInv'
    <2>1. \A q \in Proc : pc[q] = "save" => UNCHANGED <<pc[q], mem[q], at[q], cur[q]>>
      BY <1>4 DEF SysExit, Exit, Ended
    <2> QED
      BY <1>1, <1>4, <2>1 DEF SysExit
  <1>5. ASSUME NEW p \in Proc, Cancel(p) /\ UNCHANGED new PROVE DraftInv'
    BY <1>1, <1>5 DEF Cancel
  <1>6. ASSUME NEW r \in Repo, Push(r) /\ UNCHANGED new PROVE DraftInv'
    BY <1>1, <1>6 DEF Push
  <1>7. CASE Flush \/ UNCHANGED sysvars
    BY <1>1, <1>7 DEF Flush, sysvars, vars
  <1>8. CASE PowerLoss
    BY <1>8 DEF PowerLoss
  <1> QED
    BY <1>2, <1>3, <1>4, <1>5, <1>6, <1>7, <1>8 DEF SysNext

\* Only the kernel makes anything durable.
LEMMA OnlyFlush ==
  ASSUME [SysNext]_sysvars, ~Flush
  PROVE  UNCHANGED durable
  BY DEF SysNext, SysWork, SysResolve, OpenDraft, FillDraft, RenameDraft, DraftFails,
     PushLogs, PushLogsFails, SysRelease, SysExit, SysCrash, PowerLoss, new, sysvars

LEMMA DurableNext ==
  ASSUME SysInv, [SysNext]_sysvars
  PROVE  DurableOK'
  <1>1. CASE Flush
    BY <1>1 DEF Flush, Files, DurableOK, SysInv, CycleInv, TypeOK
  <1>2. CASE ~Flush
    BY <1>2, OnlyFlush DEF DurableOK, SysInv
  <1> QED
    BY <1>1, <1>2

\* All of Work but Release, and what else leaves a process in its cycle.
Onward(p) ==
  \/ Start(p) \/ Acquire(p) \/ Skip(p) \/ Resolve(p) \/ ResolveFails(p)
  \/ Fetch(p) \/ FetchFails(p) \/ Pull(p) \/ PullFails(p)
  \/ Refuse(p) \/ Apply(p) \/ Succeed(p) \/ Fail(p)
  \/ Save(p) \/ SaveFails(p) \/ Tick(p) \/ Exit(p) \/ Cancel(p)

LEMMA CycleGoesOn ==
  ASSUME TypeOK, NEW p \in Proc, Onward(p)
  PROVE  /\ faults' = faults \/ faults' = faults + 1
         /\ cancelled' \subseteq cancelled \/ faults' = faults + 1
         /\ \A q \in Proc : pc[q] \in Cycle => pc'[q] \in Cycle
  <1>a. pc \in [Proc -> Cycle \union {"off", "ready", "rest"}]
    BY DEF TypeOK
  <1> USE <1>a DEF Cycle, Goto, MayFail
  <1>1. CASE Start(p) \/ Acquire(p) \/ Skip(p) \/ Tick(p)
    BY <1>1 DEF Start, Acquire, Skip, Tick
  <1>2. CASE Resolve(p) \/ ResolveFails(p)
    BY <1>2 DEF Resolve, ResolveFails, NextRepo, InLoop
  <1>3. CASE Fetch(p) \/ FetchFails(p)
    BY <1>3 DEF Fetch, FetchFails, NextRepo
  <1>4. CASE Pull(p) \/ PullFails(p)
    BY <1>4 DEF Pull, PullFails, NextRepo
  <1>5. CASE Refuse(p) \/ Fail(p)
    BY <1>5 DEF Refuse, Fail, NextRepo
  <1>6. CASE Apply(p)
    BY <1>6 DEF Apply
  <1>7. CASE Succeed(p)
    BY <1>7 DEF Succeed
  <1>8. CASE Save(p) \/ SaveFails(p)
    BY <1>8 DEF Save, SaveFails, NextRepo
  <1>9. CASE Exit(p)
    BY <1>9 DEF Exit, Ended
  <1>10. CASE Cancel(p)
    BY <1>10 DEF Cancel
  <1> QED
    BY <1>1, <1>2, <1>3, <1>4, <1>5, <1>6, <1>7, <1>8, <1>9, <1>10 DEF Onward

LEMMA LogsNext ==
  ASSUME SysInv, [SysNext]_sysvars
  PROVE  LogsInv'
  <1>a. TypeOK /\ DraftInv
    BY DEF SysInv, CycleInv
  <1>b. /\ faults \in Nat /\ losses \in 0 .. MaxLosses /\ MaxLosses \in Nat
        /\ pc \in [Proc -> Cycle \union {"off", "ready", "rest"}]
        /\ did \in [Proc -> BOOLEAN] /\ behind \in BOOLEAN
        /\ cancelled # {} => faults > 0
        /\ \A p \in Proc : did[p] => pc[p] \in Cycle
        /\ behind => faults > 0 \/ losses > 0 \/ \E p \in Proc : did[p]
    BY <1>a, OrascoutAssumption DEF TypeOK, SysInv, LogsInv
  <1> USE <1>b DEF LogsInv, new
  <1>1. ASSUME NEW p \in Proc, Onward(p), UNCHANGED <<did, behind, losses>>
        PROVE  LogsInv'
    <2>1. /\ faults' = faults \/ faults' = faults + 1
          /\ cancelled' \subseteq cancelled \/ faults' = faults + 1
          /\ \A q \in Proc : pc[q] \in Cycle => pc'[q] \in Cycle
      BY <1>a, <1>1, CycleGoesOn
    <2> QED
      BY <1>1, <2>1
  <1>2. ASSUME NEW p \in Proc, RenameDraft(p) PROVE LogsInv'
    <2>1. /\ pc' = [pc EXCEPT ![p] = "loop"] /\ did' = [did EXCEPT ![p] = TRUE]
          /\ UNCHANGED <<cancelled, faults, losses>> /\ behind' = TRUE
      BY <1>2 DEF RenameDraft, RenameTo, NextRepo, Goto
    <2> QED
      BY <2>1 DEF Cycle
  <1>3. ASSUME NEW p \in Proc, PushLogs(p) \/ PushLogsFails(p) PROVE LogsInv'
    <2>1. /\ UNCHANGED <<pc, cancelled, losses>> /\ did' = [did EXCEPT ![p] = FALSE]
          /\ \/ behind' = FALSE /\ faults' = faults
             \/ behind' = behind /\ faults' \in Nat /\ faults' > 0
      <3>1. CASE PushLogs(p)
        BY <3>1 DEF PushLogs, vars
      <3>2. CASE PushLogsFails(p)
        BY <3>2 DEF PushLogsFails, observed, MayFail, Stopped
      <3> QED
        BY <1>3, <3>1, <3>2
    <2> QED
      BY <2>1
  <1>4. ASSUME NEW p \in Proc, SysRelease(p) PROVE LogsInv'
    <2>1. /\ pc' = [pc EXCEPT ![p] = "rest"] /\ did' = [did EXCEPT ![p] = FALSE]
          /\ UNCHANGED <<cancelled, faults, behind, losses>>
      BY <1>4 DEF SysRelease, Release, Goto
    <2>2. did[p] => faults > 0
      <3>1. ~Shipping(p) /\ pc[p] = "loop" /\ (at[p] > NRepos \/ Stopped(p))
        BY <1>4 DEF SysRelease, Release
      <3> QED
        BY <3>1 DEF Shipping, Stopped
    <2> QED
      BY <2>1, <2>2
  <1>5. ASSUME NEW p \in Proc, SysCrash(p) PROVE LogsInv'
    <2>1. /\ pc' = [pc EXCEPT ![p] = "off"] /\ did' = [did EXCEPT ![p] = FALSE]
          /\ UNCHANGED <<behind, losses>> /\ faults' = faults + 1
      BY <1>5 DEF SysCrash, Crash, Ended, MayFail, Goto
    <2> QED
      BY <2>1
  <1>6. ASSUME NEW r \in Repo, Push(r) /\ UNCHANGED new PROVE LogsInv'
    BY <1>6 DEF Push, MayFail
  <1>7. ASSUME UNCHANGED <<vars, did, behind, losses>> PROVE LogsInv'
    BY <1>7 DEF vars
  <1>8. CASE PowerLoss
    BY <1>8 DEF PowerLoss
  <1>9. ASSUME NEW p \in Proc, SysWork(p) PROVE LogsInv'
    BY <1>1, <1>2, <1>3, <1>4, <1>7, <1>9
       DEF SysWork, Onward, SysResolve, OpenDraft, FillDraft, DraftFails
  <1>10. ASSUME NEW p \in Proc, SysExit(p) \/ (Cancel(p) /\ UNCHANGED new) PROVE LogsInv'
    BY <1>1, <1>10 DEF Onward, SysExit
  <1>11. CASE Flush \/ UNCHANGED sysvars
    BY <1>7, <1>11 DEF Flush, sysvars
  <1> QED
    BY <1>5, <1>6, <1>8, <1>9, <1>10, <1>11 DEF SysNext

LEMMA SysInvInit == SysInit => SysInv
  <1> SUFFICES ASSUME SysInit PROVE SysInv
    OBVIOUS
  <1>1. CycleInv
    BY CycleInit DEF SysInit
  <1>2. DraftInv
    BY DEF SysInit, DraftInv
  <1>3. DurableOK
    BY <1>1 DEF SysInit, Files, DurableOK, CycleInv, TypeOK
  <1>4. LogsInv
    <2>1. /\ cancelled = {} /\ did = [p \in Proc |-> FALSE]
          /\ behind = FALSE /\ losses = 0
      BY DEF SysInit, Init
    <2>2. did \in [Proc -> BOOLEAN] /\ \A p \in Proc : ~did[p]
      BY <2>1, Zenon
    <2>3. losses \in 0 .. MaxLosses
      BY <2>1, OrascoutAssumption
    <2> QED
      BY <2>1, <2>2, <2>3 DEF LogsInv
  <1> QED
    BY <1>1, <1>2, <1>3, <1>4 DEF SysInv

LEMMA SysInvariant == SysSpec => []SysInv
  <1>1. SysInv /\ [SysNext]_sysvars => SysInv'
    BY SysCycleNext, DraftNext, DurableNext, LogsNext DEF SysInv
  <1> QED
    BY SysInvInit, <1>1, PTL DEF SysSpec

-----------------------------------------------------------------------------
(* Over the losses of power.                                               *)

\* A loss of power changes no tag, and CI only moves them on.
LEMMA TagsMoveOn ==
  ASSUME SysInv, ~Rollback, [SysNext]_sysvars, NEW r \in Repo
  PROVE  tag'[r] = tag[r] \/ tag'[r] = tag[r] + 1
  <1>a. tag \in [Repo -> Digest]
    BY DEF SysInv, CycleInv, TypeOK
  <1>1. ASSUME NEW q \in Repo, Push(q) PROVE tag'[r] = tag[r] \/ tag'[r] = tag[r] + 1
    <2>1. PICK d : d = tag[q] + 1 /\ tag' = [tag EXCEPT ![q] = d]
      BY <1>1 DEF Push, Pushable
    <2> QED
      BY <1>a, <2>1
  <1>2. ASSUME NEW p \in Proc, SysWork(p) \/ SysExit(p) \/ SysCrash(p) \/ Cancel(p) PROVE tag' = tag
    <2>1. CASE PushLogsFails(p)
      BY <2>1 DEF PushLogsFails, observed
    <2>2. CASE RenameDraft(p)
      BY <2>2 DEF RenameDraft, RenameTo
    <2>3. CASE OpenDraft(p) \/ FillDraft(p) \/ PushLogs(p)
      BY <2>3 DEF OpenDraft, FillDraft, PushLogs, vars
    <2>4. CASE Work(p) \/ Exit(p) \/ Crash(p) \/ Cancel(p)
      BY <2>4 DEF Work, Start, Acquire, Skip, Resolve, ResolveFails, Fetch, FetchFails, Pull,
         PullFails, Refuse, Apply, Succeed, Fail, Save, SaveFails, Release, Tick, Exit, Crash, Cancel
    <2> QED
      BY <1>2, <2>1, <2>2, <2>3, <2>4
         DEF SysWork, Work, SysResolve, DraftFails, SysRelease, SysExit, SysCrash
  <1>3. CASE Flush \/ PowerLoss \/ UNCHANGED sysvars
    BY <1>3 DEF Flush, PowerLoss, sysvars, vars
  <1> QED
    BY <1>1, <1>2, <1>3 DEF SysNext

LEMMA DurableInvNext ==
  ASSUME SysInv, StoreInv, DurableInv, ~Rollback, [SysNext]_sysvars
  PROVE  DurableInv'
  <1>1. CASE Flush
    <2>1. durable' = Files /\ UNCHANGED <<tag, disk, host, art>>
      BY <1>1 DEF Flush, vars
    <2> QED
      BY <2>1 DEF Files, DurableInv, StoreInv, NotAhead, VouchedIsDeployed
  <1>2. CASE ~Flush
    <2>1. UNCHANGED durable
      BY <1>2, OnlyFlush
    <2>2. \A r \in Repo : /\ tag[r] \in Nat
                         /\ durable.disk[r] \in Nat /\ durable.host[r].files \in Nat
      BY WatcherAssumption DEF SysInv, CycleInv, TypeOK, DurableOK, Digest
    <2>3. \A r \in Repo : tag'[r] = tag[r] \/ tag'[r] = tag[r] + 1
      BY TagsMoveOn
    <2> SUFFICES ASSUME NEW r \in Repo
                 PROVE  /\ durable.disk[r] <= tag'[r] /\ durable.host[r].files <= tag'[r]
                        /\ durable.disk[r] # 0 /\ durable.disk[r] = tag'[r]
                             => durable.host[r] = Whole(tag'[r])
      BY <2>1 DEF DurableInv, Whole, Applied
    <2>4. /\ durable.disk[r] <= tag[r] /\ durable.host[r].files <= tag[r]
          /\ durable.disk[r] # 0 /\ durable.disk[r] = tag[r] => durable.host[r] = Whole(tag[r])
      BY DEF DurableInv
    <2>5. CASE tag'[r] = tag[r]
      BY <2>4, <2>5
    <2>6. CASE tag'[r] = tag[r] + 1
      BY <2>2, <2>4, <2>6
    <2> QED
      BY <2>3, <2>5, <2>6
  <1> QED
    BY <1>1, <1>2

LEMMA DurableInvInit == SysInit => DurableInv
  BY WatcherAssumption DEF SysInit, Init, Files, DurableInv, Applied

LEMMA SysStoreInvariant ==
  ASSUME OneDeployer, ~Rollback
  PROVE  SysSpec => [](FreshInv /\ StoreInv /\ DurableInv)
  <1> DEFINE I == FreshInv /\ StoreInv /\ DurableInv
  <1>1. SysInit => I
    BY FreshInit, StoreInit, DurableInvInit DEF SysInit
  <1>2. SysInv /\ I /\ [SysNext]_sysvars => I'
    BY SysFreshNext, SysStoreNext, DurableInvNext
  <1> QED
    BY <1>1, <1>2, SysInvariant, PTL DEF SysSpec

-----------------------------------------------------------------------------
(* The results.                                                            *)

(***************************************************************************)
(* The state of the daemon and of its machine is always well formed, also  *)
(* right after a loss of power; what is renamed to state.json is complete, *)
(* and only a process that is in Set is writing it (saveLocked).           *)
(***************************************************************************)
THEOREM OrascoutTypes == SysSpec => []SysTypeOK
  <1>1. SysInv => SysTypeOK
    BY DEF SysInv, CycleInv, DraftInv, DurableOK, LogsInv, SysTypeOK
  <1> QED
    BY <1>1, SysInvariant, PTL

(***************************************************************************)
(* The daemon that writes state.json by way of state.json.tmp, and ships   *)
(* its log, does at every step what module Watcher says, or something that *)
(* module does not see; only a loss of power is something else             *)
(* (saveLocked, Set, pushLogs).                                            *)
(***************************************************************************)
THEOREM OrascoutImplementsWatcher == SysSpec => ImplementsWatcher
  <1>1. SysInit => Init
    BY DEF SysInit
  <1>2. ASSUME SysInv, [SysNext]_sysvars PROVE [Next \/ losses' # losses]_observed
    <2>1. CASE [Next]_vars
      BY <2>1 DEF vars, observed
    <2>2. CASE \E p \in Proc : PushLogsFails(p)
      BY <2>2 DEF PushLogsFails
    <2>3. CASE PowerLoss
      <3>1. losses \in Nat
        BY <1>2, OrascoutAssumption DEF SysInv, LogsInv
      <3> QED
        BY <2>3, <3>1 DEF PowerLoss
    <2> QED
      BY <1>2, <2>1, <2>2, <2>3, SysSteps DEF SysInv
  <1> QED
    BY <1>1, <1>2, SysInvariant, PTL DEF SysSpec, ImplementsWatcher

(***************************************************************************)
(* As long as nothing fails and nobody is told to stop, what a cycle has   *)
(* recorded is in the pushed log when the cycle is over (RunOnce,          *)
(* pushLogs).                                                              *)
(***************************************************************************)
THEOREM OrascoutLogs == SysSpec => []LogsKeepUp
  <1>1. SysInv => LogsKeepUp
    BY DEF SysInv, CycleInv, OneCycle, LogsInv, LogsKeepUp
  <1> QED
    BY <1>1, SysInvariant, PTL

(***************************************************************************)
(* What the state file vouches for is on the host, also when the power was *)
(* lost and state and targets are back at an earlier moment: with one      *)
(* process that deploys, and as long as no tag is moved back (Set after    *)
(* deploy.Run, saveLocked, New).                                           *)
(***************************************************************************)
THEOREM OrascoutVouches ==
  ASSUME OneDeployer, ~Rollback
  PROVE  SysSpec => []VouchedIsDeployed
  BY SysStoreInvariant, PTL DEF StoreInv
=============================================================================
