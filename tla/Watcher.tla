------------------------------- MODULE Watcher -------------------------------
(***************************************************************************)
(* internal/watcher and internal/state, with the parts of cmd/orascout and *)
(* internal/registry they drive: processes that poll the tags of a list of *)
(* repositories and deploy what changed, one cycle at a time.              *)
(*                                                                         *)
(* A digest is a number; 0 is "no digest".  The lock is the abstract       *)
(* CycleLock (module Lockfile says what the PID file makes of it), and the *)
(* deploy of one artifact is seen from outside: it begins, and leaves the  *)
(* target whole or not.                                                    *)
(*                                                                         *)
(* Each registry call resolves the tag anew, so a push between two of them *)
(* is seen by the second.  A process reads the state file once, in New,    *)
(* before any lock; each Set writes its whole map back.                    *)
(***************************************************************************)
EXTENDS Naturals

CONSTANTS
  Proc,        \* processes sharing one config: a daemon, timer runs, checks
  Mode,        \* what each was started as: "daemon", "once" or "check"
  NRepos,      \* length of the `repos' list
  Name,        \* name of each without its tag: its artifact directory
  MaxDigest,   \* bound on the number of artifacts pushed to one tag
  Invalid,     \* digests whose annotations do not parse
  Unsafe,      \* digests whose paths validateRequest rejects
  Bad,         \* digests whose deploy always fails (say, never healthy)
  Rollback,    \* BOOLEAN: an earlier artifact may be pushed again
  MaxFaults    \* bound on failures, kills and signals

Repo   == 1 .. NRepos
Place  == 1 .. NRepos + 1  \* the last one is past the end of the list
Digest == 0 .. MaxDigest

ASSUME WatcherAssumption ==
  /\ Mode \in [Proc -> {"daemon", "once", "check"}]
  /\ NRepos \in Nat
  /\ MaxDigest \in Nat
  /\ Rollback \in BOOLEAN
  /\ MaxFaults \in Nat

VARIABLES
  tag,        \* registry: the digest each repo:tag points to now
  disk,       \* the state file: the digest recorded for each
  mem,        \* each process's copy of it (Store.data)
  holders,    \* who is inside the cycle lock
  pc,         \* where each process is in its cycle
  at,         \* the position of each in the `repos' list
  cur,        \* the digest ResolveDigest returned (currentDigest)
  ann,        \* the digest whose annotations were fetched (spec)
  art,        \* what each artifact directory holds: whose pull, what digest
  host,       \* the target of each repo: what was last applied to it
  cancelled,  \* processes that received SIGINT or SIGTERM
  faults      \* failures so far

vars == <<tag, disk, mem, holders, pc, at, cur, ann, art, host, cancelled, faults>>

Lock == INSTANCE CycleLock

\* Positions inside a cycle; "ready" and "rest" are between two of them.
Cycle == {"loop", "fetch", "pull", "deploy", "applying", "save"}

Dir   == {Name[r] : r \in Repo}
Empty == [repo |-> 0, digest |-> 0]

\* Spec s and files f have been applied, completely or not.
Applied(s, f, w) == [spec |-> s, files |-> f, whole |-> w]
Whole(d) == Applied(d, d, TRUE)

Init ==
  /\ tag = [r \in Repo |-> 0]
  /\ disk = [r \in Repo |-> 0]
  /\ mem = [p \in Proc |-> [r \in Repo |-> 0]]
  /\ Lock!Init
  /\ pc = [p \in Proc |-> "off"]
  /\ at = [p \in Proc |-> 1]
  /\ cur = [p \in Proc |-> 0]
  /\ ann = [p \in Proc |-> 0]
  /\ art = [d \in Dir |-> Empty]
  /\ host = [r \in Repo |-> Applied(0, 0, FALSE)]
  /\ cancelled = {}
  /\ faults = 0

-----------------------------------------------------------------------------
(* Helpers shared by the actions.                                          *)

Goto(p, l) == pc' = [pc EXCEPT ![p] = l]

\* The loop of RunOnce moves on, whatever became of this repository.
NextRepo(p) ==
  /\ Goto(p, "loop")
  /\ at' = [at EXCEPT ![p] = @ + 1]
  /\ cur' = [cur EXCEPT ![p] = 0]
  /\ ann' = [ann EXCEPT ![p] = 0]

\* A call fails: because it must (`forced'), or by one of the bounded faults.
MayFail(forced) ==
  \/ forced /\ UNCHANGED faults
  \/ ~forced /\ faults < MaxFaults /\ faults' = faults + 1

\* The process is gone, and its memory with it.
Ended(p) ==
  /\ Goto(p, "off")
  /\ mem' = [mem EXCEPT ![p] = [r \in Repo |-> 0]]
  /\ cancelled' = cancelled \ {p}

Stopped(p) == p \in cancelled

\* Mutant: Get is asked for the first repository instead of this one.
NeedsDeployFirst(p, d) == d # mem[p][1]

\* cycleOne goes on only if the digest is not the one it remembers.
NeedsDeploy(p, d) == d # mem[p][at[p]]

\* Mutant: cmdRun forgets to set w.DryRun.
IsDryRunForgotten(p) == FALSE

\* cycleOne stops after Parse in a dry run.
IsDryRun(p) == Mode[p] = "check"

\* The artifact the deploy of p reads.
Pulled(p) == art[Name[at[p]]]

\* What Set makes of the file: the whole map of p, with the new entry.
Recorded(p) == [mem[p] EXCEPT ![at[p]] = cur[p]]

-----------------------------------------------------------------------------
(* The registry, as CI sees it.                                            *)

\* What a tag may be moved to: a new artifact, or also back to an old one.
Pushable(r) == IF Rollback THEN Digest \ {0, tag[r]} ELSE Digest \intersect {tag[r] + 1}

\* With Rollback, the pushes need a bound of their own.
Push(r) ==
  /\ \E d \in Pushable(r) : tag' = [tag EXCEPT ![r] = d]
  /\ IF Rollback THEN MayFail(FALSE) ELSE UNCHANGED faults
  /\ UNCHANGED <<disk, mem, holders, pc, at, cur, ann, art, host, cancelled>>

-----------------------------------------------------------------------------
(* One cycle: RunOnce and cycleOne.                                        *)

\* Mutant: Open returns the empty store although the file exists.
StartEmpty(p) ==
  /\ pc[p] = "off"
  /\ Goto(p, "ready")
  /\ UNCHANGED <<tag, disk, mem, holders, at, cur, ann, art, host, cancelled, faults>>

\* cmdRun: New opens the state file; Run and RunOnce start with a cycle.
Start(p) ==
  /\ pc[p] = "off"
  /\ mem' = [mem EXCEPT ![p] = disk]
  /\ Goto(p, "ready")
  /\ UNCHANGED <<tag, disk, holders, at, cur, ann, art, host, cancelled, faults>>

\* Mutant: the first repository is taken to be number 0.
AcquireFromZero(p) ==
  /\ pc[p] = "ready"
  /\ Lock!Take(p)
  /\ Goto(p, "loop")
  /\ at' = [at EXCEPT ![p] = 0]
  /\ UNCHANGED <<tag, disk, mem, cur, ann, art, host, cancelled, faults>>

\* Mutant: the cycle goes on without the lock.
AcquireAnyway(p) ==
  /\ pc[p] = "ready"
  /\ holders' = holders \union {p}
  /\ Goto(p, "loop")
  /\ at' = [at EXCEPT ![p] = 1]
  /\ UNCHANGED <<tag, disk, mem, cur, ann, art, host, cancelled, faults>>

Acquire(p) ==
  /\ pc[p] = "ready"
  /\ Lock!Take(p)
  /\ Goto(p, "loop")
  /\ at' = [at EXCEPT ![p] = 1]
  /\ UNCHANGED <<tag, disk, mem, cur, ann, art, host, cancelled, faults>>

\* ErrLocked, or a hard error of Acquire: no cycle this time.
Skip(p) ==
  /\ pc[p] = "ready"
  /\ MayFail(holders # {})
  /\ Goto(p, "rest")
  /\ UNCHANGED <<tag, disk, mem, holders, at, cur, ann, art, host, cancelled>>

InLoop(p) == pc[p] = "loop" /\ at[p] \in Repo /\ ~Stopped(p)

\* ResolveDigest, then the comparison with the remembered digest.
Resolve(p) ==
  /\ InLoop(p)
  /\ tag[at[p]] # 0
  /\ IF NeedsDeploy(p, tag[at[p]])
     THEN /\ cur' = [cur EXCEPT ![p] = tag[at[p]]]
          /\ Goto(p, "fetch")
          /\ UNCHANGED <<at, ann>>
     ELSE NextRepo(p)
  /\ UNCHANGED <<tag, disk, mem, holders, art, host, cancelled, faults>>

ResolveFails(p) ==
  /\ InLoop(p)
  /\ MayFail(tag[at[p]] = 0)
  /\ NextRepo(p)
  /\ UNCHANGED <<tag, disk, mem, holders, art, host, cancelled>>

\* FetchAnnotations and Parse; a dry run ends here.
Fetch(p) ==
  /\ pc[p] = "fetch" /\ ~Stopped(p)
  /\ IF tag[at[p]] \in Invalid \/ IsDryRun(p)
     THEN NextRepo(p)
     ELSE /\ ann' = [ann EXCEPT ![p] = tag[at[p]]]
          /\ Goto(p, "pull")
          /\ UNCHANGED <<at, cur>>
  /\ UNCHANGED <<tag, disk, mem, holders, art, host, cancelled, faults>>

FetchFails(p) ==
  /\ pc[p] = "fetch"
  /\ MayFail(Stopped(p))
  /\ NextRepo(p)
  /\ UNCHANGED <<tag, disk, mem, holders, art, host, cancelled>>

\* The artifact directory is cleared and filled from the tag.
Pull(p) ==
  /\ pc[p] = "pull" /\ ~Stopped(p)
  /\ art' = [art EXCEPT ![Name[at[p]]] = [repo |-> at[p], digest |-> tag[at[p]]]]
  /\ Goto(p, "deploy")
  /\ UNCHANGED <<tag, disk, mem, holders, at, cur, ann, host, cancelled, faults>>

\* Mutant: the error of Pull is dropped.
PullErrorDropped(p) ==
  /\ pc[p] = "pull"
  /\ MayFail(Stopped(p))
  /\ art' = [art EXCEPT ![Name[at[p]]] = Empty]
  /\ Goto(p, "deploy")
  /\ UNCHANGED <<tag, disk, mem, holders, at, cur, ann, host, cancelled>>

\* RemoveAll or Pull fails: what is left belongs to nobody.
PullFails(p) ==
  /\ pc[p] = "pull"
  /\ MayFail(Stopped(p))
  /\ art' = [art EXCEPT ![Name[at[p]]] = Empty]
  /\ NextRepo(p)
  /\ UNCHANGED <<tag, disk, mem, holders, host, cancelled>>

-----------------------------------------------------------------------------
(* deploy.Run seen from outside, then Set.                                 *)

\* validateRequest or the pre-hook ends the deploy before the strategy.
Refuse(p) ==
  /\ pc[p] = "deploy"
  /\ MayFail(ann[p] \in Unsafe \/ Stopped(p))
  /\ NextRepo(p)
  /\ UNCHANGED <<tag, disk, mem, holders, art, host, cancelled>>

\* The strategy touches the service or the target.
Apply(p) ==
  /\ pc[p] = "deploy" /\ ann[p] \notin Unsafe
  /\ host' = [host EXCEPT ![at[p]] = Applied(ann[p], Pulled(p).digest, FALSE)]
  /\ Goto(p, "applying")
  /\ UNCHANGED <<tag, disk, mem, holders, at, cur, ann, art, cancelled, faults>>

\* Strategy and healthcheck succeed.
Succeed(p) ==
  /\ pc[p] = "applying" /\ Pulled(p).digest \notin Bad
  /\ host' = [host EXCEPT ![at[p]] = Applied(@.spec, @.files, TRUE)]
  /\ Goto(p, "save")
  /\ UNCHANGED <<tag, disk, mem, holders, at, cur, ann, art, cancelled, faults>>

\* Mutant: Set is called before the error of deploy.Run is looked at.
FailButSave(p) ==
  /\ pc[p] = "applying"
  /\ MayFail(Pulled(p).digest \in Bad \/ Stopped(p))
  /\ mem' = [mem EXCEPT ![p] = Recorded(p)]
  /\ disk' = Recorded(p)
  /\ NextRepo(p)
  /\ UNCHANGED <<tag, holders, art, host, cancelled>>

\* Mutant: the digest is remembered in memory when the deploy begins.
FailButRemember(p) ==
  /\ pc[p] = "applying"
  /\ MayFail(Pulled(p).digest \in Bad \/ Stopped(p))
  /\ mem' = [mem EXCEPT ![p] = Recorded(p)]
  /\ NextRepo(p)
  /\ UNCHANGED <<tag, disk, holders, art, host, cancelled>>

\* The strategy stops half-way or the healthcheck fails: nothing is undone.
Fail(p) ==
  /\ pc[p] = "applying"
  /\ MayFail(Pulled(p).digest \in Bad \/ Stopped(p))
  /\ NextRepo(p)
  /\ UNCHANGED <<tag, disk, mem, holders, art, host, cancelled>>

\* Set: the map in memory first, then the file by write-and-rename.
Save(p) ==
  /\ pc[p] = "save"
  /\ mem' = [mem EXCEPT ![p] = Recorded(p)]
  /\ disk' = Recorded(p)
  /\ NextRepo(p)
  /\ UNCHANGED <<tag, holders, art, host, cancelled, faults>>

\* The file cannot be written: the process remembers the digest all the same.
SaveFails(p) ==
  /\ pc[p] = "save"
  /\ MayFail(FALSE)
  /\ mem' = [mem EXCEPT ![p] = Recorded(p)]
  /\ NextRepo(p)
  /\ UNCHANGED <<tag, disk, holders, art, host, cancelled>>

\* The list is done, or the context: the deferred Release runs.
Release(p) ==
  /\ pc[p] = "loop"
  /\ at[p] > NRepos \/ Stopped(p)
  /\ Lock!Drop(p)
  /\ Goto(p, "rest")
  /\ at' = [at EXCEPT ![p] = 1]
  /\ UNCHANGED <<tag, disk, mem, cur, ann, art, host, cancelled, faults>>

-----------------------------------------------------------------------------
(* Run and cmdRun around the cycles.                                       *)

\* The ticker fires.  When the context is done too, select takes either.
Tick(p) ==
  /\ pc[p] = "rest"
  /\ Mode[p] = "daemon"
  /\ Goto(p, "ready")
  /\ UNCHANGED <<tag, disk, mem, holders, at, cur, ann, art, host, cancelled, faults>>

\* Mutant: Run does not look at ctx.Done().
ExitIgnoresContext(p) ==
  /\ pc[p] = "rest"
  /\ Mode[p] # "daemon"
  /\ Ended(p)
  /\ UNCHANGED <<tag, disk, holders, at, cur, ann, art, host, faults>>

Exit(p) ==
  /\ pc[p] = "rest"
  /\ Mode[p] # "daemon" \/ Stopped(p)
  /\ Ended(p)
  /\ UNCHANGED <<tag, disk, holders, at, cur, ann, art, host, faults>>

Cancel(p) ==
  /\ pc[p] # "off" /\ ~Stopped(p)
  /\ MayFail(FALSE)
  /\ cancelled' = cancelled \union {p}
  /\ UNCHANGED <<tag, disk, mem, holders, pc, at, cur, ann, art, host>>

\* Killed: whatever it did stays, and the lock is there for the taking.
Crash(p) ==
  /\ pc[p] # "off"
  /\ MayFail(FALSE)
  /\ Ended(p)
  /\ holders' = holders \ {p}
  /\ at' = [at EXCEPT ![p] = 1]
  /\ cur' = [cur EXCEPT ![p] = 0]
  /\ ann' = [ann EXCEPT ![p] = 0]
  /\ UNCHANGED <<tag, disk, art, host>>

-----------------------------------------------------------------------------
Work(p) ==
  \/ Start(p) \/ Acquire(p) \/ Skip(p)
  \/ Resolve(p) \/ ResolveFails(p) \/ Fetch(p) \/ FetchFails(p)
  \/ Pull(p) \/ PullFails(p)
  \/ Refuse(p) \/ Apply(p) \/ Succeed(p) \/ Fail(p)
  \/ Save(p) \/ SaveFails(p) \/ Release(p) \/ Tick(p)

Next ==
  \/ \E r \in Repo : Push(r)
  \/ \E p \in Proc : Work(p) \/ Exit(p) \/ Cancel(p) \/ Crash(p)

Spec == Init /\ [][Next]_vars

\* CI pushes only while no cycle is running.
CalmNext == Next /\ (tag' # tag => holders = {})
Calm     == Init /\ [][CalmNext]_vars

\* A process that can work does; and select picks a case that is ready at
\* random, so a cancelled daemon does not take the ticker for ever.
FairSpec == Spec /\ \A p \in Proc : WF_vars(Work(p)) /\ SF_vars(Exit(p))

-----------------------------------------------------------------------------
TypeOK ==
  /\ tag \in [Repo -> Digest]
  /\ disk \in [Repo -> Digest]
  /\ mem \in [Proc -> [Repo -> Digest]]
  /\ holders \subseteq Proc
  /\ pc \in [Proc -> Cycle \union {"off", "ready", "rest"}]
  /\ at \in [Proc -> Place]
  /\ \A p \in Proc : pc[p] \in Cycle \ {"loop"} => at[p] \in Repo
  /\ cur \in [Proc -> Digest]
  /\ ann \in [Proc -> Digest]
  /\ art \in [Dir -> [repo : Repo \union {0}, digest : Digest]]
  /\ host \in [Repo -> [spec : Digest, files : Digest, whole : BOOLEAN]]
  /\ cancelled \subseteq Proc
  /\ faults \in Nat

(***************************************************************************)
(* What the state file vouches for is on the host: if the recorded digest  *)
(* is the one the tag points to, so that the next cycle will do nothing,   *)
(* then spec and files of exactly that artifact were applied, completely,  *)
(* and nothing was applied since (Resolve's comparison, the order of       *)
(* deploy.Run and Set, the three by-tag registry calls).                   *)
(***************************************************************************)
VouchedIsDeployed ==
  \A r \in Repo : disk[r] # 0 /\ disk[r] = tag[r] => host[r] = Whole(tag[r])

(***************************************************************************)
(* README, "Persist the new digest so the next cycle is a no-op": a digest *)
(* the state file records is not deployed a second time.                   *)
(***************************************************************************)
RecordedIsNotRedeployed ==
  \A p \in Proc : pc[p] = "applying" => disk[at[p]] # cur[p]

(***************************************************************************)
(* Package state: what is recorded is the last-deployed digest.  When Set  *)
(* is called, the target holds the artifact of the digest being recorded.  *)
(***************************************************************************)
RecordsWhatItDeployed ==
  \A p \in Proc : pc[p] = "save" => host[at[p]] = Whole(cur[p])

(***************************************************************************)
(* A deploy reads the artifact its own cycle pulled for this repository,   *)
(* although entries that differ only in their tag, and all processes,      *)
(* share one artifact directory (the lock around the cycle, RemoveAll      *)
(* before Pull, and one repository at a time).                             *)
(***************************************************************************)
DeploysOwnPull ==
  \A p \in Proc : pc[p] \in {"deploy", "applying"} =>
     /\ Pulled(p).repo = at[p]
     /\ Pulled(p).digest >= ann[p]
     /\ ann[p] >= cur[p]

(***************************************************************************)
(* While CI only pushes new artifacts, neither the record nor the target   *)
(* of a repository ever goes back to an earlier one, whatever fails and    *)
(* whenever the process dies or is restarted (Open, Get, Set).             *)
(***************************************************************************)
NeverGoesBack ==
  [][\A r \in Repo : disk'[r] >= disk[r] /\ host'[r].files >= host[r].files]_vars

(***************************************************************************)
(* `orascout check' shows what would be deployed, and no more: no step of  *)
(* it changes a target, the state file or an artifact directory.           *)
(***************************************************************************)
CheckChangesNothing ==
  [][\A p \in Proc : Mode[p] = "check" /\ pc'[p] # pc[p] => UNCHANGED <<disk, art, host>>]_vars

(***************************************************************************)
(* README: the daemon turns the registry into a deployment target.  When   *)
(* pushes, failures and signals come to an end, every target ends up with  *)
(* the artifact its tag points to, if that artifact can be deployed at all.*)
(***************************************************************************)
Deployable(d) == d # 0 /\ d \notin Invalid \union Unsafe \union Bad

Converges ==
  <>[](\A r \in Repo : Deployable(tag[r]) => host[r] = Whole(tag[r]))

(***************************************************************************)
(* A process that was told to stop does, from wherever it is in its cycle  *)
(* (Run's select, the context check of RunOnce and of the registry calls). *)
(***************************************************************************)
ShutsDown == \A p \in Proc : Stopped(p) ~> pc[p] = "off"
=============================================================================
