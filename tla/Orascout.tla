------------------------------- MODULE Orascout -------------------------------
(***************************************************************************)
(* The daemon on its machine: module Watcher with the parts it leaves out. *)
(*                                                                         *)
(*   - state.saveLocked: the state file is written to state.json.tmp and   *)
(*     renamed, in steps between which the process may be killed;          *)
(*   - the loss of power: nothing is synced, so what was not flushed by    *)
(*     then is gone, and all processes with it.  The file system is taken  *)
(*     to be ordered: what is found again is the files as they were at     *)
(*     some earlier moment, all of them at the same one;                   *)
(*   - pushLogs: after a cycle that deployed something, the log file goes  *)
(*     to the registry (logs_push and log_file are configured).            *)
(*                                                                         *)
(* `behind' is a history variable: no action reads it.                     *)
(***************************************************************************)
EXTENDS Watcher

CONSTANT MaxLosses  \* bound on the number of power losses

ASSUME OrascoutAssumption == MaxLosses \in Nat

VARIABLES
  writing,  \* where each process is in saveLocked
  draft,    \* the map in state.json.tmp, as a set: empty if it is not complete
  did,      \* each process deployed something in this cycle (deployed > 0)
  behind,   \* something was recorded since the log was last pushed
  durable,  \* the files as a loss of power would leave them
  losses    \* power losses so far

new     == <<writing, draft, did, behind, durable, losses>>
sysvars == <<vars, new>>

\* The state of Watcher, without the count that only bounds its failures.
observed == <<tag, disk, mem, holders, pc, at, cur, ann, art, host, cancelled>>

Files == [disk |-> disk, host |-> host, art |-> art]

SysInit ==
  /\ Init
  /\ writing = [p \in Proc |-> "no"]
  /\ draft = {}
  /\ did = [p \in Proc |-> FALSE]
  /\ behind = FALSE
  /\ durable = Files
  /\ losses = 0

-----------------------------------------------------------------------------
(* saveLocked.  The entry is set in the map first; nobody but the process  *)
(* reads it, so the change is part of the last step here.                  *)

OpenDraft(p) ==
  /\ pc[p] = "save" /\ writing[p] = "no"
  /\ draft' = {}
  /\ writing' = [writing EXCEPT ![p] = "fill"]
  /\ UNCHANGED <<vars, did, behind, durable, losses>>

\* Mutant: the map is marshalled before the entry is set.
FillDraftTooEarly(p) ==
  /\ writing[p] = "fill"
  /\ draft' = {mem[p]}
  /\ writing' = [writing EXCEPT ![p] = "rename"]
  /\ UNCHANGED <<vars, did, behind, durable, losses>>

FillDraft(p) ==
  /\ writing[p] = "fill"
  /\ draft' = {Recorded(p)}
  /\ writing' = [writing EXCEPT ![p] = "rename"]
  /\ UNCHANGED <<vars, did, behind, durable, losses>>

\* What Set and cycleOne do when the rename has succeeded.
RenameTo(p, content) ==
  /\ writing[p] = "rename"
  /\ disk' = content
  /\ mem' = [mem EXCEPT ![p] = Recorded(p)]
  /\ draft' = {}
  /\ writing' = [writing EXCEPT ![p] = "no"]
  /\ did' = [did EXCEPT ![p] = TRUE]
  /\ behind' = TRUE
  /\ NextRepo(p)
  /\ UNCHANGED <<tag, holders, art, host, cancelled, faults, losses>>

\* Mutant: the state file is synced, but not the target it speaks of.
RenameDraftSynced(p) ==
  \E c \in draft : RenameTo(p, c) /\ durable' = [durable EXCEPT !.disk = c]

RenameDraft(p) == \E c \in draft : RenameTo(p, c) /\ UNCHANGED durable

\* Mutant: the store stays in the middle of writing.
DraftFailsHalfway(p) == SaveFails(p) /\ UNCHANGED new

\* MkdirAll, WriteFile or Rename fails; what is in state.json.tmp stays.
DraftFails(p) ==
  /\ SaveFails(p)
  /\ writing' = [writing EXCEPT ![p] = "no"]
  /\ UNCHANGED <<draft, did, behind, durable, losses>>

-----------------------------------------------------------------------------
(* The end of RunOnce.                                                     *)

\* Mutant: `deployed' says whether the last repository was deployed.
ResolveForgets(p) ==
  /\ Resolve(p)
  /\ did' = [did EXCEPT ![p] = FALSE]
  /\ UNCHANGED <<writing, draft, behind, durable, losses>>

SysResolve(p) == Resolve(p) /\ UNCHANGED new

Shipping(p) == pc[p] = "loop" /\ at[p] > NRepos /\ did[p]

PushLogs(p) ==
  /\ Shipping(p) /\ ~Stopped(p)
  /\ did' = [did EXCEPT ![p] = FALSE]
  /\ behind' = FALSE
  /\ UNCHANGED <<vars, writing, draft, durable, losses>>

\* A push that fails is only logged.  Nobody retries it.
PushLogsFails(p) ==
  /\ Shipping(p)
  /\ MayFail(Stopped(p))
  /\ did' = [did EXCEPT ![p] = FALSE]
  /\ UNCHANGED <<observed, writing, draft, behind, durable, losses>>

\* A cycle that was cancelled returns from inside the loop, and pushes nothing.
SysRelease(p) ==
  /\ Release(p) /\ ~Shipping(p)
  /\ did' = [did EXCEPT ![p] = FALSE]
  /\ UNCHANGED <<writing, draft, behind, durable, losses>>

SysCrash(p) ==
  /\ Crash(p)
  /\ writing' = [writing EXCEPT ![p] = "no"]
  /\ did' = [did EXCEPT ![p] = FALSE]
  /\ UNCHANGED <<draft, behind, durable, losses>>

-----------------------------------------------------------------------------
(* The machine.                                                            *)

\* The kernel writes everything back.
Flush ==
  /\ losses < MaxLosses /\ durable # Files
  /\ durable' = Files
  /\ UNCHANGED <<vars, writing, draft, did, behind, losses>>

PowerLoss ==
  /\ losses < MaxLosses
  /\ losses' = losses + 1
  /\ disk' = durable.disk /\ host' = durable.host /\ art' = durable.art
  /\ pc' = [p \in Proc |-> "off"]
  /\ mem' = [p \in Proc |-> [r \in Repo |-> 0]]
  /\ at' = [p \in Proc |-> 1]
  /\ cur' = [p \in Proc |-> 0] /\ ann' = [p \in Proc |-> 0]
  /\ holders' = {} /\ cancelled' = {}
  /\ writing' = [p \in Proc |-> "no"]
  /\ did' = [p \in Proc |-> FALSE]
  /\ UNCHANGED <<tag, faults, draft, behind, durable>>

-----------------------------------------------------------------------------
SysWork(p) ==
  \/ /\ \/ Start(p) \/ Acquire(p) \/ Skip(p) \/ ResolveFails(p)
        \/ Fetch(p) \/ FetchFails(p) \/ Pull(p) \/ PullFails(p)
        \/ Refuse(p) \/ Apply(p) \/ Succeed(p) \/ Fail(p) \/ Tick(p)
     /\ UNCHANGED new
  \/ SysResolve(p)
  \/ OpenDraft(p) \/ FillDraft(p) \/ RenameDraft(p) \/ DraftFails(p)
  \/ PushLogs(p) \/ PushLogsFails(p) \/ SysRelease(p)

SysExit(p) == Exit(p) /\ UNCHANGED new

SysNext ==
  \/ \E r \in Repo : Push(r) /\ UNCHANGED new
  \/ \E p \in Proc : SysWork(p) \/ SysExit(p) \/ SysCrash(p)
  \/ \E p \in Proc : Cancel(p) /\ UNCHANGED new
  \/ Flush \/ PowerLoss

SysSpec == SysInit /\ [][SysNext]_sysvars

\* As for FairSpec of Watcher: processes run, and are started again; nobody
\* has to push, to fail, or to flush.
SysFairSpec ==
  SysSpec /\ \A p \in Proc : WF_sysvars(SysWork(p)) /\ SF_sysvars(SysExit(p))

-----------------------------------------------------------------------------
SysTypeOK ==
  /\ TypeOK
  /\ writing \in [Proc -> {"no", "fill", "rename"}]
  /\ \A p \in Proc : writing[p] # "no" => pc[p] = "save"
  /\ draft \subseteq [Repo -> Digest]
  /\ \A p \in Proc : writing[p] = "rename" => draft # {}
  /\ did \in [Proc -> BOOLEAN]
  /\ behind \in BOOLEAN
  /\ durable.disk \in [Repo -> Digest]
  /\ losses \in 0 .. MaxLosses

(***************************************************************************)
(* Module Watcher says all there is to say about one machine that keeps    *)
(* its power: every step here is one of its steps or invisible to it.  In  *)
(* particular writing the state file by way of state.json.tmp is the one   *)
(* step it is taken for there, whatever is left of earlier attempts.       *)
(***************************************************************************)
ImplementsWatcher == Init /\ [][Next \/ losses' # losses]_observed

(***************************************************************************)
(* Logs come with the work they are about: as long as nothing fails and    *)
(* nobody is told to stop, whatever was recorded is in the pushed log when *)
(* the cycle is over (config: "after any cycle that performed work").      *)
(***************************************************************************)
LogsKeepUp == behind /\ holders = {} => faults > 0 \/ losses > 0
=============================================================================
