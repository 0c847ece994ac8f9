------------------------------- MODULE Lockfile -------------------------------
(***************************************************************************)
(* internal/lockfile: the PID file that keeps two orascout cycles apart.   *)
(*                                                                         *)
(* Acquire is a sequence of separate system calls on one path, so between  *)
(* any two of them another process may act, or the process may die.  Each  *)
(* action below is one of those calls with the code up to the next one.    *)
(*                                                                         *)
(* The file is described by two variables: `creator', the process whose    *)
(* O_EXCL open made the file the path names now (NoProc: no such file),    *)
(* and `content', the pid written into it (Blank: nothing yet).  A write   *)
(* through a descriptor whose file is no longer the one at the path        *)
(* changes neither.                                                        *)
(*                                                                         *)
(* `outdated' and `breaches' are history variables: no action reads them.  *)
(***************************************************************************)
EXTENDS Naturals

CONSTANTS
  Proc,        \* orascout processes that use one lock_file
  Pid,         \* process ids the kernel hands out
  NoProc,      \* "no file"
  NoPid,       \* pid of a process that is not running
  Blank,       \* content of a file nobody has written to
  MaySignal,   \* <<p, q>>: p may send signal 0 to q (same user, or root)
  ForeignPid,  \* pids that unrelated programs may come to have
  IOErrors,    \* BOOLEAN: system calls may fail for reasons of the disk
  MaxCrash     \* bound on the number of kills

ASSUME LockfileAssumption ==
  /\ NoProc \notin Proc
  /\ NoPid \notin Pid
  /\ Blank \notin Pid
  /\ MaySignal \subseteq Proc \X Proc
  /\ \A p \in Proc : <<p, p>> \in MaySignal
  /\ ForeignPid \subseteq Pid
  /\ IOErrors \in BOOLEAN
  /\ MaxCrash \in Nat

VARIABLES
  creator,   \* who created the file now at the path, or NoProc
  content,   \* what that file contains
  pc,        \* where each process is in Acquire/Release
  pid,       \* the pid of each running process
  seen,      \* the pid each process last read from the file
  foreign,   \* pids of running programs that are not orascout
  crashes,   \* how many processes were killed so far
  outdated,  \* processes acting on a verdict about a file since replaced
  breaches   \* the ways a verdict has been wrong so far

vars == <<creator, content, pc, pid, seen, foreign, crashes, outdated, breaches>>

\* Between two cycles: just started, or after a cycle that ran, was skipped
\* (ErrLocked), or ended in a hard error.
Rested  == {"done", "skipped", "failed"}
Resting == Rested \union {"idle"}

\* In Acquire: about to write the pid, to read the file, to send signal 0,
\* to remove the stale file, to create it anew; then the lock is held.
Acquiring == {"write", "check", "probe", "remove", "recreate"}

Running(p) == pc[p] # "off"
Holding(p) == pc[p] = "held"
Claims(p)  == pc[p] \in {"write", "held"}
Judging    == {q \in Proc : pc[q] \in {"probe", "remove"}}

FileExists == creator # NoProc

Init ==
  /\ creator = NoProc
  /\ content = Blank
  /\ pc = [p \in Proc |-> "off"]
  /\ pid = [p \in Proc |-> NoPid]
  /\ seen = [p \in Proc |-> NoPid]
  /\ foreign = {}
  /\ crashes = 0
  /\ outdated = {}
  /\ breaches = {}

-----------------------------------------------------------------------------
(* Helpers shared by the actions.                                          *)

Goto(p, l) == pc' = [pc EXCEPT ![p] = l]

\* O_CREATE|O_EXCL succeeded: the path names a new, empty file, and whoever
\* was judging the previous one is now out of date.
CreateFile(p) ==
  /\ creator' = p
  /\ content' = Blank
  /\ outdated' = outdated \union (Judging \ {p})

\* os.Remove(path): removes whatever file is at the path.
RemoveFile ==
  /\ creator' = NoProc
  /\ content' = Blank

\* Mutants: the comparison with os.Getpid() inverted; the same left out.
StaleContentInverted(p)  == content = Blank \/ content # pid[p]
StaleContentNotMine(p)   == content = Blank

\* isStale's verdict on what it read, before it looks at any process.
StaleContent(p) == content = Blank \/ content = pid[p]

\* Signal 0 reaches an orascout process with the pid that was read.
Reaches(p) == \E q \in Proc : /\ Running(q)
                              /\ pid[q] = seen[p]
                              /\ <<p, q>> \in MaySignal

\* An orascout process has that pid, whoever may signal it.
LiveOwner(p) == \E q \in Proc : Running(q) /\ pid[q] = seen[p]

-----------------------------------------------------------------------------
(* Acquire                                                                 *)

\* Mutant: O_EXCL left out of the first open.
TryCreateTruncating(p) ==
  /\ pc[p] \in Resting
  /\ CreateFile(p)
  /\ Goto(p, "write")
  /\ UNCHANGED <<pid, seen, foreign, crashes, breaches>>

\* The file is absent: it is created, and the pid is written next.
TryCreate(p) ==
  /\ pc[p] \in Resting
  /\ ~FileExists
  /\ CreateFile(p)
  /\ Goto(p, "write")
  /\ UNCHANGED <<pid, seen, foreign, crashes, breaches>>

\* The file exists (ErrExist): it will be inspected.
FindExisting(p) ==
  /\ pc[p] \in Resting
  /\ FileExists
  /\ Goto(p, "check")
  /\ UNCHANGED <<creator, content, pid, seen, foreign, crashes, outdated, breaches>>

\* MkdirAll or the open fails otherwise.
OpenFails(p) ==
  /\ IOErrors
  /\ pc[p] \in Resting
  /\ Goto(p, "failed")
  /\ UNCHANGED <<creator, content, pid, seen, foreign, crashes, outdated, breaches>>

\* The pid reaches the file p created, which may no longer be at the path.
WritePid(p) ==
  /\ pc[p] = "write"
  /\ content' = IF creator = p THEN pid[p] ELSE content
  /\ Goto(p, "held")
  /\ UNCHANGED <<creator, pid, seen, foreign, crashes, outdated, breaches>>

\* The write fails: the path is removed, whatever file it names.
WriteFails(p) ==
  /\ IOErrors
  /\ pc[p] = "write"
  /\ RemoveFile
  /\ Goto(p, "failed")
  /\ UNCHANGED <<pid, seen, foreign, crashes, outdated, breaches>>

\* isStale reads the file.  Its absence is an error like any other.
ReadGone(p) ==
  /\ pc[p] = "check"
  /\ ~FileExists \/ IOErrors
  /\ Goto(p, "failed")
  /\ UNCHANGED <<creator, content, pid, seen, foreign, crashes, outdated, breaches>>

Read(p) ==
  /\ pc[p] = "check"
  /\ FileExists
  /\ Goto(p, IF StaleContent(p) THEN "remove" ELSE "probe")
  /\ seen' = [seen EXCEPT ![p] = IF StaleContent(p) THEN NoPid ELSE content]
  /\ outdated' = outdated \ {p}
  /\ breaches' = IF content = Blank /\ pc[creator] = "write"
                 THEN breaches \union {"blank"} ELSE breaches
  /\ UNCHANGED <<creator, content, pid, foreign, crashes>>

\* Signal 0 is delivered: the owner is taken to be alive.  A pid that an
\* unrelated program has now is alive as well, if p may signal that program.
ProbeAlive(p) ==
  /\ pc[p] = "probe"
  /\ Reaches(p) \/ seen[p] \in foreign
  /\ Goto(p, "skipped")
  /\ seen' = [seen EXCEPT ![p] = NoPid]
  /\ outdated' = outdated \ {p}
  /\ UNCHANGED <<creator, content, pid, foreign, crashes, breaches>>

\* Signal 0 returns an error, ESRCH and EPERM alike: the file is stale.
ProbeStale(p) ==
  /\ pc[p] = "probe"
  /\ ~Reaches(p)
  /\ Goto(p, "remove")
  /\ seen' = [seen EXCEPT ![p] = NoPid]
  /\ breaches' = IF LiveOwner(p) THEN breaches \union {"unsignalable"} ELSE breaches
  /\ UNCHANGED <<creator, content, pid, foreign, crashes, outdated>>

Remove(p) ==
  /\ pc[p] = "remove"
  /\ FileExists
  /\ RemoveFile
  /\ Goto(p, "recreate")
  /\ breaches' = IF p \in outdated THEN breaches \union {"replaced"} ELSE breaches
  /\ outdated' = outdated \ {p}
  /\ UNCHANGED <<pid, seen, foreign, crashes>>

RemoveFails(p) ==
  /\ pc[p] = "remove"
  /\ ~FileExists \/ IOErrors
  /\ Goto(p, "failed")
  /\ outdated' = outdated \ {p}
  /\ UNCHANGED <<creator, content, pid, seen, foreign, crashes, breaches>>

\* Mutant: O_EXCL left out of the second open.
RecreateTruncating(p) ==
  /\ pc[p] = "recreate"
  /\ CreateFile(p)
  /\ Goto(p, "write")
  /\ UNCHANGED <<pid, seen, foreign, crashes, breaches>>

Recreate(p) ==
  /\ pc[p] = "recreate"
  /\ ~FileExists
  /\ CreateFile(p)
  /\ Goto(p, "write")
  /\ UNCHANGED <<pid, seen, foreign, crashes, breaches>>

RecreateFails(p) ==
  /\ pc[p] = "recreate"
  /\ FileExists \/ IOErrors
  /\ Goto(p, "failed")
  /\ UNCHANGED <<creator, content, pid, seen, foreign, crashes, outdated, breaches>>

-----------------------------------------------------------------------------
(* Release, and the life of the processes                                  *)

\* The path is removed, whatever file it names; its absence is no error.
Release(p) ==
  /\ pc[p] = "held"
  /\ RemoveFile
  /\ Goto(p, "done")
  /\ UNCHANGED <<pid, seen, foreign, crashes, outdated, breaches>>

\* RunOnce drops the error of Release: the cycle ends and the file stays.
ReleaseFails(p) ==
  /\ IOErrors
  /\ pc[p] = "held"
  /\ Goto(p, "done")
  /\ UNCHANGED <<creator, content, pid, seen, foreign, crashes, outdated, breaches>>

\* A process gets a pid nobody has now; somebody may have had it before.
StartProc(p) ==
  /\ pc[p] = "off"
  /\ \E x \in Pid \ foreign :
       /\ \A q \in Proc : pid[q] # x
       /\ pid' = [pid EXCEPT ![p] = x]
  /\ Goto(p, "idle")
  /\ UNCHANGED <<creator, content, seen, foreign, crashes, outdated, breaches>>

\* Mutant: the pid stays taken when the process has returned.
ExitKeepsPid(p) ==
  /\ pc[p] \in Rested
  /\ Goto(p, "off")
  /\ UNCHANGED <<creator, content, pid, seen, foreign, crashes, outdated, breaches>>

\* The program returns only after a cycle: Run takes one on entry.
Exit(p) ==
  /\ pc[p] \in Rested
  /\ Goto(p, "off")
  /\ pid' = [pid EXCEPT ![p] = NoPid]
  /\ UNCHANGED <<creator, content, seen, foreign, crashes, outdated, breaches>>

\* SIGKILL, or the power of one machine: nothing is cleaned up.
Crash(p) ==
  /\ crashes < MaxCrash
  /\ Running(p)
  /\ crashes' = crashes + 1
  /\ Goto(p, "off")
  /\ pid' = [pid EXCEPT ![p] = NoPid]
  /\ seen' = [seen EXCEPT ![p] = NoPid]
  /\ outdated' = outdated \ {p}
  /\ UNCHANGED <<creator, content, foreign, breaches>>

ForeignStart(x) ==
  /\ x \notin foreign
  /\ \A q \in Proc : pid[q] # x
  /\ foreign' = foreign \union {x}
  /\ UNCHANGED <<creator, content, pc, pid, seen, crashes, outdated, breaches>>

ForeignExit(x) ==
  /\ x \in foreign
  /\ foreign' = foreign \ {x}
  /\ UNCHANGED <<creator, content, pc, pid, seen, crashes, outdated, breaches>>

-----------------------------------------------------------------------------
\* What a process does when the scheduler lets it.
Step(p) ==
  \/ TryCreate(p) \/ FindExisting(p)
  \/ WritePid(p)
  \/ ReadGone(p) \/ Read(p)
  \/ ProbeAlive(p) \/ ProbeStale(p)
  \/ Remove(p) \/ RemoveFails(p)
  \/ Recreate(p) \/ RecreateFails(p)
  \/ Release(p)

\* What the environment does to it.
Mishap(p) ==
  \/ OpenFails(p) \/ WriteFails(p) \/ ReleaseFails(p)
  \/ StartProc(p) \/ Exit(p) \/ Crash(p)

Next ==
  \/ \E p \in Proc : Step(p) \/ Mishap(p)
  \/ \E x \in ForeignPid : ForeignStart(x) \/ ForeignExit(x)

Spec == Init /\ [][Next]_vars

\* The executions in which no verdict has been wrong.
QuietSpec == Init /\ [][Next /\ breaches' = {}]_vars

\* A process that runs makes its next step; the ticker of Run starts a cycle
\* again after each one.  Nobody has to be started, or started again.
FairSpec == Spec /\ \A p \in Proc : WF_vars(Step(p))

-----------------------------------------------------------------------------
TypeOK ==
  /\ creator \in Proc \union {NoProc}
  /\ content \in Pid \union {Blank}
  /\ pc \in [Proc -> Resting \union Acquiring \union {"off", "held"}]
  /\ pid \in [Proc -> Pid \union {NoPid}]
  /\ \A p \in Proc : pid[p] = NoPid <=> pc[p] = "off"
  /\ seen \in [Proc -> Pid \union {NoPid}]
  /\ foreign \subseteq Pid
  /\ crashes \in Nat
  /\ outdated \subseteq Proc
  /\ breaches \subseteq {"blank", "unsignalable", "replaced"}

(***************************************************************************)
(* Two cycles never run at once, whatever dies or fails, as long as no     *)
(* verdict was wrong in one of the three ways `breaches' records: a file   *)
(* read between its creation and the write of the pid, a live owner that   *)
(* may not be signalled, a stale file that was replaced before the removal.*)
(* (Acquire, isStale, Release)                                             *)
(***************************************************************************)
BreachFreeExclusion ==
  breaches = {} => \A p, q \in Proc : Holding(p) /\ Holding(q) => p = q

(***************************************************************************)
(* With the same proviso, the file at the path names the process that      *)
(* holds the lock for as long as it holds it: nobody's clean-up removes or *)
(* replaces it (the three unconditional os.Remove calls).                  *)
(***************************************************************************)
HolderOwnsFile ==
  breaches = {} => \A p \in Proc : Holding(p) => creator = p /\ content = pid[p]

(***************************************************************************)
(* The promise of the package comment: two orascout cycles can't run       *)
(* concurrently.                                                           *)
(***************************************************************************)
MutualExclusion == \A p, q \in Proc : Holding(p) /\ Holding(q) => p = q

(***************************************************************************)
(* The comment of RunOnce and SPEC section 9: finding the lock taken is    *)
(* normal, not an error.  Without disk errors and kills, an Acquire ends   *)
(* with the lock or with ErrLocked.                                        *)
(***************************************************************************)
ContentionIsBenign == \A p \in Proc : pc[p] # "failed"

\* Some process runs again and again: the daemon, or what the timer starts.
CyclesGoOn == \E p \in Proc : []<>Running(p)

\* Programs that are not orascout do not keep the pid in the file for ever.
ForeignGone == <>[](content \notin foreign)

Orphaned(p) == creator = p /\ ~Claims(p)

(***************************************************************************)
(* A lock file whose creator was killed, before or after it wrote its pid, *)
(* does not block the cycles for ever, as long as there are cycles: isStale*)
(* finds it stale and it goes, whether or not the creator is ever started  *)
(* again, and also when its pid has been given to another orascout.  When  *)
(* an unrelated program has been given the pid, isStale may say `locked'   *)
(* for as long as that program runs (lockfile.go:105-108), so the claim is *)
(* for those that end (ForeignGone).                                       *)
(***************************************************************************)
OrphanReclaimed ==
  CyclesGoOn /\ ForeignGone => \A p \in Proc : Orphaned(p) ~> ~Orphaned(p)

(***************************************************************************)
(* The lock the watcher is promised.  A process is inside from its         *)
(* exclusive creation of the file on.                                      *)
(***************************************************************************)
Holders == {p \in Proc : Claims(p)}

Abstract == INSTANCE CycleLock WITH holders <- Holders

ImplementsCycleLock == Abstract!Spec
=============================================================================
