-------------------------------- MODULE Deploy --------------------------------
(***************************************************************************)
(* internal/deploy: what deploy.Run does to one target, step by step.      *)
(*                                                                         *)
(* A target is a directory with a file of interest (Main: the jar, the     *)
(* war, or one file of a static tree) and others, each with the version    *)
(* it came from, the .orascout.tmp files beside them, and the service that *)
(* runs Main.  The watcher asks for the version its tag points to until    *)
(* that version is deployed.  Any command or system call may fail, a       *)
(* command that fails may have had its effect all the same, or have it     *)
(* later (the context kills systemctl, not what systemctl asked for), and  *)
(* the process may be killed between any two steps.  A hook is a script of *)
(* the artifact: what it does to the target is its own affair.             *)
(***************************************************************************)
EXTENDS Naturals

CONSTANTS
  MaxVersion,  \* bound on the versions pushed
  NFiles,      \* entries the target directory may have
  Specs,       \* the annotations an artifact may carry
  MaxFaults    \* bound on failures and kills

Version == 1 .. MaxVersion
File    == 1 .. NFiles
Main    == 1
Nothing == 0
Torn    == MaxVersion + 1  \* a file that was not written to its end

Types == {"jar", "war", "static", "run-once", "hook-only"}

(***************************************************************************)
(* An artifact, as far as deploy.Run tells one from another.               *)
(*   target: "denied" is refused by validateRequest; "linked" is a clear   *)
(*           target that turns out to be a symlink to a protected path;    *)
(*   source: source.file or source.dir; "outside" is refused by            *)
(*           securePathJoin, "link" is a directory reached by a symlink;   *)
(*   pre:    the pre-hook, "outside" as for source;                        *)
(*   ships:  the files the source has for the target;                      *)
(*   links:  those of them that are symlinks or special files;             *)
(*   clear:  target.clear or target.clear-parent, defaults applied;        *)
(*   managed: the service manager is not "none";                           *)
(*   perms:  target.mode or target.owner is set;                           *)
(*   health: "sick" is a healthcheck that never passes.                    *)
(***************************************************************************)
SpecType == [type : Types, target : {"ok", "denied", "linked"},
             source : {"ok", "outside", "missing", "link"},
             pre : {"none", "ok", "outside"},
             ships : SUBSET File, links : SUBSET File,
             clear : BOOLEAN, managed : BOOLEAN, perms : BOOLEAN,
             health : {"none", "ok", "sick"}]

ASSUME DeployAssumption ==
  /\ MaxVersion \in Nat \ {0}
  /\ NFiles \in Nat \ {0}
  /\ Specs \subseteq SpecType
  /\ MaxFaults \in Nat
  /\ \A s \in Specs : /\ s.links \subseteq s.ships
                      /\ s.type \in {"jar", "war"} =>
                           s.ships = {Main} /\ s.source # "link"

VARIABLES
  artifact,  \* what each version carries (never changes)
  want,      \* the version the tag points to
  pc,        \* where deploy.Run is; "idle" between two deploys
  v,         \* the version it is deploying
  todo,      \* files still to be copied
  dir,       \* the version of each file in the target directory
  tmp,       \* the same for the .orascout.tmp files
  moded,     \* files that got target.mode and target.owner
  svc,       \* the service: "up" or "down"
  runs,      \* the version of Main it was started with
  job,       \* what systemd was asked to bring it to and has not yet
  verdict,   \* the version last deployed, Nothing since a deploy touched it
  faults

vars == <<artifact, want, pc, v, todo, dir, tmp, moded, svc, runs, job, verdict, faults>>

Init ==
  /\ \E t \in Types :
       artifact \in [Version -> {s \in Specs : s.type = t}]
  /\ want = 1
  /\ pc = "idle"
  /\ v = Nothing
  /\ todo = {}
  /\ dir = [f \in File |-> Nothing]
  /\ tmp = [f \in File |-> Nothing]
  /\ moded = {}
  /\ svc \in {"up", "down"}
  /\ runs = Nothing
  /\ job = "none"
  /\ verdict = Nothing
  /\ faults = 0

-----------------------------------------------------------------------------
(* Helpers.                                                                *)

spec == artifact[v]

MayFail(forced) ==
  \/ forced /\ UNCHANGED faults
  \/ ~forced /\ faults < MaxFaults /\ faults' = faults + 1

HasService == spec.type \in {"jar", "war"} /\ spec.managed
HasFiles   == spec.type \in {"jar", "war", "static"}
Clears     == spec.type \in {"war", "static"} /\ spec.clear

Lowest(S) == CHOOSE f \in S : \A g \in S : f <= g

\* The files of artifact s the copy will meet.  filepath.Walk does not follow a symlink at
\* its root, and the callback returns nil for the root.
Walked(s) == IF s.source = "link" THEN {} ELSE s.ships

\* Mutant: the clear is forgotten.
AfterStopNoClear == "copy"

\* Where the strategy goes once the service is down.
AfterStop == IF Clears THEN "clear" ELSE "copy"

\* Where copyFile or copyDir goes on with `rest' still to be copied.
AfterCopy(rest) ==
  IF rest # {} THEN "copy" ELSE IF spec.perms THEN "perms" ELSE "start"

Entries == {<<"dir", f>> : f \in {g \in File : dir[g] # Nothing}}
             \union {<<"tmp", f>> : f \in {g \in File : tmp[g] # Nothing}}

target == <<dir, tmp, moded>>
unit   == <<svc, runs, job>>
caller == <<artifact, want>>

-----------------------------------------------------------------------------
(* The caller: the tag moves on; the watcher asks for what is not deployed.*)

Publish ==
  /\ want < MaxVersion
  /\ want' = want + 1
  /\ UNCHANGED <<artifact, pc, v, todo, target, unit, verdict, faults>>

Run ==
  /\ pc = "idle" /\ verdict # want
  /\ v' = want
  /\ pc' = "validate"
  /\ UNCHANGED <<caller, todo, target, unit, verdict, faults>>

\* Mutant: the request outlives its deploy.
AbortKeepsRequest ==
  /\ pc' = "idle"
  /\ v' = v
  /\ todo' = {}

\* An error return: nothing is undone.
Abort ==
  /\ pc' = "idle"
  /\ v' = Nothing
  /\ todo' = {}

\* One of the path checks is why.
Reject ==
  /\ Abort
  /\ UNCHANGED <<caller, target, unit, verdict, faults>>

-----------------------------------------------------------------------------
(* deploy.Run up to the strategy.                                          *)

\* validateRequest looks at target.path only, and only if the type has one.
TargetDenied == HasFiles /\ spec.target = "denied"

\* Mutant: the error of validateRequest is only logged.
ValidateLogsOnly ==
  /\ pc = "validate"
  /\ pc' = "pre"
  /\ UNCHANGED <<caller, v, todo, target, unit, verdict, faults>>

Validate ==
  /\ pc = "validate" /\ ~TargetDenied
  /\ pc' = "pre"
  /\ UNCHANGED <<caller, v, todo, target, unit, verdict, faults>>

RejectTarget == pc = "validate" /\ TargetDenied /\ Reject

RejectPreHook == pc = "pre" /\ spec.pre = "outside" /\ Reject

\* runHook: nothing for a blank path, otherwise the script runs to its end.
PreHook ==
  /\ pc = "pre" /\ spec.pre # "outside"
  /\ pc' = "source"
  /\ UNCHANGED <<caller, v, todo, target, unit, verdict, faults>>

PreHookFails ==
  /\ pc = "pre" /\ spec.pre = "ok"
  /\ MayFail(FALSE)
  /\ Abort
  /\ UNCHANGED <<caller, target, unit, verdict>>

-----------------------------------------------------------------------------
(* The strategies.                                                         *)

\* securePathJoin on source.file or source.dir, first thing in Apply.
RejectSource ==
  /\ pc = "source" /\ spec.type # "hook-only" /\ spec.source = "outside"
  /\ Reject

ResolveSource ==
  /\ pc = "source" /\ (spec.source # "outside" \/ spec.type = "hook-only")
  /\ pc' = CASE spec.type = "run-once"  -> "command"
             [] spec.type = "hook-only" -> "health"
             [] HasService              -> "stop"
             [] OTHER                   -> AfterStop
  /\ todo' = IF HasFiles THEN Walked(spec) ELSE {}
  /\ UNCHANGED <<caller, v, target, unit, verdict, faults>>

\* run-once: the command, with nothing to say about the target directory.
Command ==
  /\ pc = "command"
  /\ pc' = "health"
  /\ verdict' = Nothing
  /\ UNCHANGED <<caller, v, todo, target, unit, faults>>

CommandFails ==
  /\ pc = "command"
  /\ MayFail(spec.source = "missing")
  /\ Abort
  /\ verdict' = Nothing
  /\ UNCHANGED <<caller, target, unit>>

\* A new request takes the place of one systemd has not come to yet.
StopService ==
  /\ pc = "stop"
  /\ svc' = "down" /\ job' = "none"
  /\ pc' = AfterStop
  /\ verdict' = Nothing
  /\ UNCHANGED <<caller, v, todo, target, runs, faults>>

\* systemctl ends with an error: nothing was asked, or it is done all the
\* same, now or later.
StopUnclear ==
  \/ UNCHANGED <<svc, job>>
  \/ svc' = "down" /\ job' = "none"
  \/ svc' = svc /\ job' = "down"

\* Mutant: the error of stopService is dropped.
StopErrorDropped ==
  /\ pc = "stop"
  /\ MayFail(FALSE)
  /\ StopUnclear
  /\ pc' = AfterStop
  /\ verdict' = Nothing
  /\ UNCHANGED <<caller, v, todo, target, runs>>

StopFails ==
  /\ pc = "stop"
  /\ MayFail(FALSE)
  /\ StopUnclear
  /\ Abort
  /\ verdict' = Nothing
  /\ UNCHANGED <<caller, target, runs>>

\* guardClearDir resolves the directory to be cleared.
RejectClear == pc = "clear" /\ spec.target = "linked" /\ Reject

\* Mutant: the error of guardClearDir is dropped.
ClearUnguarded ==
  /\ pc = "clear"
  /\ \E e \in Entries :
       /\ dir' = IF e[1] = "dir" THEN [dir EXCEPT ![e[2]] = Nothing] ELSE dir
       /\ tmp' = IF e[1] = "tmp" THEN [tmp EXCEPT ![e[2]] = Nothing] ELSE tmp
       /\ moded' = IF e[1] = "dir" THEN moded \ {e[2]} ELSE moded
  /\ verdict' = Nothing
  /\ UNCHANGED <<caller, pc, v, todo, unit, faults>>

\* clearDirContents removes one entry after the other.
ClearEntry ==
  /\ pc = "clear" /\ spec.target # "linked"
  /\ \E e \in Entries :
       /\ dir' = IF e[1] = "dir" THEN [dir EXCEPT ![e[2]] = Nothing] ELSE dir
       /\ tmp' = IF e[1] = "tmp" THEN [tmp EXCEPT ![e[2]] = Nothing] ELSE tmp
       /\ moded' = IF e[1] = "dir" THEN moded \ {e[2]} ELSE moded
  /\ verdict' = Nothing
  /\ UNCHANGED <<caller, pc, v, todo, unit, faults>>

Cleared ==
  /\ pc = "clear" /\ spec.target # "linked" /\ Entries = {}
  /\ pc' = "copy"
  /\ UNCHANGED <<caller, v, todo, target, unit, verdict, faults>>

\* EvalSymlinks, ReadDir or RemoveAll fails: what is gone is gone.
ClearFails ==
  /\ pc = "clear" /\ spec.target # "linked"
  /\ MayFail(FALSE)
  /\ Abort
  /\ verdict' = Nothing
  /\ UNCHANGED <<caller, target, unit>>

\* Mutant: the temporary file is opened with O_EXCL instead of O_TRUNC.
CopyRefusedByLeftover ==
  \/ spec.source = "missing"
  \/ todo # {} /\ Lowest(todo) \in spec.links
  \/ todo # {} /\ tmp[Lowest(todo)] # Nothing

\* Lstat of the source fails, or finds something else than a regular file.
CopyRefused ==
  \/ spec.source = "missing"
  \/ todo # {} /\ Lowest(todo) \in spec.links

\* Mutant: the file is opened at its final name.
OpenInPlace ==
  /\ pc = "copy" /\ todo # {} /\ ~CopyRefused
  /\ dir' = [dir EXCEPT ![Lowest(todo)] = Torn]
  /\ tmp' = [tmp EXCEPT ![Lowest(todo)] = Torn]
  /\ pc' = "fill"
  /\ verdict' = Nothing
  /\ UNCHANGED <<caller, v, todo, moded, unit, faults>>

\* copyFile: the next file is opened and checked, and a temporary file made.
OpenTmp ==
  /\ pc = "copy" /\ todo # {} /\ ~CopyRefused
  /\ tmp' = [tmp EXCEPT ![Lowest(todo)] = Torn]
  /\ pc' = "fill"
  /\ verdict' = Nothing
  /\ UNCHANGED <<caller, v, todo, dir, moded, unit, faults>>

\* The walk finds nothing to copy.
NothingToCopy ==
  /\ pc = "copy" /\ todo = {} /\ ~CopyRefused
  /\ pc' = AfterCopy({})
  /\ UNCHANGED <<caller, v, todo, target, unit, verdict, faults>>

FillTmp ==
  /\ pc = "fill"
  /\ tmp' = [tmp EXCEPT ![Lowest(todo)] = v]
  /\ pc' = "rename"
  /\ UNCHANGED <<caller, v, todo, dir, moded, unit, verdict, faults>>

\* io.Copy fails: the temporary file is removed.
FillFails ==
  /\ pc = "fill"
  /\ MayFail(FALSE)
  /\ tmp' = [tmp EXCEPT ![Lowest(todo)] = Nothing]
  /\ Abort
  /\ UNCHANGED <<caller, dir, moded, unit, verdict>>

Rename ==
  /\ pc = "rename"
  /\ dir' = [dir EXCEPT ![Lowest(todo)] = tmp[Lowest(todo)]]
  /\ tmp' = [tmp EXCEPT ![Lowest(todo)] = Nothing]
  /\ moded' = moded \ {Lowest(todo)}
  /\ todo' = todo \ {Lowest(todo)}
  /\ pc' = AfterCopy(todo')
  /\ UNCHANGED <<caller, v, unit, verdict, faults>>

\* Lstat, MkdirAll, Open, Close or Rename fails: a temporary file stays.
CopyFails ==
  /\ pc \in {"copy", "rename"}
  /\ MayFail(pc = "copy" /\ CopyRefused)
  /\ Abort
  /\ verdict' = Nothing
  /\ UNCHANGED <<caller, target, unit>>

\* chmod and chown: of the one file, or of everything under the root.
Present == {f \in File : dir[f] # Nothing}

Permitted == IF spec.type = "static" THEN Present ELSE {Main}

SetPerms ==
  /\ pc = "perms"
  /\ moded' = moded \union Permitted
  /\ pc' = "start"
  /\ UNCHANGED <<caller, v, todo, dir, tmp, unit, verdict, faults>>

PermsFail ==
  /\ pc = "perms"
  /\ MayFail(FALSE)
  /\ \E S \in SUBSET Permitted : moded' = moded \union S
  /\ Abort
  /\ UNCHANGED <<caller, dir, tmp, unit, verdict>>

\* `systemctl start' loads Main, and does nothing to a unit that is up.
Started == IF svc = "down" THEN dir[Main] ELSE runs

StartService ==
  /\ pc = "start"
  /\ IF HasService THEN svc' = "up" /\ runs' = Started /\ job' = "none"
                   ELSE UNCHANGED unit
  /\ pc' = "health"
  /\ UNCHANGED <<caller, v, todo, target, verdict, faults>>

StartFails ==
  /\ pc = "start" /\ HasService
  /\ MayFail(FALSE)
  /\ \/ svc' = "up" /\ runs' = Started /\ job' = "none"
     \/ job' = "up" /\ UNCHANGED <<svc, runs>>
     \/ UNCHANGED unit
  /\ Abort
  /\ UNCHANGED <<caller, target, verdict>>

\* systemd comes to what a systemctl that failed or was left alone asked for.
JobDone ==
  /\ job # "none"
  /\ svc' = job
  /\ runs' = IF job = "up" THEN Started ELSE runs
  /\ job' = "none"
  /\ UNCHANGED <<caller, pc, v, todo, target, verdict, faults>>

-----------------------------------------------------------------------------
(* deploy.Run after the strategy.                                          *)

Healthy ==
  /\ pc = "health" /\ spec.health # "sick"
  /\ pc' = "post"
  /\ UNCHANGED <<caller, v, todo, target, unit, verdict, faults>>

Unhealthy ==
  /\ pc = "health" /\ spec.health # "none"
  /\ MayFail(spec.health = "sick")
  /\ Abort
  /\ UNCHANGED <<caller, target, unit, verdict>>

\* The post-hook's failure is only logged: Run returns nil.
PostHook ==
  /\ pc = "post"
  /\ verdict' = v
  /\ Abort
  /\ UNCHANGED <<caller, target, unit, faults>>

\* What systemctl may be asking for right now.
Asking == CASE pc = "stop"  -> {"down"}
            [] pc = "start" /\ HasService -> {"up"}
            [] OTHER -> {}

\* The process is killed; a systemctl it has started goes on.
Crash ==
  /\ pc # "idle"
  /\ MayFail(FALSE)
  /\ \/ UNCHANGED <<job, verdict>>
     \/ job' \in Asking /\ verdict' = Nothing
  /\ Abort
  /\ UNCHANGED <<caller, target, svc, runs>>

-----------------------------------------------------------------------------
Forward ==
  \/ Run \/ Validate \/ PreHook \/ ResolveSource
  \/ Command \/ StopService \/ ClearEntry \/ Cleared
  \/ OpenTmp \/ NothingToCopy \/ FillTmp \/ Rename \/ SetPerms
  \/ StartService \/ Healthy \/ PostHook

Backward ==
  \/ RejectTarget \/ RejectPreHook \/ RejectSource \/ RejectClear
  \/ PreHookFails \/ CommandFails \/ StopFails \/ ClearFails \/ FillFails \/ CopyFails
  \/ PermsFail \/ StartFails \/ Unhealthy

Next == Publish \/ Forward \/ Backward \/ Crash \/ JobDone

Spec == Init /\ [][Next]_vars

\* Calls return, and the watcher comes back in the next cycle.
FairSpec == Spec /\ WF_vars(Forward \/ Backward)

-----------------------------------------------------------------------------
TypeOK ==
  /\ artifact \in [Version -> Specs]
  /\ want \in Version
  /\ pc \in {"idle", "validate", "pre", "source", "command", "stop", "clear",
            "copy", "fill", "rename", "perms", "start", "health", "post"}
  /\ v \in Version \union {Nothing}
  /\ v = Nothing <=> pc = "idle"
  /\ todo \subseteq File
  /\ dir \in [File -> Version \union {Nothing, Torn}]
  /\ tmp \in [File -> Version \union {Nothing, Torn}]
  /\ moded \subseteq File
  /\ svc \in {"up", "down"}
  /\ runs \in Version \union {Nothing}
  /\ job \in {"none", "up", "down"}
  /\ verdict \in Version \union {Nothing}
  /\ faults \in Nat

(***************************************************************************)
(* What a deploy of version n that returned nil has made of the target:    *)
(* every file the walk met is there and no temporary file of it (none, if  *)
(* source.dir is a symlink: such a deploy succeeds with nothing), mode and *)
(* owner are set, a cleared target holds nothing else (not what an earlier *)
(* failed deploy left either), and the service runs the new file.          *)
(***************************************************************************)
TargetHolds(n) ==
  LET s == artifact[n] IN
  /\ \A f \in Walked(s) : dir[f] = n /\ tmp[f] = Nothing
  /\ s.perms => Walked(s) \subseteq moded
  /\ s.type # "jar" /\ s.clear =>
       \A f \in File \ Walked(s) : dir[f] = Nothing /\ tmp[f] = Nothing
  /\ s.type # "static" /\ s.managed => svc = "up" /\ runs = n

(***************************************************************************)
(* SPEC section 8, state is updated only after a successful deploy: as     *)
(* long as a version counts as deployed, the target is what that deploy    *)
(* promised, whatever failed or was killed before (deploy.Run, Apply,      *)
(* copyFile, clearDirContents).                                            *)
(***************************************************************************)
SuccessIsWhole ==
  verdict # Nothing /\ artifact[verdict].type \in {"jar", "war", "static"} =>
     TargetHolds(verdict)

(***************************************************************************)
(* A file that is at its final name is complete, and is a regular file the *)
(* artifact it came from ships: a deploy that is killed or fails half-way  *)
(* leaves old files, new files and temporary files, never part of a file   *)
(* (copyFile's write, close and rename).                                   *)
(***************************************************************************)
WholeFiles ==
  \A f \in File : dir[f] # Nothing =>
     /\ dir[f] # Torn
     /\ f \in artifact[dir[f]].ships \ artifact[dir[f]].links

(***************************************************************************)
(* Under a service that is managed, the target changes only while the      *)
(* service is down, and from the stop on it comes up again only on the     *)
(* complete new file, also if a systemctl that an earlier deploy took for  *)
(* failed, or that outlived it, has its effect only now (the order of      *)
(* stopService, copyFile and startService in jar and war).                 *)
(***************************************************************************)
Replacing == pc \in {"clear", "copy", "fill", "rename", "perms", "start"}

ReplacedWhileStopped ==
  [][Replacing /\ HasService =>
       /\ dir' # dir => svc = "down"
       /\ svc = "down" /\ svc' = "up" => dir[Main] = v /\ todo = {}]_vars

(***************************************************************************)
(* A file disappears from the target only in a deploy whose artifact asked *)
(* for it, whose target passed both path checks, and whose service, if it  *)
(* manages one, is down (validateRequest, guardClearDir, copyDir, war).    *)
(***************************************************************************)
ClearIsGuarded ==
  [][\A f \in File : dir[f] # Nothing /\ dir'[f] = Nothing =>
       /\ Clears /\ spec.target = "ok" /\ spec.source # "outside"
       /\ HasService => svc = "down"]_vars

\* The target, a hook or the source is refused by its name.
PathRefused ==
  \/ TargetDenied
  \/ spec.pre = "outside"
  \/ spec.type # "hook-only" /\ spec.source = "outside"

\* The directory to be cleared is refused once its links are resolved.
LinkRefused == Clears /\ spec.target = "linked"

LateJob == job # "none" /\ job' = "none" /\ UNCHANGED <<pc, target>>

(***************************************************************************)
(* How far a deploy that one of the path checks refuses gets.  No hook of  *)
(* it runs if validateRequest refuses the target.  The service is left     *)
(* alone (but for what an earlier deploy has asked of systemd) if target,  *)
(* pre-hook or source is refused.  No file and no mode in the target is    *)
(* changed, whichever check refuses, the one of guardClearDir included.    *)
(* More than that does not hold: a refused source comes after the pre-hook *)
(* has run, and a clear target that is a link to a protected place after   *)
(* the stop, which leaves the service down (SPEC.md:238-240 has every      *)
(* check before any side effect; see the README)                           *)
(* (validateRequest, securePathJoin, guardClearDir, the order of Apply).   *)
(***************************************************************************)
CheckedBeforeTouched ==
  [][/\ pc = "pre" => ~TargetDenied
     /\ unit' # unit => LateJob \/ ~PathRefused
     /\ target' # target => ~PathRefused /\ ~LinkRefused]_vars

(***************************************************************************)
(* SPEC section 8, the next cycle will retry: once the tag stays at an     *)
(* artifact that can be deployed, and failures come to an end, it gets     *)
(* deployed, whatever earlier deploys left behind, and stays.              *)
(***************************************************************************)
CanSucceed(s) ==
  /\ s.target = "ok" /\ s.source = "ok" /\ s.pre # "outside"
  /\ s.links = {} /\ s.health # "sick"

RetriesSucceed ==
  \A n \in Version :
     <>[](want = n /\ CanSucceed(artifact[n])) => <>[](verdict = n)

=============================================================================
