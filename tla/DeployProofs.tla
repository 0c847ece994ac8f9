---------------------------- MODULE DeployProofs ----------------------------
(***************************************************************************)
(* Proofs about internal/deploy, for any number of versions, files,        *)
(* artifacts and faults.                                                   *)
(***************************************************************************)
EXTENDS Deploy, SetInduction

-----------------------------------------------------------------------------
(* The inductive invariant, in five parts.                                 *)

Copying   == {"copy", "fill", "rename", "perms", "start"}
Checking  == {"health", "post"}
InApply   == {"command", "stop", "clear"} \union Copying

\* The types of the artifacts of one tag are one type, as Init picks them.
OneType == \A n, m \in Version : artifact[n].type = artifact[m].type

\* What a deploy has been through says which checks its artifact passed.
Admitted ==
  /\ pc \notin {"idle", "validate"} => ~TargetDenied
  /\ pc = "command" => spec.type = "run-once"
  /\ pc = "stop" => HasService
  /\ Replacing => HasFiles
  /\ pc = "clear" => Clears
  /\ pc \in InApply => spec.source # "outside"
  /\ pc \in {"source"} \union InApply => spec.pre # "outside"
  /\ pc \in Copying /\ Clears => spec.target # "linked"

\* What is still to be copied.
Left ==
  /\ pc \in {"idle", "validate", "pre", "source", "command", "perms", "start"} \union Checking
       => todo = {}
  /\ pc \in {"stop", "clear"} => todo = Walked(spec)
  /\ pc \in {"copy", "fill", "rename"} => todo \subseteq Walked(spec)
  /\ pc \in {"fill", "rename"} =>
       /\ todo # {} /\ ~CopyRefused
       /\ verdict = Nothing
  /\ pc = "rename" => tmp[Lowest(todo)] = v

\* What is done already.
Copied ==
  pc \in Copying \union Checking /\ HasFiles =>
    /\ \A f \in Walked(spec) \ todo : dir[f] = v /\ tmp[f] = Nothing
    /\ Clears => \A f \in File \ Walked(spec) : dir[f] = Nothing /\ tmp[f] = Nothing
    /\ pc \in {"start"} \union Checking /\ spec.perms => Walked(spec) \subseteq moded

\* The service of the deploy, and of the version that counts as deployed.
Unit ==
  /\ Replacing /\ HasService => svc = "down" /\ job = "none" /\ verdict = Nothing
  /\ pc \in Checking /\ HasService => svc = "up" /\ job = "none" /\ runs = v
  /\ verdict # Nothing /\ artifact[verdict].type \in {"jar", "war"} /\ artifact[verdict].managed
       => job = "none"

DeployInv ==
  /\ TypeOK /\ OneType
  /\ Admitted /\ Left /\ Copied /\ Unit
  /\ WholeFiles /\ SuccessIsWhole

-----------------------------------------------------------------------------
(* The operators the model is built from.                                  *)

\* The file copyDir takes next is one of those left.
LEMMA LowestIsLeft ==
  ASSUME NEW S, S \subseteq File, S # {}
  PROVE  Lowest(S) \in S
  <1>1. S \subseteq Nat
    BY DeployAssumption DEF File
  <1>2. \E f \in S : \A g \in S : f <= g
    BY <1>1, LeastNatural
  <1> QED
    BY <1>2 DEF Lowest

\* What is known of the artifact of any version.
LEMMA SpecFacts ==
  ASSUME TypeOK, NEW n \in Version
  PROVE  /\ artifact[n].type \in Types
         /\ artifact[n].target \in {"ok", "denied", "linked"}
         /\ artifact[n].ships \subseteq File
         /\ artifact[n].type \in {"jar", "war"} =>
              artifact[n].ships = {Main} /\ Walked(artifact[n]) = {Main}
         /\ Walked(artifact[n]) \subseteq artifact[n].ships
  <1>1. artifact[n] \in Specs
    BY DEF TypeOK
  <1>2. artifact[n] \in SpecType
    BY <1>1, DeployAssumption
  <1> QED
    BY <1>1, <1>2, DeployAssumption DEF SpecType, Walked

LEMMA NumberFacts ==
  /\ Main \in File
  /\ 1 \in Version
  /\ Nothing \notin Version
  /\ Torn \notin Version
  /\ Torn # Nothing
  BY DeployAssumption DEF Main, File, Version, Nothing, Torn

\* No step changes what the versions carry.
LEMMA ArtifactsStay ==
  ASSUME [Next]_vars
  PROVE  artifact' = artifact
  BY DEF Next, Forward, Backward, vars, caller, Reject,
         Publish, Run, Validate, RejectTarget, RejectPreHook, PreHook, PreHookFails,
         RejectSource, ResolveSource, Command, CommandFails, StopService, StopFails,
         RejectClear, ClearFails, ClearEntry, Cleared, OpenTmp, NothingToCopy, FillTmp, FillFails,
         Rename, CopyFails, SetPerms, PermsFail, StartService, StartFails, JobDone,
         Healthy, Unhealthy, PostHook, Crash

-----------------------------------------------------------------------------
(* Types.  A file that is loaded into the service is never a torn one, so  *)
(* that even the type of `runs' needs the invariant.                       *)

LEMMA TypeInit == Init => TypeOK
  <1> SUFFICES ASSUME Init PROVE TypeOK
    OBVIOUS
  <1> USE NumberFacts DEF Init, TypeOK
  <1>1. artifact \in [Version -> Specs]
    OBVIOUS
  <1> QED
    BY <1>1

LEMMA TypeNext ==
  ASSUME DeployInv, [Next]_vars
  PROVE  TypeOK'
  <1> USE NumberFacts DEF DeployInv, TypeOK, target, unit, caller
  <1>a. /\ \A f \in File : dir[f] # Torn
        /\ Started \in Version \union {Nothing}
    BY DEF WholeFiles, Started
  <1>b. todo # {} => Lowest(todo) \in todo
    BY LowestIsLeft
  <1>1. CASE Publish
    BY <1>1, DeployAssumption DEF Publish, Version
  <1>2. CASE Run
    BY <1>2 DEF Run
  <1>3. CASE Validate \/ PreHook \/ Cleared \/ Healthy
    BY <1>3 DEF Validate, PreHook, Cleared, Healthy
  <1>4. CASE RejectTarget \/ RejectPreHook \/ RejectSource \/ RejectClear
    BY <1>4 DEF RejectTarget, RejectPreHook, RejectSource, RejectClear, Reject, Abort
  <1>5. CASE PreHookFails \/ CommandFails \/ ClearFails \/ CopyFails \/ Unhealthy
    BY <1>5 DEF PreHookFails, CommandFails, ClearFails, CopyFails, Unhealthy, Abort, MayFail
  <1>6. CASE ResolveSource
    <2>1. Walked(spec) \subseteq File
      BY <1>6, SpecFacts DEF ResolveSource, spec
    <2>2. pc' \in {"command", "health", "stop", "clear", "copy"}
      BY <1>6, SpecFacts DEF ResolveSource, spec, Types, AfterStop
    <2> QED
      BY <1>6, <2>1, <2>2 DEF ResolveSource
  <1>7. CASE Command
    BY <1>7 DEF Command
  <1>8. CASE StopService
    BY <1>8 DEF StopService, AfterStop
  <1>9. CASE StopFails
    BY <1>9 DEF StopFails, StopUnclear, Abort, MayFail
  <1>10. CASE ClearEntry
    BY <1>10 DEF ClearEntry, Entries
  <1>11. CASE OpenTmp
    BY <1>11 DEF OpenTmp
  <1>12. CASE NothingToCopy
    BY <1>12 DEF NothingToCopy, AfterCopy
  <1>13. CASE FillTmp
    BY <1>13 DEF FillTmp
  <1>14. CASE FillFails
    <2>1. tmp' \in [File -> Version \union {Nothing, Torn}]
      BY <1>14 DEF FillFails
    <2>2. /\ UNCHANGED <<artifact, want, dir, moded, svc, runs, job, verdict>>
          /\ Abort
          /\ faults' = faults + 1
      BY <1>14 DEF FillFails, MayFail
    <2> QED
      BY <2>1, <2>2 DEF Abort
  <1>15. CASE Rename
    <2>1. Lowest(todo) \in File /\ tmp[Lowest(todo)] \in Version
      BY <1>15, <1>b DEF Rename, Left
    <2>2. pc' \in {"copy", "perms", "start"}
      BY <1>15 DEF Rename, AfterCopy
    <2> QED
      BY <1>15, <2>1, <2>2 DEF Rename
  <1>16. CASE SetPerms
    BY <1>16 DEF SetPerms, Permitted, Present
  <1>17. CASE PermsFail
    BY <1>17 DEF PermsFail, Permitted, Present, Abort, MayFail
  <1>18. CASE StartService
    BY <1>18, <1>a DEF StartService
  <1>19. CASE StartFails
    BY <1>19, <1>a DEF StartFails, Abort, MayFail
  <1>20. CASE JobDone
    BY <1>20, <1>a DEF JobDone
  <1>21. CASE PostHook
    BY <1>21 DEF PostHook, Abort
  <1>22. CASE Crash
    BY <1>22 DEF Crash, Asking, Abort, MayFail
  <1>23. CASE UNCHANGED vars
    BY <1>23 DEF vars
  <1> QED
    BY <1>1, <1>2, <1>3, <1>4, <1>5, <1>6, <1>7, <1>8, <1>9, <1>10, <1>11, <1>12, <1>13,
       <1>14, <1>15, <1>16, <1>17, <1>18, <1>19, <1>20, <1>21, <1>22, <1>23
       DEF Next, Forward, Backward

-----------------------------------------------------------------------------
(* The invariant.                                                          *)

LEMMA InvInit == Init => DeployInv
  <1> SUFFICES ASSUME Init PROVE DeployInv
    OBVIOUS
  <1>1. TypeOK
    BY TypeInit
  <1>2. OneType
    BY DEF Init, OneType
  <1>3. Admitted /\ Left /\ Copied /\ Unit
    BY DEF Init, Admitted, Left, Copied, Unit, Copying, Checking, InApply, Replacing
  <1>4. WholeFiles /\ SuccessIsWhole
    BY DEF Init, WholeFiles, SuccessIsWhole
  <1> QED
    BY <1>1, <1>2, <1>3, <1>4 DEF DeployInv

\* However deploy.Run ends, it leaves nothing behind in memory.
LEMMA Returning ==
  ASSUME Backward \/ PostHook \/ Crash
  PROVE  pc' = "idle" /\ v' = Nothing /\ todo' = {}
  BY DEF Backward, RejectTarget, RejectPreHook, RejectSource, RejectClear, ClearFails,
     PreHookFails, CommandFails, StopFails, FillFails, CopyFails, PermsFail,
     StartFails, Unhealthy, PostHook, Crash, Reject, Abort

LEMMA AdmittedNext ==
  ASSUME DeployInv, [Next]_vars
  PROVE  Admitted'
  <1> USE DEF DeployInv, Admitted, Replacing, Copying, InApply, TargetDenied, HasFiles,
              HasService, Clears, spec, target, unit, caller
  <1>1. CASE pc' = "idle"
    BY <1>1
  <1>2. CASE Publish \/ JobDone \/ UNCHANGED vars
    BY <1>2 DEF Publish, JobDone, vars
  <1>3. CASE Run
    BY <1>3 DEF Run
  <1>4. CASE Validate \/ PreHook
    BY <1>4 DEF Validate, PreHook
  <1>5. CASE ResolveSource
    <2>1. artifact[v].type \in Types
      BY <1>5, SpecFacts, NumberFacts DEF ResolveSource, TypeOK
    <2> QED
      BY <1>5, <2>1 DEF ResolveSource, AfterStop, Types
  <1>6. CASE Command \/ StopService
    BY <1>6 DEF Command, StopService, AfterStop
  <1>7. CASE ClearEntry \/ Cleared
    BY <1>7 DEF ClearEntry, Cleared
  <1>8. CASE OpenTmp \/ FillTmp
    BY <1>8 DEF OpenTmp, FillTmp
  <1>9. CASE NothingToCopy \/ Rename
    BY <1>9 DEF NothingToCopy, Rename, AfterCopy
  <1>10. CASE SetPerms \/ StartService
    BY <1>10 DEF SetPerms, StartService
  <1>11. CASE Healthy
    BY <1>11 DEF Healthy
  <1>12. CASE Backward \/ PostHook \/ Crash
    BY <1>1, <1>12, Returning
  <1> QED
    BY <1>2, <1>3, <1>4, <1>5, <1>6, <1>7, <1>8, <1>9, <1>10, <1>11, <1>12 DEF Next, Forward

LEMMA LeftNext ==
  ASSUME DeployInv, [Next]_vars
  PROVE  Left'
  <1> USE DEF DeployInv, Left, Checking, spec, target, unit, caller
  <1>b. todo # {} /\ todo \subseteq File => Lowest(todo) \in todo
    BY LowestIsLeft
  <1>1. CASE pc' = "idle" /\ todo' = {}
    BY <1>1
  <1>2. CASE Publish \/ JobDone \/ UNCHANGED vars
    BY <1>2 DEF Publish, JobDone, vars, CopyRefused
  <1>3. CASE Run
    BY <1>3 DEF Run
  <1>4. CASE Validate \/ PreHook
    BY <1>4 DEF Validate, PreHook
  <1>5. CASE ResolveSource
    <2>1. artifact[v].type \in Types
      BY <1>5, SpecFacts, NumberFacts DEF ResolveSource, TypeOK
    <2> QED
      BY <1>5, <2>1 DEF ResolveSource, AfterStop, Types, HasFiles, HasService
  <1>6. CASE Command \/ StopService
    BY <1>6 DEF Command, StopService, AfterStop
  <1>7. CASE ClearEntry \/ Cleared
    BY <1>7 DEF ClearEntry, Cleared
  <1>8. CASE OpenTmp
    BY <1>8 DEF OpenTmp, CopyRefused
  <1>9. CASE FillTmp
    <2>1. Lowest(todo) \in File
      BY <1>9, <1>b DEF FillTmp, TypeOK
    <2>2. tmp'[Lowest(todo)] = v
      BY <1>9, <2>1 DEF FillTmp, TypeOK
    <2> QED
      BY <1>9, <2>2 DEF FillTmp, CopyRefused
  <1>10. CASE NothingToCopy
    BY <1>10 DEF NothingToCopy, AfterCopy
  <1>11. CASE Rename
    BY <1>11 DEF Rename, AfterCopy
  <1>12. CASE SetPerms \/ StartService \/ Healthy
    BY <1>12 DEF SetPerms, StartService, Healthy
  <1>13. CASE Backward \/ PostHook \/ Crash
    BY <1>1, <1>13, Returning
  <1> QED
    BY <1>2, <1>3, <1>4, <1>5, <1>6, <1>7, <1>8, <1>9, <1>10, <1>11, <1>12, <1>13
       DEF Next, Forward

LEMMA CopiedNext ==
  ASSUME DeployInv, [Next]_vars
  PROVE  Copied'
  <1> USE DEF DeployInv, Copied, Copying, Checking, spec, target, unit, caller
  <1>a. pc # "idle" => v \in Version
    BY DEF TypeOK
  <1>1. CASE pc' \notin Copying \union Checking
    BY <1>1
  <1>2. CASE Publish \/ JobDone \/ UNCHANGED vars
    BY <1>2 DEF Publish, JobDone, vars, HasFiles, Clears, Walked
  <1>3. CASE Run \/ Validate \/ PreHook \/ ClearEntry
    BY <1>1, <1>3 DEF Run, Validate, PreHook, ClearEntry
  <1>4. CASE ResolveSource
    <2>1. pc' \in Copying \union Checking /\ HasFiles => todo' = Walked(spec) /\ ~Clears
      BY <1>4, <1>a, SpecFacts DEF ResolveSource, AfterStop, HasFiles, HasService, Types
    <2>2. pc' # "start" /\ (HasFiles => pc' \notin Checking)
      BY <1>4, <1>a, SpecFacts DEF ResolveSource, AfterStop, HasFiles, HasService, Types
    <2> QED
      BY <1>4, <2>1, <2>2 DEF ResolveSource, HasFiles, Clears, Walked
  <1>5. CASE Command
    BY <1>5 DEF Command, Admitted, HasFiles
  <1>6. CASE StopService
    <2>1. pc' \in Copying \union Checking => pc' = "copy" /\ ~Clears
      BY <1>6 DEF StopService, AfterStop
    <2>2. todo' = Walked(spec)
      BY <1>6 DEF StopService, Left
    <2> QED
      BY <1>6, <2>1, <2>2 DEF StopService, HasFiles, Clears, Walked
  <1>7. CASE Cleared
    <2>1. \A f \in File : dir[f] = Nothing /\ tmp[f] = Nothing
      BY <1>7 DEF Cleared, Entries
    <2>2. todo' = Walked(spec) /\ pc' = "copy"
      BY <1>7 DEF Cleared, Left
    <2> QED
      BY <1>7, <2>1, <2>2 DEF Cleared, HasFiles, Clears, Walked
  <1>8. CASE OpenTmp \/ FillTmp
    <2>1. /\ Lowest(todo) \in todo
          /\ todo \subseteq Walked(spec)
          /\ todo \subseteq File
      BY <1>8, LowestIsLeft DEF OpenTmp, FillTmp, Left, TypeOK
    <2>2. /\ \A f \in File \ {Lowest(todo)} : tmp'[f] = tmp[f]
          /\ pc' \in {"fill", "rename"}
          /\ UNCHANGED <<artifact, v, todo, dir, moded>>
      BY <1>8 DEF OpenTmp, FillTmp, TypeOK
    <2>3. pc \in Copying
      BY <1>8 DEF OpenTmp, FillTmp
    <2>4. Walked(spec) \subseteq File
      BY <1>a, <2>3, SpecFacts
    <2> QED
      BY <2>1, <2>2, <2>3, <2>4 DEF HasFiles, Clears, Walked
  <1>9. CASE NothingToCopy
    <2>1. /\ todo = {} /\ pc = "copy" /\ pc' \in {"copy", "perms", "start"}
          /\ pc' = "start" => ~spec.perms
          /\ UNCHANGED <<artifact, v, todo, dir, tmp, moded>>
      BY <1>9 DEF NothingToCopy, AfterCopy
    <2> QED
      BY <2>1 DEF HasFiles, Clears, Walked
  <1>10. CASE Rename
    <2> DEFINE f0 == Lowest(todo)
    <2>1. /\ f0 \in todo
          /\ todo \subseteq Walked(spec)
          /\ todo \subseteq File
          /\ tmp[f0] = v
      BY <1>10, LowestIsLeft DEF Rename, Left, TypeOK
    <2>2. /\ dir'[f0] = v /\ tmp'[f0] = Nothing
          /\ \A f \in File \ {f0} : dir'[f] = dir[f] /\ tmp'[f] = tmp[f]
          /\ todo' = todo \ {f0}
          /\ UNCHANGED <<artifact, v>>
      BY <1>10, <2>1 DEF Rename, TypeOK
    <2>3. /\ pc = "rename" /\ pc' \in {"copy", "perms", "start"}
          /\ pc' = "start" => ~spec.perms
      BY <1>10 DEF Rename, AfterCopy
    <2>4. Walked(spec) \subseteq File
      BY <1>a, <2>3, SpecFacts
    <2> HIDE DEF f0
    <2> QED
      BY <2>1, <2>2, <2>3, <2>4 DEF HasFiles, Clears, Walked
  <1>11. CASE SetPerms
    <2>1. todo = {} /\ pc = "perms"
      BY <1>11 DEF SetPerms, Left
    <2>2. HasFiles => Walked(spec) \subseteq Permitted
      <3>1. v \in Version
        BY <1>a, <2>1
      <3>2. HasFiles => \A f \in Walked(spec) : f \in File /\ dir[f] = v
        BY <2>1, <3>1, SpecFacts
      <3>3. CASE spec.type = "static"
        BY <3>1, <3>2, <3>3, NumberFacts DEF Permitted, Present, HasFiles
      <3>4. CASE spec.type \in {"jar", "war"}
        BY <3>1, <3>4, SpecFacts DEF Permitted
      <3> QED
        BY <3>3, <3>4 DEF HasFiles
    <2> QED
      BY <1>11, <2>1, <2>2 DEF SetPerms, HasFiles, Clears, Walked
  <1>12. CASE StartService \/ Healthy
    BY <1>12 DEF StartService, Healthy, Left, HasFiles, Clears, Walked
  <1>13. CASE Backward \/ PostHook \/ Crash
    BY <1>1, <1>13, Returning
  <1> QED
    BY <1>2, <1>3, <1>4, <1>5, <1>6, <1>7, <1>8, <1>9, <1>10, <1>11, <1>12, <1>13
       DEF Next, Forward

LEMMA UnitNext ==
  ASSUME DeployInv, [Next]_vars
  PROVE  Unit'
  <1> USE DEF DeployInv, Unit, Replacing, Checking, HasService, spec, target, unit, caller
  <1>a. pc # "idle" => v \in Version /\ v # Nothing
    BY DEF TypeOK
  <1>1. CASE Publish \/ UNCHANGED vars
    BY <1>1 DEF Publish, vars
  <1>2. CASE Run \/ Validate \/ PreHook
    BY <1>2 DEF Run, Validate, PreHook
  <1>3. CASE RejectTarget \/ RejectPreHook \/ RejectSource \/ RejectClear
    BY <1>3 DEF RejectTarget, RejectPreHook, RejectSource, RejectClear, Reject, Abort
  <1>4. CASE PreHookFails \/ FillFails \/ PermsFail \/ Unhealthy
    BY <1>4 DEF PreHookFails, FillFails, PermsFail, Unhealthy, Abort
  <1>5. CASE ResolveSource
    BY <1>5, <1>a, SpecFacts DEF ResolveSource, AfterStop, Types
  <1>6. CASE Command \/ CommandFails
    BY <1>6 DEF Command, CommandFails, Abort, Admitted
  <1>7. CASE StopService
    BY <1>7 DEF StopService, AfterStop
  <1>8. CASE StopFails
    BY <1>8 DEF StopFails, Abort
  <1>9. CASE ClearEntry \/ Cleared \/ OpenTmp \/ FillTmp
    BY <1>9 DEF ClearEntry, Cleared, OpenTmp, FillTmp
  <1>10. CASE NothingToCopy \/ Rename
    BY <1>10 DEF NothingToCopy, Rename, AfterCopy
  <1>11. CASE ClearFails \/ CopyFails
    BY <1>11 DEF ClearFails, CopyFails, Abort
  <1>12. CASE SetPerms
    BY <1>12 DEF SetPerms
  <1>13. CASE StartService
    <2>1. HasService => dir[Main] = v
      BY <1>13, <1>a, SpecFacts DEF StartService, Left, Copied, Copying, HasFiles
    <2> QED
      BY <1>13, <2>1 DEF StartService, Started
  <1>14. CASE StartFails
    BY <1>14 DEF StartFails, Abort
  <1>15. CASE JobDone
    BY <1>15 DEF JobDone
  <1>16. CASE Healthy
    BY <1>16 DEF Healthy
  <1>17. CASE PostHook
    BY <1>17 DEF PostHook, Abort
  <1>18. CASE Crash
    BY <1>18 DEF Crash, Abort
  <1> QED
    BY <1>1, <1>2, <1>3, <1>4, <1>5, <1>6, <1>7, <1>8, <1>9, <1>10, <1>11, <1>12, <1>13,
       <1>14, <1>15, <1>16, <1>17, <1>18 DEF Next, Forward, Backward

\* The target directory itself is changed by removing an entry and by Rename.
LEMMA OnlyClearAndRename ==
  ASSUME [Next]_vars, ~ClearEntry, ~Rename
  PROVE  dir' = dir
  BY DEF Next, Forward, Backward, vars, target, Reject,
     Publish, Run, Validate, RejectTarget, RejectPreHook, PreHook, PreHookFails,
     RejectSource, ResolveSource, Command, CommandFails, StopService, StopFails,
     RejectClear, ClearFails, Cleared, OpenTmp, NothingToCopy, FillTmp, FillFails,
     CopyFails, SetPerms, PermsFail, StartService, StartFails, JobDone,
     Healthy, Unhealthy, PostHook, Crash

LEMMA WholeFilesNext ==
  ASSUME DeployInv, [Next]_vars
  PROVE  WholeFiles'
  <1>a. artifact' = artifact
    BY ArtifactsStay
  <1>1. CASE ClearEntry
    BY <1>a, <1>1 DEF ClearEntry, DeployInv, TypeOK, WholeFiles
  <1>2. CASE Rename
    <2>1. /\ Lowest(todo) \in todo
          /\ todo \subseteq Walked(spec)
          /\ Lowest(todo) \notin spec.links
          /\ tmp[Lowest(todo)] = v
      BY <1>2, LowestIsLeft DEF Rename, DeployInv, Left, TypeOK, CopyRefused
    <2>2. v \in Version
      BY <1>2 DEF Rename, DeployInv, TypeOK
    <2>3. Lowest(todo) \in artifact[v].ships \ artifact[v].links
      BY <2>1, <2>2, SpecFacts DEF DeployInv, spec
    <2>4. \A f \in File : dir'[f] = dir[f] \/ (f = Lowest(todo) /\ dir'[f] = v)
      <3>1. Lowest(todo) \in File /\ dir \in [File -> Version \union {Nothing, Torn}]
        BY <2>1 DEF DeployInv, TypeOK
      <3>2. dir' = [dir EXCEPT ![Lowest(todo)] = v]
        BY <1>2, <2>1 DEF Rename
      <3> QED
        BY <3>1, <3>2
    <2> QED
      BY <1>a, <2>2, <2>3, <2>4, NumberFacts DEF DeployInv, WholeFiles
  <1> QED
    BY <1>a, <1>1, <1>2, OnlyClearAndRename DEF DeployInv, WholeFiles

\* A version goes on counting as deployed only while nothing it promised
\* changes: whoever touches target or service takes the verdict back first.
LEMMA VerdictKept ==
  ASSUME DeployInv, [Next]_vars, ~PostHook
  PROVE  \/ verdict' = Nothing
         \/ /\ UNCHANGED <<dir, tmp, verdict>>
            /\ moded \subseteq moded'
            /\ \/ UNCHANGED <<svc, runs>>
               \/ artifact[verdict].type \in {"jar", "war"} => ~artifact[verdict].managed
  <1> USE DEF target, unit
  <1>1. CASE Run \/ Validate \/ PreHook \/ ResolveSource \/ Cleared \/ NothingToCopy \/ Healthy
    BY <1>1 DEF Run, Validate, PreHook, ResolveSource, Cleared, NothingToCopy, Healthy
  <1>2. CASE Command \/ CommandFails \/ StopService \/ StopFails \/ ClearEntry \/ ClearFails
         \/ OpenTmp \/ CopyFails
    BY <1>2 DEF Command, CommandFails, StopService, StopFails, ClearEntry, ClearFails, OpenTmp,
                CopyFails
  <1>3. CASE FillTmp \/ FillFails \/ Rename
    BY <1>3 DEF FillTmp, FillFails, Rename, DeployInv, Left
  <1>4. CASE SetPerms \/ PermsFail
    BY <1>4 DEF SetPerms, PermsFail
  <1>5. CASE StartService \/ StartFails
    <2>1. CASE HasService
      BY <1>5, <2>1 DEF StartService, StartFails, DeployInv, Unit, Replacing
    <2>2. CASE ~HasService
      BY <1>5, <2>2 DEF StartService, StartFails
    <2> QED
      BY <2>1, <2>2
  <1>6. CASE JobDone
    <2>1. \/ verdict = Nothing
          \/ artifact[verdict].type \in {"jar", "war"} => ~artifact[verdict].managed
      BY <1>6 DEF JobDone, DeployInv, Unit
    <2>2. UNCHANGED <<dir, tmp, moded, verdict>>
      BY <1>6 DEF JobDone
    <2> QED
      BY <2>1, <2>2
  <1>7. CASE RejectTarget \/ RejectPreHook \/ RejectSource \/ RejectClear \/ PreHookFails \/ Unhealthy
    BY <1>7 DEF RejectTarget, RejectPreHook, RejectSource, RejectClear, Reject, PreHookFails, Unhealthy
  <1>8. CASE Crash \/ Publish \/ UNCHANGED vars
    BY <1>8 DEF Crash, Publish, vars
  <1> QED
    BY <1>1, <1>2, <1>3, <1>4, <1>5, <1>6, <1>7, <1>8 DEF Next, Forward, Backward

LEMMA SuccessNext ==
  ASSUME DeployInv, [Next]_vars
  PROVE  SuccessIsWhole'
  <1>a. artifact' = artifact
    BY ArtifactsStay
  <1>1. CASE PostHook
    <2>1. /\ v \in Version /\ verdict' = v /\ todo = {}
          /\ UNCHANGED <<dir, tmp, moded, svc, runs>>
      BY <1>1 DEF PostHook, DeployInv, TypeOK, Left, Checking, target, unit
    <2>2. HasFiles => TargetHolds(v)
      BY <1>1, <2>1, SpecFacts
         DEF PostHook, DeployInv, Copied, Unit, TargetHolds, HasFiles, HasService, Clears,
             Checking, spec
    <2> QED
      BY <1>a, <2>1, <2>2 DEF SuccessIsWhole, TargetHolds, HasFiles, spec, Walked
  <1>2. CASE ~PostHook /\ verdict' # Nothing
    <2>1. /\ UNCHANGED <<dir, tmp, verdict>>
          /\ moded \subseteq moded'
          /\ \/ UNCHANGED <<svc, runs>>
             \/ artifact[verdict].type \in {"jar", "war"} => ~artifact[verdict].managed
      BY <1>2, VerdictKept
    <2> QED
      BY <1>a, <1>2, <2>1 DEF DeployInv, SuccessIsWhole, TargetHolds, Walked
  <1> QED
    BY <1>1, <1>2 DEF SuccessIsWhole

LEMMA InvNext ==
  ASSUME DeployInv, [Next]_vars
  PROVE  DeployInv'
  <1>1. OneType'
    BY ArtifactsStay DEF DeployInv, OneType
  <1> QED
    BY <1>1, TypeNext, AdmittedNext, LeftNext, CopiedNext, UnitNext, WholeFilesNext, SuccessNext
       DEF DeployInv

LEMMA Invariant == Spec => []DeployInv
  BY InvInit, InvNext, PTL DEF Spec

-----------------------------------------------------------------------------
(* The results.                                                            *)

(***************************************************************************)
(* Every step of deploy.Run keeps the state well-typed; that the service   *)
(* never runs a file copyFile did not finish is part of it.                *)
(***************************************************************************)
THEOREM DeployTypes == Spec => []TypeOK
  BY Invariant, PTL DEF DeployInv

(***************************************************************************)
(* Whatever is killed or fails in between, a file at its final name is a   *)
(* complete regular file its artifact ships (copyFile's write, close and   *)
(* rename).                                                                *)
(***************************************************************************)
THEOREM DeployWholeFiles == Spec => []WholeFiles
  BY Invariant, PTL DEF DeployInv

(***************************************************************************)
(* As long as a version counts as deployed, the target holds what its      *)
(* deploy promised, and nothing an earlier failed deploy left, or asked of *)
(* systemd, can take that back (the order of the steps of Apply and Run).  *)
(***************************************************************************)
THEOREM DeployIsWhole == Spec => []SuccessIsWhole
  BY Invariant, PTL DEF DeployInv

(***************************************************************************)
(* The jar or war under a managed service is replaced only while the       *)
(* service is down, and the service comes up again on the complete new     *)
(* file (stopService, copyFile, startService).                             *)
(***************************************************************************)
THEOREM DeployWhileStopped == Spec => ReplacedWhileStopped
  <1>1. ASSUME DeployInv, [Next]_vars, Replacing, HasService
        PROVE  /\ dir' # dir => svc = "down"
               /\ svc = "down" /\ svc' = "up" => dir[Main] = v /\ todo = {}
    <2>1. svc = "down" /\ job = "none"
      BY <1>1 DEF DeployInv, Unit
    <2>2. ASSUME svc' = "up" PROVE pc = "start"
      BY <1>1, <2>1, <2>2 DEF Replacing, Next, Forward, Backward, vars, unit, Reject,
         Publish, Run, Validate, RejectTarget, RejectPreHook, PreHook, PreHookFails,
         RejectSource, ResolveSource, Command, CommandFails, StopService, StopFails, StopUnclear,
         RejectClear, ClearFails, ClearEntry, Cleared, OpenTmp, NothingToCopy, FillTmp, FillFails,
         Rename, CopyFails, SetPerms, PermsFail, StartService, StartFails, JobDone,
         Healthy, Unhealthy, PostHook, Crash
    <2>3. ASSUME pc = "start" PROVE dir[Main] = v /\ todo = {}
      <3>1. v \in Version /\ todo = {} /\ HasFiles
        BY <1>1, <2>3 DEF DeployInv, TypeOK, Left, HasService, HasFiles
      <3>2. Walked(spec) = {Main}
        BY <1>1, <3>1, SpecFacts DEF DeployInv, HasService, spec
      <3> QED
        BY <1>1, <2>3, <3>1, <3>2 DEF DeployInv, Copied, Copying
    <2> QED
      BY <2>1, <2>2, <2>3
  <1> QED
    BY <1>1, Invariant, PTL DEF Spec, ReplacedWhileStopped

(***************************************************************************)
(* A file disappears from a target only if its artifact asked for it, both *)
(* path checks passed and the service it has is down (validateRequest,     *)
(* guardClearDir, clearDirContents).                                       *)
(***************************************************************************)
THEOREM DeployClearIsGuarded == Spec => ClearIsGuarded
  <1>1. ASSUME DeployInv, [Next]_vars, NEW f \in File, dir[f] # Nothing, dir'[f] = Nothing
        PROVE  /\ Clears /\ spec.target = "ok" /\ spec.source # "outside"
               /\ HasService => svc = "down"
    <2>1. CASE ClearEntry
      <3>1. Clears /\ HasFiles /\ ~TargetDenied /\ spec.source # "outside"
        BY <1>1, <2>1 DEF ClearEntry, DeployInv, Admitted, Replacing, InApply
      <3>2. v \in Version
        BY <1>1, <2>1 DEF ClearEntry, DeployInv, TypeOK
      <3>3. spec.target = "ok"
        BY <1>1, <2>1, <3>1, <3>2, SpecFacts DEF ClearEntry, TargetDenied, DeployInv, spec
      <3>4. HasService => svc = "down"
        BY <1>1, <2>1 DEF ClearEntry, DeployInv, Unit, Replacing
      <3> QED
        BY <3>1, <3>3, <3>4
    <2>2. CASE Rename
      <3>1. Lowest(todo) \in File /\ tmp[Lowest(todo)] = v /\ v # Nothing
        BY <1>1, <2>2, LowestIsLeft DEF Rename, DeployInv, Left, TypeOK
      <3>2. dir'[f] = dir[f] \/ dir'[f] = v
        BY <1>1, <2>2, <3>1 DEF Rename, DeployInv, TypeOK
      <3> QED
        BY <1>1, <3>1, <3>2
    <2>3. CASE ~ClearEntry /\ ~Rename
      <3>1. dir' = dir
        BY <1>1, <2>3, OnlyClearAndRename
      <3> QED
        BY <1>1, <3>1
    <2> QED
      BY <2>1, <2>2, <2>3
  <1>2. ASSUME DeployInv, [Next]_vars
        PROVE  \A f \in File : dir[f] # Nothing /\ dir'[f] = Nothing =>
                 /\ Clears /\ spec.target = "ok" /\ spec.source # "outside"
                 /\ HasService => svc = "down"
    BY <1>1, <1>2
  <1> QED
    BY <1>2, Invariant, PTL DEF Spec, ClearIsGuarded

(***************************************************************************)
(* A deploy refused by a path check has run no hook if the target's name   *)
(* was why, has left the service alone if any name was, and has changed no *)
(* file in the target in any case, the link that guardClearDir finds after *)
(* the stop included (validateRequest, securePathJoin, guardClearDir, the  *)
(* order of Run and Apply).                                                *)
(***************************************************************************)
THEOREM DeployCheckedBeforeTouched == Spec => CheckedBeforeTouched
  <1>1. ASSUME DeployInv, [Next]_vars
        PROVE  unit' # unit => LateJob \/ ~PathRefused
    <2>1. CASE pc \in InApply
      BY <1>1, <2>1 DEF DeployInv, Admitted, InApply, Copying, PathRefused
    <2>2. CASE JobDone
      BY <2>2 DEF JobDone, LateJob
    <2>3. CASE pc \notin InApply /\ ~JobDone
      <3>1. unit' = unit
        BY <1>1, <2>3 DEF InApply, Copying, Next, Forward, Backward, vars, unit, Reject,
           Publish, Run, Validate, RejectTarget, RejectPreHook, PreHook, PreHookFails,
           RejectSource, ResolveSource, Command, CommandFails, StopService, StopFails,
           RejectClear, ClearFails, ClearEntry, Cleared, OpenTmp, NothingToCopy, FillTmp,
           FillFails, Rename, CopyFails, SetPerms, PermsFail, StartService, StartFails,
           Healthy, Unhealthy, PostHook, Crash, Asking
      <3> QED
        BY <3>1
    <2> QED
      BY <2>1, <2>2, <2>3
  <1>2. ASSUME DeployInv, [Next]_vars, target' # target
        PROVE  ~PathRefused /\ ~LinkRefused
    <2>1. \/ ClearEntry \/ OpenTmp \/ FillTmp \/ FillFails \/ Rename
          \/ SetPerms \/ PermsFail
      BY <1>2 DEF Next, Forward, Backward, vars, target, Reject,
         Publish, Run, Validate, RejectTarget, RejectPreHook, PreHook, PreHookFails,
         RejectSource, ResolveSource, Command, CommandFails, StopService, StopFails,
         RejectClear, ClearFails, Cleared, NothingToCopy, CopyFails,
         StartService, StartFails, JobDone, Healthy, Unhealthy, PostHook, Crash
    <2>2. \/ pc = "clear" /\ spec.target # "linked"
          \/ pc \in Copying
      BY <2>1 DEF ClearEntry, OpenTmp, FillTmp, FillFails, Rename, SetPerms, PermsFail, Copying
    <2> QED
      BY <1>2, <2>2 DEF DeployInv, Admitted, InApply, Copying, PathRefused, LinkRefused
  <1>3. ASSUME DeployInv, [Next]_vars
        PROVE  /\ pc = "pre" => ~TargetDenied
               /\ unit' # unit => LateJob \/ ~PathRefused
               /\ target' # target => ~PathRefused /\ ~LinkRefused
    BY <1>1, <1>2, <1>3 DEF DeployInv, Admitted
  <1> QED
    BY <1>3, Invariant, PTL DEF Spec, CheckedBeforeTouched
=============================================================================
