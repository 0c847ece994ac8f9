---------------------------- MODULE LockfileProofs ----------------------------
(***************************************************************************)
(* Proofs about internal/lockfile, for any number of processes, pids,      *)
(* kills and unrelated programs, and any choice of who may signal whom.    *)
(***************************************************************************)
EXTENDS Lockfile, TLAPS

-----------------------------------------------------------------------------
(* The inductive invariant.                                                *)

\* Two running processes have different pids.
UniquePids ==
  \A p, q \in Proc : Running(p) /\ Running(q) /\ pid[p] = pid[q] => p = q

\* Who is inside made the file at the path, and it holds its pid or nothing.
ClaimsOwnFile ==
  \A p \in Proc : /\ pc[p] = "write" => creator = p /\ content = Blank
                  /\ pc[p] = "held"  => creator = p /\ content = pid[p]

\* The file a process has read and is still at the path is the one it read ...
ProbesWhatItRead ==
  \A p \in Proc : pc[p] = "probe" /\ p \notin outdated /\ FileExists
                    => seen[p] = content /\ content # Blank

\* ... and nobody inside made the file a process is about to remove.
RemovesNoClaim ==
  \A p \in Proc : pc[p] = "remove" /\ p \notin outdated /\ FileExists
                    => ~Claims(creator)

IInv ==
  /\ TypeOK
  /\ UniquePids
  /\ breaches = {} => /\ ClaimsOwnFile
                      /\ ProbesWhatItRead
                      /\ RemovesNoClaim
-----------------------------------------------------------------------------
(* Every variable keeps its type (Lockfile.tla, TypeOK).                   *)

LEMMA TypeInit == Init => TypeOK
  BY LockfileAssumption DEF Init, TypeOK, Resting, Rested, Acquiring

LEMMA TypeNext == TypeOK /\ [Next]_vars => TypeOK'
  <1> SUFFICES ASSUME TypeOK, [Next]_vars PROVE TypeOK'
    OBVIOUS
  <1> USE LockfileAssumption DEF TypeOK, Resting, Rested, Acquiring, Goto, CreateFile,
          RemoveFile, FileExists, Running, Judging
  <1>1. ASSUME NEW p \in Proc, Step(p) \/ Mishap(p) PROVE TypeOK'
    <2>1. CASE TryCreate(p)
      BY <2>1 DEF TryCreate
    <2>2. CASE FindExisting(p)
      BY <2>2 DEF FindExisting
    <2>3. CASE WritePid(p)
      BY <2>3 DEF WritePid
    <2>4. CASE ReadGone(p)
      BY <2>4 DEF ReadGone
    <2>5. CASE Read(p)
      BY <2>5 DEF Read, StaleContent
    <2>6. CASE ProbeAlive(p)
      BY <2>6 DEF ProbeAlive
    <2>7. CASE ProbeStale(p)
      BY <2>7 DEF ProbeStale
    <2>8. CASE Remove(p)
      BY <2>8 DEF Remove
    <2>9. CASE RemoveFails(p)
      BY <2>9 DEF RemoveFails
    <2>10. CASE Recreate(p)
      BY <2>10 DEF Recreate
    <2>11. CASE RecreateFails(p)
      BY <2>11 DEF RecreateFails
    <2>12. CASE Release(p)
      BY <2>12 DEF Release
    <2>13. CASE StartProc(p)
      BY <2>13 DEF StartProc
    <2>14. CASE OpenFails(p)
      BY <2>14 DEF OpenFails
    <2>15. CASE WriteFails(p)
      BY <2>15 DEF WriteFails
    <2>16. CASE ReleaseFails(p)
      BY <2>16 DEF ReleaseFails
    <2>17. CASE Exit(p)
      BY <2>17 DEF Exit
    <2>18. CASE Crash(p)
      BY <2>18 DEF Crash
    <2> QED
      BY <1>1, <2>1, <2>2, <2>3, <2>4, <2>5, <2>6, <2>7, <2>8, <2>9, <2>10, <2>11, <2>12, <2>13, <2>14, <2>15, <2>16, <2>17, <2>18 DEF Step, Mishap
  <1>2. ASSUME NEW x \in ForeignPid, ForeignStart(x) \/ ForeignExit(x) PROVE TypeOK'
    BY <1>2 DEF ForeignStart, ForeignExit
  <1>3. CASE UNCHANGED vars
    BY <1>3 DEF vars
  <1> QED
    BY <1>1, <1>2, <1>3 DEF Next

\* The state of the protocol is always well formed: every variable has its
\* type in every reachable state (Acquire, Release and their environment).
THEOREM LockTypes == Spec => []TypeOK
  <1> QED BY TypeInit, TypeNext, PTL DEF Spec

-----------------------------------------------------------------------------
(* The kernel never gives one pid to two running processes.                *)

LEMMA UniquePidsNext == TypeOK /\ UniquePids /\ [Next]_vars => UniquePids'
  <1> SUFFICES ASSUME TypeOK, UniquePids, [Next]_vars PROVE UniquePids'
    OBVIOUS
  <1> USE DEF TypeOK, UniquePids, Goto, Running
  <1>1. ASSUME NEW p \in Proc, Step(p) \/ Mishap(p) PROVE UniquePids'
    <2> USE DEF Resting, Rested
    <2>1. CASE TryCreate(p)
      BY <2>1 DEF TryCreate
    <2>2. CASE FindExisting(p)
      BY <2>2 DEF FindExisting
    <2>3. CASE WritePid(p)
      BY <2>3 DEF WritePid
    <2>4. CASE ReadGone(p)
      BY <2>4 DEF ReadGone
    <2>5. CASE Read(p)
      BY <2>5 DEF Read
    <2>6. CASE ProbeAlive(p)
      BY <2>6 DEF ProbeAlive
    <2>7. CASE ProbeStale(p)
      BY <2>7 DEF ProbeStale
    <2>8. CASE Remove(p)
      BY <2>8 DEF Remove
    <2>9. CASE RemoveFails(p)
      BY <2>9 DEF RemoveFails
    <2>10. CASE Recreate(p)
      BY <2>10 DEF Recreate
    <2>11. CASE RecreateFails(p)
      BY <2>11 DEF RecreateFails
    <2>12. CASE Release(p)
      BY <2>12 DEF Release
    <2>13. CASE StartProc(p)
      BY <2>13 DEF StartProc
    <2>14. CASE OpenFails(p)
      BY <2>14 DEF OpenFails
    <2>15. CASE WriteFails(p)
      BY <2>15 DEF WriteFails
    <2>16. CASE ReleaseFails(p)
      BY <2>16 DEF ReleaseFails
    <2>17. CASE Exit(p)
      BY <2>17 DEF Exit
    <2>18. CASE Crash(p)
      BY <2>18 DEF Crash
    <2> QED
      BY <1>1, <2>1, <2>2, <2>3, <2>4, <2>5, <2>6, <2>7, <2>8, <2>9, <2>10, <2>11, <2>12, <2>13, <2>14, <2>15, <2>16, <2>17, <2>18 DEF Step, Mishap
  <1>2. ASSUME NEW x \in ForeignPid, ForeignStart(x) \/ ForeignExit(x) PROVE UniquePids'
    BY <1>2 DEF ForeignStart, ForeignExit
  <1>3. CASE UNCHANGED vars
    BY <1>3 DEF vars
  <1> QED
    BY <1>1, <1>2, <1>3 DEF Next

-----------------------------------------------------------------------------
(* A step after which no verdict has been wrong keeps the file with its    *)
(* owner.                                                                  *)

LEMMA OwnFileNext ==
  ASSUME IInv, [Next]_vars, breaches' = {}
  PROVE  (ClaimsOwnFile /\ ProbesWhatItRead /\ RemovesNoClaim)'
  <1> DEFINE Good == ClaimsOwnFile /\ ProbesWhatItRead /\ RemovesNoClaim
  <1> SUFFICES Good'
    OBVIOUS
  <1> USE LockfileAssumption DEF IInv, TypeOK, UniquePids, Goto, Running, FileExists,
          Claims, Judging, CreateFile, RemoveFile
  <1>1. ASSUME NEW p \in Proc, Step(p) \/ Mishap(p) PROVE Good'
    <2> USE DEF ClaimsOwnFile, ProbesWhatItRead, RemovesNoClaim, Resting, Rested, Acquiring
    <2>1. CASE TryCreate(p)
      BY <2>1 DEF TryCreate
    <2>2. CASE FindExisting(p)
      BY <2>2 DEF FindExisting
    <2>3. CASE WritePid(p)
      BY <2>3 DEF WritePid
    <2>4. CASE ReadGone(p)
      BY <2>4 DEF ReadGone
    <2>5. CASE Read(p)
      BY <2>5 DEF Read, StaleContent
    <2>6. CASE ProbeAlive(p)
      BY <2>6 DEF ProbeAlive
    <2>7. CASE ProbeStale(p)
      BY <2>7 DEF ProbeStale, Reaches, LiveOwner
    <2>8. CASE Remove(p)
      BY <2>8 DEF Remove
    <2>9. CASE RemoveFails(p)
      BY <2>9 DEF RemoveFails
    <2>10. CASE Recreate(p)
      BY <2>10 DEF Recreate
    <2>11. CASE RecreateFails(p)
      BY <2>11 DEF RecreateFails
    <2>12. CASE Release(p)
      BY <2>12 DEF Release
    <2>13. CASE StartProc(p)
      BY <2>13 DEF StartProc
    <2>14. CASE OpenFails(p)
      BY <2>14 DEF OpenFails
    <2>15. CASE WriteFails(p)
      BY <2>15 DEF WriteFails
    <2>16. CASE ReleaseFails(p)
      BY <2>16 DEF ReleaseFails
    <2>17. CASE Exit(p)
      BY <2>17 DEF Exit
    <2>18. CASE Crash(p)
      BY <2>18 DEF Crash
    <2> QED
      BY <1>1, <2>1, <2>2, <2>3, <2>4, <2>5, <2>6, <2>7, <2>8, <2>9, <2>10, <2>11, <2>12, <2>13, <2>14, <2>15, <2>16, <2>17, <2>18 DEF Step, Mishap
  <1>2. ASSUME NEW x \in ForeignPid, ForeignStart(x) \/ ForeignExit(x) PROVE Good'
    BY <1>2 DEF ForeignStart, ForeignExit, ClaimsOwnFile, ProbesWhatItRead, RemovesNoClaim
  <1>3. CASE UNCHANGED vars
    BY <1>3 DEF vars, ClaimsOwnFile, ProbesWhatItRead, RemovesNoClaim
  <1> QED
    BY <1>1, <1>2, <1>3 DEF Next

LEMMA IInvNext == IInv /\ [Next]_vars => IInv'
  BY TypeNext, UniquePidsNext, OwnFileNext DEF IInv

LEMMA IInvInit == Init => IInv
  BY TypeInit DEF Init, IInv, UniquePids, ClaimsOwnFile, ProbesWhatItRead,
     RemovesNoClaim, Running

LEMMA IInvSafe == IInv => BreachFreeExclusion /\ HolderOwnsFile
  BY DEF IInv, BreachFreeExclusion, HolderOwnsFile, ClaimsOwnFile, Holding

LEMMA LockInvariant == Spec => []IInv
  BY IInvInit, IInvNext, PTL DEF Spec

\* Two cycles never run at once unless a verdict was wrong: a file read
\* before its pid was written, a live owner that may not be signalled, or a
\* stale file replaced before the removal (Acquire, isStale, Release).
THEOREM LockExclusion == Spec => []BreachFreeExclusion
  BY LockInvariant, IInvSafe, PTL

\* With the same proviso the file names the holder until the holder leaves:
\* none of the unconditional removals takes away another process's file.
THEOREM LockOwnership == Spec => []HolderOwnsFile
  BY LockInvariant, IInvSafe, PTL

-----------------------------------------------------------------------------
(* The PID file implements the abstract lock.                              *)

\* At most one process is inside, and it made the file.
LEMMA HoldersOwn ==
  ASSUME IInv, breaches = {}
  PROVE  \A p \in Holders : creator = p /\ Holders = {p}
  BY DEF IInv, ClaimsOwnFile, Holders, Claims

LEMMA RefinementStep ==
  ASSUME IInv, breaches = {}, [Next /\ breaches' = {}]_vars
  PROVE  [Abstract!Next]_Holders
  <1>0. \A p \in Holders : creator = p /\ Holders = {p}
    BY HoldersOwn
  <1> USE LockfileAssumption DEF IInv, TypeOK, Holders, Claims, Goto, Abstract!Next
  <1>1. ASSUME NEW p \in Proc, Step(p) \/ Mishap(p) PROVE [Abstract!Next]_Holders
    <2> USE DEF Resting, Rested
    <2>1. CASE TryCreate(p)
      BY <2>1, <1>0 DEF TryCreate, CreateFile, FileExists, Abstract!Take
    <2>2. CASE FindExisting(p)
      BY <2>2 DEF FindExisting
    <2>3. CASE WritePid(p)
      BY <2>3 DEF WritePid
    <2>4. CASE ReadGone(p)
      BY <2>4 DEF ReadGone
    <2>5. CASE Read(p)
      BY <2>5 DEF Read
    <2>6. CASE ProbeAlive(p)
      BY <2>6 DEF ProbeAlive
    <2>7. CASE ProbeStale(p)
      BY <2>7 DEF ProbeStale
    <2>8. CASE Remove(p)
      BY <2>8 DEF Remove
    <2>9. CASE RemoveFails(p)
      BY <2>9 DEF RemoveFails
    <2>10. CASE Recreate(p)
      BY <2>10, <1>0 DEF Recreate, CreateFile, FileExists, Abstract!Take
    <2>11. CASE RecreateFails(p)
      BY <2>11 DEF RecreateFails
    <2>12. CASE Release(p)
      BY <2>12, <1>0 DEF Release, Abstract!Drop
    <2>13. CASE StartProc(p)
      BY <2>13 DEF StartProc
    <2>14. CASE OpenFails(p)
      BY <2>14 DEF OpenFails
    <2>15. CASE WriteFails(p)
      BY <2>15, <1>0 DEF WriteFails, Abstract!Drop
    <2>16. CASE ReleaseFails(p)
      BY <2>16, <1>0 DEF ReleaseFails, Abstract!Drop
    <2>17. CASE Exit(p)
      BY <2>17 DEF Exit
    <2>18. CASE Crash(p)
      BY <2>18, <1>0 DEF Crash, Abstract!Drop
    <2> QED
      BY <1>1, <2>1, <2>2, <2>3, <2>4, <2>5, <2>6, <2>7, <2>8, <2>9, <2>10, <2>11, <2>12, <2>13, <2>14, <2>15, <2>16, <2>17, <2>18 DEF Step, Mishap
  <1>2. ASSUME NEW x \in ForeignPid, ForeignStart(x) \/ ForeignExit(x)
        PROVE  [Abstract!Next]_Holders
    BY <1>2 DEF ForeignStart, ForeignExit
  <1>3. CASE UNCHANGED vars
    BY <1>3 DEF vars
  <1> QED
    BY <1>1, <1>2, <1>3 DEF Next

LEMMA QuietInvariant == QuietSpec => [](IInv /\ breaches = {})
  <1>1. Init => IInv /\ breaches = {}
    BY IInvInit DEF Init
  <1>2. IInv /\ breaches = {} /\ [Next /\ breaches' = {}]_vars => (IInv /\ breaches = {})'
    <2>1. [Next /\ breaches' = {}]_vars => [Next]_vars
      OBVIOUS
    <2>2. breaches = {} /\ [Next /\ breaches' = {}]_vars => breaches' = {}
      BY DEF vars
    <2> QED
      BY <2>1, <2>2, IInvNext
  <1> QED
    BY <1>1, <1>2, PTL DEF QuietSpec

\* As long as no verdict is wrong, Acquire and Release give the watcher the
\* lock it relies on: entering is Take, leaving or dying is Drop.
THEOREM LockRefinement == QuietSpec => ImplementsCycleLock
  <1>1. Init => Abstract!Init
    BY DEF Init, Abstract!Init, Holders, Claims
  <1>2. IInv /\ breaches = {} /\ [Next /\ breaches' = {}]_vars => [Abstract!Next]_Holders
    BY RefinementStep
  <1> QED
    BY <1>1, <1>2, QuietInvariant, PTL DEF QuietSpec, ImplementsCycleLock, Abstract!Spec
=============================================================================
