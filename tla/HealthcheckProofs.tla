-------------------------- MODULE HealthcheckProofs --------------------------
(***************************************************************************)
(* What Healthcheck promises, for all durations an artifact may give.      *)
(*                                                                         *)
(* Each bound on the time needs to know, for each value of pc, how the     *)
(* moments `began', `due' and `since' lie to `now': one conjunct per place *)
(* the code can be at.                                                     *)
(***************************************************************************)
EXTENDS Healthcheck, TLAPS

(***************************************************************************)
(* Every reachable state is well typed; in particular no moment that was   *)
(* recorded lies in the future (healthcheck with any durations).           *)
(***************************************************************************)
THEOREM HealthTypes == Spec => []TypeOK
<1>1. Init => TypeOK
  <2> SUFFICES ASSUME Init PROVE TypeOK
    OBVIOUS
  <2>1. timeout \in Timeouts /\ interval \in Intervals /\ readyAt \in ReadyTimes
    BY DEF Init
  <2>2. now \in Nat /\ began \in 0 .. now /\ due \in Nat /\ since \in 0 .. now
    BY DEF Init
  <2>3. pc \in {"try", "running", "drain", "reap", "judge", "sleep"} /\ cancelled \in BOOLEAN
    BY DEF Init
  <2> QED
    BY <2>1, <2>2, <2>3 DEF TypeOK
<1>2. TypeOK /\ [Next]_vars => TypeOK'
  <2> SUFFICES ASSUME TypeOK, [Next]_vars PROVE TypeOK'
    OBVIOUS
  <2> USE HealthcheckAssumption DEF TypeOK, fixed, Done
  <2>1. CASE Try
    BY <2>1 DEF Try
  <2>2. CASE Pass \/ Passed
    BY <2>2 DEF Pass, Passed, Linger
  <2>3. CASE Refused
    BY <2>3 DEF Refused, Linger
  <2>4. CASE Kill
    BY <2>4 DEF Kill
  <2>5. CASE Reap
    BY <2>5 DEF Reap
  <2>6. CASE GiveUp
    BY <2>6 DEF GiveUp
  <2>7. CASE Sleep
    BY <2>7 DEF Sleep, Positive
  <2>8. CASE Wake
    BY <2>8 DEF Wake
  <2>9. CASE Stop
    BY <2>9 DEF Stop
  <2>10. CASE Tick
    BY <2>10 DEF Tick
  <2>11. CASE Cancel
    BY <2>11 DEF Cancel
  <2>12. CASE UNCHANGED vars
    BY <2>12 DEF vars
  <2> QED
    BY <2>1, <2>2, <2>3, <2>4, <2>5, <2>6, <2>7, <2>8, <2>9, <2>10, <2>11, <2>12
       DEF Next, Step
<1> QED
  BY <1>1, <1>2, PTL DEF Spec

-----------------------------------------------------------------------------
(* The bound.                                                              *)

\* The latest an attempt may begin, and the latest it may be over.
LastTry == Positive(timeout + Positive(interval))
LastEnd == LastTry + Positive(Limit - 1) + 1 + MaxLinger

BoundInv ==
  /\ pc = "try" => now <= LastTry
  /\ pc = "running" => began <= LastTry /\ now <= began + Limit /\ Limit > 0
  /\ pc \in {"reap", "drain"} => now <= LastEnd /\ due <= LastEnd
  /\ pc = "judge" => now <= LastEnd
  /\ pc = "sleep" => now <= due /\ due <= LastTry
  /\ pc \in Done => now <= LastEnd

LEMMA BoundInductive ==
  ASSUME TypeOK, TypeOK', BoundInv, [Next]_vars
  PROVE  BoundInv'
<1> USE HealthcheckAssumption
    DEF TypeOK, fixed, Done, BoundInv, LastTry, LastEnd, Positive, Limit
<1>1. CASE Try
  BY <1>1 DEF Try, StillBorn
<1>2. CASE Pass \/ Refused
  <2>1. PICK n \in 0 .. MaxLinger : due' = now + n
    BY <1>2 DEF Pass, Refused, Linger
  <2>2. CASE Pass
    BY <2>1, <2>2 DEF Pass
  <2>3. CASE Refused
    BY <2>1, <2>3 DEF Refused
  <2> QED
    BY <1>2, <2>2, <2>3
<1>3. CASE Passed
  BY <1>3 DEF Passed
<1>4. CASE Kill
  BY <1>4 DEF Kill, KillDue
<1>5. CASE Reap
  BY <1>5 DEF Reap
<1>6. CASE GiveUp
  BY <1>6 DEF GiveUp
<1>7. CASE Sleep
  BY <1>7 DEF Sleep, Expired
<1>8. CASE Wake
  BY <1>8 DEF Wake
<1>9. CASE Stop
  BY <1>9 DEF Stop
<1>10. CASE Tick
  BY <1>10 DEF Tick, KillDue
<1>11. CASE Cancel
  BY <1>11 DEF Cancel
<1>12. CASE UNCHANGED vars
  BY <1>12 DEF vars
<1> QED
  BY <1>1, <1>2, <1>3, <1>4, <1>5, <1>6, <1>7, <1>8, <1>9, <1>10, <1>11, <1>12
     DEF Next, Step

(***************************************************************************)
(* Whatever durations the annotations give, the healthcheck does not       *)
(* outlast its timeout by more than one sleep and one attempt (deadline    *)
(* and attemptCtx in healthcheck).                                         *)
(***************************************************************************)
THEOREM HealthBound == Spec => []WithinBound
<1>1. Init => BoundInv
  BY HealthcheckAssumption DEF Init, BoundInv, LastTry, LastEnd, Positive, Limit, Done
<1>2. TypeOK /\ TypeOK' /\ BoundInv /\ [Next]_vars => BoundInv'
  BY BoundInductive
<1>3. TypeOK /\ BoundInv => WithinBound
  BY HealthcheckAssumption
     DEF TypeOK, BoundInv, WithinBound, LastTry, LastEnd, Positive, Limit, Done
<1> QED
  BY <1>1, <1>2, <1>3, HealthTypes, PTL DEF Spec

-----------------------------------------------------------------------------
(* The verdict.                                                            *)

\* What HealthyInTime asks of the service and of the annotations.
InTime == EarlyEnough /\ Limit > CmdTime /\ ~cancelled

VerdictInv ==
  InTime =>
    /\ pc = "running" =>
         /\ now <= began + Limit
         /\ began >= readyAt => now <= began + CmdTime
    /\ pc = "reap" => now <= timeout /\ due <= timeout
    /\ pc = "judge" => now <= timeout
    /\ pc # "failed"

LEMMA VerdictInductive ==
  ASSUME TypeOK, TypeOK', VerdictInv, [Next]_vars
  PROVE  VerdictInv'
<1> SUFFICES ASSUME InTime' PROVE VerdictInv'
  BY DEF VerdictInv
<1>0. InTime
  BY DEF InTime, EarlyEnough, Limit, Next, Step, vars, fixed, Try, Pass, Refused, Kill,
         Passed, Reap, GiveUp, Sleep, Wake, Stop, Tick, Cancel
<1> USE <1>0, HealthcheckAssumption DEF TypeOK, fixed, VerdictInv, InTime, EarlyEnough, Limit
<1>1. CASE Try
  BY <1>1 DEF Try, StillBorn
<1>2. CASE Pass \/ Refused
  <2>1. PICK n \in 0 .. MaxLinger : due' = now + n
    BY <1>2 DEF Pass, Refused, Linger
  <2>2. CASE Pass
    BY <2>1, <2>2 DEF Pass
  <2>3. CASE Refused
    BY <2>1, <2>3 DEF Refused
  <2> QED
    BY <1>2, <2>2, <2>3
<1>3. CASE Passed
  BY <1>3 DEF Passed
<1>4. CASE Kill
  BY <1>4 DEF Kill, KillDue
<1>5. CASE Reap
  BY <1>5 DEF Reap
<1>6. CASE GiveUp
  BY <1>6 DEF GiveUp, Expired
<1>7. CASE Sleep
  BY <1>7 DEF Sleep
<1>8. CASE Wake
  BY <1>8 DEF Wake
<1>9. CASE Stop
  BY <1>9 DEF Stop
<1>10. CASE Tick
  BY <1>10 DEF Tick, KillDue, Answered
<1>11. CASE Cancel
  BY <1>11 DEF Cancel
<1>12. CASE UNCHANGED vars
  BY <1>12 DEF vars
<1> QED
  BY <1>1, <1>2, <1>3, <1>4, <1>5, <1>6, <1>7, <1>8, <1>9, <1>10, <1>11, <1>12
     DEF Next, Step

(***************************************************************************)
(* A service that comes up early enough is never declared sick, whatever   *)
(* the timeout and the interval are, and whether attempts made too early   *)
(* fail or hang (the order of attempt and deadline in healthcheck).        *)
(***************************************************************************)
THEOREM HealthVerdict == Spec => []HealthyInTime
<1>1. Init => VerdictInv
  BY DEF Init, VerdictInv
<1>2. TypeOK /\ TypeOK' /\ VerdictInv /\ [Next]_vars => VerdictInv'
  BY VerdictInductive
<1>3. VerdictInv => HealthyInTime
  BY DEF VerdictInv, InTime, HealthyInTime
<1> QED
  BY <1>1, <1>2, <1>3, HealthTypes, PTL DEF Spec

-----------------------------------------------------------------------------
(* The cancellation.                                                       *)

LastMoment == since + 1 + MaxLinger

CancelInv ==
  /\ pc \in {"reap", "drain"} => due <= now + 1 + MaxLinger
  /\ cancelled /\ interval > 0 =>
       /\ now <= LastMoment
       /\ pc \in {"try", "running"} => now = since
       /\ pc \in {"reap", "drain"} => due <= LastMoment
       /\ pc = "sleep" /\ now >= due => now = since

LEMMA CancelInductive ==
  ASSUME TypeOK, TypeOK', CancelInv, [Next]_vars
  PROVE  CancelInv'
<1> USE HealthcheckAssumption DEF TypeOK, fixed, CancelInv, LastMoment
<1>1. CASE Try
  BY <1>1 DEF Try, StillBorn
<1>2. CASE Pass \/ Refused
  <2>1. PICK n \in 0 .. MaxLinger : due' = now + n
    BY <1>2 DEF Pass, Refused, Linger
  <2>2. CASE Pass
    BY <2>1, <2>2 DEF Pass
  <2>3. CASE Refused
    BY <2>1, <2>3 DEF Refused
  <2> QED
    BY <1>2, <2>2, <2>3
<1>3. CASE Passed
  BY <1>3 DEF Passed
<1>4. CASE Kill
  BY <1>4 DEF Kill, KillDue
<1>5. CASE Reap
  BY <1>5 DEF Reap
<1>6. CASE GiveUp
  BY <1>6 DEF GiveUp
<1>7. CASE Sleep
  BY <1>7 DEF Sleep, Positive
<1>8. CASE Wake
  BY <1>8 DEF Wake
<1>9. CASE Stop
  BY <1>9 DEF Stop
<1>10. CASE Tick
  BY <1>10 DEF Tick, KillDue
<1>11. CASE Cancel
  BY <1>11 DEF Cancel
<1>12. CASE UNCHANGED vars
  BY <1>12 DEF vars
<1> QED
  BY <1>1, <1>2, <1>3, <1>4, <1>5, <1>6, <1>7, <1>8, <1>9, <1>10, <1>11, <1>12
     DEF Next, Step

(***************************************************************************)
(* With a positive interval, a deploy that is cancelled leaves the         *)
(* healthcheck at once, but for what the shell has left behind and one     *)
(* attempt that is not even started (the context of the attempt, and       *)
(* select in healthcheck).                                                 *)
(***************************************************************************)
THEOREM HealthCancel == Spec => []CancelIsPrompt
<1>1. Init => CancelInv
  BY HealthcheckAssumption DEF Init, CancelInv
<1>2. TypeOK /\ TypeOK' /\ CancelInv /\ [Next]_vars => CancelInv'
  BY CancelInductive
<1>3. CancelInv => CancelIsPrompt
  BY DEF CancelInv, LastMoment, CancelIsPrompt
<1> QED
  BY <1>1, <1>2, <1>3, HealthTypes, PTL DEF Spec
=============================================================================
