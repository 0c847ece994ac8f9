----------------------------- MODULE Healthcheck -----------------------------
(***************************************************************************)
(* internal/deploy, healthcheck: the command of the artifact is run again  *)
(* and again until it exits 0 or the timeout has passed.                   *)
(*                                                                         *)
(* Time is counted in units of the shortest an attempt may take; `now' is  *)
(* the time since healthcheck was entered.  timeout and interval come from *)
(* the annotations, and Parse takes any duration, negative ones too.       *)
(*                                                                         *)
(* An attempt is cut off by a context of its own, Limit after it began, or *)
(* by the cancellation of the whole deploy; the shell is killed then.      *)
(* However the shell ends, CombinedOutput returns only when nobody holds   *)
(* the pipe any more: what the shell has started may linger.  The contexts *)
(* have no say in that, nor in how the attempt has gone.                   *)
(***************************************************************************)
EXTENDS Integers

CONSTANTS
  Timeouts,    \* values of healthcheck.timeout
  Intervals,   \* values of healthcheck.interval
  Grace,       \* the 5 seconds an attempt may take beyond the interval
  ReadyTimes,  \* times from which on the service may answer
  CmdTime,     \* the longest the command takes once the service answers
  MaxLinger    \* bound on the time children of the shell hold the pipe after it

ASSUME HealthcheckAssumption ==
  /\ Timeouts \subseteq Int
  /\ Intervals \subseteq Int
  /\ Grace \in Nat
  /\ ReadyTimes \subseteq Nat
  /\ CmdTime \in Nat \ {0}
  /\ MaxLinger \in Nat

VARIABLES
  timeout,    \* req.Spec.HealthTimeout (never changes)
  interval,   \* req.Spec.HealthInterval (never changes)
  readyAt,    \* the service answers from this time on (never changes)
  now,
  pc,         \* where healthcheck is
  began,      \* when the latest attempt began
  due,        \* when the sleep ends, or the last child is gone
  cancelled,  \* ctx is done
  since       \* when that happened

vars == <<timeout, interval, readyAt, now, pc, began, due, cancelled, since>>
fixed == <<timeout, interval, readyAt>>

Done == {"passed", "failed", "stopped"}

Positive(n) == IF n > 0 THEN n ELSE 0

\* What context.WithTimeout allows one attempt.
Limit == interval + Grace

Init ==
  /\ timeout \in Timeouts /\ interval \in Intervals /\ readyAt \in ReadyTimes
  /\ now = 0
  /\ pc = "try"
  /\ began = 0
  /\ due = 0
  /\ cancelled = FALSE
  /\ since = 0

-----------------------------------------------------------------------------
(* One attempt.                                                            *)

\* A context that is done already: Start refuses to run the command.
StillBorn == cancelled \/ Limit <= 0

Try ==
  /\ pc = "try"
  /\ pc' = IF StillBorn THEN "reap" ELSE "running"
  /\ began' = now
  /\ due' = now + 1
  /\ UNCHANGED <<fixed, now, cancelled, since>>

\* The shell is gone, what it started lives on a little.
Linger == \E n \in 0 .. MaxLinger : due' = now + n

\* The command exits 0.
Pass ==
  /\ pc = "running" /\ now > began /\ now >= readyAt
  /\ pc' = "drain"
  /\ Linger
  /\ UNCHANGED <<fixed, now, began, cancelled, since>>

\* CombinedOutput returns no error.
Passed ==
  /\ pc = "drain" /\ now >= due
  /\ pc' = "passed"
  /\ UNCHANGED <<fixed, now, began, due, cancelled, since>>

\* The command exits with an error: it was too early for the service.
Refused ==
  /\ pc = "running" /\ now > began /\ began < readyAt
  /\ pc' = "reap"
  /\ Linger
  /\ UNCHANGED <<fixed, now, began, cancelled, since>>

\* Mutant: the command is run with ctx instead of attemptCtx.
KillDueNoLimit == pc = "running" /\ cancelled

\* Mutant: attemptCtx is derived from context.Background().
KillDueOwnContext == pc = "running" /\ now >= began + Limit

KillDue == pc = "running" /\ (cancelled \/ now >= began + Limit)

\* A context is done: the shell is killed.
Kill ==
  /\ KillDue
  /\ pc' = "reap"
  /\ \E n \in 0 .. MaxLinger : due' = IF now = began THEN now + 1 + n ELSE now + n
  /\ UNCHANGED <<fixed, now, began, cancelled, since>>

\* CombinedOutput returns the error of the attempt.
Reap ==
  /\ pc = "reap" /\ now >= due
  /\ pc' = "judge"
  /\ UNCHANGED <<fixed, now, began, due, cancelled, since>>

-----------------------------------------------------------------------------
(* Between two attempts.                                                   *)

\* Mutant: the deadline has passed as soon as it is reached.
ExpiredOnTime == now >= timeout

Expired == now > timeout

GiveUp ==
  /\ pc = "judge" /\ Expired
  /\ pc' = "failed"
  /\ UNCHANGED <<fixed, now, began, due, cancelled, since>>

\* Mutant: a negative interval is added to the time as it is.
SleepBackwards ==
  /\ pc = "judge" /\ ~Expired
  /\ pc' = "sleep"
  /\ due' = now + interval
  /\ UNCHANGED <<fixed, now, began, cancelled, since>>

\* time.After fires at once if the interval is not positive.
Sleep ==
  /\ pc = "judge" /\ ~Expired
  /\ pc' = "sleep"
  /\ due' = now + Positive(interval)
  /\ UNCHANGED <<fixed, now, began, cancelled, since>>

\* Mutant: a ticker, which does not exist for such intervals.
WakeByTicker ==
  /\ pc = "sleep" /\ now >= due /\ interval > 0
  /\ pc' = "try"
  /\ UNCHANGED <<fixed, now, began, due, cancelled, since>>

\* select takes either case if both are ready.
Wake ==
  /\ pc = "sleep" /\ now >= due
  /\ pc' = "try"
  /\ UNCHANGED <<fixed, now, began, due, cancelled, since>>

Stop ==
  /\ pc = "sleep" /\ cancelled
  /\ pc' = "stopped"
  /\ UNCHANGED <<fixed, now, began, due, cancelled, since>>

Cancel ==
  /\ pc \notin Done /\ ~cancelled
  /\ cancelled' = TRUE
  /\ since' = now
  /\ UNCHANGED <<fixed, now, pc, began, due>>

-----------------------------------------------------------------------------
(* Time passes only where the code waits, and not past the moment when the *)
(* wait is over: timers fire and processes end on time.                    *)

Answered == pc = "running" /\ began >= readyAt /\ now >= began + CmdTime

Tick ==
  /\ \/ pc = "running" /\ ~KillDue /\ ~Answered
     \/ pc \in {"reap", "drain"} /\ now < due
     \/ pc = "sleep" /\ now < due /\ ~cancelled
  /\ now' = now + 1
  /\ UNCHANGED <<fixed, pc, began, due, cancelled, since>>

Step ==
  \/ Try \/ Pass \/ Passed \/ Refused \/ Kill \/ Reap
  \/ GiveUp \/ Sleep \/ Wake \/ Stop \/ Tick

Next == Step \/ Cancel

\* The function keeps running; nobody has to cancel it.
Spec == Init /\ [][Next]_vars /\ WF_vars(Step)

-----------------------------------------------------------------------------
TypeOK ==
  /\ timeout \in Timeouts
  /\ interval \in Intervals
  /\ readyAt \in ReadyTimes
  /\ now \in Nat
  /\ pc \in {"try", "running", "drain", "reap", "judge", "sleep"} \union Done
  /\ began \in 0 .. now
  /\ due \in Nat
  /\ cancelled \in BOOLEAN
  /\ since \in 0 .. now

(***************************************************************************)
(* The healthcheck does not outlast its timeout by more than one sleep and *)
(* one attempt, whatever the durations in the annotations are, and however *)
(* the command behaves (healthcheck's deadline and attemptCtx).  Without   *)
(* MaxLinger there would be no bound at all.                               *)
(***************************************************************************)
WithinBound ==
  now <= Positive(timeout + Positive(interval)) + Positive(Limit - 1) + 1 + MaxLinger

(***************************************************************************)
(* A service that comes up in time is not taken for sick: if it answers so *)
(* early that an attempt begun just before can hang, be cut off and still  *)
(* be judged by the deadline, and the command gets the time it needs, the  *)
(* healthcheck does not fail (the deadline is looked at only after an      *)
(* attempt).  One that answers from the start needs no timeout at all.     *)
(***************************************************************************)
EarlyEnough == readyAt = 0 \/ readyAt - 1 + Limit + MaxLinger <= timeout

HealthyInTime ==
  EarlyEnough /\ Limit > CmdTime /\ ~cancelled => pc # "failed"

(***************************************************************************)
(* The context ends it too: with a positive interval, a deploy that is     *)
(* cancelled leaves the check at once, but for the children of the shell   *)
(* and, should the timer and the context be ready together, one attempt    *)
(* that is not even started.  With an interval of zero or less the timer   *)
(* is ready every time, and there is no such bound: select may take it     *)
(* again and again, until Decides has it end (ctx.Done in healthcheck).    *)
(***************************************************************************)
CancelIsPrompt ==
  cancelled /\ interval > 0 => now <= since + 1 + MaxLinger

(***************************************************************************)
(* The healthcheck ends, for every timeout and every interval.             *)
(***************************************************************************)
Decides == <>(pc \in Done)
=============================================================================
