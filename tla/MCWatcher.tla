----------------------------- MODULE MCWatcher -----------------------------
(***************************************************************************)
(* Instances of Watcher for TLC.                                           *)
(***************************************************************************)
EXTENDS Watcher, TLC

CONSTANTS p1, p2

\* One daemon, and somebody who runs `orascout check' beside it.
DaemonAndCheck == (p1 :> "daemon") @@ (p2 :> "check")

\* A daemon, and a timer that runs `orascout run --once'.
DaemonAndTimer == (p1 :> "daemon") @@ (p2 :> "once")

OnlyDaemon == [p \in Proc |-> "daemon"]
OnlyTimer  == [p \in Proc |-> "once"]

\* Two entries of `repos' that are tags of one repository.
SameDir == [r \in Repo |-> "app"]

CalmSpec == Calm /\ \A p \in Proc : WF_vars(Work(p)) /\ SF_vars(Exit(p))
=============================================================================
