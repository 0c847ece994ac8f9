----------------------------- MODULE MCOrascout -----------------------------
(***************************************************************************)
(* An instance of Orascout for TLC: one daemon, two tags of one repository.*)
(***************************************************************************)
EXTENDS Orascout

CONSTANT p1

OnlyDaemon == [p \in Proc |-> "daemon"]
SameDir    == [r \in Repo |-> "app"]
=============================================================================
