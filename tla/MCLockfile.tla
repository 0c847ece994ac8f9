----------------------------- MODULE MCLockfile -----------------------------
(***************************************************************************)
(* Instances of Lockfile for TLC.                                          *)
(***************************************************************************)
EXTENDS Lockfile, FiniteSets, TLC

CONSTANTS p1, p2, p3

\* Every process may signal every other (one user).
SameUser == Proc \X Proc

Symmetry == Permutations(Proc) \union Permutations(Pid)

\* Goes no further once a verdict was wrong: the states of QuietSpec, and
\* those one step after them.
NoBreach == breaches = {}
=============================================================================
