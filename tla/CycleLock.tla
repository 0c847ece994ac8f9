------------------------------ MODULE CycleLock ------------------------------
(***************************************************************************)
(* What the watcher is promised by internal/lockfile: at any time at most  *)
(* one process is inside the section between Acquire and Release, and only *)
(* the process that entered it leaves it (by Release or by dying).         *)
(***************************************************************************)
CONSTANT Proc

VARIABLE holders

Init == holders = {}

Take(p) == /\ holders = {}
           /\ holders' = {p}

Drop(p) == /\ holders = {p}
           /\ holders' = {}

Next == \E p \in Proc : Take(p) \/ Drop(p)

Spec == Init /\ [][Next]_holders
=============================================================================
