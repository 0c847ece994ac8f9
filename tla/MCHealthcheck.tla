---------------------------- MODULE MCHealthcheck ----------------------------
(***************************************************************************)
(* Instances of Healthcheck for TLC.                                       *)
(***************************************************************************)
EXTENDS Healthcheck

\* Durations on either side of nothing and of the grace of 3 units.
SomeTimeouts  == {-2, 0, 1, 4, 9}
SomeIntervals == {-4, -3, -2, -1, 0, 1, 3}

\* At once, soon, at the last moment, and after every deadline.
SomeReadyTimes == {0, 1, 3, 5, 30}
=============================================================================
