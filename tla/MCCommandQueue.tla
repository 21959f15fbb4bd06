--------------------------- MODULE MCCommandQueue ----------------------------
(* Commands, overlapping ticks of the worker, and a runner. *)
EXTENDS CommandQueue

CONSTANTS m1, m2, w1, w2, r1
=============================================================================
