-------------------------- MODULE MCTraceQuiescence --------------------------
(* A small instance of TraceQuiescence for TLC.  The tracker only compares  *)
(* probe states with each other, so they are interchangeable.               *)
EXTENDS TraceQuiescence, TLC

TraceStateSymmetry == Permutations(TraceStates)
==============================================================================
