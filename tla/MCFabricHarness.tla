--------------------------- MODULE MCFabricHarness ---------------------------
(* Small instances of FabricHarness for TLC.  The quiet window is two ticks  *)
(* instead of 40 and the deadline four instead of 200; two lever settings    *)
(* tested in the order low, high.                                            *)
EXTENDS FabricHarness, TLC

CONSTANTS s1, s2, adder, low, high, dark, lit

SessionSymmetry == Permutations(Sessions)
OneFixture == [s \in Sessions |-> adder]
LowHigh == <<low, high>>
FollowsInput == [setting \in Settings |-> IF setting = low THEN dark ELSE lit]
==============================================================================
