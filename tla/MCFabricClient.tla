--------------------------- MODULE MCFabricClient ---------------------------
(* The client and two connections, on the instance of MCFabricHarness.       *)
EXTENDS FabricClient, TLC

CONSTANTS s1, s2, adder, low, high, dark, lit

SessionSymmetry == Permutations(Sessions)
OneFixture == [s \in Sessions |-> adder]
LowHigh == <<low, high>>
FollowsInput == [setting \in Settings |-> IF setting = low THEN dark ELSE lit]
==============================================================================
