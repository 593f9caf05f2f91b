----------------------------- MODULE MCWorldClear -----------------------------
(* Small instances of FabricRuntime for TLC: two managers; two overworld      *)
(* regions, one foreign one, two block positions in each.                     *)
EXTENDS FabricRuntime, TLC

\* Starts, stops and builds that overlap, over an empty world; a clear beside
\* another command; two clears with blocks pasted before and between; a clear
\* of more blocks than a batch holds.
MCLoads ==
    {[running |-> {0, 1}, services |-> BOOLEAN, commands |-> 3,
      kinds |-> {"start", "stop"}, clears |-> 0, pastes |-> 0],
     [running |-> {1}, services |-> {TRUE}, commands |-> 2,
      kinds |-> Actions, clears |-> 1, pastes |-> 1],
     [running |-> {1}, services |-> {TRUE}, commands |-> 2,
      kinds |-> {"clear"}, clears |-> 2, pastes |-> 2],
     [running |-> {1}, services |-> {TRUE}, commands |-> 1,
      kinds |-> {"clear"}, clears |-> 1, pastes |-> 3]}

RuntimeSymmetry ==
    Permutations(Managers) \cup Permutations(Overworld) \cup Permutations(Positions)
===============================================================================
