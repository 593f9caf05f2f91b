--------------------------- MODULE MCClaimConflicts ---------------------------
(* Three signals whose routes are connected: one cell, two cells or a      *)
(* stair of three, in a slice three cells wide and three high.  One solid  *)
(* block takes the headroom of a step, another block cannot carry dust.    *)
EXTENDS ClaimConflicts

MCSignals == {"a", "b", "c"}
Slice == {<<x, y, 0>> : x \in 0 .. 2, y \in 0 .. 2}
Stairs == {{<<0, 0, 0>>, <<1, 1, 0>>, <<2, 2, 0>>}, {<<2, 0, 0>>, <<1, 1, 0>>, <<0, 0, 0>>}}
Connected(p, q) == p = q \/ q \in NeighborPositions(p)
Pairs == {{q[1], q[2]} : q \in {r \in Slice \X Slice : Connected(r[1], r[2])}}
MCRoutes == {{}} \union Pairs \union Stairs
MCSolidBlocks == {<<2, 1, 0>>}
MCActualBlocks == {<<2, 1, 0>>, <<0, -1, 0>>}
=============================================================================
