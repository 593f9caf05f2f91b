-------------------------- MODULE MCCompilePipeline --------------------------
(* Files: three compiles, one after the other in a single directory, as     *)
(* direct callers run them, or two of them in one directory and the third,  *)
(* which may run at any time between, in the directory of its run (Main).   *)
(* Source: every netlist of three gates over two inputs in order of its     *)
(* dependencies, and those without XOR in any other order; only the first   *)
(* gate of the former may read one input twice.                             *)
EXTENDS CompilePipeline

CONSTANTS c1, c2, c3, run1, run2, a, b, g1, g2, g3

OneDirectory == [c \in Compiles |-> run1]
TwoDirectories == [c \in Compiles |-> IF c = c3 THEN run2 ELSE run1]
MCLayouts == {OneDirectory, TwoDirectories}

Pairs(S) == {{x, y} : x \in S, y \in S}
Distinct(S) == {p \in Pairs(S) : Cardinality(p) = 2}
GatesOn(S, pairs, output, binary) ==
    {Gate(kind, p, output) : kind \in binary, p \in pairs} \cup
    {Gate(kind, {x}, output) : kind \in {"NOT", "BUFFER"}, x \in S}
Triples(first, binary) ==
    LET second == Inputs \cup {g1}
        third  == Inputs \cup {g1, g2}
    IN {<<x, y, z>> : x \in GatesOn(Inputs, first, g1, binary),
                      y \in GatesOn(second, Distinct(second), g2, binary),
                      z \in GatesOn(third, Distinct(third), g3, binary)}
Netlist(gates, outputs) == [gates |-> gates, outputs |-> outputs]

InOrder == {Netlist(t, O \cup {g3}) :
              t \in Triples(Pairs(Inputs), {"AND", "OR", "XOR"}), O \in SUBSET {g1, g2}}

Shuffles == {<<1, 3, 2>>, <<2, 1, 3>>, <<2, 3, 1>>, <<3, 1, 2>>, <<3, 2, 1>>}
Shuffled == {Netlist(<<t[q[1]], t[q[2]], t[q[3]]>>, {g3}) :
               t \in Triples(Distinct(Inputs), {"AND", "OR"}), q \in Shuffles}

OrderedOnly == {InOrder}
MCSourceFamilies == {InOrder, Shuffled}
MCPlainSource ==
    Netlist(<<Gate("AND", {a, b}, g1), Gate("XOR", {a, g1}, g2), Gate("NOT", {g2}, g3)>>, {g3})
==============================================================================
