--------------------------- MODULE MCArcConsistency ---------------------------
(* Four signals with two candidates, constrained along a ring and one      *)
(* diagonal.  The edges of the ring take one of four relations each, the   *)
(* diagonal one of two; the other pairs are compatible.  Equality along a  *)
(* path carries a removal from one end to the other, and odd cycles of     *)
(* difference have no answer.  Signals 1 and 2 are guides, 3 an access     *)
(* terminal and 4 a base claim, as far as the catalogue is factored.       *)
EXTENDS ArcConsistency

MCSignals == 1 .. 4
MCCandidates == 1 .. 2
MCGuides == {1, 2}
MCTerminals == {3}
Edges == {<<1, 2>>, <<2, 3>>, <<3, 4>>, <<1, 4>>, <<2, 4>>}

All == MCCandidates \X MCCandidates
Kinds == {All, {<<1, 1>>, <<2, 2>>}, {<<1, 2>>, <<2, 1>>}, {<<1, 1>>, <<1, 2>>, <<2, 1>>}}

Diagonals == {All, {<<1, 2>>, <<2, 1>>}}

Allows(kind, s, a, t, b) ==
    /\ <<s, t>> \in Edges => <<a, b>> \in kind[<<s, t>>]
    /\ <<t, s>> \in Edges => <<b, a>> \in kind[<<t, s>>]

MaskOf(kind, s, a, t) ==
    IF s = t THEN {a} ELSE {b \in MCCandidates : Allows(kind, s, a, t, b)}

MCRelations ==
    {[s \in MCSignals |-> [a \in MCCandidates |-> [t \in MCSignals |-> MaskOf(kind, s, a, t)]]] :
        kind \in {k \in [Edges -> Kinds] : k[<<2, 4>>] \in Diagonals}}
MCWholes == [MCSignals -> {MCCandidates}]
=============================================================================
