---------------------------- MODULE MCExactNoGoods ----------------------------
(* Three exterior signals with two routes each, on two layers; two nets of   *)
(* the component, one with two terminals; one foreign terminal.  The owned   *)
(* terminal of x meets routes of its own signal, which never exclude it.     *)
EXTENDS ExactNoGoods, TLC

CONSTANTS x1, x2, y1, y2, z1, z2, a1, a2, a3, b1, b2, e1, e2, p1, p2

MCSignals == {"x", "y", "z"}
MCCandidates == {x1, x2, y1, y2, z1, z2}
MCSignalOf == [c \in MCCandidates |->
    IF c \in {x1, x2} THEN "x" ELSE IF c \in {y1, y2} THEN "y" ELSE "z"]
MCLayer == [c \in MCCandidates |-> IF c \in {x1, y1, z1} THEN 0 ELSE 1]

MCDomains == {"a", "b", "e"}
MCDomainSignal == [d \in MCDomains |-> IF d = "b" THEN "x" ELSE "w"]
MCAccesses == [a |-> {a1, a2, a3}, b |-> {b1, b2}, e |-> {e1, e2}]
MCTerminals == {"p"}
MCPortals == [p |-> {p1, p2}]

MCTrees == {"w11", "w22", "w31", "x1", "x2"}
MCTreeSignal == [t \in MCTrees |-> IF t \in {"x1", "x2"} THEN "x" ELSE "w"]
MCTreeAccesses == [w11 |-> {a1, e1}, w22 |-> {a2, e2}, w31 |-> {a3, e1},
                   x1 |-> {b1}, x2 |-> {b2}]

\* What each route may block.
Menu == (x1 :> {{a1, b1}, {a1, p1}, {a2, p1, p2}})
     @@ (x2 :> {{}, {p1, p2}})
     @@ (y1 :> {{a2, p2}, {a1, a3, e1}})
     @@ (y2 :> {{b1, b2}, {a2, a3}})
     @@ (z1 :> {{a3}, {b2, e2}})
     @@ (z2 :> {{}})

MCBlocks ==
    {(x1 :> f[1]) @@ (x2 :> f[2]) @@ (y1 :> f[3]) @@ (y2 :> f[4]) @@ (z1 :> f[5])
       @@ (z2 :> f[6]) :
       f \in Menu[x1] \X Menu[x2] \X Menu[y1] \X Menu[y2] \X Menu[z1] \X Menu[z2]}

AllBut(pairs) ==
    {x \in MCCandidates \X MCCandidates : {x[1], x[2]} \notin pairs}

None == [c \in MCCandidates |-> {}]

Geometries ==
    {[barred |-> {}, spoils |-> None, seals |-> None,
      unroutable |-> {}, powerless |-> {}],
     [barred |-> {a1}, spoils |-> None, seals |-> None,
      unroutable |-> {}, powerless |-> {"w22"}],
     [barred |-> {}, spoils |-> [None EXCEPT ![x1] = {"x1"}, ![y2] = {"w11", "x1"}, ![z2] = {"w31"}],
      seals |-> [None EXCEPT ![x2] = {"w22"}, ![y1] = {"w11"}],
      unroutable |-> {"x2"}, powerless |-> {}]}

MCProblems ==
    {[compatible |-> AllBut(pairs), blocks |-> blocks,
      barred |-> g.barred, spoils |-> g.spoils, seals |-> g.seals,
      unroutable |-> g.unroutable, powerless |-> g.powerless] :
        pairs \in {{}, {{x1, y1}}, {{y1, z1}, {x2, y2}, {x2, z2}}},
        blocks \in MCBlocks, g \in Geometries}
=============================================================================
