-------------------------- MODULE MCNegotiatedSearch --------------------------
EXTENDS NegotiatedSearch

MCSignals == {"a", "b", "c"}
MCCandidates == {"a1", "a2", "b1", "b2", "c1", "c2"}
MCResources == {"r1", "r2", "r3"}
MCOf == [a |-> {"a1", "a2"}, b |-> {"b1", "b2"}, c |-> {"c1", "c2"}]

(* A choice exists but the cheap trees collide; three signals share two    *)
(* resources; two signals cannot avoid each other, and in the last table   *)
(* they can come closer to it in one pass and not in the next.             *)
Solvable == [a1 |-> {"r1"}, a2 |-> {"r2"}, b1 |-> {"r1"}, b2 |-> {"r1", "r3"},
             c1 |-> {"r2"}, c2 |-> {"r3"}]
Crowded == [a1 |-> {"r1"}, a2 |-> {"r2"}, b1 |-> {"r1"}, b2 |-> {"r2"},
            c1 |-> {"r1", "r3"}, c2 |-> {"r2"}]
Blocked == [a1 |-> {"r1"}, a2 |-> {"r1", "r2"}, b1 |-> {"r1"}, b2 |-> {"r1", "r3"},
            c1 |-> {"r2"}, c2 |-> {"r3"}]
Nearer == [a1 |-> {"r1", "r2"}, a2 |-> {"r1"}, b1 |-> {"r1", "r2"}, b2 |-> {"r1", "r3"},
           c1 |-> {"r3"}, c2 |-> {"r2"}]

Plain ==
    [of |-> MCOf, uses |-> Solvable, requests |-> MCSignals, regenerate |-> {},
     seeds |-> [s \in MCSignals |-> {}], initial |-> [s \in MCSignals |-> {}],
     mandatory |-> {},
     complete |-> FALSE, higher |-> FALSE, advance |-> FALSE,
     localClaims |-> FALSE, earlyCut |-> TRUE, fewestLayers |-> FALSE]

(* In each, the trees of some signals are known at the start, and the      *)
(* requests are for the others.                                            *)
MCProblems ==
    {[Plain EXCEPT !.uses = Solvable, !.requests = {"a", "b"},
                   !.seeds = [a |-> {}, b |-> {}, c |-> {"c1"}]],
     [Plain EXCEPT !.uses = Crowded, !.requests = {"a", "b"},
                   !.seeds = [a |-> {"a1"}, b |-> {}, c |-> {"c1", "c2"}]],
     [Plain EXCEPT !.uses = Crowded, !.higher = TRUE, !.requests = {"a"},
                   !.seeds = [a |-> {}, b |-> {"b1"}, c |-> {"c2"}]],
     [Plain EXCEPT !.uses = Crowded, !.advance = TRUE, !.fewestLayers = TRUE,
                   !.requests = {"a", "b"},
                   !.seeds = [a |-> {}, b |-> {"b1"}, c |-> {"c2"}]],
     [Plain EXCEPT !.uses = Blocked, !.mandatory = {"r1"}, !.localClaims = TRUE,
                   !.earlyCut = FALSE, !.requests = {"a", "b"},
                   !.seeds = [a |-> {}, b |-> {}, c |-> {"c1", "c2"}]],
     [Plain EXCEPT !.seeds = MCOf, !.complete = TRUE, !.fewestLayers = TRUE],
     [Plain EXCEPT !.uses = Crowded, !.mandatory = {"r2"}, !.requests = {"a", "b"},
                   !.seeds = [a |-> {"a1"}, b |-> {"b1"}, c |-> {"c2"}],
                   !.regenerate = {"a"}],
     [Plain EXCEPT !.uses = Blocked, !.mandatory = {"r1"}, !.earlyCut = FALSE,
                   !.requests = {"a", "b"},
                   !.seeds = [a |-> {}, b |-> {"b1"}, c |-> {"c2"}]],
     [Plain EXCEPT !.seeds = [a |-> {"a1"}, b |-> {"b1"}, c |-> {}],
                   !.initial = [a |-> {}, b |-> {"b2"}, c |-> {"c1", "c2"}],
                   !.requests = {"a", "b"}],
     [Plain EXCEPT !.uses = Crowded, !.complete = TRUE, !.requests = {"a"},
                   !.seeds = [a |-> {"a1"}, b |-> {"b1"}, c |-> {"c2"}],
                   !.initial = [a |-> {}, b |-> {"b2"}, c |-> {}]],
     [Plain EXCEPT !.uses = Nearer, !.mandatory = {"r1"}, !.requests = {"a", "b"},
                   !.seeds = [a |-> {"a1"}, b |-> {"b1"}, c |-> {"c2"}]],
     [Plain EXCEPT !.seeds = [a |-> {"a1"}, b |-> {"b1"}, c |-> {}]]}

MCSeedShare == <<2, 3>>
=============================================================================
