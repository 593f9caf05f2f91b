---------------------------- MODULE ClaimConflicts ----------------------------
(***************************************************************************)
(* What a route claims of the world, and when two claims conflict          *)
(* (Compiler/Routing: ResourceGraph.py, Technology.py,                     *)
(* Interfaces/PhysicalClaims.py; RustRouting Core/Models.rs).              *)
(*                                                                         *)
(* A route of dust claims the cells of its dust, the blocks below them,    *)
(* the air above the lower end of each step, and every cell that would     *)
(* connect to it.  Six places of the code decide whether two claims        *)
(* conflict, each in its own way: by unions of positions, by short-circuit *)
(* tests, by the component solver's predicate, by the native masks, once   *)
(* whether and once where, and by an index over all signals at once.       *)
(***************************************************************************)
EXTENDS Integers, FiniteSets

CONSTANTS Signals,
          Routes,        \* the sets of dust cells a route may consist of
          SolidBlocks,   \* cells filled by a solid block
          ActualBlocks   \* cells filled by any block

ASSUME ClaimsAssumption == {} \in Routes

VARIABLE claims    \* ClaimsBySignal: the claims of every signal's route

vars == <<claims>>

(* Positions are <<x, y, z>>, y upwards.                                   *)
Below(p) == <<p[1], p[2] - 1, p[3]>>
Above(p) == <<p[1], p[2] + 1, p[3]>>
Sides == {<<1, 0>>, <<-1, 0>>, <<0, 1>>, <<0, -1>>}

NeighborPositions(p) ==
    {<<p[1] + q[1][1], p[2] + q[2], p[3] + q[1][2]>> : q \in Sides \X (-1 .. 1)}

(* An edge from a cell up to a neighbour one higher: the air above the     *)
(* lower cell must be free, the upper cell's support must hold dust.       *)
CanBuildStep(lower, upper) ==
    /\ Above(lower) \notin SolidBlocks \union ActualBlocks
    /\ Below(upper) \in ActualBlocks => Below(upper) \in SolidBlocks

StepsOf(wires) ==
    {q \in wires \X wires :
        /\ q[2] \in NeighborPositions(q[1]) /\ q[2][2] > q[1][2]
        /\ CanBuildStep(q[1], q[2])}

\* Mutant: the electrical cells leave out the wire's own.
BuildRouteClaimsAround(wires) ==
    [wire       |-> wires,
     support    |-> {Below(p) : p \in wires},
     air        |-> {Above(q[1]) : q \in StepsOf(wires)},
     electrical |-> UNION {NeighborPositions(p) : p \in wires}]

\* Mutant: dust is taken to connect on its own level only.
BuildRouteClaimsFlat(wires) ==
    [wire       |-> wires,
     support    |-> {Below(p) : p \in wires},
     air        |-> {Above(q[1]) : q \in StepsOf(wires)},
     electrical |-> wires \union
         UNION {{q \in NeighborPositions(p) : q[2] = p[2]} : p \in wires}]

BuildRouteClaims(wires) ==
    [wire       |-> wires,
     support    |-> {Below(p) : p \in wires},
     air        |-> {Above(q[1]) : q \in StepsOf(wires)},
     electrical |-> wires \union UNION {NeighborPositions(p) : p \in wires}]

MergeClaims(a, b) ==
    [wire       |-> a.wire \union b.wire,
     support    |-> a.support \union b.support,
     air        |-> a.air \union b.air,
     electrical |-> a.electrical \union b.electrical]

Meet(S, T) == S \cap T # {}

-----------------------------------------------------------------------------
(* PhysicalClaims.py: ClaimConflictPositions and its three parts, which    *)
(* FindClaimConflicts reports by kind.                                     *)
Kinds == {"Electrical", "Support", "Air"}

PairPositions(a, b, kind) ==
    CASE kind = "Electrical" -> (a.wire \cap b.electrical) \union (b.wire \cap a.electrical)
      [] kind = "Support" -> (a.support \cap (b.wire \union b.air))
                             \union (b.support \cap (a.wire \union a.air))
      [] OTHER -> (a.air \cap b.wire) \union (b.air \cap a.wire)

ClaimConflictPositions(a, b) == UNION {PairPositions(a, b, kind) : kind \in Kinds}

MandatoryClaimsConflict(a, b) ==
    \/ Meet(a.wire, b.electrical) \/ Meet(b.wire, a.electrical)
    \/ Meet(a.support, b.wire) \/ Meet(a.support, b.air)
    \/ Meet(b.support, a.wire) \/ Meet(b.support, a.air)
    \/ Meet(a.air, b.wire) \/ Meet(b.air, a.wire)

ComponentClaimsConflict(a, b) ==
    \/ Meet(a.wire, b.wire)
    \/ Meet(a.support, b.wire) \/ Meet(a.support, b.air)
    \/ Meet(b.support, a.wire) \/ Meet(b.support, a.air)
    \/ Meet(a.air, b.wire) \/ Meet(b.air, a.wire)
    \/ Meet(a.electrical, b.wire) \/ Meet(b.electrical, a.wire)

(* Models.rs: the list of mask pairs of ConflictsWithDeadline and of       *)
(* ConflictIndicesWithDeadline, and the shorter one for a single owner.    *)
SameOwnerMaskPairs(a, b) ==
    {<<a.support, b.wire>>, <<a.support, b.air>>, <<b.support, a.wire>>,
     <<b.support, a.air>>, <<a.air, b.wire>>, <<b.air, a.wire>>}

MaskPairs(a, b) ==
    {<<a.wire, b.electrical>>, <<b.wire, a.electrical>>} \union SameOwnerMaskPairs(a, b)

NativeConflicts(a, b) == \E pair \in MaskPairs(a, b) : Meet(pair[1], pair[2])
SameOwnerConflicts(a, b) == \E pair \in SameOwnerMaskPairs(a, b) : Meet(pair[1], pair[2])
ConflictIndices(a, b) == UNION {pair[1] \cap pair[2] : pair \in MaskPairs(a, b)}

HasSelfConflict(c) == Meet(c.air, c.wire) \/ Meet(c.support, c.wire \union c.air)

(* ComponentClaimsCompatibleForOwners, for two claims of one owner.        *)
CompatibleForOneOwner(a, b) == ~HasSelfConflict(MergeClaims(a, b))

-----------------------------------------------------------------------------
(* ResourceGraph.py: conflicts of all signals, as a function from the      *)
(* conflicting resources <<kind, position>> to their owners.               *)
Touched(table) == UNION {table[s].wire \union table[s].support \union table[s].air :
                             s \in Signals}
Resources(table) == Kinds \X Touched(table)

PairOwners(table, kind, p) ==
    {s \in Signals : \E t \in Signals \ {s} : p \in PairPositions(table[s], table[t], kind)}

FindClaimConflicts(table) ==
    [r \in {q \in Resources(table) : PairOwners(table, q[1], q[2]) # {}} |->
        PairOwners(table, r[1], r[2])]

OwnersAt(table, field, p) == {s \in Signals : p \in table[s][field]}

FirstOwners(table, kind, p) ==
    CASE kind = "Electrical" -> OwnersAt(table, "wire", p)
      [] kind = "Support" -> OwnersAt(table, "support", p)
      [] OTHER -> OwnersAt(table, "air", p)

\* Mutant: the index of the supports is met with the wires only.
SecondOwnersWithoutAir(table, kind, p) ==
    OwnersAt(table, IF kind = "Electrical" THEN "electrical" ELSE "wire", p)

SecondOwners(table, kind, p) ==
    CASE kind = "Electrical" -> OwnersAt(table, "electrical", p)
      [] kind = "Support" -> OwnersAt(table, "wire", p) \union OwnersAt(table, "air", p)
      [] OTHER -> OwnersAt(table, "wire", p)

IndexedOwners(table, kind, p) ==
    LET First == FirstOwners(table, kind, p)
        Second == SecondOwners(table, kind, p)
    IN {s \in Signals : \E t \in Signals \ {s} :
            (s \in First /\ t \in Second) \/ (t \in First /\ s \in Second)}

FindClaimConflictsByResourceIndex(table) ==
    [r \in {q \in Resources(table) : IndexedOwners(table, q[1], q[2]) # {}} |->
        IndexedOwners(table, r[1], r[2])]

-----------------------------------------------------------------------------
(* The table the router keeps: a route is committed for a signal without   *)
(* one, and taken out again when it is to be routed anew.                  *)
Init == claims = [s \in Signals |-> BuildRouteClaims({})]

Commit(s, wires) ==
    /\ claims[s].wire = {} /\ wires # {}
    /\ claims' = [claims EXCEPT ![s] = BuildRouteClaims(wires)]

RipUp(s) ==
    /\ claims[s].wire # {}
    /\ claims' = [claims EXCEPT ![s] = BuildRouteClaims({})]

Next == \E s \in Signals : RipUp(s) \/ \E wires \in Routes : Commit(s, wires)

Spec == Init /\ [][Next]_vars

-----------------------------------------------------------------------------
TypeOK == claims \in [Signals -> {BuildRouteClaims(wires) : wires \in Routes}]

(* For two claims of one owner the component solver merges them and looks  *)
(* for conflicts of the union with itself, the native search intersects    *)
(* the masks: the same answer whenever each claim is legal by itself.      *)
SameOwnerFormsAgree ==
    \A s, t \in Signals :
        LET a == claims[s]
            b == claims[t]
        IN ~HasSelfConflict(a) /\ ~HasSelfConflict(b) =>
              (CompatibleForOneOwner(a, b) <=> ~SameOwnerConflicts(a, b))

(* The five pairwise forms agree on every two routes, although only one of *)
(* them looks at two wires in one cell: the others find that through the   *)
(* electrical cells.  ("Separate intersections are logically identical",   *)
(* PhysicalClaims.py:50-53.)  So do the shorter two for one owner.  (The   *)
(* type invariant is part.)                                                *)
PairwiseFormsAgree ==
    /\ TypeOK
    /\ \A s, t \in Signals :
        LET a == claims[s]
            b == claims[t]
            conflict == ClaimConflictPositions(a, b) # {}
        IN /\ conflict <=> MandatoryClaimsConflict(a, b)
           /\ conflict <=> ComponentClaimsConflict(a, b)
           /\ conflict <=> NativeConflicts(a, b)
           /\ ClaimConflictPositions(a, b) = ConflictIndices(a, b)
    /\ SameOwnerFormsAgree

(* "Find the same cross-signal conflicts by indexing resource ownership"   *)
(* (ResourceGraph.py:716): same resources, same owners.                    *)
IndexFindsTheSame ==
    FindClaimConflictsByResourceIndex(claims) = FindClaimConflicts(claims)

(* The plan the router accepts, one with no reported conflict, is legal in *)
(* the world: no dust of one signal connects to, stands on the place of,   *)
(* is carried by or cuts off a step of another signal.                     *)
NoCrossTalk ==
    FindClaimConflicts(claims) = << >> =>
        \A s, t \in Signals : s # t =>
            \A p \in claims[s].wire, q \in claims[t].wire :
                /\ p # q /\ q \notin NeighborPositions(p)
                /\ q # Below(p)
                /\ q \notin claims[s].air
=============================================================================
