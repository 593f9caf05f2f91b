------------------------ MODULE ClaimConflicts_proofs -------------------------
(***************************************************************************)
(* Proofs about ClaimConflicts, for every set of signals, routes and       *)
(* blocks.  All of them rest on the type invariant: every claim of the     *)
(* table is what BuildRouteClaims makes of some route, so that its wire is *)
(* among its electrical cells.  That is what makes the test of two wires   *)
(* in one cell, which only one of the five forms spells out, redundant.    *)
(***************************************************************************)
EXTENDS ClaimConflicts, TLAPS

(* What the later proofs use of a claim, in place of its definition.       *)
WellBuilt(c) ==
    /\ c.wire \subseteq c.electrical
    /\ \A p \in c.wire : Below(p) \in c.support /\ NeighborPositions(p) \subseteq c.electrical

(* Commit and RipUp put only claims of routes into the table.              *)
THEOREM TypeCorrect == Spec => []TypeOK
<1>1. Init => TypeOK
  BY ClaimsAssumption DEF Init, TypeOK
<1>2. TypeOK /\ [Next]_vars => TypeOK'
  <2> SUFFICES ASSUME TypeOK, [Next]_vars PROVE TypeOK'
    OBVIOUS
  <2>1. CASE UNCHANGED vars
    BY <2>1 DEF TypeOK, vars
  <2>2. ASSUME NEW s \in Signals, RipUp(s) PROVE TypeOK'
    BY <2>2, ClaimsAssumption DEF TypeOK, RipUp
  <2>3. ASSUME NEW s \in Signals, NEW wires \in Routes, Commit(s, wires) PROVE TypeOK'
    BY <2>3 DEF TypeOK, Commit
  <2> QED
    BY <2>1, <2>2, <2>3 DEF Next
<1> QED
  BY <1>1, <1>2, PTL DEF Spec

LEMMA ClaimsAreWellBuilt ==
    ASSUME TypeOK, NEW s \in Signals
    PROVE  WellBuilt(claims[s])
<1>1. PICK wires \in Routes : claims[s] = BuildRouteClaims(wires)
  BY DEF TypeOK
<1>2. /\ claims[s].wire = wires
      /\ claims[s].support = {Below(p) : p \in wires}
      /\ claims[s].electrical = wires \union UNION {NeighborPositions(p) : p \in wires}
  BY <1>1 DEF BuildRouteClaims
<1> QED
  BY <1>2 DEF WellBuilt

-----------------------------------------------------------------------------
(* The position where two wires meet is an electrical conflict already.    *)
LEMMA FormsOfWellBuiltClaims ==
    ASSUME NEW a, NEW b, WellBuilt(a), WellBuilt(b)
    PROVE  LET conflict == ClaimConflictPositions(a, b) # {}
           IN /\ conflict <=> MandatoryClaimsConflict(a, b)
              /\ conflict <=> ComponentClaimsConflict(a, b)
              /\ conflict <=> NativeConflicts(a, b)
              /\ ClaimConflictPositions(a, b) = ConflictIndices(a, b)
<1>1. ClaimConflictPositions(a, b) =
        PairPositions(a, b, "Electrical") \union PairPositions(a, b, "Support")
        \union PairPositions(a, b, "Air")
  BY DEF ClaimConflictPositions, Kinds
<1>2. /\ PairPositions(a, b, "Electrical")
           = (a.wire \cap b.electrical) \union (b.wire \cap a.electrical)
      /\ PairPositions(a, b, "Support")
           = (a.support \cap (b.wire \union b.air)) \union (b.support \cap (a.wire \union a.air))
      /\ PairPositions(a, b, "Air") = (a.air \cap b.wire) \union (b.air \cap a.wire)
  BY DEF PairPositions
<1>3. ClaimConflictPositions(a, b) # {} <=> MandatoryClaimsConflict(a, b)
  BY <1>1, <1>2 DEF MandatoryClaimsConflict, Meet
<1>4. MandatoryClaimsConflict(a, b) <=> ComponentClaimsConflict(a, b)
  BY DEF MandatoryClaimsConflict, ComponentClaimsConflict, Meet, WellBuilt
<1>5. MandatoryClaimsConflict(a, b) <=> NativeConflicts(a, b)
  BY DEF MandatoryClaimsConflict, NativeConflicts, MaskPairs, SameOwnerMaskPairs, Meet
<1>6. ConflictIndices(a, b) =
        (a.wire \cap b.electrical) \union (b.wire \cap a.electrical)
        \union (a.support \cap b.wire) \union (a.support \cap b.air)
        \union (b.support \cap a.wire) \union (b.support \cap a.air)
        \union (a.air \cap b.wire) \union (b.air \cap a.wire)
  BY DEF ConflictIndices, MaskPairs, SameOwnerMaskPairs
<1>7. ClaimConflictPositions(a, b) = ConflictIndices(a, b)
  BY <1>1, <1>2, <1>6
<1> QED
  BY <1>3, <1>4, <1>5, <1>7

(* The two forms for one owner agree whatever the claims are made of.      *)
THEOREM OwnerFormsAreOne == Spec => []SameOwnerFormsAgree
<1>1. ASSUME NEW a, NEW b, ~HasSelfConflict(a), ~HasSelfConflict(b)
      PROVE  CompatibleForOneOwner(a, b) <=> ~SameOwnerConflicts(a, b)
  <2> DEFINE c == MergeClaims(a, b)
  <2>1. /\ c.wire = a.wire \union b.wire
        /\ c.support = a.support \union b.support
        /\ c.air = a.air \union b.air
    BY DEF MergeClaims
  <2>2. SameOwnerConflicts(a, b) <=>
          \/ Meet(a.support, b.wire) \/ Meet(a.support, b.air) \/ Meet(b.support, a.wire)
          \/ Meet(b.support, a.air) \/ Meet(a.air, b.wire) \/ Meet(b.air, a.wire)
    BY DEF SameOwnerConflicts, SameOwnerMaskPairs
  <2> QED
    BY <1>1, <2>1, <2>2 DEF CompatibleForOneOwner, HasSelfConflict, Meet
<1>2. SameOwnerFormsAgree
  BY <1>1 DEF SameOwnerFormsAgree
<1> QED
  BY <1>2, PTL

(* The pairwise forms agree on every two routes of the table.              *)
THEOREM PairwiseFormsAreOne == Spec => []PairwiseFormsAgree
<1>1. TypeOK /\ SameOwnerFormsAgree => PairwiseFormsAgree
  <2> SUFFICES ASSUME TypeOK, SameOwnerFormsAgree, NEW s \in Signals, NEW t \in Signals
               PROVE  LET a == claims[s]
                          b == claims[t]
                          conflict == ClaimConflictPositions(a, b) # {}
                      IN /\ conflict <=> MandatoryClaimsConflict(a, b)
                         /\ conflict <=> ComponentClaimsConflict(a, b)
                         /\ conflict <=> NativeConflicts(a, b)
                         /\ ClaimConflictPositions(a, b) = ConflictIndices(a, b)
    BY DEF PairwiseFormsAgree
  <2> QED
    BY ClaimsAreWellBuilt, FormsOfWellBuiltClaims
<1> QED
  BY <1>1, TypeCorrect, OwnerFormsAreOne, PTL

-----------------------------------------------------------------------------
(* Going through the signals pair by pair and going through the owners of  *)
(* a position find the same owners: this holds of any table of claims.     *)
LEMMA OwnersAgree ==
    ASSUME NEW table, NEW kind \in Kinds, NEW p
    PROVE  PairOwners(table, kind, p) = IndexedOwners(table, kind, p)
<1> DEFINE First == FirstOwners(table, kind, p)
           Second == SecondOwners(table, kind, p)
<1>1. \A s \in Signals, t \in Signals :
         p \in PairPositions(table[s], table[t], kind)
           <=> (s \in First /\ t \in Second) \/ (t \in First /\ s \in Second)
  <2>1. CASE kind = "Electrical"
    BY <2>1 DEF PairPositions, FirstOwners, SecondOwners, OwnersAt
  <2>2. CASE kind = "Support"
    BY <2>2 DEF PairPositions, FirstOwners, SecondOwners, OwnersAt
  <2>3. CASE kind = "Air"
    BY <2>3 DEF PairPositions, FirstOwners, SecondOwners, OwnersAt
  <2> QED
    BY <2>1, <2>2, <2>3 DEF Kinds
<1> QED
  BY <1>1 DEF PairOwners, IndexedOwners

(* The indexed search reports what the pairwise search reports.            *)
THEOREM IndexIsExact == Spec => []IndexFindsTheSame
<1>1. ASSUME NEW r \in Resources(claims)
      PROVE  PairOwners(claims, r[1], r[2]) = IndexedOwners(claims, r[1], r[2])
  BY OwnersAgree DEF Resources
<1>2. IndexFindsTheSame
  BY <1>1 DEF IndexFindsTheSame, FindClaimConflicts, FindClaimConflictsByResourceIndex
<1> QED
  BY <1>2, PTL

-----------------------------------------------------------------------------
(* A report without entries leaves no position to any two signals.         *)
LEMMA EmptyReport ==
    ASSUME FindClaimConflicts(claims) = << >>,
           NEW s \in Signals, NEW t \in Signals, s # t, NEW kind \in Kinds
    PROVE  PairPositions(claims[s], claims[t], kind) = {}
<1> SUFFICES ASSUME NEW p \in PairPositions(claims[s], claims[t], kind) PROVE FALSE
  OBVIOUS
<1> DEFINE r == <<kind, p>>
<1>1. p \in Touched(claims)
  <2>1. CASE kind = "Electrical"
    BY <2>1 DEF PairPositions, Touched
  <2>2. CASE kind = "Support"
    BY <2>2 DEF PairPositions, Touched
  <2>3. CASE kind = "Air"
    BY <2>3 DEF PairPositions, Touched
  <2> QED
    BY <2>1, <2>2, <2>3 DEF Kinds
<1>2. r \in Resources(claims)
  BY <1>1 DEF Resources
<1>3. s \in PairOwners(claims, kind, p)
  BY DEF PairOwners
<1>4. r \in DOMAIN FindClaimConflicts(claims)
  BY <1>2, <1>3 DEF FindClaimConflicts
<1>5. DOMAIN << >> = {}
  OBVIOUS
<1> QED
  BY <1>4, <1>5

(* A table without a reported conflict keeps the signals apart.            *)
THEOREM SignalsStayApart == Spec => []NoCrossTalk
<1>1. TypeOK => NoCrossTalk
  <2> SUFFICES ASSUME TypeOK, FindClaimConflicts(claims) = << >>,
                      NEW s \in Signals, NEW t \in Signals, s # t,
                      NEW p \in claims[s].wire, NEW q \in claims[t].wire
               PROVE  /\ p # q /\ q \notin NeighborPositions(p)
                      /\ q # Below(p)
                      /\ q \notin claims[s].air
    BY DEF NoCrossTalk
  <2>1. \A kind \in Kinds : PairPositions(claims[s], claims[t], kind) = {}
    BY EmptyReport
  <2>2. /\ claims[t].wire \cap claims[s].electrical = {}
        /\ claims[s].support \cap claims[t].wire = {}
        /\ claims[s].air \cap claims[t].wire = {}
    BY <2>1 DEF PairPositions, Kinds
  <2>3. WellBuilt(claims[s])
    BY ClaimsAreWellBuilt
  <2> QED
    BY <2>2, <2>3 DEF WellBuilt
<1> QED
  BY <1>1, TypeCorrect, PTL
=============================================================================
