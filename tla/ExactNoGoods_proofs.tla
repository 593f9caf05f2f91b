------------------------- MODULE ExactNoGoods_proofs -------------------------
(***************************************************************************)
(* The search among forbidden sets of routes returns acceptable plans, its *)
(* exhaustion is a proof, and layer caps find the lowest layer, for any    *)
(* signals, routes, layers and conflicts.                                  *)
(*                                                                         *)
(* An exclusion is closed when every acceptable selection meets it.  Every *)
(* exclusion seen is closed or that of a call under way, and a call knows  *)
(* its tried branches closed; so a call that returns is closed itself: a   *)
(* selection it missed would hold all members of its no-good.  A branch    *)
(* skipped as seen is not one under way, since exclusions grow along the   *)
(* calls.  The first exclusion is of routes forbidden by themselves; once  *)
(* it is closed, nothing is acceptable.                                    *)
(*                                                                         *)
(* What the certificates and cores of ComponentCompile rule out cannot     *)
(* work; the lemmas on that come first.                                    *)
(***************************************************************************)
EXTENDS ExactNoGoods, FiniteSetTheorems, SequenceTheorems, WellFoundedInduction, TLAPS

-----------------------------------------------------------------------------
(* Certificates.                                                           *)

\* A selection over an access certificate leaves a terminal without accesses.
LEMMA AccessClausesAreSound ==
    ASSUME NEW p, NEW clause \in LocalAccessClauses(p), NEW selected, clause \subseteq selected
    PROVE  \E w \in ComponentSignals : CandidateFilterEmpty(p, w, selected)
<1>1. PICK d \in CompleteDomains :
        UNION {BlockedByCandidateAndDomain(p, c, d) : c \in clause} = Accesses[d]
  BY DEF LocalAccessClauses
<1>2. d \in Domains /\ DomainSignal[d] \in ComponentSignals /\ d \in DomainsOf(DomainSignal[d])
  BY ComponentAssumption DEF ComponentSignals, DomainsOf
<1>3. ASSUME NEW a \in Accesses[d] PROVE Blockers(p, d, a, selected) # {}
  <2>1. PICK c \in clause : a \in BlockedByCandidateAndDomain(p, c, d)
    BY <1>1
  <2>2. c \in Blockers(p, d, a, selected)
    BY <2>1 DEF BlockedByCandidateAndDomain, Blockers
  <2> QED BY <2>2
<1>4. Retained(p, d, selected) = {}
  BY <1>3 DEF Retained
<1> QED BY <1>2, <1>4 DEF CandidateFilterEmpty

\* A selection over a portal certificate leaves a terminal without portals.
LEMMA PortalClausesAreSound ==
    ASSUME NEW p, NEW signals, NEW clause \in ForeignPortalClauses(p, signals),
           NEW selected, clause \subseteq selected
    PROVE  ~PortalsSupported(p, selected)
<1>1. PICK t \in Terminals : Portals[t] \subseteq UNION {p.blocks[c] : c \in clause}
  <2>1. CASE clause \in Units(UnaryRejected(p))
    BY <2>1 DEF Units, UnaryRejected
  <2>2. CASE clause \notin Units(UnaryRejected(p))
    BY <2>2 DEF ForeignPortalClauses
  <2> QED BY <2>1, <2>2
<1> QED BY <1>1 DEF PortalsSupported

\* A set of at most two routes is empty, a unit or a pair.
LEMMA SmallSets ==
    ASSUME NEW S, IsFiniteSet(S), Cardinality(S) <= 2
    PROVE  S = {} \/ \E c, e \in S : S = {c, e}
<1>1. CASE S = {}
  BY <1>1
<1>2. CASE S # {}
  <2>1. PICK c \in S : TRUE
    BY <1>2
  <2>2. /\ IsFiniteSet(S \ {c}) /\ Cardinality(S \ {c}) = Cardinality(S) - 1
        /\ Cardinality(S) \in Nat
    BY <2>1, FS_RemoveElement, FS_CardinalityType
  <2>3. Cardinality(S \ {c}) \in Nat
    BY <2>2, FS_CardinalityType
  <2>4. CASE Cardinality(S \ {c}) = 0
    <3>1. S \ {c} = {}
      BY <2>2, <2>4, FS_EmptySet
    <3>2. S = {c, c}
      BY <2>1, <3>1
    <3> QED BY <2>1, <3>2
  <2>5. CASE Cardinality(S \ {c}) = 1
    <3>1. PICK e : S \ {c} = {e}
      BY <2>2, <2>5, FS_Singleton
    <3> QED BY <2>1, <3>1
  <2>6. Cardinality(S \ {c}) \in {0, 1}
    BY <2>2, <2>3
  <2> QED BY <2>4, <2>5, <2>6
<1> QED BY <1>1, <1>2

Apart(selected) == \A c, e \in selected : c # e => SignalOf[c] # SignalOf[e]

LEMMA SmallSetsAreClauses ==
    ASSUME NEW S \in SUBSET Candidates, IsFiniteSet(S), Cardinality(S) <= 2, S # {}, Apart(S)
    PROVE  S \in Units(Candidates) \cup Pairs(Candidates)
<1>1. PICK c, e \in S : S = {c, e}
  BY SmallSets
<1>2. CASE c = e
  BY <1>1, <1>2 DEF Units
<1>3. CASE c # e
  <2>1. <<c, e>> \in {y \in Candidates \X Candidates : SignalOf[y[1]] # SignalOf[y[2]]}
    BY <1>1, <1>3 DEF Apart
  <2>2. S = {<<c, e>>[1], <<c, e>>[2]}
    BY <1>1
  <2> QED BY <2>1, <2>2 DEF Pairs
<1> QED BY <1>2, <1>3

\* When routes of a selection without certified sets empty a terminal, two of
\* them are not enough.
LEMMA CertificatesLeaveThree ==
    ASSUME NEW p, NEW selected \in SUBSET Candidates, IsFiniteSet(Candidates), Apart(selected),
           \A clause \in LocalAccessClauses(p) : ~(clause \subseteq selected),
           NEW d \in CompleteDomains, Accesses[d] \cap p.barred = {},
           Retained(p, d, selected) = {},
           NEW core \in MinimumCores(CandidateBlockerSets(p, d, selected))
    PROVE  Cardinality(core) > 2
<1>1. /\ core \subseteq UNION CandidateBlockerSets(p, d, selected)
      /\ \A blockers \in CandidateBlockerSets(p, d, selected) : core \cap blockers # {}
  BY DEF MinimumCores
<1>2. core \subseteq selected
  BY <1>1 DEF CandidateBlockerSets, Blockers
<1>3. IsFiniteSet(core) /\ Cardinality(core) \in Nat
  BY <1>2, FS_Subset, FS_CardinalityType
<1>4. ASSUME NEW a \in Accesses[d]
      PROVE  \E c \in core : c \in Blockers(p, d, a, selected)
  <2>1. Blockers(p, d, a, selected) \in CandidateBlockerSets(p, d, selected)
    BY DEF Retained, CandidateBlockerSets
  <2> QED BY <1>1, <2>1
<1>5. UNION {BlockedByCandidateAndDomain(p, c, d) : c \in core} = Accesses[d]
  <2>1. ASSUME NEW a \in Accesses[d]
        PROVE  a \in UNION {BlockedByCandidateAndDomain(p, c, d) : c \in core}
    BY <1>4 DEF Blockers, BlockedByCandidateAndDomain
  <2>2. \A c : BlockedByCandidateAndDomain(p, c, d) \subseteq Accesses[d]
    BY DEF BlockedByCandidateAndDomain
  <2> QED BY <2>1, <2>2
<1>6. core # {}
  BY <1>4, ComponentAssumption
<1>7. ASSUME Cardinality(core) <= 2 PROVE FALSE
  <2>1. core \in Units(Candidates) \cup Pairs(Candidates)
    BY <1>2, <1>3, <1>6, <1>7, SmallSetsAreClauses DEF Apart
  <2>2. core \in LocalAccessClauses(p)
    BY <1>5, <2>1 DEF LocalAccessClauses
  <2> QED BY <1>2, <2>2
<1> QED BY <1>3, <1>7

\* Nor do two of them take all portals of a terminal.
LEMMA CertificatesLeavePortals ==
    ASSUME NEW p, NEW signals, NEW selected \in SUBSET Candidates, Apart(selected),
           IndependentEmpty(p, signals) = {},
           \A clause \in ForeignPortalClauses(p, signals) : ~(clause \subseteq selected),
           NEW t \in Terminals, NEW c \in selected, NEW e \in selected
    PROVE  ~(Portals[t] \subseteq p.blocks[c] \cup p.blocks[e])
<1> SUFFICES ASSUME Portals[t] \subseteq p.blocks[c] \cup p.blocks[e] PROVE FALSE
  OBVIOUS
<1>1. ASSUME NEW x \in selected PROVE x \notin UnaryRejected(p)
  <2>1. {x} \subseteq selected /\ (x \in UnaryRejected(p) => {x} \in Units(UnaryRejected(p)))
    BY DEF Units
  <2> QED BY <2>1 DEF ForeignPortalClauses
<1>2. c # e /\ Portals[t] \cap p.blocks[c] # {} /\ Portals[t] \cap p.blocks[e] # {}
  BY <1>1 DEF UnaryRejected
<1>3. {c, e} \in Pairs(Candidates \ UnaryRejected(p))
  <2>1. <<c, e>> \in {y \in (Candidates \ UnaryRejected(p)) \X (Candidates \ UnaryRejected(p)) :
                       SignalOf[y[1]] # SignalOf[y[2]]}
    BY <1>1, <1>2 DEF Apart
  <2>2. {c, e} = {<<c, e>>[1], <<c, e>>[2]}
    OBVIOUS
  <2> QED BY <2>1, <2>2 DEF Pairs
<1>4. Portals[t] \subseteq UNION {p.blocks[x] : x \in {c, e}}
  OBVIOUS
<1>5. {c, e} \in ForeignPortalClauses(p, signals)
  BY <1>2, <1>3, <1>4 DEF ForeignPortalClauses
<1> QED BY <1>5

-----------------------------------------------------------------------------
(* Recorded cores.                                                         *)

LEMMA CoresHit ==
    ASSUME NEW blockerSets, NEW core \in MinimumCores(blockerSets)
    PROVE  \A blockers \in blockerSets : core \cap blockers # {}
BY DEF MinimumCores

LEMMA SmallestAreSome ==
    ASSUME NEW cores
    PROVE  Smallest(cores) \subseteq cores
BY DEF Smallest

\* Routes that hit every blocker set of a domain exclude what a drawn excludes.
LEMMA CoreExcludesToo ==
    ASSUME NEW p, NEW d, NEW drawn, NEW core, NEW selected, core \subseteq selected,
           \A blockers \in CandidateBlockerSets(p, d, drawn) : core \cap blockers # {}
    PROVE  Retained(p, d, selected) \subseteq Retained(p, d, drawn)
<1> SUFFICES ASSUME NEW a \in Accesses[d] \ p.barred, Blockers(p, d, a, drawn) # {}
             PROVE  Blockers(p, d, a, selected) # {}
  BY DEF Retained
<1>1. Blockers(p, d, a, drawn) \in CandidateBlockerSets(p, d, drawn)
  BY DEF CandidateBlockerSets
<1>2. PICK c \in core : c \in Blockers(p, d, a, drawn)
  BY <1>1
<1> QED BY <1>2 DEF Blockers

LEMMA FilterEmptiesStates ==
    ASSUME NEW p, NEW w, NEW selected, CandidateFilterEmpty(p, w, selected)
    PROVE  NetStates(p, w, selected) = {}
BY DEF CandidateFilterEmpty, NetStates, Frontier, Considered

\* Fewer accesses give fewer trees.
LEMMA ConsideredShrinks ==
    ASSUME NEW p, NEW w, NEW drawn, NEW selected,
           \A d \in DomainsOf(w) : Retained(p, d, selected) \subseteq Retained(p, d, drawn)
    PROVE  Considered(p, w, selected) \subseteq Considered(p, w, drawn)
<1> SUFFICES ASSUME NEW t \in Considered(p, w, selected) PROVE t \in Considered(p, w, drawn)
  OBVIOUS
<1>1. \A d \in DomainsOf(w) : TreeAccesses[t] \cap Retained(p, d, selected) # {}
  BY DEF Considered
<1>2. \A d \in DomainsOf(w) : TreeAccesses[t] \cap Retained(p, d, drawn) # {}
  BY <1>1
<1> QED BY <1>2 DEF Considered

\* Routes that conflict with every tree a drawn conflicts with leave no state,
\* when the drawn leaves none.
LEMMA CoreSpoilsToo ==
    ASSUME NEW p, NEW w, NEW drawn, NEW core, NEW selected, core \subseteq selected,
           NetStates(p, w, drawn) = {},
           Considered(p, w, selected) \subseteq Considered(p, w, drawn),
           \A blockers \in GeometryBlockerSets(p, w, drawn) : core \cap blockers # {}
    PROVE  NetStates(p, w, selected) = {}
<1> SUFFICES ASSUME NEW t \in NetStates(p, w, selected) PROVE FALSE
  OBVIOUS
<1>1. /\ t \in Considered(p, w, selected) /\ t \in Considered(p, w, drawn)
      /\ t \notin p.powerless
      /\ Spoilers(p, t, selected) = {} /\ Sealers(p, t, selected) = {}
  BY DEF NetStates, Frontier
<1>2. /\ \A c \in selected : t \notin p.spoils[c]
      /\ \A c \in selected : t \notin p.seals[c]
  BY <1>1 DEF Spoilers, Sealers, OwnFirst
<1>3. core \cap Spoilers(p, t, drawn) = {} /\ core \cap Sealers(p, t, drawn) = {}
  BY <1>2 DEF Spoilers, Sealers, OwnFirst
<1>4. Spoilers(p, t, drawn) = {}
  BY <1>1, <1>3 DEF GeometryBlockerSets
<1>5. t \in Frontier(p, w, drawn)
  BY <1>1, <1>4 DEF Frontier
<1>6. Sealers(p, t, drawn) = {}
  BY <1>3, <1>5 DEF GeometryBlockerSets
<1> QED BY <1>1, <1>5, <1>6 DEF NetStates

\* Domains nothing was filtered from keep their accesses or lose some.
LEMMA UnfilteredShrinks ==
    ASSUME NEW p, NEW d, NEW drawn, CandidateBlockerSets(p, d, drawn) = {}, NEW selected
    PROVE  Retained(p, d, selected) \subseteq Retained(p, d, drawn)
BY DEF Retained, CandidateBlockerSets

\* A core of a domain that the filter emptied.
LEMMA FilterCore ==
    ASSUME NEW p, NEW w, NEW drawn, EmptyPhase(p, w, drawn) = "candidate-filter",
           NEW core \in ReservedGlobalRouteUnsatCores(p, w, drawn), core # {},
           NEW selected, core \subseteq selected
    PROVE  CandidateFilterEmpty(p, w, selected)
<1>1. CandidateFilterEmpty(p, w, drawn)
  BY DEF EmptyPhase
<1>2. core \in CandidateDomainCores(p, w, drawn)
  BY SmallestAreSome DEF ReservedGlobalRouteUnsatCores
<1>3. PICK d \in DomainsOf(w) : /\ Retained(p, d, drawn) = {}
                                /\ core \in MinimumCores(CandidateBlockerSets(p, d, drawn))
  BY <1>1, <1>2 DEF CandidateDomainCores
<1>4. Retained(p, d, selected) \subseteq Retained(p, d, drawn)
  <2>1. \A blockers \in CandidateBlockerSets(p, d, drawn) : core \cap blockers # {}
    BY <1>3, CoresHit
  <2> QED BY <2>1, CoreExcludesToo
<1> QED BY <1>3, <1>4 DEF CandidateFilterEmpty

OneSourceOf(p, w, drawn) ==
    LET filtered == {d \in DomainsOf(w) : CandidateBlockerSets(p, d, drawn) # {}}
    IN  \/ EmptyPhase(p, w, drawn) = "candidate-filter"
        \/ filtered = {}
        \/ Cardinality(filtered) = 1 /\ GeometryBlockerSets(p, w, drawn) = {}

\* A core of one source leaves no state to any selection that contains it.
LEMMA CoresAreSound ==
    ASSUME NEW p, NEW w, NEW drawn, OneSourceOf(p, w, drawn),
           NetStates(p, w, drawn) = {},
           NEW core \in ReservedGlobalRouteUnsatCores(p, w, drawn), core # {},
           NEW selected, core \subseteq selected
    PROVE  NetStates(p, w, selected) = {}
<1> DEFINE filtered == {d \in DomainsOf(w) : CandidateBlockerSets(p, d, drawn) # {}}
<1>1. CASE EmptyPhase(p, w, drawn) = "candidate-filter"
  BY <1>1, FilterCore, FilterEmptiesStates
<1>2. ASSUME EmptyPhase(p, w, drawn) # "candidate-filter"
      PROVE  ~CandidateFilterEmpty(p, w, drawn)
  BY <1>2 DEF EmptyPhase
<1>3. CASE EmptyPhase(p, w, drawn) # "candidate-filter" /\ filtered = {}
  <2>1. CandidateDomainCores(p, w, drawn) = {}
    BY <1>2, <1>3 DEF CandidateDomainCores
  <2>2. core \in MinimumCores(GeometryBlockerSets(p, w, drawn))
    BY <1>3, <2>1 DEF ReservedGlobalRouteUnsatCores
  <2>3. \A d \in DomainsOf(w) : Retained(p, d, selected) \subseteq Retained(p, d, drawn)
    BY <1>3, UnfilteredShrinks
  <2> QED BY <2>2, <2>3, CoresHit, ConsideredShrinks, CoreSpoilsToo
<1>4. CASE EmptyPhase(p, w, drawn) # "candidate-filter" /\ Cardinality(filtered) = 1
           /\ GeometryBlockerSets(p, w, drawn) = {}
  <2>1. IsFiniteSet(filtered)
    <3>1. filtered \in SUBSET Domains
      BY DEF DomainsOf
    <3> HIDE DEF filtered
    <3> QED BY <3>1, FS_Subset, ComponentAssumption
  <2>2. PICK d : filtered = {d}
    <3> HIDE DEF filtered
    <3> QED BY <1>4, <2>1, FS_Singleton
  <2>3. CandidateDomainCores(p, w, drawn) = MinimumCores(CandidateBlockerSets(p, d, drawn))
    BY <1>2, <1>4, <2>2 DEF CandidateDomainCores
  <2>4. core \in MinimumCores(CandidateBlockerSets(p, d, drawn))
    <3>1. core \notin MinimumCores({})
      BY DEF MinimumCores
    <3> QED BY <1>4, <2>3, <3>1, SmallestAreSome DEF ReservedGlobalRouteUnsatCores
  <2>5. ASSUME NEW e \in DomainsOf(w)
        PROVE  Retained(p, e, selected) \subseteq Retained(p, e, drawn)
    <3>1. CASE e = d
      BY <2>4, <3>1, CoresHit, CoreExcludesToo
    <3>2. CASE e # d
      <4>1. CandidateBlockerSets(p, e, drawn) = {}
        BY <2>2, <3>2
      <4> QED BY <4>1, UnfilteredShrinks
    <3> QED BY <3>1, <3>2
  <2> QED BY <1>4, <2>5, ConsideredShrinks, CoreSpoilsToo
<1> QED BY <1>1, <1>3, <1>4 DEF OneSourceOf

-----------------------------------------------------------------------------
(* The search: what is true whenever it stands still.                       *)

Uncut == firstCut = "none" /\ ~deadline

Unary == UNION {clause \in forbidden : Cardinality(clause) = 1}

Closed(excluded) == \A selected \in Acceptable(values) : selected \cap excluded # {}

Shapes ==
    /\ TypeOK
    /\ phase \in {"certify", "cap", "full"} => answer = "none"
    /\ stack # <<>> => phase = "search" /\ answer = "none"
    /\ phase \in {"certify", "full"} => ~capped
    /\ phase = "cap" => capped
    /\ phase = "search" =>
         /\ values = IF capped THEN Capped(cap) ELSE Candidates
         /\ SignalsOf(values) = Signals
    /\ phase = "compile" => answer = "planned"
    /\ phase # "finished" => recorded = {}

NoGoodIsForbidden(frame) ==
    frame.nogood # {} => /\ frame.nogood \in forbidden
                         /\ frame.nogood \cap frame.excluded = {}
                         /\ frame.untried \subseteq frame.nogood

TriedIsClosed(i) ==
    \A m \in stack[i].nogood \ stack[i].untried :
      \/ Closed(stack[i].excluded \cup {m})
      \/ i < Len(stack) /\ stack[i + 1].excluded = stack[i].excluded \cup {m}

CallsAreNested ==
    phase = "search" /\ Uncut => \A i \in 1..Len(stack) :
      /\ NoGoodIsForbidden(stack[i])
      /\ TriedIsClosed(i)
      /\ \A j \in i..Len(stack) : stack[i].excluded \subseteq stack[j].excluded

SeenIsSettled ==
    phase = "search" /\ Uncut /\ answer = "none" =>
      /\ Unary \in seen
      /\ \A excluded \in seen :
           Closed(excluded) \/ \E i \in 1..Len(stack) : stack[i].excluded = excluded

LowerCapsAreEmpty ==
    capped => \A n \in Layers :
      n < cap /\ SignalsOf(Capped(n)) = Signals => Acceptable(Capped(n)) = {}

FailureIsProof ==
    answer = "unsatisfiable" /\ phase = "finished" => Acceptable(Candidates) = {}

PlanIsFound == answer = "planned" /\ recorded = {} => plan \in Acceptable(Candidates)

IInv ==
    /\ Shapes
    /\ CallsAreNested
    /\ SeenIsSettled
    /\ ExhaustionIsProof
    /\ LowerCapsAreEmpty
    /\ FailureIsProof
    /\ PlanIsFound

-----------------------------------------------------------------------------
(* Layers.                                                                 *)

\* Among finitely many routes one has the highest layer, and one the lowest.
LEMMA HighestRoute ==
    ASSUME NEW D \in SUBSET Candidates, D # {}
    PROVE  \E c \in D : \A e \in D : Layer[e] <= Layer[c]
<1> DEFINE Bad == {X \in SUBSET Candidates :
                     X # {} /\ ~\E c \in X : \A e \in X : Layer[e] <= Layer[c]}
<1>1. IsFiniteSet(Candidates) /\ Layer \in [Candidates -> Nat]
  BY AssignmentAssumption
<1>2. IsWellFoundedOn(StrictSubsetOrdering(Candidates), SUBSET Candidates)
  BY <1>1, FS_StrictSubsetOrderingWellFounded, FS_FiniteSubsetsOfFinite
<1>3. ASSUME Bad # {} PROVE FALSE
  <2>1. Bad \subseteq SUBSET Candidates
    OBVIOUS
  <2>2. PICK X \in Bad : \A Y \in Bad : <<Y, X>> \notin StrictSubsetOrdering(Candidates)
    <3> HIDE DEF Bad
    <3> QED BY <1>2, <1>3, <2>1, WFMin
  <2>3. PICK c \in X : TRUE
    BY <2>2
  <2>4. <<X \ {c}, X>> \in StrictSubsetOrdering(Candidates)
    BY <2>2, <2>3 DEF StrictSubsetOrdering
  <2>5. X \ {c} \notin Bad
    BY <2>2, <2>4
  <2>6. CASE X \ {c} = {}
    BY <1>1, <2>2, <2>3, <2>6
  <2>7. CASE X \ {c} # {}
    <3>1. PICK d \in X \ {c} : \A e \in X \ {c} : Layer[e] <= Layer[d]
      BY <2>2, <2>5, <2>7
    <3>2. Layer[c] \in Nat /\ Layer[d] \in Nat /\ \A e \in X : Layer[e] \in Nat
      BY <1>1, <2>2, <2>3, <3>1
    <3>3. CASE Layer[c] <= Layer[d]
      BY <2>2, <3>1, <3>3
    <3>4. CASE ~(Layer[c] <= Layer[d])
      <4>1. \A e \in X : Layer[e] <= Layer[c]
        BY <3>1, <3>2, <3>4
      <4> QED BY <2>2, <2>3, <4>1
    <3> QED BY <3>3, <3>4
  <2> QED BY <2>6, <2>7
<1> QED BY <1>3

LEMMA LowestRoute ==
    ASSUME NEW D \in SUBSET Candidates, D # {}
    PROVE  \E c \in D : \A e \in D : Layer[c] <= Layer[e]
<1>1. Layer \in [Candidates -> Nat]
  BY AssignmentAssumption
<1> DEFINE Used == {Layer[c] : c \in D}
<1>2. Used \subseteq Nat /\ Used # {}
  BY <1>1
<1>3. PICK n \in Used : \A m \in Used : <<m, n>> \notin OpToRel(<, Nat)
  <2> HIDE DEF Used
  <2> QED BY <1>2, NatLessThanWellFounded, WFMin
<1>4. \A m \in Used : ~(m < n)
  <2> HIDE DEF Used
  <2> QED BY <1>2, <1>3 DEF OpToRel
<1>5. \A m \in Used : n <= m
  <2> HIDE DEF Used
  <2> QED BY <1>2, <1>4
<1> QED BY <1>3, <1>5

LEMMA LayersAreNatural == Layers \subseteq Nat
BY AssignmentAssumption DEF Layers

\* The highest layer is one of a route, and no route lies above it.
LEMMA MaximumLayer ==
    /\ MaximumCandidateLayer \in Layers
    /\ \A m \in Layers : m <= MaximumCandidateLayer
<1>1. PICK s \in Signals : TRUE
  BY AssignmentAssumption
<1>2. Candidates # {}
  BY <1>1, AssignmentAssumption
<1>3. PICK c \in Candidates : \A e \in Candidates : Layer[e] <= Layer[c]
  BY <1>2, HighestRoute
<1>4. Layer[c] \in Layers /\ \A m \in Layers : m <= Layer[c]
  BY <1>3 DEF Layers
<1> QED BY <1>4 DEF MaximumCandidateLayer

LEMMA EverythingIsBelow ==
    ASSUME NEW n \in Nat, MaximumCandidateLayer <= n
    PROVE  Capped(n) = Candidates
<1>1. \A c \in Candidates : Layer[c] \in Layers
  BY DEF Layers
<1>2. ASSUME NEW c \in Candidates PROVE Layer[c] <= n
  <2>1. Layer[c] \in Nat /\ Layer[c] <= MaximumCandidateLayer
    BY <1>1, MaximumLayer, LayersAreNatural
  <2>2. MaximumCandidateLayer \in Nat
    BY MaximumLayer, LayersAreNatural
  <2> QED BY <2>1, <2>2
<1> QED BY <1>2 DEF Capped

LEMMA AllSignalsHaveRoutes == SignalsOf(Candidates) = Signals
BY AssignmentAssumption, ComponentAssumption DEF SignalsOf

\* The cap starts at the lowest layer with a route of every signal.
LEMMA MinimumLayer ==
    /\ MinimumFeasibleLayer \in Layers
    /\ SignalsOf(Capped(MinimumFeasibleLayer)) = Signals
    /\ \A m \in Layers : SignalsOf(Capped(m)) = Signals => MinimumFeasibleLayer <= m
<1> DEFINE Feasible == {c \in Candidates : SignalsOf(Capped(Layer[c])) = Signals}
<1>1. PICK c \in Candidates : Layer[c] = MaximumCandidateLayer
  BY MaximumLayer DEF Layers
<1>2. Capped(Layer[c]) = Candidates
  BY <1>1, EverythingIsBelow, MaximumLayer, LayersAreNatural
<1>3. c \in Feasible
  BY <1>2, AllSignalsHaveRoutes
<1>4. PICK d \in Feasible : \A e \in Feasible : Layer[d] <= Layer[e]
  BY <1>3, LowestRoute
<1>5. /\ Layer[d] \in Layers
      /\ SignalsOf(Capped(Layer[d])) = Signals
      /\ \A m \in Layers : SignalsOf(Capped(m)) = Signals => Layer[d] <= m
  BY <1>4 DEF Layers
<1> QED BY <1>5 DEF MinimumFeasibleLayer

-----------------------------------------------------------------------------
(* Selections.                                                             *)

LEMMA AcceptableShrinks ==
    ASSUME problem' = problem, forbidden \subseteq forbidden', NEW routes
    PROVE  Acceptable(routes)' \subseteq Acceptable(routes)
BY DEF Acceptable, LegalSelections, Avoids, NoGoods

LEMMA AcceptableStays ==
    ASSUME problem' = problem, forbidden' = forbidden, NEW routes
    PROVE  Acceptable(routes)' = Acceptable(routes)
BY DEF Acceptable, LegalSelections, Avoids, NoGoods

LEMMA ClosedStays ==
    ASSUME problem' = problem, forbidden' = forbidden, values' = values, NEW excluded
    PROVE  Closed(excluded)' <=> Closed(excluded)
BY DEF Closed, Acceptable, LegalSelections, Avoids, NoGoods

\* A selection that misses an exclusion is one of the remaining routes.
LEMMA MissedSelectionRemains ==
    ASSUME NEW selected \in Acceptable(values), NEW excluded, selected \cap excluded = {}
    PROVE  /\ SignalsOf(values \ excluded) = SignalsOf(values)
           /\ selected \in LegalSelections(values \ excluded)
<1>1. selected \subseteq values /\ SignalsOf(selected) = SignalsOf(values)
  BY DEF Acceptable, LegalSelections
<1>2. selected \subseteq values \ excluded
  BY <1>1
<1>3. SignalsOf(values \ excluded) = SignalsOf(values)
  BY <1>1, <1>2 DEF SignalsOf
<1> QED BY <1>1, <1>2, <1>3 DEF Acceptable, LegalSelections

\* When nothing escapes the routes forbidden by themselves, nothing is acceptable.
LEMMA UnaryClosedIsEmpty ==
    ASSUME TypeOK, Closed(Unary)
    PROVE  Acceptable(values) = {}
<1>1. SUFFICES ASSUME NEW selected \in Acceptable(values) PROVE FALSE
  OBVIOUS
<1>2. PICK clause \in forbidden : Cardinality(clause) = 1 /\ selected \cap clause # {}
  BY <1>1 DEF Closed, Unary
<1>3. IsFiniteSet(clause)
  BY <1>2, FS_Subset, AssignmentAssumption DEF TypeOK
<1>4. PICK c : clause = {c}
  BY <1>2, <1>3, FS_Singleton
<1>5. clause \subseteq selected /\ clause \in NoGoods
  BY <1>2, <1>4 DEF NoGoods
<1> QED BY <1>1, <1>5 DEF Acceptable, Avoids

-----------------------------------------------------------------------------
(* The stack of calls.                                                     *)

LEMMA FrontFacts ==
    ASSUME NEW S, NEW s \in Seq(S), NEW n \in Nat, n <= Len(s)
    PROVE  /\ SubSeq(s, 1, n) \in Seq(S)
           /\ Len(SubSeq(s, 1, n)) = n
           /\ \A i \in 1..n : SubSeq(s, 1, n)[i] = s[i]
<1>1. SubSeq(s, 1, n) \in Seq(S)
  BY SMT
<1>2. Len(SubSeq(s, 1, n)) = n
  BY SMT
<1>3. \A i \in 1..n : SubSeq(s, 1, n)[i] = s[i]
  BY SMT
<1> QED BY <1>1, <1>2, <1>3

LEMMA PopFacts ==
    ASSUME stack \in Seq(Frames), stack # <<>>, Pop
    PROVE  /\ stack' \in Seq(Frames)
           /\ Len(stack') = Len(stack) - 1
           /\ Len(stack) \in Nat \ {0}
           /\ \A i \in 1..Len(stack') : stack'[i] = stack[i]
<1> DEFINE n == Len(stack) - 1
<1>1. Len(stack) \in Nat \ {0} /\ n \in Nat /\ n <= Len(stack)
  OBVIOUS
<1>2. stack' = SubSeq(stack, 1, n)
  BY DEF Pop
<1>3. /\ SubSeq(stack, 1, n) \in Seq(Frames)
      /\ Len(SubSeq(stack, 1, n)) = n
      /\ \A i \in 1..n : SubSeq(stack, 1, n)[i] = stack[i]
  <2> HIDE DEF n
  <2> QED BY <1>1, FrontFacts, Zenon
<1> QED BY <1>1, <1>2, <1>3

\* The last call returns with its exclusion closed.
LEMMA ReturnClosed ==
    ASSUME IInv, Searching, Pop, Closed(Top.excluded),
           UNCHANGED <<problem, forbidden, phase, values, seen, firstCut, deadline, answer>>
    PROVE  CallsAreNested' /\ SeenIsSettled'
<1> USE DEF IInv, Shapes, TypeOK
<1>1. /\ Len(stack') = Len(stack) - 1
      /\ Len(stack) \in Nat \ {0}
      /\ \A i \in 1..Len(stack') : stack'[i] = stack[i]
  BY PopFacts DEF Searching
<1>2. \A excluded : Closed(excluded)' <=> Closed(excluded)
  BY ClosedStays
<1>3. ASSUME phase' = "search", Uncut' PROVE Uncut
  BY <1>3 DEF Uncut
<1>4. CallsAreNested'
  <2> SUFFICES ASSUME phase' = "search", Uncut', NEW i \in 1..Len(stack')
               PROVE  /\ NoGoodIsForbidden(stack[i])
                      /\ TriedIsClosed(i)'
                      /\ \A j \in i..Len(stack') :
                           stack'[i].excluded \subseteq stack'[j].excluded
    BY <1>1 DEF CallsAreNested, NoGoodIsForbidden
  <2>1. i \in 1..Len(stack) /\ i < Len(stack) /\ stack'[i] = stack[i]
    BY <1>1
  <2>2. /\ NoGoodIsForbidden(stack[i])
        /\ TriedIsClosed(i)
        /\ \A j \in i..Len(stack) : stack[i].excluded \subseteq stack[j].excluded
    BY <1>3, <2>1 DEF CallsAreNested
  <2>3. TriedIsClosed(i)'
    <3> SUFFICES ASSUME NEW m \in stack[i].nogood \ stack[i].untried
                 PROVE  \/ Closed(stack[i].excluded \cup {m})
                        \/ /\ i < Len(stack')
                           /\ stack'[i + 1].excluded = stack[i].excluded \cup {m}
      BY <1>2, <2>1 DEF TriedIsClosed
    <3>1. CASE Closed(stack[i].excluded \cup {m})
      BY <3>1
    <3>2. CASE stack[i + 1].excluded = stack[i].excluded \cup {m} /\ i + 1 = Len(stack)
      BY <3>2 DEF Top
    <3>3. CASE stack[i + 1].excluded = stack[i].excluded \cup {m} /\ i + 1 # Len(stack)
      BY <1>1, <2>1, <3>3
    <3> QED BY <2>2, <3>1, <3>2, <3>3 DEF TriedIsClosed
  <2>4. \A j \in i..Len(stack') : stack'[i].excluded \subseteq stack'[j].excluded
    BY <1>1, <2>1, <2>2
  <2> QED BY <2>2, <2>3, <2>4
<1>5. SeenIsSettled'
  <2> SUFFICES ASSUME phase' = "search", Uncut', answer' = "none"
               PROVE  /\ Unary \in seen
                      /\ \A excluded \in seen :
                           \/ Closed(excluded)
                           \/ \E i \in 1..Len(stack') : stack'[i].excluded = excluded
    BY <1>2 DEF SeenIsSettled, Unary
  <2>1. /\ Unary \in seen
        /\ \A excluded \in seen :
             Closed(excluded) \/ \E i \in 1..Len(stack) : stack[i].excluded = excluded
    BY <1>3 DEF SeenIsSettled
  <2>2. ASSUME NEW i \in 1..Len(stack)
        PROVE  (i \in 1..Len(stack') /\ stack'[i] = stack[i]) \/ Closed(stack[i].excluded)
    BY <1>1 DEF Top
  <2> QED BY <2>1, <2>2
<1> QED BY <1>4, <1>5

-----------------------------------------------------------------------------
(* Typing.                                                                 *)

LEMMA ClausesAreOfRoutes ==
    /\ LocalAccessClauses(problem) \subseteq SUBSET Candidates
    /\ ForeignPortalClauses(problem, CompleteSignals) \subseteq SUBSET Candidates
<1>1. ASSUME NEW routes \in SUBSET Candidates
      PROVE  Units(routes) \subseteq SUBSET Candidates /\ Pairs(routes) \subseteq SUBSET Candidates
  BY DEF Units, Pairs
<1>2. UnaryRejected(problem) \subseteq Candidates
  BY DEF UnaryRejected
<1> QED BY <1>1, <1>2 DEF LocalAccessClauses, ForeignPortalClauses

LEMMA HittingSetsAreOfRoutes ==
    ASSUME NEW selected, NEW blockerSets \in SUBSET SUBSET selected
    PROVE  MinimumCores(blockerSets) \subseteq SUBSET selected
BY DEF MinimumCores

\* A core is of selected routes.
LEMMA CoresAreOfRoutes ==
    ASSUME NEW selected, NEW w, NEW core \in ReservedGlobalRouteUnsatCores(problem, w, selected)
    PROVE  core \subseteq selected
<1> DEFINE ofDomains  == CandidateDomainCores(problem, w, selected)
           ofGeometry == MinimumCores(GeometryBlockerSets(problem, w, selected))
<1>1. \A d : CandidateBlockerSets(problem, d, selected) \subseteq SUBSET selected
  BY DEF CandidateBlockerSets, Blockers
<1>2. ofDomains \subseteq SUBSET selected
  BY <1>1, HittingSetsAreOfRoutes DEF CandidateDomainCores
<1>3. GeometryBlockerSets(problem, w, selected) \subseteq SUBSET selected
  BY DEF GeometryBlockerSets, Spoilers, Sealers, OwnFirst
<1>4. ofGeometry \subseteq SUBSET selected
  BY <1>3, HittingSetsAreOfRoutes
<1>5. Smallest(ofDomains) \subseteq SUBSET selected
  BY <1>2 DEF Smallest
<1>6. core \in {{}} \cup Smallest(ofDomains) \cup ofGeometry
  BY Zenon DEF ReservedGlobalRouteUnsatCores
<1> QED BY <1>4, <1>5, <1>6

LEMMA NoGoodIsOfRoutes ==
    ASSUME NEW selected, NEW core \in SUBSET selected
    PROVE  CandidateNoGood(core, selected) \subseteq selected
BY DEF CandidateNoGood

LEMMA NewFrame ==
    ASSUME NEW excluded \in SUBSET Candidates
    PROVE  [excluded |-> excluded, nogood |-> {}, untried |-> {}] \in Frames
BY DEF Frames

LEMMA TopFacts ==
    ASSUME stack \in Seq(Frames), stack # <<>>
    PROVE  Len(stack) \in Nat \ {0} /\ Len(stack) \in 1..Len(stack) /\ Top \in Frames
BY DEF Top

LEMMA EmptyStack == <<>> \in Seq(Frames)
BY EmptySeq

LEMMA TypeInit == Init => TypeOK
<1> SUFFICES ASSUME Init PROVE TypeOK
  OBVIOUS
<1>1. stack \in Seq(Frames)
  BY EmptyStack, Zenon DEF Init
<1> QED BY <1>1 DEF Init, TypeOK, Phases, Cuts, Answers

LEMMA TypeStep == TypeOK /\ [Next]_vars => TypeOK'
<1> SUFFICES ASSUME TypeOK, [Next]_vars PROVE TypeOK'
  OBVIOUS
<1> USE DEF TypeOK, Phases, Cuts, Answers
<1>1. CASE PublishLocalAccess
  BY <1>1, ClausesAreOfRoutes, MinimumLayer, LayersAreNatural DEF PublishLocalAccess, search
<1>2. ASSUME NEW routes \in SUBSET Candidates, PlanAssignment(routes) PROVE TypeOK'
  <2>1. forbidden' \subseteq SUBSET Candidates
    BY <1>2, ClausesAreOfRoutes DEF PlanAssignment
  <2>2. CASE IndependentEmpty(problem, CompleteSignals) # {}
    BY <1>2, <2>1, <2>2, EmptyStack DEF PlanAssignment
  <2>3. CASE IndependentEmpty(problem, CompleteSignals) = {}
    <3> DEFINE unary == UNION {clause \in forbidden' : Cardinality(clause) = 1}
    <3>1. unary \in SUBSET Candidates
      BY <2>1
    <3>2. stack' = <<[excluded |-> unary, nogood |-> {}, untried |-> {}]>> /\ seen' = {unary}
      BY <1>2, <2>3 DEF PlanAssignment
    <3>3. stack' \in Seq(Frames) /\ seen' \subseteq SUBSET Candidates
      <4> HIDE DEF unary
      <4> QED BY <3>1, <3>2, NewFrame
    <3> QED BY <1>2, <2>1, <2>3, <3>3 DEF PlanAssignment
  <2> QED BY <2>2, <2>3
<1>3. CASE PlanUnderCap
  BY <1>2, <1>3 DEF PlanUnderCap, Capped
<1>4. CASE PlanInFull
  BY <1>2, <1>4 DEF PlanInFull
<1>5. CASE Expire
  BY <1>5, PopFacts DEF Expire, Planning, Searching
<1>6. ASSUME NEW reason \in Cuts \ {"none"}, Cut(reason) PROVE TypeOK'
  BY <1>6, PopFacts DEF Cut, Planning, Searching
<1>7. CASE Infeasible
  BY <1>7, PopFacts DEF Infeasible, Planning, Searching
<1>8. CASE IncompleteWitness
  BY <1>8, PopFacts DEF IncompleteWitness, Planning, Searching
<1>9. CASE Witness
  <2>1. PICK selected \in LegalSelections(BranchValues) :
          \/ /\ answer' = "planned"
             /\ plan' = selected
             /\ stack' = <<>>
          \/ /\ \E nogood \in MatchingNoGoods(selected) :
                  stack' = [stack EXCEPT ![Len(stack)].nogood = nogood,
                                         ![Len(stack)].untried = nogood]
             /\ UNCHANGED <<answer, plan>>
    BY <1>9 DEF Witness
  <2>2. selected \subseteq Candidates
    BY DEF LegalSelections, BranchValues
  <2>3. stack' \in Seq(Frames)
    <3>1. ASSUME NEW nogood \in MatchingNoGoods(selected)
          PROVE  [stack EXCEPT ![Len(stack)].nogood = nogood,
                               ![Len(stack)].untried = nogood] \in Seq(Frames)
      <4> DEFINE frame == [Top EXCEPT !.nogood = nogood, !.untried = nogood]
      <4>1. nogood \subseteq Candidates
        BY DEF MatchingNoGoods, NoGoods
      <4>2. Len(stack) \in 1..Len(stack) /\ Top \in Frames
        BY <1>9, TopFacts DEF Witness, Planning, Searching
      <4>3. frame \in Frames
        BY <4>1, <4>2 DEF Frames
      <4>4. [stack EXCEPT ![Len(stack)] = frame] \in Seq(Frames)
        <5> HIDE DEF frame
        <5> QED BY <4>2, <4>3, ExceptSeq
      <4>5. [stack EXCEPT ![Len(stack)].nogood = nogood, ![Len(stack)].untried = nogood]
              = [stack EXCEPT ![Len(stack)] = frame]
        BY <4>2 DEF Frames, Top
      <4> QED BY <4>4, <4>5
    <3> QED BY <2>1, <3>1, EmptyStack
  <2> QED BY <1>9, <2>1, <2>2, <2>3 DEF Witness
<1>10. ASSUME NEW member \in Candidates, TryMember(member) PROVE TypeOK'
  <2> DEFINE frame == [stack[Len(stack)] EXCEPT !.untried = @ \ {member}]
             tried == [stack EXCEPT ![Len(stack)].untried = @ \ {member}]
  <2>1. Len(stack) \in 1..Len(stack) /\ stack[Len(stack)] \in Frames /\ Top \in Frames
    BY <1>10, TopFacts DEF TryMember, Branching, Searching, Top
  <2>2. frame \in Frames
    BY <2>1 DEF Frames
  <2>3. tried \in Seq(Frames)
    <3>1. [stack EXCEPT ![Len(stack)] = frame] \in Seq(Frames)
      <4> HIDE DEF frame
      <4> QED BY <2>1, <2>2, ExceptSeq
    <3>2. tried = [stack EXCEPT ![Len(stack)] = frame]
      BY <2>1 DEF Frames
    <3> QED BY <3>1, <3>2
  <2>4. Excluded(member) \in SUBSET Candidates
    BY <2>1 DEF Excluded, Frames
  <2>5. stack' \in Seq(Frames)
    <3>1. stack' = tried
          \/ stack' = Append(tried, [excluded |-> Excluded(member),
                                     nogood |-> {}, untried |-> {}])
      BY <1>10 DEF TryMember
    <3> HIDE DEF tried
    <3> QED BY <2>3, <2>4, <3>1, NewFrame
  <2> QED BY <1>10, <2>4, <2>5 DEF TryMember
<1>11. CASE Return
  BY <1>11, PopFacts DEF Return, Branching, Searching
<1>12. CASE Conclude
  BY <1>12 DEF Conclude, search
<1>13. CASE Planned
  BY <1>13 DEF Planned, search
<1>14. CASE NextCap
  BY <1>14 DEF NextCap, search
<1>15. CASE GiveUpCaps
  BY <1>15 DEF GiveUpCaps, search
<1>16. CASE RaiseForNativeAssignmentDeadline
  BY <1>16 DEF RaiseForNativeAssignmentDeadline, search
<1>17. CASE CompileClosedComponent
  <2>1. recorded' \subseteq Candidates /\ forbidden' \subseteq forbidden \cup {recorded'}
    BY <1>17, CoresAreOfRoutes, NoGoodIsOfRoutes DEF CompileClosedComponent
  <2> QED BY <1>17, <2>1 DEF CompileClosedComponent, search
<1>18. CASE Done \/ UNCHANGED vars
  BY <1>18 DEF Done, vars, search
<1> QED BY <1>1, <1>3, <1>4, <1>5, <1>6, <1>7, <1>8, <1>9, <1>10, <1>11, <1>12, <1>13,
           <1>14, <1>15, <1>16, <1>17, <1>18 DEF Next, Step, SearchStep

\* Every variable stays in its type.
THEOREM TypeCorrect == Spec => []TypeOK
BY TypeInit, TypeStep, PTL DEF Spec

-----------------------------------------------------------------------------
(* One step per action.                                                    *)

LEMMA InitIInv == Init => IInv
<1> SUFFICES ASSUME Init PROVE IInv
  OBVIOUS
<1>1. TypeOK
  BY TypeInit
<1> QED BY <1>1 DEF Init, IInv, Shapes, CallsAreNested, SeenIsSettled,
           ExhaustionIsProof, LowerCapsAreEmpty, FailureIsProof, PlanIsFound

LEMMA LowerCapsStay ==
    ASSUME LowerCapsAreEmpty, problem' = problem, forbidden \subseteq forbidden',
           cap' = cap, capped' => capped
    PROVE  LowerCapsAreEmpty'
<1> SUFFICES ASSUME capped, NEW n \in Layers, n < cap, SignalsOf(Capped(n)) = Signals
             PROVE  Acceptable(Capped(n))' = {}
  BY DEF LowerCapsAreEmpty, Layers, SignalsOf, Capped
<1>1. Acceptable(Capped(n)) = {}
  BY DEF LowerCapsAreEmpty
<1>2. Acceptable(Capped(n))' \subseteq Acceptable(Capped(n))
  BY AcceptableShrinks
<1> QED BY <1>1, <1>2

LEMMA PublishStep ==
    ASSUME IInv, TypeOK', PublishLocalAccess
    PROVE  IInv'
<1> USE DEF PublishLocalAccess, search
<1>1. Shapes' /\ answer' = "none" /\ phase' \in {"cap", "full"}
  BY DEF IInv, Shapes
<1>2. LowerCapsAreEmpty'
  <2> SUFFICES ASSUME capped', NEW n \in Layers, n < cap', SignalsOf(Capped(n)) = Signals
               PROVE  FALSE
    BY DEF LowerCapsAreEmpty, Layers, Capped, SignalsOf
  <2>1. cap' = MinimumFeasibleLayer
    BY DEF IInv, Shapes
  <2>2. n \in Nat /\ MinimumFeasibleLayer \in Nat /\ MinimumFeasibleLayer <= n
    BY MinimumLayer, LayersAreNatural
  <2> QED BY <2>1, <2>2
<1> QED BY <1>1, <1>2 DEF IInv, CallsAreNested, SeenIsSettled, ExhaustionIsProof,
           FailureIsProof, PlanIsFound

\* A signal that has lost all its routes to portal certificates has none left.
LEMMA PortalsSettleIt ==
    ASSUME NEW routes \in SUBSET Candidates, SignalsOf(routes) = Signals,
           IndependentEmpty(problem, CompleteSignals) # {},
           problem' = problem,
           ForeignPortalClauses(problem, CompleteSignals) \subseteq forbidden'
    PROVE  Acceptable(routes)' = {}
<1>1. SUFFICES ASSUME NEW selected \in Acceptable(routes)' PROVE FALSE
  OBVIOUS
<1>2. PICK s \in CompleteSignals :
        {c \in Candidates : SignalOf[c] = s} \subseteq UnaryRejected(problem)
  BY DEF IndependentEmpty
<1>3. selected \subseteq routes /\ SignalsOf(selected) = SignalsOf(routes)
  BY DEF Acceptable, LegalSelections, SignalsOf
<1>4. PICK c \in selected : SignalOf[c] = s
  BY <1>3, AssignmentAssumption DEF SignalsOf
<1>5. ASSUME c \in UnaryRejected(problem) PROVE FALSE
  <2>1. {c} \in forbidden'
    BY <1>5 DEF ForeignPortalClauses, Units
  <2>2. {c} \in NoGoods' /\ {c} \subseteq selected
    BY <2>1 DEF NoGoods
  <2> QED BY <1>1, <2>2 DEF Acceptable, Avoids
<1> QED BY <1>2, <1>3, <1>4, <1>5

LEMMA PlanAssignmentStep ==
    ASSUME IInv, TypeOK', NEW routes \in SUBSET Candidates, PlanAssignment(routes),
           phase \in {"cap", "full"},
           routes = IF capped THEN Capped(cap) ELSE Candidates,
           SignalsOf(routes) = Signals
    PROVE  IInv'
<1> USE DEF PlanAssignment
<1>1. /\ phase' = "search" /\ values' = routes /\ capped' = capped /\ cap' = cap
      /\ problem' = problem /\ forbidden \subseteq forbidden'
      /\ recorded' = {} /\ answer' \in {"none", "unsatisfiable"}
  BY DEF IInv, Shapes
<1>2. Shapes'
  <2>1. stack' # <<>> => answer' = "none"
    OBVIOUS
  <2>2. SignalsOf(values)' = Signals /\ Capped(cap)' = Capped(cap)
    BY <1>1 DEF SignalsOf, Capped
  <2> QED BY <1>1, <2>1, <2>2 DEF Shapes
<1>3. LowerCapsAreEmpty'
  BY <1>1, LowerCapsStay DEF IInv
<1>4. CASE IndependentEmpty(problem, CompleteSignals) # {}
  <2>1. Acceptable(routes)' = {}
    BY <1>1, <1>4, PortalsSettleIt
  <2>2. Acceptable(values)' = {}
    BY <1>1, <2>1 DEF Acceptable, LegalSelections, Avoids, NoGoods, SignalsOf
  <2>3. stack' = <<>> /\ answer' = "unsatisfiable"
    BY <1>4
  <2> QED BY <1>1, <1>2, <1>3, <2>2, <2>3 DEF IInv, CallsAreNested, SeenIsSettled,
             ExhaustionIsProof, FailureIsProof, PlanIsFound
<1>5. CASE IndependentEmpty(problem, CompleteSignals) = {}
  <2>1. /\ stack' = <<[excluded |-> Unary', nogood |-> {}, untried |-> {}]>>
        /\ seen' = {Unary'}
        /\ answer' = "none"
    BY <1>5 DEF Unary
  <2>2. /\ Len(stack') = 1
        /\ stack'[1].excluded = Unary'
        /\ stack'[1].nogood = {}
    BY <2>1
  <2>3. CallsAreNested'
    BY <2>2 DEF CallsAreNested, NoGoodIsForbidden, TriedIsClosed
  <2>4. SeenIsSettled'
    BY <2>1, <2>2 DEF SeenIsSettled
  <2> QED BY <1>1, <1>2, <1>3, <2>1, <2>3, <2>4 DEF IInv, ExhaustionIsProof,
             FailureIsProof, PlanIsFound
<1> QED BY <1>4, <1>5

\* A step of the calls leaves the rest of the invariant as it is.
LEMMA CallStep ==
    ASSUME IInv, TypeOK', Searching, CallsAreNested', SeenIsSettled',
           UNCHANGED <<problem, forbidden, capped, cap, phase, values, answer, plan, recorded>>
    PROVE  IInv'
<1>1. phase = "search" /\ answer = "none"
  BY DEF Searching, IInv, Shapes
<1>2. Shapes'
  BY <1>1 DEF IInv, Shapes, SignalsOf, Capped
<1>3. LowerCapsAreEmpty'
  BY LowerCapsStay DEF IInv
<1> QED BY <1>1, <1>2, <1>3 DEF IInv, ExhaustionIsProof, FailureIsProof, PlanIsFound

LEMMA CutStep ==
    ASSUME IInv, TypeOK', Expire \/ \E reason \in Cuts \ {"none"} : Cut(reason)
    PROVE  IInv'
<1>1. ~Uncut'
  BY DEF Expire, Cut, Uncut, Cuts
<1>2. CallsAreNested' /\ SeenIsSettled'
  BY <1>1 DEF CallsAreNested, SeenIsSettled
<1> QED BY <1>2, CallStep DEF Expire, Cut, Planning

LEMMA EmptyBranchStep ==
    ASSUME IInv, TypeOK', Infeasible \/ IncompleteWitness
    PROVE  IInv'
<1>1. Closed(Top.excluded)
  BY MissedSelectionRemains DEF Infeasible, IncompleteWitness, Closed, BranchValues
<1>2. CallsAreNested' /\ SeenIsSettled'
  BY <1>1, ReturnClosed DEF Infeasible, IncompleteWitness, Planning
<1> QED BY <1>2, CallStep DEF Infeasible, IncompleteWitness, Planning

LEMMA ReturnStep ==
    ASSUME IInv, TypeOK', Return
    PROVE  IInv'
<1>1. CASE ~Uncut
  <2>1. ~Uncut'
    BY <1>1 DEF Return, Uncut
  <2>2. CallsAreNested' /\ SeenIsSettled'
    BY <2>1 DEF CallsAreNested, SeenIsSettled
  <2> QED BY <2>2, CallStep DEF Return, Branching
<1>2. CASE Uncut
  <2>1. Top.nogood # {} /\ Top.untried = {}
    BY <1>2 DEF Return, Branching, Uncut
  <2>2. Len(stack) \in 1..Len(stack)
    BY TopFacts DEF IInv, Shapes, TypeOK, Return, Branching, Searching
  <2>3. NoGoodIsForbidden(Top) /\ TriedIsClosed(Len(stack))
    BY <1>2, <2>2 DEF IInv, CallsAreNested, Top, Return, Branching, Searching
  <2>4. \A m \in Top.nogood : Closed(Top.excluded \cup {m})
    <3>1. ~(Len(stack) < Len(stack))
      BY <2>2
    <3> QED BY <2>1, <2>3, <3>1, Zenon DEF TriedIsClosed, Top
  <2>5. ASSUME NEW selected \in Acceptable(values), selected \cap Top.excluded = {}
        PROVE  FALSE
    <3>1. Top.nogood \subseteq selected
      BY <2>4, <2>5 DEF Closed
    <3>2. Top.nogood \in NoGoods
      BY <2>1, <2>3 DEF NoGoodIsForbidden, NoGoods
    <3> QED BY <3>1, <3>2 DEF Acceptable, Avoids
  <2>6. Closed(Top.excluded)
    BY <2>5 DEF Closed
  <2>7. CallsAreNested' /\ SeenIsSettled'
    BY <2>6, ReturnClosed DEF Return, Branching
  <2> QED BY <2>7, CallStep DEF Return, Branching
<1> QED BY <1>1, <1>2

LEMMA ConcludeStep ==
    ASSUME IInv, TypeOK', Conclude
    PROVE  IInv'
<1> USE DEF Conclude, search
<1>1. /\ phase' = "search" /\ stack' = <<>> /\ answer' # "none" /\ answer' # "planned"
      /\ phase = "search" /\ stack = <<>> /\ answer = "none"
  BY DEF IInv, Shapes, TypeOK, Cuts
<1>2. Shapes'
  BY <1>1 DEF IInv, Shapes, SignalsOf, Capped
<1>3. ASSUME answer' = "unsatisfiable" PROVE Acceptable(values) = {}
  <2>1. Uncut
    BY <1>3 DEF Uncut, IInv, Shapes, TypeOK, Cuts
  <2>2. Len(stack) = 0
    BY <1>1
  <2>3. Closed(Unary)
    BY <1>1, <2>1, <2>2 DEF IInv, SeenIsSettled
  <2> QED BY <2>3, UnaryClosedIsEmpty DEF IInv, Shapes
<1>4. ExhaustionIsProof'
  BY <1>3 DEF ExhaustionIsProof, Acceptable, LegalSelections, Avoids, NoGoods, SignalsOf
<1>5. CallsAreNested' /\ SeenIsSettled'
  BY <1>1 DEF CallsAreNested, SeenIsSettled
<1>6. LowerCapsAreEmpty'
  BY LowerCapsStay DEF IInv
<1> QED BY <1>1, <1>2, <1>4, <1>5, <1>6 DEF IInv, FailureIsProof, PlanIsFound

\* A call that meets a no-good starts with all of its members untried.
LEMMA BranchFacts ==
    ASSUME stack \in Seq(Frames), stack # <<>>, NEW nogood \in SUBSET Candidates,
           stack' = [stack EXCEPT ![Len(stack)].nogood = nogood,
                                  ![Len(stack)].untried = nogood]
    PROVE  /\ Len(stack') = Len(stack)
           /\ \A i \in 1..Len(stack) : i # Len(stack) => stack'[i] = stack[i]
           /\ stack'[Len(stack)].excluded = stack[Len(stack)].excluded
           /\ stack'[Len(stack)].nogood = nogood
           /\ stack'[Len(stack)].untried = nogood
<1>1. Len(stack) \in Nat \ {0} /\ \A i \in 1..Len(stack) : stack[i] \in Frames
  OBVIOUS
<1>2. Len(stack') = Len(stack)
  OBVIOUS
<1>3. \A i \in 1..Len(stack) : i # Len(stack) => stack'[i] = stack[i]
  BY <1>1
<1> DEFINE frame == [stack[Len(stack)] EXCEPT !.nogood = nogood, !.untried = nogood]
<1>4. stack[Len(stack)] \in Frames /\ Len(stack) \in 1..Len(stack)
  BY <1>1
<1>5. stack' = [stack EXCEPT ![Len(stack)] = frame]
  BY <1>4 DEF Frames
<1>6. stack'[Len(stack)] = frame
  <2>1. frame \in Frames
    BY <1>4 DEF Frames
  <2>2. [stack EXCEPT ![Len(stack)] = frame][Len(stack)] = frame
    <3> HIDE DEF frame
    <3> QED BY <1>4, <2>1, ExceptSeq
  <2> QED BY <1>5, <2>2
<1>7. /\ frame.excluded = stack[Len(stack)].excluded
      /\ frame.nogood = nogood
      /\ frame.untried = nogood
  BY <1>4 DEF Frames
<1> QED BY <1>2, <1>3, <1>6, <1>7

LEMMA TriedFacts ==
    ASSUME stack \in Seq(Frames), stack # <<>>, NEW member, NEW tried,
           tried = [stack EXCEPT ![Len(stack)].untried = @ \ {member}]
    PROVE  /\ tried \in Seq(Frames) /\ Len(tried) = Len(stack)
           /\ \A i \in 1..Len(stack) : i # Len(stack) => tried[i] = stack[i]
           /\ tried[Len(stack)].excluded = stack[Len(stack)].excluded
           /\ tried[Len(stack)].nogood = stack[Len(stack)].nogood
           /\ tried[Len(stack)].untried = stack[Len(stack)].untried \ {member}
<1>1. Len(stack) \in Nat \ {0} /\ \A i \in 1..Len(stack) : stack[i] \in Frames
  OBVIOUS
<1>2. Len(tried) = Len(stack)
  OBVIOUS
<1>3. \A i \in 1..Len(stack) : i # Len(stack) => tried[i] = stack[i]
  BY <1>1
<1> DEFINE frame == [stack[Len(stack)] EXCEPT !.untried = @ \ {member}]
<1>4. stack[Len(stack)] \in Frames /\ Len(stack) \in 1..Len(stack)
  BY <1>1
<1>5. tried = [stack EXCEPT ![Len(stack)] = frame]
  BY <1>4 DEF Frames
<1>6. tried[Len(stack)] = frame
  <2> HIDE DEF frame
  <2> QED BY <1>1, <1>5
<1>7. /\ frame.excluded = stack[Len(stack)].excluded
      /\ frame.nogood = stack[Len(stack)].nogood
      /\ frame.untried = stack[Len(stack)].untried \ {member}
      /\ frame \in Frames
  BY <1>4 DEF Frames
<1>8. tried \in Seq(Frames)
  <2>1. [stack EXCEPT ![Len(stack)] = frame] \in Seq(Frames)
    <3> HIDE DEF frame
    <3> QED BY <1>4, <1>7, ExceptSeq
  <2> QED BY <1>5, <2>1
<1> QED BY <1>2, <1>3, <1>6, <1>7, <1>8

LEMMA WitnessStep ==
    ASSUME IInv, TypeOK', Witness
    PROVE  IInv'
<1>0. /\ stack \in Seq(Frames) /\ stack # <<>> /\ phase = "search" /\ answer = "none"
      /\ Len(stack) \in Nat \ {0} /\ Len(stack) \in 1..Len(stack)
      /\ SignalsOf(values) = Signals /\ values \subseteq Candidates
  BY TopFacts DEF Witness, Planning, Searching, IInv, Shapes, TypeOK
<1>1. PICK selected \in LegalSelections(BranchValues) :
        \/ /\ MatchingNoGoods(selected) = {}
           /\ answer' = "planned"
           /\ plan' = selected
           /\ stack' = <<>>
        \/ /\ \E nogood \in MatchingNoGoods(selected) :
                stack' = [stack EXCEPT ![Len(stack)].nogood = nogood,
                                       ![Len(stack)].untried = nogood]
           /\ UNCHANGED <<answer, plan>>
  BY DEF Witness
<1>2. /\ SignalsOf(BranchValues) = SignalsOf(values)
      /\ UNCHANGED <<problem, forbidden, capped, cap, phase, values, seen, firstCut,
                      deadline, recorded>>
  BY DEF Witness
<1>3. CASE MatchingNoGoods(selected) = {} /\ answer' = "planned" /\ plan' = selected
           /\ stack' = <<>>
  <2>1. selected \in Acceptable(Candidates)
    <3>1. selected \subseteq values /\ SignalsOf(selected) = Signals
      BY <1>0, <1>2 DEF LegalSelections, BranchValues
    <3>2. selected \in LegalSelections(Candidates)
      BY <1>0, <3>1, AllSignalsHaveRoutes DEF LegalSelections
    <3>3. Avoids(selected)
      BY <1>3 DEF Avoids, MatchingNoGoods
    <3> QED BY <3>2, <3>3 DEF Acceptable
  <2>2. PlanIsFound'
    BY <1>2, <1>3, <2>1 DEF PlanIsFound, Acceptable, LegalSelections, Avoids, NoGoods, SignalsOf
  <2>3. Shapes'
    BY <1>0, <1>2, <1>3 DEF IInv, Shapes, SignalsOf, Capped
  <2>4. CallsAreNested' /\ SeenIsSettled'
    BY <1>3 DEF CallsAreNested, SeenIsSettled
  <2>5. LowerCapsAreEmpty'
    BY <1>2, LowerCapsStay DEF IInv
  <2> QED BY <1>2, <1>3, <2>2, <2>3, <2>4, <2>5 DEF IInv, ExhaustionIsProof, FailureIsProof
<1>4. ASSUME NEW nogood \in MatchingNoGoods(selected), UNCHANGED <<answer, plan>>,
             stack' = [stack EXCEPT ![Len(stack)].nogood = nogood,
                                    ![Len(stack)].untried = nogood]
      PROVE  IInv'
  <2>1. /\ nogood \in forbidden /\ nogood \subseteq selected
        /\ nogood \cap Top.excluded = {} /\ nogood \in SUBSET Candidates
    BY <1>0 DEF MatchingNoGoods, NoGoods, LegalSelections, BranchValues
  <2>2. /\ Len(stack') = Len(stack)
        /\ \A i \in 1..Len(stack) : i # Len(stack) => stack'[i] = stack[i]
        /\ stack'[Len(stack)].excluded = stack[Len(stack)].excluded
        /\ stack'[Len(stack)].nogood = nogood
        /\ stack'[Len(stack)].untried = nogood
    BY <1>0, <1>4, <2>1, BranchFacts
  <2>3. \A i \in 1..Len(stack) : stack'[i].excluded = stack[i].excluded
    BY <2>2
  <2>4. \A excluded : Closed(excluded)' <=> Closed(excluded)
    BY <1>2, ClosedStays
  <2>5. CallsAreNested'
    <3> SUFFICES ASSUME Uncut, NEW i \in 1..Len(stack)
                 PROVE  /\ NoGoodIsForbidden(stack[i])'
                        /\ TriedIsClosed(i)'
                        /\ \A j \in i..Len(stack) :
                             stack[i].excluded \subseteq stack[j].excluded
      BY <1>0, <1>2, <2>2, <2>3 DEF CallsAreNested, Uncut
    <3>1. /\ NoGoodIsForbidden(stack[i])
          /\ TriedIsClosed(i)
          /\ \A j \in i..Len(stack) : stack[i].excluded \subseteq stack[j].excluded
      BY <1>0 DEF IInv, CallsAreNested
    <3>2. CASE i = Len(stack)
      <4>1. NoGoodIsForbidden(stack[i])'
        BY <1>2, <2>1, <2>2, <3>2 DEF NoGoodIsForbidden, Top
      <4>2. TriedIsClosed(i)'
        BY <2>2, <3>2 DEF TriedIsClosed
      <4> QED BY <3>1, <4>1, <4>2
    <3>3. CASE i # Len(stack)
      <4>1. stack'[i] = stack[i] /\ i < Len(stack) /\ i + 1 \in 1..Len(stack)
        BY <1>0, <2>2, <3>3
      <4>2. stack'[i + 1].excluded = stack[i + 1].excluded
        BY <2>3, <4>1
      <4>3. TriedIsClosed(i)'
        BY <2>2, <2>4, <3>1, <4>1, <4>2 DEF TriedIsClosed
      <4> QED BY <1>2, <3>1, <4>1, <4>3 DEF NoGoodIsForbidden
    <3> QED BY <3>2, <3>3
  <2>6. SeenIsSettled'
    <3>1. Unary' = Unary /\ (Uncut' <=> Uncut)
      BY <1>2 DEF Unary, Uncut
    <3> QED BY <1>0, <1>2, <1>4, <2>2, <2>3, <2>4, <3>1 DEF IInv, SeenIsSettled
  <2> QED BY <1>2, <1>4, <2>5, <2>6, CallStep DEF Witness, Planning
<1> QED BY <1>1, <1>3, <1>4

\* A branch that is skipped as seen is closed: it is not one under way, since
\* those have excluded less than it does.
LEMMA SkippedIsClosed ==
    ASSUME IInv, Uncut, NEW member, TryMember(member), Excluded(member) \in seen
    PROVE  Closed(Excluded(member))
<1>1. /\ Len(stack) \in 1..Len(stack) /\ phase = "search" /\ answer = "none"
      /\ Top.nogood # {} /\ member \in Top.untried
  BY TopFacts DEF TryMember, Branching, Searching, IInv, Shapes, TypeOK
<1>2. NoGoodIsForbidden(Top)
  BY <1>1 DEF IInv, CallsAreNested, Top
<1>3. member \notin Top.excluded
  BY <1>1, <1>2 DEF NoGoodIsForbidden
<1>4. ASSUME NEW i \in 1..Len(stack), stack[i].excluded = Excluded(member) PROVE FALSE
  <2>1. stack[i].excluded \subseteq Top.excluded
    <3>1. Len(stack) \in i..Len(stack)
      BY <1>1
    <3> QED BY <1>1, <3>1 DEF IInv, CallsAreNested, Top
  <2> QED BY <1>3, <1>4, <2>1 DEF Excluded
<1> QED BY <1>1, <1>4 DEF IInv, SeenIsSettled

LEMMA TryMemberStep ==
    ASSUME IInv, TypeOK', NEW member, TryMember(member)
    PROVE  IInv'
<1> DEFINE tried == [stack EXCEPT ![Len(stack)].untried = @ \ {member}]
           child == [excluded |-> Excluded(member), nogood |-> {}, untried |-> {}]
           n == Len(stack)
<1>0. /\ stack \in Seq(Frames) /\ stack # <<>> /\ phase = "search" /\ answer = "none"
      /\ n \in Nat \ {0} /\ n \in 1..n
      /\ Top.nogood # {} /\ member \in Top.untried
  BY TopFacts DEF TryMember, Branching, Searching, IInv, Shapes, TypeOK
<1>1. /\ UNCHANGED <<problem, forbidden, capped, cap, phase, values, firstCut, deadline,
                      answer, plan, recorded>>
      /\ seen' = seen \cup {Excluded(member)}
      /\ stack' = IF Excluded(member) \in seen THEN tried ELSE Append(tried, child)
  BY DEF TryMember
<1>2. /\ tried \in Seq(Frames) /\ Len(tried) = n
      /\ \A i \in 1..n : i # n => tried[i] = stack[i]
      /\ tried[n].excluded = stack[n].excluded
      /\ tried[n].nogood = stack[n].nogood
      /\ tried[n].untried = stack[n].untried \ {member}
  <2>1. \E t : t = tried
    OBVIOUS
  <2> QED BY <1>0, <2>1, TriedFacts
<1> HIDE DEF tried
<1>3. /\ Len(stack') = IF Excluded(member) \in seen THEN n ELSE n + 1
      /\ \A i \in 1..n : stack'[i] = tried[i]
      /\ Excluded(member) \notin seen => stack'[n + 1] = child
  BY <1>0, <1>1, <1>2
<1>4. \A i \in 1..n : stack'[i].excluded = stack[i].excluded
  BY <1>0, <1>2, <1>3
<1>5. \A excluded : Closed(excluded)' <=> Closed(excluded)
  BY <1>1, ClosedStays
<1>6. Uncut' <=> Uncut
  BY <1>1 DEF Uncut
<1>7. CallsAreNested'
  <2> SUFFICES ASSUME Uncut, NEW i \in 1..Len(stack')
               PROVE  /\ NoGoodIsForbidden(stack[i])'
                      /\ TriedIsClosed(i)'
                      /\ \A j \in i..Len(stack') :
                           stack'[i].excluded \subseteq stack'[j].excluded
    BY <1>6 DEF CallsAreNested
  <2>1. CASE i \in 1..n
    <3>1. /\ NoGoodIsForbidden(stack[i])
          /\ TriedIsClosed(i)
          /\ \A j \in i..n : stack[i].excluded \subseteq stack[j].excluded
      BY <1>0, <2>1 DEF IInv, CallsAreNested
    <3>2. ASSUME NEW j \in i..Len(stack')
          PROVE  stack'[i].excluded \subseteq stack'[j].excluded
      <4>1. CASE j \in i..n
        BY <1>4, <2>1, <3>1, <4>1
      <4>2. CASE j \notin i..n
        <5>1. j = n + 1 /\ stack'[n + 1] = child
          BY <1>0, <1>3, <2>1, <4>2
        <5>2. stack[i].excluded \subseteq stack[n].excluded
          BY <1>0, <2>1, <3>1
        <5> QED BY <1>4, <2>1, <5>1, <5>2 DEF Excluded, Top
      <4> QED BY <4>1, <4>2
    <3>3. NoGoodIsForbidden(stack[i])'
      <4>1. CASE i = n
        BY <1>1, <1>2, <1>3, <2>1, <3>1, <4>1 DEF NoGoodIsForbidden
      <4>2. CASE i # n
        BY <1>1, <1>2, <1>3, <2>1, <3>1, <4>2 DEF NoGoodIsForbidden
      <4> QED BY <4>1, <4>2
    <3>4. CASE i # n
      <4>1. stack'[i] = stack[i] /\ i < n /\ i + 1 \in 1..n /\ i < Len(stack')
        BY <1>0, <1>2, <1>3, <2>1, <3>4
      <4>2. stack'[i + 1].excluded = stack[i + 1].excluded
        BY <1>4, <4>1
      <4>3. TriedIsClosed(i)'
        BY <1>5, <3>1, <4>1, <4>2 DEF TriedIsClosed
      <4> QED BY <3>2, <3>3, <4>3
    <3>5. CASE i = n
      <4> SUFFICES ASSUME NEW m \in stack[n].nogood \ (stack[n].untried \ {member})
                   PROVE  \/ Closed(stack[n].excluded \cup {m})
                          \/ /\ n < Len(stack')
                             /\ stack'[n + 1].excluded = stack[n].excluded \cup {m}
        BY <1>2, <1>3, <1>5, <2>1, <3>2, <3>3, <3>5 DEF TriedIsClosed
      <4>1. CASE m # member
        <5>1. ~(n < n)
          BY <1>0
        <5> QED BY <3>1, <3>5, <4>1, <5>1, Zenon DEF TriedIsClosed
      <4>2. CASE m = member /\ Excluded(member) \in seen
        BY <4>2, SkippedIsClosed DEF Excluded, Top
      <4>3. CASE m = member /\ Excluded(member) \notin seen
        BY <1>0, <1>3, <4>3 DEF Excluded, Top
      <4> QED BY <4>1, <4>2, <4>3
    <3> QED BY <3>4, <3>5
  <2>2. CASE i \notin 1..n
    <3>1. i = n + 1 /\ Len(stack') = n + 1 /\ stack'[i] = child
      BY <1>0, <1>3, <2>2
    <3>2. NoGoodIsForbidden(stack[i])' /\ TriedIsClosed(i)'
      BY <3>1 DEF NoGoodIsForbidden, TriedIsClosed
    <3>3. \A j \in i..Len(stack') : j = i
      BY <1>0, <3>1
    <3> QED BY <3>2, <3>3
  <2> QED BY <2>1, <2>2
<1>8. SeenIsSettled'
  <2> SUFFICES ASSUME Uncut
               PROVE  /\ Unary \in seen
                      /\ \A excluded \in seen \cup {Excluded(member)} :
                           \/ Closed(excluded)
                           \/ \E i \in 1..Len(stack') : stack'[i].excluded = excluded
    BY <1>1, <1>5, <1>6 DEF SeenIsSettled, Unary
  <2>1. /\ Unary \in seen
        /\ \A excluded \in seen :
             Closed(excluded) \/ \E i \in 1..n : stack[i].excluded = excluded
    BY <1>0 DEF IInv, SeenIsSettled
  <2>2. \A i \in 1..n : i \in 1..Len(stack')
    BY <1>0, <1>3
  <2>3. ASSUME Excluded(member) \notin seen
        PROVE  \E i \in 1..Len(stack') : stack'[i].excluded = Excluded(member)
    <3>1. n + 1 \in 1..Len(stack') /\ stack'[n + 1].excluded = Excluded(member)
      BY <1>0, <1>3, <2>3
    <3> QED BY <3>1
  <2> QED BY <1>4, <2>1, <2>2, <2>3
<1> QED BY <1>1, <1>7, <1>8, CallStep DEF TryMember, Branching

LEMMA AnswerStep ==
    ASSUME IInv, TypeOK', Planned \/ NextCap \/ GiveUpCaps \/ RaiseForNativeAssignmentDeadline
    PROVE  IInv'
<1>1. /\ phase = "search" /\ phase' # "search" /\ answer # "none" /\ stack = <<>>
      /\ UNCHANGED <<problem, forbidden, search, plan, recorded>> /\ recorded = {}
  BY DEF IInv, Shapes, Planned, NextCap, GiveUpCaps, RaiseForNativeAssignmentDeadline
<1>2. Shapes'
  BY <1>1 DEF IInv, Shapes, Planned, NextCap, GiveUpCaps,
              RaiseForNativeAssignmentDeadline, search
<1>3. CallsAreNested' /\ SeenIsSettled' /\ ExhaustionIsProof'
  BY <1>1 DEF CallsAreNested, SeenIsSettled, ExhaustionIsProof
<1>4. answer = "unsatisfiable" => Acceptable(values) = {}
  BY <1>1 DEF IInv, ExhaustionIsProof
<1>5. CASE NextCap /\ capped /\ cap < MaximumCandidateLayer
  <2>1. cap' = cap + 1 /\ answer' = "none" /\ capped' /\ answer = "unsatisfiable"
    BY <1>5 DEF NextCap
  <2>2. Acceptable(Capped(cap)) = {} /\ cap \in Nat
    BY <1>1, <1>4, <1>5, <2>1 DEF IInv, Shapes, TypeOK
  <2>3. LowerCapsAreEmpty'
    <3> SUFFICES ASSUME NEW n \in Layers, n < cap + 1, SignalsOf(Capped(n)) = Signals
                 PROVE  Acceptable(Capped(n))' = {}
      BY <2>1 DEF LowerCapsAreEmpty, Layers, SignalsOf, Capped
    <3>1. Acceptable(Capped(n))' \subseteq Acceptable(Capped(n))
      BY <1>1, AcceptableShrinks
    <3>2. n \in Nat
      BY LayersAreNatural
    <3>3. CASE n = cap
      BY <2>2, <3>1, <3>3
    <3>4. CASE n < cap
      BY <1>5, <3>1, <3>4 DEF IInv, LowerCapsAreEmpty
    <3> QED BY <2>2, <3>2, <3>3, <3>4
  <2> QED BY <1>2, <1>3, <2>1, <2>3 DEF IInv, FailureIsProof, PlanIsFound
<1>6. CASE ~(NextCap /\ capped /\ cap < MaximumCandidateLayer)
  <2>1. LowerCapsAreEmpty'
    <3>1. cap' = cap /\ (capped' => capped)
      BY <1>6 DEF Planned, NextCap, GiveUpCaps, RaiseForNativeAssignmentDeadline
    <3> QED BY <1>1, <3>1, LowerCapsStay DEF IInv
  <2>2. FailureIsProof'
    <3> SUFFICES ASSUME answer' = "unsatisfiable" PROVE Acceptable(Candidates)' = {}
      BY DEF FailureIsProof
    <3>1. NextCap /\ answer = "unsatisfiable" /\ ~(capped /\ cap < MaximumCandidateLayer)
      BY <1>6 DEF Planned, NextCap, GiveUpCaps, RaiseForNativeAssignmentDeadline
    <3>2. values = Candidates
      <4>1. CASE capped
        <5>1. MaximumCandidateLayer \in Nat /\ cap \in Nat
          BY MaximumLayer, LayersAreNatural DEF IInv, Shapes, TypeOK
        <5>2. Capped(cap) = Candidates
          BY <3>1, <4>1, <5>1, EverythingIsBelow
        <5> QED BY <1>1, <4>1, <5>2 DEF IInv, Shapes
      <4>2. CASE ~capped
        BY <1>1, <4>2 DEF IInv, Shapes
      <4> QED BY <4>1, <4>2
    <3>3. Acceptable(Candidates)' \subseteq Acceptable(Candidates)
      BY <1>1, AcceptableShrinks
    <3> QED BY <1>4, <3>1, <3>2, <3>3
  <2>3. PlanIsFound'
    <3>1. answer' = "planned" => answer = "planned"
      BY DEF Planned, NextCap, GiveUpCaps, RaiseForNativeAssignmentDeadline
    <3> QED BY <1>1, <3>1 DEF IInv, PlanIsFound, Acceptable, LegalSelections, Avoids,
               NoGoods, SignalsOf
  <2> QED BY <1>2, <1>3, <2>1, <2>2, <2>3 DEF IInv
<1> QED BY <1>5, <1>6

\* What a failed compilation records is never empty, since no plan is.
LEMMA CompileStep ==
    ASSUME IInv, TypeOK', CompileClosedComponent
    PROVE  IInv'
<1> USE DEF CompileClosedComponent
<1>1. /\ phase' = "finished" /\ answer = "planned" /\ answer' = "planned"
      /\ recorded = {} /\ stack = <<>> /\ stack' = <<>> /\ plan \in Acceptable(Candidates)
      /\ problem' = problem /\ forbidden \subseteq forbidden'
      /\ cap' = cap /\ capped' = capped /\ plan' = plan
  BY DEF IInv, Shapes, PlanIsFound, search
<1>2. plan # {}
  <2>1. SignalsOf(plan) = Signals
    BY <1>1, AllSignalsHaveRoutes DEF Acceptable, LegalSelections
  <2> QED BY <2>1, AssignmentAssumption DEF SignalsOf
<1>3. recorded' # {} \/ UNCHANGED <<forbidden, recorded>>
  BY <1>2 DEF CandidateNoGood
<1>4. Shapes'
  BY <1>1 DEF IInv, Shapes
<1>5. PlanIsFound'
  BY <1>1, <1>3 DEF PlanIsFound, Acceptable, LegalSelections, Avoids, NoGoods, SignalsOf
<1>6. LowerCapsAreEmpty'
  BY <1>1, LowerCapsStay DEF IInv
<1> QED BY <1>1, <1>4, <1>5, <1>6 DEF IInv, CallsAreNested, SeenIsSettled,
           ExhaustionIsProof, FailureIsProof

LEMMA StutterStep ==
    ASSUME IInv, TypeOK', UNCHANGED vars
    PROVE  IInv'
<1> USE DEF vars, search
<1>1. Shapes'
  BY DEF IInv, Shapes, SignalsOf, Capped
<1>2. UNCHANGED <<problem, forbidden, values>> /\ \A x : Closed(x)' <=> Closed(x)
  BY ClosedStays
<1>3. CallsAreNested'
  BY <1>2 DEF IInv, CallsAreNested, NoGoodIsForbidden, TriedIsClosed, Uncut
<1>4. SeenIsSettled'
  BY <1>2 DEF IInv, SeenIsSettled, Uncut, Unary
<1>5. Acceptable(values)' = Acceptable(values) /\ Acceptable(Candidates)' = Acceptable(Candidates)
  BY DEF Acceptable, LegalSelections, Avoids, NoGoods, SignalsOf
<1>6. LowerCapsAreEmpty'
  BY LowerCapsStay DEF IInv
<1> QED BY <1>1, <1>3, <1>4, <1>5, <1>6 DEF IInv, ExhaustionIsProof, FailureIsProof,
           PlanIsFound

LEMMA StepIInv == IInv /\ [Next]_vars => IInv'
<1> SUFFICES ASSUME IInv, [Next]_vars PROVE IInv'
  OBVIOUS
<1>1. TypeOK'
  BY TypeStep DEF IInv, Shapes
<1>2. CASE PublishLocalAccess
  BY <1>1, <1>2, PublishStep
<1>3. CASE PlanUnderCap
  <2>1. phase = "cap" /\ capped /\ Capped(cap) \in SUBSET Candidates
    BY <1>3 DEF PlanUnderCap, IInv, Shapes, Capped
  <2> QED BY <1>1, <1>3, <2>1, PlanAssignmentStep DEF PlanUnderCap
<1>4. CASE PlanInFull
  <2>1. phase = "full" /\ ~capped
    BY <1>4 DEF PlanInFull, IInv, Shapes
  <2> QED BY <1>1, <1>4, <2>1, AllSignalsHaveRoutes, PlanAssignmentStep DEF PlanInFull
<1>5. CASE SearchStep
  <2>1. CASE Expire \/ \E reason \in Cuts \ {"none"} : Cut(reason)
    BY <1>1, <2>1, CutStep
  <2>2. CASE Infeasible \/ IncompleteWitness
    BY <1>1, <2>2, EmptyBranchStep
  <2>3. CASE Witness
    BY <1>1, <2>3, WitnessStep
  <2>4. CASE Return
    BY <1>1, <2>4, ReturnStep
  <2>5. CASE Conclude
    BY <1>1, <2>5, ConcludeStep
  <2>6. CASE \E member \in Candidates : TryMember(member)
    BY <1>1, <2>6, TryMemberStep
  <2> QED BY <1>5, <2>1, <2>2, <2>3, <2>4, <2>5, <2>6 DEF SearchStep
<1>6. CASE Planned \/ NextCap \/ GiveUpCaps \/ RaiseForNativeAssignmentDeadline
  BY <1>1, <1>6, AnswerStep
<1>7. CASE CompileClosedComponent
  BY <1>1, <1>7, CompileStep
<1>8. CASE Done \/ UNCHANGED vars
  BY <1>1, <1>8, StutterStep DEF Done
<1> QED BY <1>2, <1>3, <1>4, <1>5, <1>6, <1>7, <1>8 DEF Next, Step

LEMMA Inductive == Spec => []IInv
BY InitIInv, StepIInv, PTL DEF Spec

\* Every plan found is a complete legal selection without a forbidden set.
THEOREM PlansAreAcceptable == Spec => []PlanIsAcceptable
<1>1. IInv => PlanIsAcceptable
  BY DEF IInv, Shapes, PlanIsFound, PlanIsAcceptable
<1> QED BY <1>1, Inductive, PTL

\* An exhausted search leaves no acceptable selection out, although branches are
\* skipped when an equal exclusion was searched.
THEOREM ExhaustionProves == Spec => []ExhaustionIsProof
<1>1. IInv => ExhaustionIsProof
  BY DEF IInv
<1> QED BY <1>1, Inductive, PTL

\* A capped plan is of the lowest layer that has one, and an unsatisfiable answer
\* at the end is of the whole domain.
THEOREM LayersAreLowest == Spec => []LowestLayerOrNone
<1>1. IInv => LowestLayerOrNone
  BY DEF IInv, LowerCapsAreEmpty, FailureIsProof, LowestLayerOrNone
<1> QED BY <1>1, Inductive, PTL

-----------------------------------------------------------------------------
(* What is forbidden.                                                      *)

Published ==
    LocalAccessClauses(problem) \cup ForeignPortalClauses(problem, CompleteSignals)

Recorded ==
    recorded # {} =>
      /\ plan \in LegalSelections(Candidates)
      /\ \E w \in ComponentSignals :
           /\ NetStates(problem, w, plan) = {}
           /\ \E core \in ReservedGlobalRouteUnsatCores(problem, w, plan) :
                recorded = CandidateNoGood(core, plan)

\* Nothing but certificates and the recorded no-good is forbidden, and a plan
\* is made when all certificates are published.
ForbiddenIsKnown ==
    /\ recorded = {} => forbidden \subseteq Published
    /\ recorded # {} => forbidden \subseteq Published \cup {recorded}
    /\ phase # "certify" => LocalAccessClauses(problem) \subseteq forbidden
    /\ phase \in {"search", "compile"} =>
         ForeignPortalClauses(problem, CompleteSignals) \subseteq forbidden
    /\ phase \in {"search", "compile"} /\ answer # "unsatisfiable" =>
         IndependentEmpty(problem, CompleteSignals) = {}
    /\ Recorded

LEMMA ForbiddenInit == Init => ForbiddenIsKnown
BY DEF Init, ForbiddenIsKnown, Recorded

LEMMA ForbiddenStep == IInv /\ ForbiddenIsKnown /\ [Next]_vars => ForbiddenIsKnown'
<1> SUFFICES ASSUME IInv, ForbiddenIsKnown, [Next]_vars PROVE ForbiddenIsKnown'
  OBVIOUS
<1>1. CASE PublishLocalAccess
  <2>1. phase' \in {"cap", "full"} /\ recorded = {} /\ recorded' = {} /\ problem' = problem
        /\ forbidden' = forbidden \cup LocalAccessClauses(problem)
    BY <1>1 DEF PublishLocalAccess, IInv, Shapes
  <2> QED BY <2>1 DEF ForbiddenIsKnown, Published, Recorded
<1>2. ASSUME NEW routes, PlanAssignment(routes), phase \in {"cap", "full"}
      PROVE  ForbiddenIsKnown'
  <2>1. /\ phase' = "search" /\ recorded = {} /\ recorded' = {} /\ problem' = problem
        /\ forbidden' = forbidden \cup ForeignPortalClauses(problem, CompleteSignals)
        /\ IndependentEmpty(problem, CompleteSignals) # {} => answer' = "unsatisfiable"
    BY <1>2 DEF PlanAssignment, IInv, Shapes
  <2> QED BY <1>2, <2>1 DEF ForbiddenIsKnown, Published, Recorded
<1>3. CASE SearchStep
  <2>1. /\ phase = "search" /\ phase' = "search" /\ UNCHANGED <<problem, forbidden, recorded>>
        /\ recorded = {} /\ answer = "none"
    BY <1>3 DEF SearchStep, Expire, Infeasible, IncompleteWitness, Witness, Return, Conclude,
                Cut, TryMember, Planning, Branching, Searching, search, IInv, Shapes
  <2> QED BY <2>1 DEF ForbiddenIsKnown, Published, Recorded
<1>4. CASE Planned \/ NextCap \/ GiveUpCaps \/ RaiseForNativeAssignmentDeadline
  <2>1. /\ phase = "search" /\ UNCHANGED <<problem, forbidden, recorded>> /\ recorded = {}
        /\ phase' = "compile" => answer = "planned"
        /\ phase' \in {"cap", "full", "finished", "compile"}
        /\ plan' = plan
    BY <1>4 DEF Planned, NextCap, GiveUpCaps, RaiseForNativeAssignmentDeadline, IInv, Shapes
  <2> QED BY <2>1 DEF ForbiddenIsKnown, Published, Recorded
<1>5. CASE CompileClosedComponent
  <2>1. /\ phase = "compile" /\ phase' = "finished" /\ problem' = problem /\ plan' = plan
        /\ recorded = {} /\ plan \in LegalSelections(Candidates)
    BY <1>5 DEF CompileClosedComponent, IInv, Shapes, PlanIsFound, Acceptable
  <2>2. \/ UNCHANGED <<forbidden, recorded>>
        \/ /\ forbidden' = forbidden \cup {recorded'}
           /\ \E w \in ComponentSignals :
                /\ NetStates(problem, w, plan) = {}
                /\ \E core \in ReservedGlobalRouteUnsatCores(problem, w, plan) :
                     recorded' = CandidateNoGood(core, plan)
    BY <1>5, Zenon DEF CompileClosedComponent
  <2>3. Published' = Published /\ LegalSelections(Candidates)' = LegalSelections(Candidates)
    BY <2>1 DEF Published, LegalSelections, SignalsOf
  <2>4. CASE UNCHANGED <<forbidden, recorded>>
    BY <2>1, <2>3, <2>4 DEF ForbiddenIsKnown, Recorded
  <2>5. CASE ~UNCHANGED <<forbidden, recorded>>
    <3>1. Recorded'
      BY <2>1, <2>2, <2>3, <2>5 DEF Recorded
    <3>2. forbidden' = forbidden \cup {recorded'}
      BY <2>2, <2>5
    <3>3. recorded' # {}
      <4>1. plan # {}
        <5>1. SignalsOf(plan) = Signals
          BY <2>1, AllSignalsHaveRoutes DEF LegalSelections
        <5> QED BY <5>1, AssignmentAssumption DEF SignalsOf
      <4> QED BY <2>2, <2>5, <4>1 DEF CandidateNoGood
    <3> QED BY <2>1, <2>3, <3>1, <3>2, <3>3 DEF ForbiddenIsKnown
  <2> QED BY <2>4, <2>5
<1>6. CASE Done \/ UNCHANGED vars
  <2>1. UNCHANGED vars
    BY <1>6 DEF Done
  <2> QED BY <2>1 DEF ForbiddenIsKnown, Published, Recorded, LegalSelections, SignalsOf,
             vars, search
<1>7. CASE PlanUnderCap
  BY <1>2, <1>7 DEF PlanUnderCap
<1>8. CASE PlanInFull
  BY <1>2, <1>8 DEF PlanInFull
<1> QED BY <1>1, <1>3, <1>4, <1>5, <1>6, <1>7, <1>8 DEF Next, Step

LEMMA ForbiddenInvariant == Spec => [](IInv /\ ForbiddenIsKnown)
<1>1. Init => IInv /\ ForbiddenIsKnown
  BY InitIInv, ForbiddenInit
<1>2. IInv /\ ForbiddenIsKnown /\ [Next]_vars => (IInv /\ ForbiddenIsKnown)'
  BY StepIInv, ForbiddenStep
<1> QED BY <1>1, <1>2, PTL DEF Spec

LEMMA LegalIsApart ==
    ASSUME NEW selected \in LegalSelections(Candidates)
    PROVE  selected \in SUBSET Candidates /\ Apart(selected)
BY DEF LegalSelections, Apart

\* A complete selection has room for no further route.
LEMMA WholeSelection ==
    ASSUME plan \in LegalSelections(Candidates),
           NEW selected \in LegalSelections(Candidates), plan \subseteq selected
    PROVE  selected = plan
<1> SUFFICES ASSUME NEW c \in selected, c \notin plan PROVE FALSE
  OBVIOUS
<1>1. SignalOf[c] \in SignalsOf(plan)
  BY DEF LegalSelections, SignalsOf
<1>2. PICK e \in plan : SignalOf[e] = SignalOf[c]
  BY <1>1 DEF SignalsOf
<1> QED BY <1>2 DEF LegalSelections

\* What is forbidden cannot work: certificates leave a foreign terminal without a
\* portal or an owned one without an access, and a recorded core of one source
\* leaves its net without a state.
THEOREM NoGoodsSound == Spec => []NoGoodsAreSound
<1>1. ASSUME IInv, ForbiddenIsKnown PROVE NoGoodsAreSound
  <2>1. ASSUME NEW nogood \in forbidden \ {recorded}, NEW selected, nogood \subseteq selected
        PROVE  \/ ~PortalsSupported(problem, selected)
               \/ \E w \in ComponentSignals : CandidateFilterEmpty(problem, w, selected)
    <3>1. nogood \in Published
      BY <1>1, <2>1 DEF ForbiddenIsKnown
    <3> QED BY <2>1, <3>1, AccessClausesAreSound, PortalClausesAreSound DEF Published
  <2>2. ASSUME recorded # {},
               \A w \in ComponentSignals : NetStates(problem, w, plan) = {} => OneSource(w),
               NEW selected \in LegalSelections(Candidates), recorded \subseteq selected
        PROVE  ~Compiles(problem, selected)
    <3>1. PICK w \in ComponentSignals :
            /\ NetStates(problem, w, plan) = {}
            /\ \E core \in ReservedGlobalRouteUnsatCores(problem, w, plan) :
                 recorded = CandidateNoGood(core, plan)
      BY <1>1, <2>2 DEF ForbiddenIsKnown, Recorded
    <3>2. PICK core \in ReservedGlobalRouteUnsatCores(problem, w, plan) :
            recorded = CandidateNoGood(core, plan)
      BY <3>1
    <3>3. CASE core # {} /\ recorded = core
      <4>1. OneSourceOf(problem, w, plan)
        BY <2>2, <3>1 DEF OneSource, OneSourceOf
      <4>2. NetStates(problem, w, selected) = {}
        BY <2>2, <3>1, <3>3, <4>1, CoresAreSound
      <4> QED BY <4>2 DEF Compiles
    <3>4. CASE recorded = plan
      <4>1. selected = plan
        BY <1>1, <2>2, <3>4, WholeSelection DEF ForbiddenIsKnown, Recorded
      <4> QED BY <3>1, <4>1 DEF Compiles
    <3> QED BY <3>2, <3>3, <3>4 DEF CandidateNoGood
  <2> QED BY <2>1, <2>2 DEF NoGoodsAreSound
<1> QED BY <1>1, ForbiddenInvariant, PTL

\* A plan leaves no terminal without accesses or portals unless three routes,
\* immutable claims or an incomplete domain are involved.
THEOREM ThreeAreNeeded == Spec => []EmptiedByThree
<1>1. ASSUME IInv, ForbiddenIsKnown PROVE EmptiedByThree
  <2> SUFFICES ASSUME phase = "compile" PROVE EmptiedByThree
    BY DEF EmptiedByThree
  <2>1. /\ plan \in Acceptable(Candidates)
        /\ LocalAccessClauses(problem) \subseteq forbidden
        /\ ForeignPortalClauses(problem, CompleteSignals) \subseteq forbidden
        /\ IndependentEmpty(problem, CompleteSignals) = {}
    BY <1>1 DEF IInv, Shapes, PlanIsFound, ForbiddenIsKnown
  <2>2. plan \in SUBSET Candidates /\ Apart(plan)
    BY <2>1, LegalIsApart DEF Acceptable
  <2>3. \A clause \in forbidden : clause # {} => ~(clause \subseteq plan)
    BY <2>1 DEF Acceptable, Avoids, NoGoods
  <2>4. \A clause \in LocalAccessClauses(problem) \cup
                     ForeignPortalClauses(problem, CompleteSignals) : clause # {}
    BY DEF LocalAccessClauses, ForeignPortalClauses, Units, Pairs
  <2>5. ASSUME NEW d \in CompleteDomains, Accesses[d] \cap problem.barred = {},
               Retained(problem, d, plan) = {},
               NEW core \in MinimumCores(CandidateBlockerSets(problem, d, plan))
        PROVE  Cardinality(core) > 2
    <3>1. \A clause \in LocalAccessClauses(problem) : ~(clause \subseteq plan)
      BY <2>1, <2>3, <2>4
    <3> QED BY <2>2, <2>5, <3>1, CertificatesLeaveThree, AssignmentAssumption
  <2>6. ASSUME NEW t \in Terminals, NEW c \in plan, NEW e \in plan
        PROVE  ~(Portals[t] \subseteq problem.blocks[c] \cup problem.blocks[e])
    <3>1. \A clause \in ForeignPortalClauses(problem, CompleteSignals) : ~(clause \subseteq plan)
      BY <2>1, <2>3, <2>4
    <3> QED BY <2>1, <2>2, <2>6, <3>1, CertificatesLeavePortals
  <2> QED BY <2>5, <2>6 DEF EmptiedByThree
<1> QED BY <1>1, ForbiddenInvariant, PTL
=============================================================================
