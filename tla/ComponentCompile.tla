--------------------------- MODULE ComponentCompile ---------------------------
(***************************************************************************)
(* What the closed component compiler makes of the exterior routes it is   *)
(* given (DynamicSolver.py), and what certificates and no-goods about them *)
(* the planner derives (AssignmentPreparation.py, NoGoods.py).             *)
(*                                                                         *)
(* A route is an exterior candidate; the claims of routes, accesses,       *)
(* portals and trees are reduced to which of them conflict.  A problem p   *)
(* is a record with the fields                                             *)
(*   compatible  routes of two signals that may be selected together       *)
(*   blocks      the accesses each route's claims conflict with, and the   *)
(*               portals they and its signal's frozen claims conflict with *)
(*   barred      accesses that immutable claims exclude                    *)
(*   spoils      the trees whose geometry each route conflicts with        *)
(*   seals       the trees whose egress each route conflicts with          *)
(*   unroutable  trees without a fabric subtree, or in conflict with       *)
(*               themselves or immutable claims                            *)
(*   powerless   trees without an egress or without repeaters              *)
(***************************************************************************)
EXTENDS Naturals, FiniteSets

CONSTANTS Signals, Candidates,    \* exterior signals and their routes
          SignalOf,               \* the signal of each route
          Domains,                \* owned terminals of the component
          DomainSignal, Accesses, \* their signals and access candidates
          CompleteDomains,        \* those whose accesses are all known
          Terminals, Portals,     \* foreign terminals, known with all portals
          Trees, TreeSignal,      \* trees of the component's nets
          TreeAccesses            \* one access of each of its terminals

ASSUME ComponentAssumption ==
    /\ SignalOf \in [Candidates -> Signals] /\ IsFiniteSet(Domains)
    /\ CompleteDomains \subseteq Domains
    /\ \A d \in CompleteDomains : Accesses[d] # {}
    /\ \A t \in Terminals : Portals[t] # {}

ComponentSignals == {DomainSignal[d] : d \in Domains}

DomainsOf(w) == {d \in Domains : DomainSignal[d] = w}

-----------------------------------------------------------------------------
(* The compiler.                                                           *)

\* The routes that exclude an access: a signal's own route never does.
Blockers(p, d, a, selected) ==
    {c \in selected : SignalOf[c] # DomainSignal[d] /\ a \in p.blocks[c]}

Retained(p, d, selected) ==
    {a \in Accesses[d] \ p.barred : Blockers(p, d, a, selected) = {}}

\* Blocker sets are kept only of accesses that routes alone exclude.
CandidateBlockerSets(p, d, selected) ==
    {Blockers(p, d, a, selected) : a \in Accesses[d] \ p.barred} \ {{}}

CandidateFilterEmpty(p, w, selected) ==
    \E d \in DomainsOf(w) : Retained(p, d, selected) = {}

\* Trees over retained accesses, and the routes in conflict with one.
Considered(p, w, selected) ==
    {t \in Trees \ p.unroutable :
       /\ TreeSignal[t] = w
       /\ \A d \in DomainsOf(w) : TreeAccesses[t] \cap Retained(p, d, selected) # {}}

\* A conflict with the tree's own signal is found first, and named alone.
OwnFirst(t, routes) ==
    LET own == {c \in routes : SignalOf[c] = TreeSignal[t]}
    IN  IF own # {} THEN own ELSE routes

Spoilers(p, t, selected) == OwnFirst(t, {c \in selected : t \in p.spoils[c]})
Sealers(p, t, selected) == OwnFirst(t, {c \in selected : t \in p.seals[c]})

Frontier(p, w, selected) ==
    {t \in Considered(p, w, selected) : Spoilers(p, t, selected) = {}}

NetStates(p, w, selected) ==
    {t \in Frontier(p, w, selected) \ p.powerless : Sealers(p, t, selected) = {}}

GeometryBlockerSets(p, w, selected) ==
    ({Spoilers(p, t, selected) : t \in Considered(p, w, selected)} \cup
     {Sealers(p, t, selected) : t \in Frontier(p, w, selected)}) \ {{}}

EmptyPhase(p, w, selected) ==
    IF CandidateFilterEmpty(p, w, selected)   THEN "candidate-filter"
    ELSE IF Frontier(p, w, selected) = {}     THEN "owned-terminal-frontier"
    ELSE IF NetStates(p, w, selected) = {}    THEN "fixed-egress-or-power"
    ELSE "none"

Compiles(p, selected) ==
    \A w \in ComponentSignals : NetStates(p, w, selected) # {}

\* The smallest sets of routes that meet every blocker set.
MinimumCores(blockerSets) ==
    LET hitting == {core \in SUBSET UNION blockerSets :
                      \A blockers \in blockerSets : core \cap blockers # {}}
    IN  {core \in hitting : \A other \in hitting :
           Cardinality(core) <= Cardinality(other)}

Smallest(cores) ==
    {core \in cores : \A other \in cores : Cardinality(core) <= Cardinality(other)}

\* The core is of one domain, the emptied one when the filter emptied one;
\* without any domain that routes take accesses from, of the trees.
CandidateDomainCores(p, w, selected) ==
    LET considered == IF CandidateFilterEmpty(p, w, selected)
                        THEN {d \in DomainsOf(w) : Retained(p, d, selected) = {}}
                        ELSE DomainsOf(w)
    IN  UNION {MinimumCores(CandidateBlockerSets(p, d, selected)) :
                 d \in {e \in considered : CandidateBlockerSets(p, e, selected) # {}}}

ReservedGlobalRouteUnsatCores(p, w, selected) ==
    LET ofDomains  == CandidateDomainCores(p, w, selected)
        ofGeometry == MinimumCores(GeometryBlockerSets(p, w, selected))
    IN  CASE EmptyPhase(p, w, selected) = "candidate-filter" ->
               IF ofDomains = {} THEN {{}} ELSE Smallest(ofDomains)
          [] EmptyPhase(p, w, selected) = "owned-terminal-frontier" -> ofGeometry
          [] OTHER -> IF ofDomains = {} THEN ofGeometry ELSE Smallest(ofDomains)

\* Mutant: a larger core is cut down to two routes.
CandidateNoGoodTruncated(core, selected) ==
    IF core = {} THEN selected
    ELSE CHOOSE part \in SUBSET core :
           Cardinality(part) = IF Cardinality(core) < 2 THEN Cardinality(core) ELSE 2

\* RecordPhysicalComponentLocalCompilationNoGood: a proven core of one or two
\* routes, or else the whole selection.
CandidateNoGood(core, selected) ==
    IF core # {} /\ Cardinality(core) <= 2 THEN core ELSE selected

-----------------------------------------------------------------------------
(* Certificates published before the assignment.                           *)

BlockedByCandidateAndDomain(p, c, d) ==
    IF DomainSignal[d] = SignalOf[c] THEN {} ELSE Accesses[d] \cap p.blocks[c]

Units(routes) == {{c} : c \in routes}

Pairs(routes) ==
    {{x[1], x[2]} : x \in {y \in routes \X routes : SignalOf[y[1]] # SignalOf[y[2]]}}

\* Mutant: routes are screened one by one only.
UnaryLocalAccessClauses(p) ==
    Units({c \in Candidates : \E d \in CompleteDomains :
             BlockedByCandidateAndDomain(p, c, d) = Accesses[d]})

LocalAccessClauses(p) ==
    LET Blocked(c, d) == BlockedByCandidateAndDomain(p, c, d)
    IN  {clause \in Units(Candidates) \cup Pairs(Candidates) :
           \E d \in CompleteDomains :
             UNION {Blocked(c, d) : c \in clause} = Accesses[d]}

UnaryRejected(p) ==
    {c \in Candidates : \E t \in Terminals : Portals[t] \subseteq p.blocks[c]}

\* Signals of which every route blocks all portals of a foreign terminal.
IndependentEmpty(p, completeSignals) ==
    {s \in completeSignals :
       {c \in Candidates : SignalOf[c] = s} \subseteq UnaryRejected(p)}

\* Pairs are compiled only of routes that are not rejected by themselves, and
\* only while no signal is left without a route.
ForeignPortalClauses(p, completeSignals) ==
    Units(UnaryRejected(p)) \cup
    IF IndependentEmpty(p, completeSignals) # {} THEN {}
    ELSE {pair \in Pairs(Candidates \ UnaryRejected(p)) :
            \E t \in Terminals :
              /\ \A c \in pair : Portals[t] \cap p.blocks[c] # {}
              /\ Portals[t] \subseteq UNION {p.blocks[c] : c \in pair}}

\* The validation after the assignment: every foreign terminal has a portal
\* that no selected route conflicts with.
PortalsSupported(p, selected) ==
    \A t \in Terminals :
      \E portal \in Portals[t] : \A c \in selected : portal \notin p.blocks[c]
=============================================================================
