--------------------------- MODULE NegotiatedSearch ---------------------------
(***************************************************************************)
(* The negotiated search for a detailed route of every signal              *)
(* (Compiler/Routing/Authoritative/NegotiatedRouting).                     *)
(*                                                                         *)
(* In every pass the signals in conflict are taken out of the selection    *)
(* one after the other and routed anew against the routes that are left.   *)
(* A pass that ends in conflicts asks the exact assignment for a legal     *)
(* choice among all trees found so far; otherwise the regions grow, the    *)
(* conflicts are counted, and the search gives up once that count stays.   *)
(*                                                                         *)
(* A tree is a candidate that uses capacity-one resources; where claims    *)
(* conflict is the subject of ClaimConflicts, what the exact assignment    *)
(* returns that of CandidateAssignment.  History and material costs only   *)
(* break ties between trees of equally many conflicts: any of them may be  *)
(* chosen.  What a native route search finds is any subset of the trees.   *)
(***************************************************************************)
EXTENDS Integers, FiniteSets, Sequences

CONSTANTS Signals,
          Candidates,
          Resources,
          None,
          Problems,             \* what is routed, and under which options
          MaximumIterations,
          StagnationPassLimit,
          SeedShare,            \* <<n, d>>: a partial seed holds n of d signals
          MandatoryCutSize,     \* mandatory conflicts that end pass zero
          CompletionRoundLimit, \* bound: rounds of candidate completion
          RoomLimit             \* bound: expansions left to a signal's region

(* The fields of a problem: candidates of a signal, resources of a         *)
(* candidate, signals with route requests, signals to regenerate, trees    *)
(* handed in as selected or as options only, the resources of portals and  *)
(* access paths, and the caller's flags.                                   *)
ProblemType ==
    [of : [Signals -> SUBSET Candidates], uses : [Candidates -> SUBSET Resources],
     requests : SUBSET Signals, regenerate : SUBSET Signals,
     seeds : [Signals -> SUBSET Candidates],    \* SeedCandidatesBySignal
     initial : [Signals -> SUBSET Candidates],  \* InitialCandidatesBySignal
     mandatory : SUBSET Resources,
     complete : BOOLEAN,        \* CompleteSeedDomain
     higher : BOOLEAN,          \* RequestHigherLayerOnExactCut
     advance : BOOLEAN,         \* AdvancePlacementOnExhaustedExactCut
     localClaims : BOOLEAN,     \* HasValidatedLocalClaims, up to 256 terminals
     earlyCut : BOOLEAN,        \* neither local claims nor 200 to 256 terminals
     fewestLayers : BOOLEAN]    \* MinimizeMaximumRoutingLayer

ASSUME NegotiationAssumption ==
    /\ Problems \subseteq ProblemType
    /\ \A p \in Problems : \A s \in Signals : (p.seeds[s] \union p.initial[s]) \subseteq p.of[s]
    /\ \A p \in Problems : ~(p.localClaims /\ p.earlyCut)
    /\ None \notin Candidates \union Nat
    /\ IsFiniteSet(Signals) /\ IsFiniteSet(Resources)
    /\ MaximumIterations \in Nat \ {0} /\ StagnationPassLimit \in Nat \ {0}
    /\ SeedShare \in Nat \X Nat
    /\ MandatoryCutSize \in Nat /\ CompletionRoundLimit \in Nat /\ RoomLimit \in Nat

VARIABLES
    problem,
    phase,
    pass,             \* CurrentPassIndex
    toRoute,          \* signals of this pass that are still to be routed
    selected,         \* Selected, None for a signal without a route
    options,          \* InitialCandidateOptions
    offered,          \* those given to the last exact assignment: its CandidateCounts
    present,          \* PresentPositionCounts
    discovered,       \* DiscoveredCandidateThisPass
    conflictSignals,
    cumulative,       \* CumulativeConflictSignals
    best,             \* BestOverflowConflictCount, None before the first
    stagnation,       \* StagnationCount
    overflow,         \* OverflowProgression
    repair,           \* RepairStates: the tree a signal's repair starts from
    rooms,            \* expansions left to a signal's region
    exactCut,         \* whether ExactAssignmentCutSignals is not empty
    rounds,           \* completion rounds of the initial assignment
    affected          \* AffectedNets of the failure

vars == <<problem, phase, pass, toRoute, selected, options, offered, present, discovered,
          conflictSignals, cumulative, best, stagnation, overflow, repair, rooms,
          exactCut, rounds, affected>>

Uses(c) == IF c = None THEN {} ELSE problem.uses[c]
NoRoute == [s \in Signals |-> None]

Owners(table, r) == {s \in Signals : r \in Uses(table[s])}
FinalConflicts(table) == {r \in Resources : Cardinality(Owners(table, r)) > 1}
SignalsIn(table) == UNION {Owners(table, r) : r \in FinalConflicts(table)}

PresentCounts(table) == [r \in Resources |-> Cardinality(Owners(table, r))]

IsPartialSeedCompletion ==
    LET seeded == Cardinality({s \in Signals : problem.seeds[s] # {}})
    IN seeded < Cardinality(Signals)
       /\ seeded * SeedShare[2] >= Cardinality(Signals) * SeedShare[1]

(* What the exact assignment may return: one known tree for every signal,  *)
(* no two in conflict.                                                     *)
Assignments ==
    {table \in [Signals -> UNION {options[s] : s \in Signals}] :
        (\A s \in Signals : table[s] \in options[s]) /\ FinalConflicts(table) = {}}

-----------------------------------------------------------------------------
(* RunInitialization                                                       *)
Init ==
    /\ problem \in Problems
    /\ phase = "start" /\ pass = 0 /\ toRoute = {}
    /\ selected \in {table \in [Signals -> Candidates \union {None}] :
           \A s \in Signals : IF problem.seeds[s] = {} THEN table[s] = None
                                                       ELSE table[s] \in problem.seeds[s]}
    /\ options = [s \in Signals |-> problem.seeds[s] \union problem.initial[s]]
    /\ offered = [s \in Signals |-> {}]
    /\ present = [r \in Resources |-> 0]
    /\ discovered = FALSE
    /\ conflictSignals = Signals /\ cumulative = {}
    /\ best = None /\ stagnation = 0 /\ overflow = << >>
    /\ repair = NoRoute
    /\ rooms = [s \in Signals |-> RoomLimit]
    /\ exactCut = FALSE /\ rounds = 0 /\ affected = {}

Ends == {"plan", "unrouted", "unassigned", "cut", "congested", "expired"}

Fail(end, signals) ==
    /\ phase' = end
    /\ affected' = signals

StartPass ==
    /\ phase = "start" /\ pass < MaximumIterations
    /\ phase' = "route"
    /\ toRoute' = IF pass = 0 THEN Signals ELSE conflictSignals
    /\ repair' = IF pass > 0 /\ stagnation > 0 THEN NoRoute ELSE repair
    /\ discovered' = FALSE
    /\ present' = PresentCounts(selected)
    /\ UNCHANGED <<problem, pass, selected, options, offered, conflictSignals, cumulative,
                   best, stagnation, overflow, rooms, exactCut, rounds, affected>>

(* CheckRuntimeBudget raises: the error names no signals, and everything   *)
(* the search knew goes with its frame.                                    *)
RuntimeExpires ==
    /\ phase \in {"start", "route", "assign", "retry", "close"}
    /\ Fail("expired", {})
    /\ selected' = NoRoute /\ repair' = NoRoute
    /\ options' = [s \in Signals |-> {}] /\ offered' = [s \in Signals |-> {}]
    /\ present' = [r \in Resources |-> 0]
    /\ toRoute' = {} /\ conflictSignals' = {} /\ cumulative' = {}
    /\ discovered' = FALSE /\ exactCut' = FALSE
    /\ best' = None /\ overflow' = << >>
    /\ pass' = 0 /\ stagnation' = 0 /\ rounds' = 0
    /\ rooms' = [s \in Signals |-> 0]
    /\ UNCHANGED problem

-----------------------------------------------------------------------------
(* Routing one signal.  Its old route is popped, and the new one committed *)
(* with the counts of the present positions.                               *)
Count(c, r) == IF r \in Uses(c) THEN 1 ELSE 0

\* Mutant: the counts forget that the old route was popped.
CommitUncounted(s, c) ==
    /\ selected' = [selected EXCEPT ![s] = c]
    /\ present' = [r \in Resources |-> present[r] + Count(c, r)]

CommitSelectedCandidate(s, c) ==
    /\ selected' = [selected EXCEPT ![s] = c]
    /\ present' = [r \in Resources |-> present[r] - Count(selected[s], r) + Count(c, r)]

PairConflicts(s, c) ==
    Cardinality({q \in (Signals \ {s}) \X Resources :
                    q[2] \in Uses(c) \intersect Uses(selected[q[1]])})

Least(s, pool) ==
    {c \in pool : \A d \in pool : PairConflicts(s, c) <= PairConflicts(s, d)}

Usable(s) == selected[s] # None /\ s \notin problem.regenerate

(* The trees considered before any search: in pass zero a usable seed, in  *)
(* later passes all that were ever found.                                  *)
Known(s) ==
    IF pass > 0 \/ (IsPartialSeedCompletion /\ selected[s] = None) THEN options[s]
    ELSE IF ~Usable(s) THEN {}
    ELSE IF problem.complete THEN options[s] \union {selected[s]}
    ELSE {selected[s]}

(* The trees that are committed without a search: the best of a complete   *)
(* domain, a known tree without conflicts, or the old one of a signal that *)
(* has no requests.                                                        *)
Settled(s) ==
    LET free == {c \in Least(s, Known(s)) : PairConflicts(s, c) = 0}
    IN IF pass = 0 /\ Usable(s) /\ problem.complete THEN Least(s, Known(s))
       ELSE IF free # {} /\ (pass > 0 \/ ~Usable(s)) THEN free
       ELSE IF Usable(s) /\ s \notin problem.requests THEN {selected[s]}
       ELSE {}

RouteDone(s) ==
    /\ toRoute' = toRoute \ {s}
    /\ UNCHANGED <<problem, phase, pass, offered, conflictSignals, cumulative, best, stagnation,
                   overflow, repair, exactCut, rounds, affected>>

UseKnown(s) ==
    /\ \E c \in Settled(s) : CommitSelectedCandidate(s, c)
    /\ options' = [options EXCEPT ![s] = @ \union Known(s)]
    /\ RouteDone(s)
    /\ UNCHANGED <<discovered, rooms>>

RouteRequests(s) == IF s \in problem.requests THEN SUBSET problem.of[s] ELSE {{}}

UseFound(s) ==
    /\ Settled(s) = {}
    /\ \E found \in RouteRequests(s) :
        /\ \E c \in Least(s, Known(s) \union found) : CommitSelectedCandidate(s, c)
        /\ options' = [options EXCEPT ![s] = @ \union Known(s) \union found]
        /\ discovered' = (discovered \/ (pass > 0 /\ ~(found \subseteq options[s])))
    /\ RouteDone(s)
    /\ UNCHANGED rooms

RetainNegotiatedInitialCandidateOption(s, c) ==
    options' = IF pass = 0 THEN [options EXCEPT ![s] = @ \union {c}] ELSE options

(* Nothing is known and nothing was found: the region grows by a tile.     *)
UseExpansion(s) ==
    /\ Known(s) = {} /\ s \in problem.requests /\ rooms[s] > 0
    /\ \E c \in problem.of[s] :
        /\ CommitSelectedCandidate(s, c)
        /\ RetainNegotiatedInitialCandidateOption(s, c)
    /\ rooms' = [rooms EXCEPT ![s] = @ - 1]
    /\ RouteDone(s)
    /\ UNCHANGED discovered

(* No tree at all: the signal stays out of the selection.                  *)
RouteFails(s) ==
    /\ Known(s) = {}
    /\ selected' = [selected EXCEPT ![s] = None]
    /\ present' = [r \in Resources |-> present[r] - Count(selected[s], r)]
    /\ Fail("unrouted", cumulative \union {s})
    /\ UNCHANGED <<problem, pass, toRoute, options, offered, discovered, conflictSignals,
                   cumulative, best, stagnation, overflow, repair, rooms, exactCut, rounds>>

RouteSignal(s) == UseKnown(s) \/ UseFound(s) \/ UseExpansion(s) \/ RouteFails(s)

-----------------------------------------------------------------------------
(* The end of a pass: first the exact assignment, in pass zero over the    *)
(* initial trees, later over all retained ones.                            *)

\* Mutant: the retry waits for the pass that follows the last one.
RetryLate ==
    /\ pass > 0
    /\ ~problem.complete \/ discovered
    /\ \/ problem.localClaims
       \/ pass + 1 >= MaximumIterations
       \/ stagnation >= StagnationPassLimit - 1

ShouldRetryNegotiatedExactAssignment ==
    /\ pass > 0
    /\ ~problem.complete \/ discovered
    /\ \/ problem.localClaims
       \/ pass + 1 >= MaximumIterations
       \/ stagnation >= StagnationPassLimit - 2

EndRouting ==
    /\ phase = "route" /\ toRoute = {}
    /\ phase' = IF FinalConflicts(selected) = {} THEN "close"
                ELSE IF pass = 0 /\ ~problem.complete THEN "assign"
                ELSE IF ShouldRetryNegotiatedExactAssignment THEN "retry"
                ELSE "close"
    /\ offered' = IF phase' = "close" THEN offered ELSE options
    /\ UNCHANGED <<problem, pass, toRoute, selected, options, present, discovered,
                   conflictSignals, cumulative, best, stagnation, overflow, repair, rooms,
                   exactCut, rounds, affected>>

AssignmentFound ==
    /\ phase \in {"assign", "retry"}
    /\ selected' \in Assignments
    /\ phase' = "close"
    /\ UNCHANGED <<problem, pass, toRoute, options, offered, present, discovered,
                   conflictSignals, cumulative, best, stagnation, overflow, repair, rooms,
                   exactCut, rounds, affected>>

RetryFails ==
    /\ phase = "retry"
    /\ phase' = "close"
    /\ UNCHANGED <<problem, pass, toRoute, selected, options, offered, present, discovered,
                   conflictSignals, cumulative, best, stagnation, overflow, repair, rooms,
                   exactCut, rounds, affected>>

AssignFails(signals) ==
    /\ phase = "assign"
    /\ Fail("unassigned", signals)
    /\ UNCHANGED <<problem, pass, toRoute, selected, options, offered, present, discovered,
                   conflictSignals, cumulative, best, stagnation, overflow, repair, rooms,
                   rounds>>

(* RaiseIfUnavoidableMandatoryAssignmentCut: all trees of two signals meet *)
(* at their portals.                                                       *)
MandatoryAssignmentCut ==
    \E s, t \in Signals :
        /\ s # t
        /\ \A c \in problem.of[s], d \in problem.of[t] :
               Uses(c) \intersect Uses(d) \intersect problem.mandatory # {}
        /\ exactCut' = TRUE
        /\ AssignFails({s, t})

HigherLayerRequested ==
    /\ problem.higher
    /\ \E signals \in SUBSET Signals : AssignFails(signals)
    /\ UNCHANGED exactCut

(* New trees for the signals of the cut, then the assignment once more.    *)
CompletionRound ==
    /\ phase = "assign" /\ ~problem.higher /\ rounds < CompletionRoundLimit
    /\ \E found \in SUBSET UNION {problem.of[s] : s \in problem.requests} :
        options' = [s \in Signals |-> options[s] \union (found \intersect problem.of[s])]
    /\ offered' = options'
    /\ rounds' = rounds + 1
    /\ UNCHANGED <<problem, phase, pass, toRoute, selected, present, discovered,
                   conflictSignals, cumulative, best, stagnation, overflow, repair, rooms,
                   exactCut, affected>>

PlacementAdvanced ==
    /\ problem.advance /\ ~problem.higher /\ rounds > 0
    /\ \E signals \in SUBSET Signals : AssignFails(signals)
    /\ UNCHANGED exactCut

(* The greedy selection of pass zero is kept, and the cut remembered if    *)
(* the assignment named one within its budget.                             *)
AssignmentGivenUp ==
    /\ phase = "assign" /\ ~problem.higher /\ ~(problem.advance /\ rounds > 0)
    /\ phase' = "close"
    /\ exactCut' \in {exactCut, TRUE}
    /\ UNCHANGED <<problem, pass, toRoute, selected, options, offered, present, discovered,
                   conflictSignals, cumulative, best, stagnation, overflow, repair, rooms,
                   rounds, affected>>

-----------------------------------------------------------------------------
(* Then the conflicts of the pass are counted.                             *)
CountConflicts ==
    /\ phase = "close"
    /\ conflictSignals' = SignalsIn(selected)
    /\ cumulative' = cumulative \union SignalsIn(selected)
    /\ overflow' = Append(overflow, Cardinality(FinalConflicts(selected)))
    /\ UNCHANGED <<problem, toRoute, options, present, discovered, exactCut, rounds>>

MayReturn == FinalConflicts(selected) = {} /\ \A s \in Signals : selected[s] # None

ReturnPlan ==
    /\ CountConflicts
    /\ MayReturn
    /\ phase' = "plan"
    /\ selected' \in {selected} \union (IF problem.fewestLayers THEN Assignments ELSE {})
    /\ offered' = IF problem.fewestLayers THEN options ELSE offered
    /\ UNCHANGED <<pass, best, stagnation, repair, rooms, affected>>

Improves == best = None \/ Cardinality(FinalConflicts(selected)) < best

MandatoryCut ==
    LET cut == FinalConflicts(selected) \intersect problem.mandatory
    IN /\ cut # {}
       /\ \/ /\ pass = 0 /\ ~exactCut /\ problem.earlyCut
             /\ Cardinality(cut) >= MandatoryCutSize
          \/ /\ pass >= 2 /\ ~Improves
             /\ problem.earlyCut \/ stagnation >= StagnationPassLimit - 2

\* Mutant: the failure names the signals that were routed in this pass.
AffectedBefore == conflictSignals

AffectedSignals == SignalsIn(selected) \union cumulative

PlacementCut ==
    /\ CountConflicts
    /\ ~MayReturn /\ MandatoryCut
    /\ Fail("cut", AffectedSignals)
    /\ UNCHANGED <<pass, selected, offered, best, stagnation, repair, rooms>>

BuildRepairStates(pruned) ==
    repair' = [s \in Signals |-> IF s \in pruned THEN selected[s] ELSE None]

\* Mutant: a pass that improves on the best count does not restart the counting.
StagnationGoesOn == stagnation + 1

StagnationAfter == IF Improves THEN 0 ELSE stagnation + 1

Stuck(grown) == StagnationAfter >= StagnationPassLimit - 1 /\ grown = {}

Grow(signals) == rooms' = [s \in Signals |-> rooms[s] - (IF s \in signals THEN 1 ELSE 0)]

(* The regions that may grow: at most one, and only of a signal in         *)
(* conflict.  A region in need may have no tile left on the sides tried.   *)
Growable == {{}} \union {{s} : s \in {t \in SignalsIn(selected) : rooms[t] > 0}}

Negotiate ==
    /\ CountConflicts
    /\ ~MayReturn /\ ~MandatoryCut
    /\ best' = IF Improves THEN Cardinality(FinalConflicts(selected)) ELSE best
    /\ \E pruned \in SUBSET SignalsIn(selected) : BuildRepairStates(pruned)
    /\ UNCHANGED <<selected, offered>>

NextPass ==
    /\ Negotiate
    /\ \E grown \in Growable :
        /\ grown # {} => ~Improves
        /\ ~Stuck(grown)
        /\ Grow(grown)
    /\ stagnation' = StagnationAfter
    /\ pass' = pass + 1 /\ phase' = "start"
    /\ UNCHANGED affected

NextPassAfterGrowth ==
    /\ Negotiate
    /\ Stuck({})
    /\ \E grown \in Growable \ {{}} : Grow(grown)
    /\ stagnation' = 0
    /\ pass' = pass + 1 /\ phase' = "start"
    /\ UNCHANGED affected

GiveUp ==
    /\ Negotiate
    /\ Stuck({})
    /\ stagnation' = StagnationAfter
    /\ Fail("congested", AffectedSignals)
    /\ UNCHANGED <<pass, rooms>>

PassesRunOut ==
    /\ phase = "start" /\ pass = MaximumIterations
    /\ Fail("congested", conflictSignals \union cumulative)
    /\ UNCHANGED <<problem, pass, toRoute, selected, options, offered, present, discovered,
                   conflictSignals, cumulative, best, stagnation, overflow, repair, rooms,
                   exactCut, rounds>>

Returned == phase \in Ends /\ UNCHANGED vars

Next ==
    \/ StartPass \/ PassesRunOut \/ RuntimeExpires
    \/ phase = "route" /\ \E s \in toRoute : RouteSignal(s)
    \/ EndRouting
    \/ AssignmentFound \/ RetryFails
    \/ MandatoryAssignmentCut \/ HigherLayerRequested
    \/ CompletionRound \/ PlacementAdvanced \/ AssignmentGivenUp
    \/ ReturnPlan \/ PlacementCut \/ NextPass \/ NextPassAfterGrowth \/ GiveUp
    \/ Returned

Spec == Init /\ [][Next]_vars

-----------------------------------------------------------------------------
(* Every state is of its type; a selected tree is one of its own signal's. *)
TypeOK ==
    /\ problem \in Problems
    /\ phase \in {"start", "route", "assign", "retry", "close"} \union Ends
    /\ pass \in 0 .. MaximumIterations
    /\ toRoute \subseteq Signals
    /\ \A s \in Signals : selected[s] \in problem.of[s] \union {None}
    /\ \A s \in Signals : options[s] \subseteq problem.of[s]
    /\ offered \in [Signals -> SUBSET Candidates]
    /\ present \in [Resources -> 0 .. Cardinality(Signals)]
    /\ discovered \in BOOLEAN /\ exactCut \in BOOLEAN
    /\ conflictSignals \subseteq Signals /\ cumulative \subseteq Signals
    /\ best \in Nat \union {None}
    /\ stagnation \in 0 .. MaximumIterations
    /\ overflow \in Seq(Nat) /\ Len(overflow) <= MaximumIterations
    /\ repair \in [Signals -> Candidates \union {None}]
    /\ rooms \in [Signals -> 0 .. RoomLimit]
    /\ rounds \in 0 .. CompletionRoundLimit
    /\ affected \subseteq Signals

(* The search reports congestion, and outside an early cut also blocks of  *)
(* portals, only after the exact assignment was given every tree known by  *)
(* then: whatever a pass found and retained is tried before the search     *)
(* gives up, on whichever of its limits.  Only over a complete domain may  *)
(* this be left out, when the last pass found nothing new.  The retry is   *)
(* decided on the stagnation before the pass, giving up on that after it.  *)
OfferedBeforeGivingUp ==
    phase = "congested" \/ (phase = "cut" /\ ~problem.earlyCut) =>
        offered = options \/ (problem.complete /\ ~discovered)

(* A signal that pass zero has routed keeps a route from then on, and the  *)
(* exact assignment knows it: its domain always covers the selection.  So  *)
(* the search never needs to fall back on a popped route.                  *)
SelectionIsKnown ==
    \A s \in Signals :
        \/ phase \in {"unrouted", "expired"}
        \/ pass = 0 /\ (phase = "start" \/ s \in toRoute)
        \/ selected[s] \in options[s]

(* What the route searches are given follows the selection: the counts     *)
(* they are priced with are those of the routes actually selected, whatever *)
(* was popped and committed in the pass, and a repair starts from the tree *)
(* that is being ripped up, not from one that an assignment or an earlier  *)
(* pass has replaced; and the exact assignment is given every tree that is *)
(* selected.  (The type invariant is part.)                                *)
InputsFollowSelection ==
    /\ TypeOK
    /\ SelectionIsKnown
    /\ phase = "route" =>
         /\ present = PresentCounts(selected)
         /\ \A s \in toRoute : repair[s] \in {None, selected[s]}

(* The best count is the least that any pass reached, and none of the      *)
(* passes counted as stagnating has improved on those before them.         *)
StagnationIsHonest ==
    best # None /\ phase \notin {"plan", "cut"} =>
        /\ \A i \in DOMAIN overflow : best <= overflow[i]
        /\ \E i \in 1 .. (Len(overflow) - stagnation) : overflow[i] = best

(* Placement moves the nets a failure names: all that are still in         *)
(* conflict are among them.                                                *)
FailureNamesTheConflicting ==
    phase \in {"cut", "congested"} => SignalsIn(selected) \subseteq affected
=============================================================================
