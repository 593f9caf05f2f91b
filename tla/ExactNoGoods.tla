----------------------------- MODULE ExactNoGoods -----------------------------
(***************************************************************************)
(* The global assignment of a physical assembly: certificates are          *)
(* published as forbidden sets of routes, assignments are tried under      *)
(* rising layer caps, each by a search that branches on the forbidden set  *)
(* it runs into (PlanPhysicalGlobalAssignmentAvoidingExactNoGoods), and    *)
(* the plan found is compiled, its failure recorded as a no-good.          *)
(*                                                                         *)
(* The native planner below the search is external here; its answers are   *)
(* those AssignmentAnswer promises and CandidateAssignment is shown to     *)
(* give: some legal witness, a proof that there is none, or a cut.         *)
(***************************************************************************)
EXTENDS ComponentCompile, Sequences

CONSTANTS Layer,                        \* the highest layer a route uses
          MinimizeMaximumRoutingLayer,  \* whether layers are capped
          CompleteSignals,              \* CompleteExteriorRouteDomainSignals
          Problems                      \* conflicts of routes and components

ASSUME AssignmentAssumption ==
    /\ Signals # {} /\ IsFiniteSet(Candidates)
    /\ Layer \in [Candidates -> Nat]
    /\ MinimizeMaximumRoutingLayer \in BOOLEAN
    /\ CompleteSignals \subseteq Signals
    /\ \A s \in Signals : \E c \in Candidates : SignalOf[c] = s

VARIABLES problem,     \* the conflicts, fixed
          forbidden,   \* ForbiddenPhysicalComponentGlobalCandidateSets
          capped,      \* in the loop over layer caps
          cap,         \* MaximumAssignedLayer
          phase,       \* where the assignment phase is
          values,      \* the routes of the plan being searched
          stack,       \* the calls of Search
          seen,        \* SeenExclusions
          firstCut,    \* why IncompleteResults[0] is incomplete, or "none"
          deadline,    \* DeadlineExceeded
          answer,      \* of the last search
          plan,        \* the selection returned
          recorded     \* the no-good recorded when the plan did not compile

search == <<values, stack, seen, firstCut, deadline>>
vars == <<problem, forbidden, capped, cap, phase, search, answer, plan, recorded>>

Cuts == {"none", "budget", "deadline"}
Answers == {"none", "planned", "unsatisfiable", "budget", "deadline"}
Phases == {"certify", "cap", "full", "search", "compile", "finished"}

Frames == [excluded : SUBSET Candidates,
           nogood : SUBSET Candidates,   \* the one met, {} before the answer
           untried : SUBSET Candidates]

TypeOK ==
    /\ forbidden \subseteq SUBSET Candidates
    /\ capped \in BOOLEAN /\ cap \in Nat
    /\ phase \in Phases
    /\ values \subseteq Candidates
    /\ stack \in Seq(Frames)
    /\ seen \subseteq SUBSET Candidates
    /\ firstCut \in Cuts
    /\ deadline \in BOOLEAN
    /\ answer \in Answers
    /\ plan \subseteq Candidates
    /\ recorded \subseteq Candidates

-----------------------------------------------------------------------------
(* Selections.                                                             *)

SignalsOf(routes) == {SignalOf[c] : c \in routes}

\* A complete legal selection from some routes: one of each of their signals.
LegalSelections(routes) ==
    {selected \in SUBSET routes :
       /\ SignalsOf(selected) = SignalsOf(routes)
       /\ \A c, e \in selected :
            c # e => SignalOf[c] # SignalOf[e] /\ <<c, e>> \in problem.compatible}

NoGoods == forbidden \ {{}}

Avoids(selected) == \A nogood \in NoGoods : ~(nogood \subseteq selected)

Acceptable(routes) == {selected \in LegalSelections(routes) : Avoids(selected)}

-----------------------------------------------------------------------------

Init ==
    /\ problem \in Problems
    /\ forbidden = {}
    /\ capped = FALSE /\ cap = 0
    /\ phase = "certify"
    /\ values = {} /\ stack = <<>> /\ seen = {}
    /\ firstCut = "none" /\ deadline = FALSE
    /\ answer = "none" /\ plan = {} /\ recorded = {}

Capped(layer) == {c \in Candidates : Layer[c] <= layer}

Layers == {Layer[c] : c \in Candidates}

MaximumCandidateLayer == CHOOSE n \in Layers : \A m \in Layers : m <= n

\* The lowest layer under which every signal has a route.
MinimumFeasibleLayer ==
    CHOOSE n \in Layers :
      /\ SignalsOf(Capped(n)) = Signals
      /\ \A m \in Layers : SignalsOf(Capped(m)) = Signals => n <= m

\* The access certificates are published once before the first plan.
PublishLocalAccess ==
    /\ phase = "certify"
    /\ forbidden' = forbidden \cup LocalAccessClauses(problem)
    /\ IF MinimizeMaximumRoutingLayer
         THEN phase' = "cap" /\ cap' = MinimumFeasibleLayer /\ capped' = TRUE
         ELSE phase' = "full" /\ UNCHANGED <<cap, capped>>
    /\ UNCHANGED <<problem, search, answer, plan, recorded>>

\* PlanAssignment: the portal certificates come first, and may settle it.
\* Publishing again what was published changes nothing.
PlanAssignment(routes) ==
    /\ forbidden' = forbidden \cup ForeignPortalClauses(problem, CompleteSignals)
    /\ values' = routes
    /\ firstCut' = "none"
    /\ deadline' = FALSE
    /\ phase' = "search"
    /\ IF IndependentEmpty(problem, CompleteSignals) # {}
         THEN /\ answer' = "unsatisfiable"
              /\ stack' = <<>>
              /\ seen' = {}
         ELSE LET unary == UNION {clause \in forbidden' : Cardinality(clause) = 1}
              IN  /\ answer' = "none"
                  /\ stack' = <<[excluded |-> unary, nogood |-> {}, untried |-> {}]>>
                  /\ seen' = {unary}
    /\ UNCHANGED <<problem, capped, cap, plan, recorded>>

PlanUnderCap ==
    /\ phase = "cap"
    /\ cap <= MaximumCandidateLayer
    /\ SignalsOf(Capped(cap)) = Signals
    /\ PlanAssignment(Capped(cap))

PlanInFull == phase = "full" /\ PlanAssignment(Candidates)

-----------------------------------------------------------------------------
(* Search: one call is a frame.                                            *)

Top == stack[Len(stack)]
Searching == phase = "search" /\ stack # <<>>
Planning == Searching /\ Top.nogood = {}
Branching == Searching /\ Top.nogood # {}

Pop == stack' = SubSeq(stack, 1, Len(stack) - 1)

BranchValues == values \ Top.excluded

\* DeadlineExpired before the planner is asked.
Expire ==
    /\ Planning
    /\ deadline' = TRUE
    /\ Pop
    /\ UNCHANGED <<problem, forbidden, capped, cap, phase, values, seen, firstCut,
                   answer, plan, recorded>>

\* Mutant: a work ceiling is not told from a proof.
CutUnnoticed(reason) ==
    /\ Planning
    /\ deadline' = (deadline \/ reason = "deadline")
    /\ firstCut' = IF reason = "deadline" THEN reason ELSE firstCut
    /\ Pop
    /\ UNCHANGED <<problem, forbidden, capped, cap, phase, values, seen, answer, plan,
                   recorded>>

\* The planner stopped at the deadline or at its work ceiling.
Cut(reason) ==
    /\ Planning
    /\ deadline' = (deadline \/ reason = "deadline")
    /\ firstCut' = IF firstCut = "none" THEN reason ELSE firstCut
    /\ Pop
    /\ UNCHANGED <<problem, forbidden, capped, cap, phase, values, seen, answer, plan,
                   recorded>>

Infeasible ==
    /\ Planning
    /\ LegalSelections(BranchValues) = {}
    /\ Pop
    /\ UNCHANGED <<problem, forbidden, capped, cap, phase, values, seen, firstCut,
                   deadline, answer, plan, recorded>>

\* A branch that has lost all routes of a signal is answered for the others.
IncompleteWitness ==
    /\ Planning
    /\ LegalSelections(BranchValues) # {}
    /\ SignalsOf(BranchValues) # SignalsOf(values)
    /\ Pop
    /\ UNCHANGED <<problem, forbidden, capped, cap, phase, values, seen, firstCut,
                   deadline, answer, plan, recorded>>

\* Mutant: only a forbidden set equal to the selection is respected.
MatchingEqual(selected) == {nogood \in NoGoods : nogood = selected}

MatchingNoGoods(selected) == {nogood \in NoGoods : nogood \subseteq selected}

Witness ==
    /\ Planning
    /\ SignalsOf(BranchValues) = SignalsOf(values)
    /\ \E selected \in LegalSelections(BranchValues) :
         \/ /\ MatchingNoGoods(selected) = {}
            /\ answer' = "planned"
            /\ plan' = selected
            /\ stack' = <<>>
         \/ /\ \E nogood \in MatchingNoGoods(selected) :
                 stack' = [stack EXCEPT ![Len(stack)].nogood = nogood,
                                        ![Len(stack)].untried = nogood]
            /\ UNCHANGED <<answer, plan>>
    /\ UNCHANGED <<problem, forbidden, capped, cap, phase, values, seen, firstCut,
                   deadline, recorded>>

Excluded(member) == Top.excluded \cup {member}

\* The next member of the no-good: its branch is searched, unless an equal one
\* has been.
TryMember(member) ==
    /\ Branching
    /\ ~deadline
    /\ member \in Top.untried
    /\ LET tried == [stack EXCEPT ![Len(stack)].untried = @ \ {member}]
       IN  IF Excluded(member) \in seen
             THEN stack' = tried
             ELSE stack' = Append(tried, [excluded |-> Excluded(member),
                                          nogood |-> {}, untried |-> {}])
    /\ seen' = seen \cup {Excluded(member)}
    /\ UNCHANGED <<problem, forbidden, capped, cap, phase, values, firstCut, deadline,
                   answer, plan, recorded>>

Return ==
    /\ Branching
    /\ deadline \/ Top.untried = {}
    /\ Pop
    /\ UNCHANGED <<problem, forbidden, capped, cap, phase, values, seen, firstCut,
                   deadline, answer, plan, recorded>>

\* The first call has returned nothing: the first incomplete result is the
\* answer, or the exhaustion of the exact domain.
Conclude ==
    /\ phase = "search" /\ stack = <<>> /\ answer = "none"
    /\ answer' = IF firstCut # "none" THEN firstCut
                 ELSE IF deadline THEN "deadline" ELSE "unsatisfiable"
    /\ UNCHANGED <<problem, forbidden, capped, cap, phase, search, plan, recorded>>

-----------------------------------------------------------------------------
(* After an answer.                                                        *)

Planned ==
    /\ phase = "search" /\ answer = "planned"
    /\ phase' = "compile"
    /\ UNCHANGED <<problem, forbidden, capped, cap, search, answer, plan, recorded>>

\* Mutant: the next cap is the same one.
NextCapSame ==
    /\ phase = "search" /\ answer = "unsatisfiable"
    /\ IF capped /\ cap < MaximumCandidateLayer
         THEN phase' = "cap" /\ answer' = "none"
         ELSE phase' = "finished" /\ UNCHANGED answer
    /\ UNCHANGED <<problem, forbidden, capped, cap, search, plan, recorded>>

\* Mutant: the cap loop stops at the first cap without a plan.
NextCapStops ==
    /\ phase = "search" /\ answer = "unsatisfiable"
    /\ phase' = "finished"
    /\ UNCHANGED <<problem, forbidden, capped, cap, search, answer, plan, recorded>>

\* An unsatisfiable cap is followed by the next one, and the last one is the
\* failure of the whole domain.
NextCap ==
    /\ phase = "search" /\ answer = "unsatisfiable"
    /\ IF capped /\ cap < MaximumCandidateLayer
         THEN phase' = "cap" /\ cap' = cap + 1 /\ answer' = "none"
         ELSE phase' = "finished" /\ UNCHANGED <<cap, answer>>
    /\ UNCHANGED <<problem, forbidden, capped, search, plan, recorded>>

\* A work ceiling under a cap gives the caps up; in full it is the failure.
GiveUpCaps ==
    /\ phase = "search" /\ answer = "budget"
    /\ IF capped
         THEN phase' = "full" /\ capped' = FALSE /\ answer' = "none"
         ELSE phase' = "finished" /\ UNCHANGED <<capped, answer>>
    /\ UNCHANGED <<problem, forbidden, cap, search, plan, recorded>>

RaiseForNativeAssignmentDeadline ==
    /\ phase = "search" /\ answer = "deadline"
    /\ phase' = "finished"
    /\ UNCHANGED <<problem, forbidden, capped, cap, search, answer, plan, recorded>>

\* The component is compiled against the plan once; the first signal without
\* a net state is diagnosed, and the no-good recorded with the failure.
CompileClosedComponent ==
    /\ phase = "compile"
    /\ phase' = "finished"
    /\ \/ /\ Compiles(problem, plan)
          /\ UNCHANGED <<forbidden, recorded>>
       \/ \E w \in ComponentSignals :
            /\ NetStates(problem, w, plan) = {}
            /\ \E core \in ReservedGlobalRouteUnsatCores(problem, w, plan) :
                 /\ recorded' = CandidateNoGood(core, plan)
                 /\ forbidden' = forbidden \cup {recorded'}
    /\ UNCHANGED <<problem, capped, cap, search, answer, plan>>

SearchStep ==
    \/ Expire \/ Infeasible \/ IncompleteWitness \/ Witness \/ Return \/ Conclude
    \/ \E reason \in Cuts \ {"none"} : Cut(reason)
    \/ \E member \in Candidates : TryMember(member)

Step ==
    \/ PublishLocalAccess \/ PlanUnderCap \/ PlanInFull
    \/ SearchStep
    \/ Planned \/ NextCap \/ GiveUpCaps \/ RaiseForNativeAssignmentDeadline
    \/ CompileClosedComponent

Done == phase = "finished" /\ UNCHANGED vars

Next == Step \/ Done

Spec == Init /\ [][Next]_vars

\* One thread that goes on computing; a cut or a deadline never has to come.
FairSpec == Spec /\ WF_vars(Step)

-----------------------------------------------------------------------------
(* Properties.                                                             *)

\* A plan is a complete legal selection that contains no forbidden set, also
\* when the planner's witness did and was branched away from.  (The type
\* invariant is part.)
PlanIsAcceptable ==
    /\ TypeOK
    /\ answer = "planned" /\ recorded = {} => plan \in Acceptable(Candidates)

\* An exhausted search is a proof: the branches over members of no-goods, with
\* those skipped as already seen, leave out no acceptable selection
\* (ExactNoGoodDomainExhausted, on which the failure claims a complete cut).
ExhaustionIsProof ==
    phase = "search" /\ stack = <<>> /\ answer = "unsatisfiable" =>
      Acceptable(values) = {}

\* A plan found under a cap is of the lowest layer that has one, and a failure
\* without a cut means that no selection at all is acceptable.
LowestLayerOrNone ==
    /\ answer = "planned" /\ capped /\ recorded = {} =>
         \A n \in Layers : n < cap /\ SignalsOf(Capped(n)) = Signals =>
           Acceptable(Capped(n)) = {}
    /\ answer = "unsatisfiable" /\ phase = "finished" => Acceptable(Candidates) = {}

\* What emptied a net came from one source: a filter that emptied a domain, or
\* exclusions of accesses of one domain, or conflicts with trees.
OneSource(w) ==
    LET filtered == {d \in DomainsOf(w) : CandidateBlockerSets(problem, d, plan) # {}}
        spoiled  == GeometryBlockerSets(problem, w, plan) # {}
    IN  \/ EmptyPhase(problem, w, plan) = "candidate-filter"
        \/ filtered = {}
        \/ Cardinality(filtered) = 1 /\ ~spoiled

\* A forbidden set rules out only selections that cannot work: what is published
\* leaves a foreign terminal without a portal or an owned terminal without an
\* access, and a core recorded from one source cannot be compiled with.
NoGoodsAreSound ==
  phase = "finished" =>
    /\ \A nogood \in forbidden \ {recorded} : \A selected \in LegalSelections(Candidates) :
         nogood \subseteq selected =>
           \/ ~PortalsSupported(problem, selected)
           \/ \E w \in ComponentSignals : CandidateFilterEmpty(problem, w, selected)
    /\ recorded # {} /\ (\A w \in ComponentSignals :
                           NetStates(problem, w, plan) = {} => OneSource(w)) =>
         \A selected \in LegalSelections(Candidates) :
           recorded \subseteq selected => ~Compiles(problem, selected)

\* The certificates foresee what one or two routes do: a plan leaves no terminal
\* without access or portal unless three routes, immutable claims or an
\* incomplete domain are involved.
EmptiedByThree ==
    phase = "compile" =>
      /\ \A d \in CompleteDomains :
           Accesses[d] \cap problem.barred = {} /\ Retained(problem, d, plan) = {} =>
             \A core \in MinimumCores(CandidateBlockerSets(problem, d, plan)) :
               Cardinality(core) > 2
      /\ \A t \in Terminals, c, e \in plan :
           ~(Portals[t] \subseteq problem.blocks[c] \cup problem.blocks[e])

\* Planning comes to an end: exclusions grow along the calls of a search and no
\* set of them is searched twice.
PlanningEnds == <>(phase = "finished")
=============================================================================
