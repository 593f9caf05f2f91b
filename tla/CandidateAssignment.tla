------------------------- MODULE CandidateAssignment -------------------------
(***************************************************************************)
(* The native assignment search (RustRouting Assignment/Api.rs,            *)
(* AssignCandidateDomains): one route candidate is chosen for every signal *)
(* by depth-first search with forward checking, under an expansion budget  *)
(* that may be shared with other searches and a deadline that may pass at  *)
(* any check.  The recursion of the code is the explicit stack of frames.  *)
(* Two candidates of different signals are compatible or not; what makes   *)
(* them so (the claim masks, the templates, the owner) is ClaimConflicts'. *)
(***************************************************************************)
EXTENDS Integers, Sequences, FiniteSets, SequencesExt

CONSTANTS Signals,                \* the signals, in the order of their names
          Candidates,             \* candidate indices, in the order tried
          Deferred,               \* signals whose candidates all belong to others
          Budgets                 \* possible budgets, of one search or shared

ASSUME AssignmentAssumption ==
    /\ Signals \subseteq Nat /\ IsFiniteSet(Signals)
    /\ Candidates \subseteq Nat /\ IsFiniteSet(Candidates)
    /\ Deferred \subseteq Signals
    /\ Budgets \subseteq [limit : Nat, shared : BOOLEAN]

VARIABLES groups,        \* the candidates of each signal that fit the base claims
          compatible,    \* the compatible pairs of <<signal, candidate>>, first signal first
          budget,        \* MaximumExpansionCount, and whether it is shared
          pc,            \* "call", "next", "false", "done"
          domains,       \* the domains passed to the call being entered
          stack,         \* the callers' frames, the innermost last
          selected,      \* Selected
          expansions,    \* ExpansionCount
          shared,        \* the shared counter
          exhausted,     \* BudgetExhausted
          expired,       \* Deadline.WasExceeded()
          failureNet,    \* FailureNet, {} for None
          conflicts,     \* ConflictSignals
          success        \* the value returned to AssignCandidates

problem == <<groups, compatible, budget>>
counters == <<expansions, shared, exhausted, expired>>
diagnosis == <<failureNet, conflicts>>
vars == <<problem, pc, domains, stack, selected, counters, diagnosis, success>>

Options == Signals \X Candidates
Compatible(x, y) == <<x, y>> \in compatible \/ <<y, x>> \in compatible
NamesOf(selection) == {selection[i][1] : i \in DOMAIN selection}

Prefers(d, s, t) ==
    \/ s \notin Deferred /\ t \in Deferred
    \/ /\ s \in Deferred <=> t \in Deferred
       /\ \/ Cardinality(d[s]) < Cardinality(d[t])
          \/ Cardinality(d[s]) = Cardinality(d[t]) /\ s < t

ChooseSignal(d) ==
    CHOOSE s \in DOMAIN d : \A t \in DOMAIN d \ {s} : Prefers(d, s, t)

First(S) == CHOOSE x \in S : \A y \in S : x <= y

FilteredLoosely(d, s, c) ==    \* mutation: a supported signal keeps every candidate
    [t \in DOMAIN d \ {s} |->
        IF \E k \in d[t] : Compatible(<<s, c>>, <<t, k>>) THEN d[t] ELSE {}]

Filtered(d, s, c) ==
    [t \in DOMAIN d \ {s} |->
        {k \in d[t] : Compatible(<<s, c>>, <<t, k>>)}]

Emptied(d) == {t \in DOMAIN d : d[t] = {}}

Longer(a, b) == IF Len(a) > Len(b) THEN a ELSE b
OrElse(a, b) == IF a = <<>> THEN b ELSE a

Frame(s, d) ==
    [signal |-> s, rest |-> d[s], domains |-> d,
     depth |-> Len(selected), failure |-> <<>>]

Top == Last(stack)
ReplaceTop(frame) == Append(Front(stack), frame)

-----------------------------------------------------------------------------
(* Every relation between every choice of initial domains is an instance.  *)
PairsOf(g) ==
    {q \in Options \X Options :
        q[1][1] < q[2][1] /\ q[1][2] \in g[q[1][1]] /\ q[2][2] \in g[q[2][1]]}

Init ==
    /\ groups \in [Signals -> SUBSET Candidates]
    /\ compatible \in SUBSET PairsOf(groups)
    /\ budget \in Budgets
    /\ pc = "call" /\ domains = groups /\ stack = <<>>
    /\ selected = <<>> /\ expansions = 0 /\ shared = 0
    /\ exhausted = FALSE /\ expired = FALSE
    /\ failureNet = {} /\ conflicts = {} /\ success = FALSE

AllAssigned ==
    /\ pc = "call" /\ DOMAIN domains = {}
    /\ pc' = "done" /\ success' = TRUE
    /\ UNCHANGED <<problem, domains, stack, selected, counters, diagnosis>>

EmptyDomain ==
    /\ pc = "call" /\ DOMAIN domains # {}
    /\ LET s == ChooseSignal(domains) IN
       /\ domains[s] = {}
       /\ failureNet' = {s}
       /\ conflicts' = NamesOf(selected) \union {s}
    /\ pc' = "false"
    /\ UNCHANGED <<problem, domains, stack, selected, counters, success>>

Branch ==
    /\ pc = "call" /\ DOMAIN domains # {}
    /\ LET s == ChooseSignal(domains) IN
       /\ domains[s] # {}
       /\ stack' = Append(stack, Frame(s, domains))
    /\ pc' = "next"
    /\ UNCHANGED <<problem, domains, selected, counters, diagnosis, success>>

HasBudget == IF budget.shared THEN shared < budget.limit
                             ELSE expansions < budget.limit

Spend ==
    /\ expansions' = expansions + 1
    /\ shared' = IF budget.shared /\ HasBudget THEN shared + 1 ELSE shared
    /\ exhausted' = ~HasBudget
    /\ UNCHANGED expired

OutOfBudget ==
    /\ pc = "next" /\ Top.rest # {} /\ ~HasBudget
    /\ Spend
    /\ failureNet' = {Top.signal}
    /\ stack' = Front(stack) /\ pc' = "false"
    /\ UNCHANGED <<problem, domains, selected, conflicts, success>>

InconsistentUnnamed ==         \* mutation: the emptied signal is not recorded
    /\ pc = "next" /\ Top.rest # {} /\ HasBudget
    /\ LET s == Top.signal
           c == First(Top.rest)
           emptied == Emptied(Filtered(Top.domains, s, c))
       IN /\ emptied # {}
          /\ failureNet' = {First(emptied)}
          /\ conflicts' = NamesOf(selected) \union {s}
          /\ stack' = ReplaceTop([Top EXCEPT !.rest = @ \ {c},
                                             !.failure = Append(selected, <<s, c>>)])
    /\ Spend
    /\ UNCHANGED <<problem, pc, domains, selected, success>>

(* A candidate that leaves some other signal without one is passed over.   *)
Inconsistent ==
    /\ pc = "next" /\ Top.rest # {} /\ HasBudget
    /\ LET s == Top.signal
           c == First(Top.rest)
           emptied == Emptied(Filtered(Top.domains, s, c))
       IN /\ emptied # {}
          /\ failureNet' = {First(emptied)}
          /\ conflicts' = NamesOf(selected) \union {s, First(emptied)}
          /\ stack' = ReplaceTop([Top EXCEPT !.rest = @ \ {c},
                                             !.failure = Append(selected, <<s, c>>)])
    /\ Spend
    /\ UNCHANGED <<problem, pc, domains, selected, success>>

DescendFromStaleDomains ==     \* mutation: filters what the last call left behind
    /\ pc = "next" /\ Top.rest # {} /\ HasBudget
    /\ LET s == Top.signal
           c == First(Top.rest)
           filtered == Filtered(domains, s, c)
       IN /\ Emptied(Filtered(Top.domains, s, c)) = {}
          /\ domains' = filtered
          /\ selected' = Append(selected, <<s, c>>)
          /\ stack' = ReplaceTop([Top EXCEPT !.rest = @ \ {c}])
    /\ Spend
    /\ pc' = "call"
    /\ UNCHANGED <<problem, diagnosis, success>>

Descend ==
    /\ pc = "next" /\ Top.rest # {} /\ HasBudget
    /\ LET s == Top.signal
           c == First(Top.rest)
           filtered == Filtered(Top.domains, s, c)
       IN /\ Emptied(filtered) = {}
          /\ domains' = filtered
          /\ selected' = Append(selected, <<s, c>>)
          /\ stack' = ReplaceTop([Top EXCEPT !.rest = @ \ {c}])
    /\ Spend
    /\ pc' = "call"
    /\ UNCHANGED <<problem, diagnosis, success>>

OutOfCandidates ==
    /\ pc = "next" /\ Top.rest = {}
    /\ selected' = OrElse(Top.failure, selected)
    /\ stack' = Front(stack) /\ pc' = "false"
    /\ UNCHANGED <<problem, domains, counters, diagnosis, success>>

BacktrackGivesUp ==            \* mutation: a failed subtree ends the loop
    /\ pc = "false" /\ stack # <<>>
    /\ selected' = OrElse(Longer(selected, Top.failure), SubSeq(selected, 1, Top.depth))
    /\ stack' = Front(stack)
    /\ UNCHANGED <<problem, pc, domains, counters, diagnosis, success>>

(* The recursive call came back false: take its partial selection, undo it *)
(* down to this frame's depth, and go on or give up.                       *)
Backtrack ==
    /\ pc = "false" /\ stack # <<>>
    /\ LET failure == Longer(selected, Top.failure)
           undone == SubSeq(selected, 1, Top.depth)
       IN IF exhausted \/ expired
            THEN /\ selected' = OrElse(failure, undone)
                 /\ stack' = Front(stack) /\ UNCHANGED pc
            ELSE /\ selected' = undone
                 /\ stack' = ReplaceTop([Top EXCEPT !.failure = failure])
                 /\ pc' = "next"
    /\ UNCHANGED <<problem, domains, counters, diagnosis, success>>

Fail ==
    /\ pc = "false" /\ stack = <<>>
    /\ pc' = "done" /\ success' = FALSE
    /\ UNCHANGED <<problem, domains, stack, selected, counters, diagnosis>>

(* Every deadline check may be the one that finds the time gone: on entry, *)
(* before a candidate, or after its expansion was counted.                 *)
DeadlineOnEntry ==
    /\ pc = "call" /\ expired' = TRUE /\ pc' = "false"
    /\ UNCHANGED <<problem, domains, stack, selected, expansions, shared,
                   exhausted, diagnosis, success>>

DeadlineInLoop ==
    /\ pc = "next" /\ Top.rest # {}
    /\ expired' = TRUE /\ exhausted' = exhausted
    /\ \/ UNCHANGED <<expansions, shared>> /\ failureNet' = {Top.signal}
       \/ /\ HasBudget
          /\ expansions' = expansions + 1
          /\ shared' = IF budget.shared THEN shared + 1 ELSE shared
          /\ \E t \in DOMAIN Top.domains \ {Top.signal} : failureNet' = {t}
    /\ stack' = Front(stack) /\ pc' = "false"
    /\ UNCHANGED <<problem, domains, selected, conflicts, success>>

(* Another search takes an expansion from the shared counter.              *)
SpentElsewhere ==
    /\ budget.shared /\ pc # "done" /\ shared < budget.limit
    /\ shared' = shared + 1
    /\ UNCHANGED <<problem, pc, domains, stack, selected, expansions, exhausted,
                   expired, diagnosis, success>>

Finished == pc = "done" /\ UNCHANGED vars

Search == \/ AllAssigned \/ EmptyDomain \/ Branch \/ OutOfBudget
          \/ Inconsistent \/ Descend \/ OutOfCandidates \/ Backtrack \/ Fail

Next == Search \/ DeadlineOnEntry \/ DeadlineInLoop \/ SpentElsewhere \/ Finished

Spec == Init /\ [][Next]_vars /\ WF_vars(Search)

-----------------------------------------------------------------------------
IsSelection(selection) ==
    /\ selection \in Seq(Options)
    /\ \A i \in DOMAIN selection : selection[i][2] \in groups[selection[i][1]]
    /\ \A i, j \in DOMAIN selection : i < j =>
          /\ selection[i][1] # selection[j][1]
          /\ Compatible(selection[i], selection[j])

Solvable ==
    \E f \in [Signals -> Candidates] :
        /\ \A s \in Signals : f[s] \in groups[s]
        /\ \A s, t \in Signals :
              s < t => Compatible(<<s, f[s]>>, <<t, f[t]>>)

TypeOK ==
    /\ budget \in Budgets
    /\ pc \in {"call", "next", "false", "done"}
    /\ domains \in UNION {[S -> SUBSET Candidates] : S \in SUBSET Signals}
    /\ \A i \in DOMAIN stack :
          /\ stack[i].signal \in DOMAIN stack[i].domains
          /\ stack[i].rest \subseteq stack[i].domains[stack[i].signal]
          /\ stack[i].depth = i - 1
    /\ expansions \in Nat /\ shared \in 0 .. budget.limit
    /\ {exhausted, expired, success} \subseteq BOOLEAN
    /\ failureNet \subseteq Signals /\ conflicts \subseteq Signals
    /\ pc = "next" => stack # <<>>

(* A search never spends more than its budget, never more than one         *)
(* expansion it was refused, and every expansion it made of a shared       *)
(* budget is in the shared counter, whatever the other searches took.      *)
BudgetIsRespected ==
    /\ IF budget.shared THEN shared >= expansions - (IF exhausted THEN 1 ELSE 0)
                       ELSE expansions <= budget.limit + 1
    /\ shared <= budget.limit
    /\ exhausted =>
          IF budget.shared THEN shared = budget.limit
                          ELSE expansions = budget.limit + 1

(* The partial selection kept at any moment, on the way down, after a      *)
(* backtrack or handed up from a dead end, never holds two choices for a   *)
(* signal, a candidate that conflicts with the base claims, or two         *)
(* incompatible candidates; and when the search answers true it covers     *)
(* every signal, within its budget.  (Api.rs: Selected, FailureSelection    *)
(* and the truncate.  The type invariant is part.)                         *)
SelectionIsLegal ==
    /\ TypeOK
    /\ BudgetIsRespected
    /\ IsSelection(selected)
    /\ \A i \in DOMAIN stack : IsSelection(stack[i].failure)
    /\ pc = "done" /\ success => NamesOf(selected) = Signals

(* The domains a call works on are exactly the candidates the choices made *)
(* so far leave possible, for exactly the signals not chosen yet: nothing  *)
(* a backtrack undid still restricts them.  (NextDomains in Api.rs.)       *)
DomainsFollowSelection ==
    pc = "call" =>
        domains = [s \in Signals \ NamesOf(selected) |->
                     {c \in groups[s] :
                        \A i \in DOMAIN selected : Compatible(selected[i], <<s, c>>)}]

(* A search that ran to its end and failed reports the signal left without *)
(* a candidate among the signals it reports as conflicting: the router     *)
(* relocates those (Authoritative/TrackPortfolio.py).                      *)
FailureNetConflicts ==
    pc = "done" /\ ~success /\ ~exhausted /\ ~expired =>
        failureNet # {} /\ failureNet \subseteq conflicts

Answer ==
    CASE pc # "done" -> "none"
      [] pc = "done" /\ expired -> "incomplete"
      [] pc = "done" /\ ~expired /\ success -> "witness"
      [] pc = "done" /\ ~expired /\ ~success /\ exhausted -> "incomplete"
      [] OTHER -> "unsatisfiable"

(* The search implements the promise: it always answers, true only with a  *)
(* legal assignment in hand, and false without a budget or deadline flag   *)
(* only when no legal assignment exists.  (AssignmentPlanning.rs reports a *)
(* passed deadline whatever the search returned.)                          *)
Promise == INSTANCE AssignmentAnswer WITH solvable <- Solvable, answer <- Answer
KeepsPromise == Promise!Spec

=============================================================================
