---------------------------- MODULE ArcConsistency ----------------------------
(***************************************************************************)
(* Constraint propagation in the native assignment search: the pass over   *)
(* every candidate before the search (RustRouting Assignment/Domains.rs,   *)
(* EnforceArcConsistency), the choice of a candidate (Assignment/Search.rs)*)
(* and the worklist that propagates what the choice removed                *)
(* (EnforceIncrementalArcConsistency).  One descent is followed: choices   *)
(* are made until every signal has one or a domain is empty; undoing one   *)
(* restores the caller's copy of the domains, and so needs no action.      *)
(*                                                                         *)
(* A factored catalogue (guides, access terminals, base claims) takes the  *)
(* worklist after a guide and after a terminal that had lost candidates;   *)
(* any other choice is followed by forward checking only.  An ordinary     *)
(* catalogue takes the rounds after every choice but the first.  What no   *)
(* propagation has seen is recorded in the auxiliary variable stale.       *)
(***************************************************************************)
EXTENDS Naturals

CONSTANTS Signals, Candidates,
          Guides,      \* the signals named __route_guide__:
          Terminals,   \* the signals named __access_terminal__:
          Relations,   \* the compatibility masks: R[s][a][t] for candidate a of s
          Wholes       \* the candidate domains the search may start from

ASSUME SymmetricAssumption ==
    \A R \in Relations : \A s, t \in Signals, a, b \in Candidates :
        b \in R[s][a][t] <=> a \in R[t][b][s]

ASSUME DomainsAssumption == Wholes \subseteq [Signals -> (SUBSET Candidates) \ {{}}]

VARIABLES compatibility,  \* Compatibility
          whole,          \* the domains before any propagation
          neighbors,      \* ConstraintNeighbors
          factored,       \* PreferGuideFactorVariables
          domains,        \* Domains, NextDomains
          selection,      \* Selection, with {} for None
          pending,        \* the arcs in Pending (and flagged in Queued)
          stale,          \* signals that lost candidates no propagation has seen
          pc              \* "rounds", "choose", "revise", "failed", "late"

problem == <<compatibility, whole, neighbors, factored>>
vars == <<problem, domains, selection, pending, stale, pc>>

Assigned == {s \in Signals : selection[s] # {}}
Free == Signals \ Assigned

SupportedByAll(d, s, a, t) ==  \* mutation: all for any
    d[t] \subseteq compatibility[s][a][t]

Supported(d, s, a, t) == d[t] \cap compatibility[s][a][t] # {}

(* Search.rs: a signal is a neighbour of another when some candidate of    *)
(* the other rules out some candidate of its own.                          *)
ConstraintNeighbors(s) ==
    {t \in Signals \ {s} : \E a \in whole[s] : ~(whole[t] \subseteq compatibility[s][a][t])}

Arcs(from, changed) ==
    {arc \in from \X changed :
        arc[1] # arc[2] /\ arc[1] \in neighbors[arc[2]]}

-----------------------------------------------------------------------------
Init ==
    /\ compatibility \in Relations /\ whole \in Wholes
    /\ neighbors = [s \in Signals |-> ConstraintNeighbors(s)]
    /\ factored \in BOOLEAN
    /\ domains = whole /\ selection = [s \in Signals |-> {}]
    /\ pending = {} /\ stale = Signals
    /\ pc = IF factored THEN "rounds" ELSE "choose"

(* One round: every domain is revised against a snapshot of all of them.   *)
Revised(d) ==
    [s \in Signals |->
        IF s \in Assigned THEN d[s]
        ELSE {a \in d[s] : \A t \in Free \ {s} : Supported(d, s, a, t)}]

Round ==
    /\ pc = "rounds"
    /\ LET revised == Revised(domains) IN
       IF \E s \in Free : revised[s] = {}
         THEN pc' = "failed" /\ UNCHANGED <<domains, stale>>
         ELSE /\ domains' = revised
              /\ pc' = IF revised = domains THEN "choose" ELSE "rounds"
              /\ stale' = IF revised = domains THEN {} ELSE stale
    /\ UNCHANGED <<problem, selection, pending>>

(* The choices after which the worklist may run.  The first one is made by *)
(* a parallel branch, which starts it, or in place, which does not.        *)
StartsWorklist(s) ==
    factored /\ \/ s \in Guides
                \/ Assigned # {} /\ s \in Terminals /\ domains[s] # Candidates

(* A candidate is chosen; the other free domains keep what it allows.      *)
After(s, a) ==
    [t \in Signals |-> IF t \in Free \ {s} THEN domains[t] \cap compatibility[s][a][t]
                                           ELSE domains[t]]

Changed(s, a) == {t \in Free \ {s} : After(s, a)[t] # domains[t]}

Pick(s, a) ==
    /\ pc = "choose" /\ s \in Free /\ a \in domains[s]
    /\ selection' = [selection EXCEPT ![s] = {a}]
    /\ UNCHANGED problem

ChooseDeadEnd(s, a) ==
    /\ Pick(s, a)
    /\ \E t \in Free \ {s} : After(s, a)[t] = {}
    /\ pc' = "failed" /\ UNCHANGED <<domains, pending, stale>>

ChooseThenWorklist(s, a) ==
    /\ Pick(s, a) /\ StartsWorklist(s)
    /\ \A t \in Free \ {s} : After(s, a)[t] # {}
    /\ domains' = After(s, a) /\ pending' = Arcs(Free \ {s}, Changed(s, a))
    /\ stale' = stale \ Changed(s, a) /\ pc' = "revise"

ChooseThenRounds(s, a) ==
    /\ Pick(s, a) /\ ~factored /\ Assigned # {}
    /\ \A t \in Free \ {s} : After(s, a)[t] # {}
    /\ domains' = After(s, a) /\ pc' = "rounds"
    /\ stale' = stale \union Changed(s, a) /\ UNCHANGED pending

ChooseOnly(s, a) ==
    /\ Pick(s, a) /\ (Assigned = {} \/ (factored /\ ~StartsWorklist(s)))
    /\ \A t \in Free \ {s} : After(s, a)[t] # {}
    /\ domains' = After(s, a) /\ pc' = "choose"
    /\ stale' = stale \union Changed(s, a) /\ UNCHANGED pending

Choose(s, a) ==
    \/ ChooseDeadEnd(s, a) \/ ChooseThenWorklist(s, a)
    \/ ChooseThenRounds(s, a) \/ ChooseOnly(s, a)

ReviseOnce(arc) ==             \* mutation: a revised domain enqueues nothing
    /\ pc = "revise" /\ arc \in pending
    /\ LET kept == {a \in domains[arc[1]] : Supported(domains, arc[1], a, arc[2])}
       IN /\ domains' = [domains EXCEPT ![arc[1]] = kept]
          /\ pc' = IF kept = {} THEN "failed" ELSE pc
    /\ pending' = pending \ {arc}
    /\ UNCHANGED <<problem, selection, stale>>

ReviseForever(arc) ==          \* mutation: an unrevised domain enqueues as well
    /\ pc = "revise" /\ arc \in pending
    /\ LET kept == {a \in domains[arc[1]] : Supported(domains, arc[1], a, arc[2])}
       IN /\ domains' = [domains EXCEPT ![arc[1]] = kept]
          /\ pc' = IF kept = {} THEN "failed" ELSE pc
    /\ pending' = (pending \ {arc}) \union Arcs(Free, {arc[1]})
    /\ UNCHANGED <<problem, selection, stale>>

(* One arc is taken from the worklist and its first domain revised.        *)
Revise(arc) ==
    /\ pc = "revise" /\ arc \in pending
    /\ LET s == arc[1]
           t == arc[2]
           kept == {a \in domains[s] : Supported(domains, s, a, t)}
       IN /\ domains' = [domains EXCEPT ![s] = kept]
          /\ IF kept = {} THEN /\ pc' = "failed" /\ pending' = pending \ {arc}
             ELSE /\ pending' = (pending \ {arc}) \union
                                (IF kept = domains[s] THEN {} ELSE Arcs(Free \ {t}, {s}))
                  /\ UNCHANGED pc
    /\ UNCHANGED <<problem, selection, stale>>

Settled ==
    /\ pc = "revise" /\ pending = {}
    /\ pc' = "choose"
    /\ UNCHANGED <<problem, domains, selection, pending, stale>>

DeadlinePasses ==
    /\ pc \in {"rounds", "revise"} /\ pc' = "late"
    /\ UNCHANGED <<problem, domains, selection, pending, stale>>

Ended == pc \in {"failed", "late"} \/ (pc = "choose" /\ Free = {})
Stop == Ended /\ UNCHANGED vars

Propagate == Round \/ Settled \/ \E arc \in pending : Revise(arc)

Next == \/ Propagate
        \/ \E s \in Signals : \E a \in domains[s] : Choose(s, a)
        \/ DeadlinePasses \/ Stop

Spec == Init /\ [][Next]_vars /\ WF_vars(Propagate)

-----------------------------------------------------------------------------
TypeOK ==
    /\ domains \in [Signals -> SUBSET Candidates]
    /\ selection \in [Signals -> SUBSET Candidates]
    /\ pending \subseteq Free \X Free
    /\ stale \subseteq Signals
    /\ pc \in {"rounds", "choose", "revise", "failed", "late"}

(* A complete legal assignment that agrees with the choices made so far.   *)
IsWitness(f) ==
    /\ f \in [Signals -> Candidates]
    /\ \A s \in Signals : f[s] \in whole[s]
    /\ \A s \in Assigned : selection[s] = {f[s]}
    /\ \A s, t \in Signals : s # t => f[t] \in compatibility[s][f[s]][t]

(* Propagation never removes a candidate that some complete assignment     *)
(* still needs: neither the rounds nor the worklist can lose a witness.    *)
NoWitnessLost ==
    \A f \in [Signals -> Candidates] :
        IsWitness(f) => pc = "failed" \/ \A s \in Free : f[s] \in domains[s]

(* A domain found empty proves that the choices made so far extend to no   *)
(* complete assignment: the branch the search cuts held nothing.           *)
FailureIsProof ==
    pc = "failed" => ~ \E f \in [Signals -> Candidates] : IsWitness(f)

(* Propagation is sound: what it removes or cuts held no witness           *)
(* (EnforceArcConsistency and EnforceIncrementalArcConsistency).  (The     *)
(* type invariant is part.)                                                *)
PropagationIsSound == TypeOK /\ NoWitnessLost /\ FailureIsProof

(* While the worklist runs, a candidate without support in another domain  *)
(* is there only if the arc that will remove it is still in the worklist,  *)
(* or if no propagation was told of what the other domain lost: the arc    *)
(* back to the domain just revised, which the code does not enqueue, is    *)
(* never the missing one.                                                  *)
UnsupportedIsPending ==
    pc = "revise" =>
        \A s \in Free, t \in Free \ stale : s # t =>
            \A a \in domains[s] : Supported(domains, s, a, t) \/ <<s, t>> \in pending

(* Between two choices the free domains are non-empty, hold only           *)
(* candidates compatible with every choice, and are arc consistent but for *)
(* what was left to forward checking.  (What holds of the worklist on the  *)
(* way there is part.)                                                     *)
ConsistentBetweenChoices ==
    /\ UnsupportedIsPending
    /\ pc = "choose" =>
         \A s \in Free :
            /\ domains[s] # {}
            /\ \A a \in domains[s] :
                  /\ \A t \in Free \ (stale \union {s}) : Supported(domains, s, a, t)
                  /\ \A t \in Assigned : \A b \in selection[t] :
                        b \in compatibility[s][a][t]

(* Propagation ends by itself: it cannot enqueue arcs for ever.            *)
PropagationEnds == pc \in {"rounds", "revise"} ~> pc \notin {"rounds", "revise"}
=============================================================================
