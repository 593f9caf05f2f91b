------------------------- MODULE NativeSearch_proofs -------------------------
(***************************************************************************)
(* The native assignment search around its recursion: the propagation that *)
(* prunes the domains before and between choices, and the waves in which   *)
(* the branches of its root race for one budget.                           *)
(***************************************************************************)
EXTENDS ArcConsistency, RootWaves, WellFoundedInduction, TLAPS

(***************************************************************************)
(* Propagation loses no witness, fails only when there is none, and leaves *)
(* the free domains arc consistent but for what was left to forward        *)
(* checking, for any signals, candidates, domains and symmetric            *)
(* compatibility.                                                          *)
(*                                                                         *)
(* The heart is UnsupportedIsPending, the loop invariant of the worklist.  *)
(* A signal is stale from the loss of a candidate to the next propagation  *)
(* that is told of it; towards the others every free candidate has support *)
(* between choices.  Revising <<s, t>> can take the support only of        *)
(* candidates of other signals r: r = t cannot happen, since what s lost   *)
(* was supported by nothing in t and compatibility is symmetric; an r that *)
(* is no neighbour of s is supported by whatever s keeps; every other arc  *)
(* is enqueued.                                                            *)
(***************************************************************************)
Running == pc \in {"rounds", "choose", "revise"}

Shapes ==
    /\ compatibility \in Relations /\ whole \in Wholes
    /\ neighbors = [s \in Signals |-> ConstraintNeighbors(s)]
    /\ TypeOK
    /\ \A s \in Signals : domains[s] \subseteq whole[s]
    /\ pc \in {"rounds", "choose"} => pending = {}
    /\ \A arc \in pending : arc[1] # arc[2]

NoFreeDomainEmpty == Running => \A s \in Free : domains[s] # {}

ChoicesRespected ==
    Running => \A s \in Free, t \in Assigned : \A a \in domains[s], b \in selection[t] :
        b \in compatibility[s][a][t]

FreeSupported ==
    pc = "choose" => \A s \in Free, t \in Free \ stale : s # t =>
        \A a \in domains[s] : Supported(domains, s, a, t)

IInv ==
    /\ Shapes
    /\ NoFreeDomainEmpty
    /\ ChoicesRespected
    /\ NoWitnessLost
    /\ FailureIsProof
    /\ UnsupportedIsPending
    /\ FreeSupported

\* The candidates of a witness support one another.
LEMMA WitnessSupported ==
    ASSUME NoWitnessLost, pc # "failed", NEW f, IsWitness(f),
           NEW s \in Free, NEW t \in Free, s # t
    PROVE  f[s] \in domains[s] /\ Supported(domains, s, f[s], t)
<1>1. f \in [Signals -> Candidates]
  BY DEF IsWitness
<1>2. f[s] \in domains[s] /\ f[t] \in domains[t]
  BY <1>1 DEF NoWitnessLost
<1>3. f[t] \in compatibility[s][f[s]][t]
  BY DEF IsWitness, Free
<1> QED
  BY <1>2, <1>3 DEF Supported

\* A candidate of a signal that is no neighbour of t is supported by any
\* non-empty part of t's domain.
LEMMA NoNeighborSupported ==
    ASSUME Shapes, NEW s \in Signals, NEW t \in Signals, s # t,
           s \notin neighbors[t],
           NEW a \in whole[s], NEW D, D[t] \subseteq whole[t], D[t] # {}
    PROVE  Supported(D, s, a, t)
<1>1. s \notin ConstraintNeighbors(t)
  BY DEF Shapes
<1>2. \A b \in whole[t] : whole[s] \subseteq compatibility[t][b][s]
  BY <1>1 DEF ConstraintNeighbors
<1>3. PICK b \in D[t] : b \in whole[t]
  OBVIOUS
<1>4. a \in compatibility[t][b][s]
  BY <1>2, <1>3
<1>5. whole \in [Signals -> SUBSET Candidates]
  BY DomainsAssumption DEF Shapes
<1>6. a \in Candidates /\ b \in Candidates
  BY <1>3, <1>5
<1>7. b \in compatibility[s][a][t]
  BY <1>4, <1>6, SymmetricAssumption DEF Shapes
<1> QED
  BY <1>3, <1>7 DEF Supported

LEMMA InitIInv == Init => IInv
<1> SUFFICES ASSUME Init PROVE IInv
  OBVIOUS
<1>1. whole \in [Signals -> (SUBSET Candidates) \ {{}}]
  BY DomainsAssumption DEF Init
<1>2. Assigned = {} /\ Free = Signals
  BY DEF Init, Assigned, Free
<1>3. Shapes
  BY <1>1, <1>2 DEF Init, Shapes, TypeOK
<1>4. NoFreeDomainEmpty /\ ChoicesRespected
  BY <1>1, <1>2 DEF Init, NoFreeDomainEmpty, ChoicesRespected
<1>5. NoWitnessLost
  BY <1>2 DEF Init, NoWitnessLost, IsWitness
<1>6. FreeSupported
  BY <1>2 DEF Init, FreeSupported
<1>7. pc \in {"rounds", "choose"}
  BY DEF Init
<1> QED
  BY <1>3, <1>4, <1>5, <1>6, <1>7 DEF IInv, FailureIsProof, UnsupportedIsPending

LEMMA RoundIInv == IInv /\ Round => IInv'
<1> SUFFICES ASSUME IInv, Round PROVE IInv'
  OBVIOUS
<1> DEFINE revised == Revised(domains)
<1>1. /\ pc = "rounds" /\ UNCHANGED <<compatibility, whole, neighbors, selection, pending>>
      /\ Assigned' = Assigned /\ Free' = Free
      /\ \A f : IsWitness(f)' <=> IsWitness(f)
  BY DEF Round, problem, Assigned, Free, IsWitness
<1>2. \A s \in Signals : revised[s] \subseteq domains[s]
  BY DEF Revised
<1>3. ASSUME NEW f, IsWitness(f), NEW s \in Free PROVE f[s] \in revised[s]
  <2>1. \A t \in Free \ {s} : Supported(domains, s, f[s], t)
    BY <1>1, <1>3, WitnessSupported DEF IInv
  <2>2. f[s] \in domains[s]
    BY <1>1, <1>3 DEF IInv, NoWitnessLost, IsWitness
  <2> QED
    BY <2>1, <2>2 DEF Revised, Free
<1>4. CASE \E s \in Free : revised[s] = {}
  <2>1. pc' = "failed" /\ UNCHANGED domains
    BY <1>4 DEF Round
  <2> stale' = stale
    BY <1>4 DEF Round
  <2>2. \A f \in [Signals -> Candidates] : ~IsWitness(f)
    BY <1>3, <1>4
  <2>3. Shapes'
    BY <1>1, <2>1 DEF IInv, Shapes, TypeOK, ConstraintNeighbors
  <2> QED
    BY <1>1, <2>1, <2>2, <2>3
       DEF IInv, NoFreeDomainEmpty, ChoicesRespected, NoWitnessLost, FailureIsProof,
           UnsupportedIsPending, FreeSupported, Running
<1>5. CASE \A s \in Free : revised[s] # {}
  <2>1. /\ domains' = revised
        /\ stale' = IF revised = domains THEN {} ELSE stale
        /\ pc' = IF revised = domains THEN "choose" ELSE "rounds"
    BY <1>5 DEF Round
  <2>2. revised \in [Signals -> SUBSET Candidates]
    BY DEF Revised, IInv, Shapes, TypeOK
  <2>3. Shapes'
    BY <1>1, <1>2, <2>1, <2>2 DEF IInv, Shapes, TypeOK, ConstraintNeighbors
  <2>4. NoFreeDomainEmpty' /\ ChoicesRespected'
    BY <1>1, <1>2, <1>5, <2>1
       DEF IInv, NoFreeDomainEmpty, ChoicesRespected, Running, Free
  <2>5. NoWitnessLost'
    BY <1>1, <1>3, <2>1 DEF NoWitnessLost
  <2>6. FreeSupported'
    <3> SUFFICES ASSUME revised = domains,
                        NEW s \in Free, NEW t \in Free, s # t, NEW a \in domains[s]
                 PROVE  Supported(domains, s, a, t)
      BY <1>1, <2>1 DEF FreeSupported, Supported
    <3> QED
      BY DEF Revised, Free
  <2> QED
    BY <2>1, <2>3, <2>4, <2>5, <2>6 DEF IInv, FailureIsProof, UnsupportedIsPending
<1> QED
  BY <1>4, <1>5

\* What any choice does to the choices made, whatever follows it.
LEMMA PickFacts ==
    ASSUME IInv, NEW s \in Signals, NEW a \in domains[s], Pick(s, a)
    PROVE  /\ pc = "choose" /\ s \in Free /\ a \in Candidates
           /\ UNCHANGED <<compatibility, whole, neighbors>>
           /\ selection' = [selection EXCEPT ![s] = {a}]
           /\ selection' \in [Signals -> SUBSET Candidates]
           /\ Free' = Free \ {s} /\ Assigned' = Assigned \union {s}
           /\ \A f : IsWitness(f)' => IsWitness(f) /\ f[s] = a
<1>1. /\ pc = "choose" /\ s \in Free
      /\ selection' = [selection EXCEPT ![s] = {a}]
      /\ UNCHANGED <<compatibility, whole, neighbors>>
  BY DEF Pick, problem
<1>2. /\ domains \in [Signals -> SUBSET Candidates]
      /\ selection \in [Signals -> SUBSET Candidates]
  BY DEF IInv, Shapes, TypeOK
<1>3. a \in Candidates
  BY <1>2
<1>4. Free' = Free \ {s} /\ Assigned' = Assigned \union {s}
  BY <1>1, <1>2 DEF Free, Assigned
<1>5. selection' \in [Signals -> SUBSET Candidates]
  BY <1>1, <1>2, <1>3
<1>6. ASSUME NEW f, IsWitness(f)' PROVE IsWitness(f) /\ f[s] = a
  <2>1. selection'[s] = {f[s]}
    BY <1>4, <1>6 DEF IsWitness
  <2>2. \A t \in Assigned : t # s /\ selection'[t] = selection[t] /\ selection'[t] = {f[t]}
    BY <1>1, <1>2, <1>4, <1>6 DEF IsWitness, Free, Assigned
  <2> QED
    BY <1>1, <1>2, <1>6, <2>1, <2>2 DEF IsWitness
<1> QED
  BY <1>1, <1>3, <1>4, <1>5, <1>6

\* Forward checking keeps what a witness of the new choice needs.
LEMMA AfterKeepsWitness ==
    ASSUME IInv, NEW s \in Signals, NEW a \in domains[s], Pick(s, a),
           NEW f \in [Signals -> Candidates], IsWitness(f)', NEW t \in Free \ {s}
    PROVE  f[t] \in After(s, a)[t]
<1>1. IsWitness(f) /\ f[s] = a /\ s \in Free /\ pc = "choose"
  BY PickFacts
<1>2. f[t] \in domains[t] /\ f[t] \in compatibility[s][a][t]
  BY <1>1 DEF IInv, NoWitnessLost, IsWitness, Free
<1> QED
  BY <1>2 DEF After, Free

LEMMA DeadEndIInv ==
    ASSUME IInv, NEW s \in Signals, NEW a \in domains[s], ChooseDeadEnd(s, a)
    PROVE  IInv'
<1>1. /\ Pick(s, a) /\ pc' = "failed" /\ UNCHANGED <<domains, pending, stale>>
      /\ \E t \in Free \ {s} : After(s, a)[t] = {}
  BY DEF ChooseDeadEnd
<1>2. \A f \in [Signals -> Candidates] : ~IsWitness(f)'
  BY <1>1, AfterKeepsWitness
<1>3. pending = {} /\ selection' \in [Signals -> SUBSET Candidates]
  BY <1>1, PickFacts DEF IInv, Shapes
<1>4. UNCHANGED <<compatibility, whole, neighbors>>
  BY <1>1, PickFacts
<1>5. Shapes'
  BY <1>1, <1>3, <1>4 DEF IInv, Shapes, TypeOK, ConstraintNeighbors
<1> QED
  BY <1>1, <1>2, <1>5
     DEF IInv, NoFreeDomainEmpty, ChoicesRespected, NoWitnessLost, FailureIsProof,
         UnsupportedIsPending, FreeSupported, Running

\* What forward checking leaves when no domain is empty.
LEMMA AfterFacts ==
    ASSUME IInv, NEW s \in Signals, NEW a \in domains[s], Pick(s, a),
           \A t \in Free \ {s} : After(s, a)[t] # {},
           domains' = After(s, a), pc' # "failed"
    PROVE  /\ domains' \in [Signals -> SUBSET Candidates]
           /\ \A t \in Signals : domains'[t] \subseteq domains[t]
           /\ \A t \in (Free \ {s}) \ Changed(s, a) : domains'[t] = domains[t]
           /\ NoFreeDomainEmpty' /\ ChoicesRespected' /\ NoWitnessLost'
<1>1. /\ pc = "choose" /\ s \in Free /\ a \in Candidates
      /\ UNCHANGED <<compatibility, whole, neighbors>>
      /\ selection' = [selection EXCEPT ![s] = {a}]
      /\ Free' = Free \ {s} /\ Assigned' = Assigned \union {s}
  BY PickFacts
<1>2. /\ domains \in [Signals -> SUBSET Candidates]
      /\ selection \in [Signals -> SUBSET Candidates]
      /\ compatibility \in Relations
  BY DEF IInv, Shapes, TypeOK
<1>3. /\ domains' \in [Signals -> SUBSET Candidates]
      /\ \A t \in Signals : domains'[t] \subseteq domains[t]
      /\ \A t \in (Free \ {s}) \ Changed(s, a) : domains'[t] = domains[t]
  BY <1>2 DEF After, Changed
<1>4. NoFreeDomainEmpty'
  BY <1>1 DEF NoFreeDomainEmpty
<1>5. ChoicesRespected'
  <2> SUFFICES ASSUME NEW t \in Free \ {s}, NEW u \in Assigned', NEW c \in domains'[t],
                      NEW b \in selection'[u]
               PROVE  b \in compatibility[t][c][u]
    BY <1>1 DEF ChoicesRespected
  <2>1. CASE u = s
    <3>1. b = a
      BY <1>1, <1>2, <2>1
    <3>2. c \in compatibility[s][a][t] /\ c \in Candidates
      BY <1>2, <1>3 DEF Free, After
    <3> QED
      BY <1>1, <1>2, <2>1, <3>1, <3>2, SymmetricAssumption DEF Free
  <2>2. CASE u # s
    <3>1. u \in Assigned /\ b \in selection[u]
      BY <1>1, <1>2, <2>2 DEF Assigned
    <3>2. c \in domains[t]
      BY <1>3 DEF Free
    <3> QED
      BY <1>1, <3>1, <3>2 DEF IInv, ChoicesRespected, Running
  <2> QED
    BY <2>1, <2>2
<1>6. NoWitnessLost'
  BY <1>1, AfterKeepsWitness DEF NoWitnessLost
<1> QED
  BY <1>3, <1>4, <1>5, <1>6

LEMMA ThenWorklistIInv ==
    ASSUME IInv, NEW s \in Signals, NEW a \in domains[s], ChooseThenWorklist(s, a)
    PROVE  IInv'
<1> DEFINE others == Free \ {s}
<1>1. /\ Pick(s, a) /\ \A t \in others : After(s, a)[t] # {}
      /\ domains' = After(s, a) /\ pending' = Arcs(others, Changed(s, a))
      /\ stale' = stale \ Changed(s, a) /\ pc' = "revise"
  BY DEF ChooseThenWorklist
<1>2. /\ pc = "choose" /\ s \in Free /\ Free' = others
      /\ UNCHANGED <<compatibility, whole, neighbors>>
      /\ selection' \in [Signals -> SUBSET Candidates]
  BY <1>1, PickFacts
<1>3. /\ domains' \in [Signals -> SUBSET Candidates]
      /\ \A t \in Signals : domains'[t] \subseteq domains[t]
      /\ \A t \in others \ Changed(s, a) : domains'[t] = domains[t]
      /\ NoFreeDomainEmpty' /\ ChoicesRespected' /\ NoWitnessLost'
  BY <1>1, AfterFacts
<1>4. \A t \in Signals : domains[t] \subseteq whole[t]
  BY DEF IInv, Shapes
<1>5. Shapes'
  <2>1. pending' \subseteq others \X others /\ \A q \in pending' : q[1] # q[2]
    BY <1>1 DEF Arcs, Changed
  <2>2. stale' \subseteq Signals
    BY <1>1 DEF IInv, Shapes, TypeOK
  <2> QED
    BY <1>1, <1>2, <1>3, <1>4, <2>1, <2>2
       DEF IInv, Shapes, TypeOK, ConstraintNeighbors
<1>6. UnsupportedIsPending'
  <2>1. ASSUME NEW t \in others, NEW u \in others \ stale', t # u, NEW c \in domains'[t],
               <<t, u>> \notin pending'
        PROVE  Supported(domains', t, c, u)
    <3>1. t \in Signals /\ u \in Signals /\ c \in domains[t] /\ c \in whole[t]
      BY <1>3, <1>4 DEF Free
    <3>2. CASE u \in Changed(s, a)
      <4>1. t \notin neighbors[u]
        BY <1>1, <2>1, <3>2 DEF Arcs
      <4>2. domains'[u] \subseteq whole[u] /\ domains'[u] # {}
        BY <1>1, <1>3, <1>4, <3>1
      <4> QED
        BY <2>1, <3>1, <4>1, <4>2, NoNeighborSupported DEF IInv
    <3>3. CASE u \notin Changed(s, a)
      <4>1. domains'[u] = domains[u] /\ u \notin stale
        BY <1>1, <1>3, <2>1, <3>3
      <4>2. Supported(domains, t, c, u)
        BY <1>2, <2>1, <3>1, <4>1 DEF IInv, FreeSupported
      <4> QED
        BY <4>1, <4>2 DEF Supported
    <3> QED
      BY <3>2, <3>3
  <2>2. \A t \in Free', u \in Free' \ stale' : t # u =>
           \A c \in domains'[t] : \/ <<t, u>> \in pending'
                                 \/ domains'[u] \cap compatibility'[t][c][u] # {}
    BY <1>2, <2>1 DEF Supported
  <2> QED
    BY <2>2 DEF UnsupportedIsPending, Supported
<1> QED
  BY <1>1, <1>3, <1>5, <1>6 DEF IInv, FailureIsProof, FreeSupported

\* The two choices that start no worklist leave what they changed stale.
LEMMA UnqueuedIInv ==
    ASSUME IInv, NEW s \in Signals, NEW a \in domains[s],
           ChooseThenRounds(s, a) \/ ChooseOnly(s, a)
    PROVE  IInv'
<1> DEFINE others == Free \ {s}
<1>1. /\ Pick(s, a) /\ \A t \in others : After(s, a)[t] # {}
      /\ domains' = After(s, a) /\ pending' = pending
      /\ stale' = stale \union Changed(s, a) /\ pc' \in {"rounds", "choose"}
  BY DEF ChooseThenRounds, ChooseOnly
<1>2. /\ pc = "choose" /\ s \in Free /\ Free' = others
      /\ UNCHANGED <<compatibility, whole, neighbors>>
      /\ selection' \in [Signals -> SUBSET Candidates]
  BY <1>1, PickFacts
<1>3. /\ domains' \in [Signals -> SUBSET Candidates]
      /\ \A t \in Signals : domains'[t] \subseteq domains[t]
      /\ \A t \in others \ Changed(s, a) : domains'[t] = domains[t]
      /\ NoFreeDomainEmpty' /\ ChoicesRespected' /\ NoWitnessLost'
  BY <1>1, AfterFacts
<1>4. Shapes'
  <2>1. pending' = {} /\ stale' \subseteq Signals
    BY <1>1, <1>2 DEF IInv, Shapes, TypeOK, Changed, Free
  <2> QED
    BY <1>1, <1>2, <1>3, <2>1 DEF IInv, Shapes, TypeOK, ConstraintNeighbors
<1>5. FreeSupported'
  <2>1. ASSUME NEW t \in others, NEW u \in others \ stale', t # u, NEW c \in domains'[t]
        PROVE  Supported(domains', t, c, u)
    <3>1. t \in Signals /\ c \in domains[t]
      BY <1>3 DEF Free
    <3>2. domains'[u] = domains[u] /\ u \notin stale
      BY <1>1, <1>3, <2>1
    <3>3. Supported(domains, t, c, u)
      BY <1>2, <2>1, <3>1, <3>2 DEF IInv, FreeSupported
    <3> QED
      BY <3>2, <3>3 DEF Supported
  <2>2. \A t \in Free', u \in Free' \ stale' : t # u =>
           \A c \in domains'[t] : domains'[u] \cap compatibility'[t][c][u] # {}
    BY <1>2, <2>1 DEF Supported
  <2> QED
    BY <2>2 DEF FreeSupported, Supported
<1> QED
  BY <1>1, <1>3, <1>4, <1>5 DEF IInv, FailureIsProof, UnsupportedIsPending

LEMMA ChooseIInv ==
    ASSUME IInv, NEW s \in Signals, NEW a \in domains[s], Choose(s, a)
    PROVE  IInv'
BY DeadEndIInv, ThenWorklistIInv, UnqueuedIInv DEF Choose

LEMMA ReviseIInv ==
    ASSUME IInv, NEW arc \in pending, Revise(arc)
    PROVE  IInv'
<1> DEFINE s == arc[1]
           t == arc[2]
           kept == {a \in domains[s] : Supported(domains, s, a, t)}
<1>1. /\ pc = "revise" /\ s \in Free /\ t \in Free /\ arc = <<s, t>>
      /\ domains' = [domains EXCEPT ![s] = kept]
      /\ UNCHANGED <<compatibility, whole, neighbors, selection, stale>>
  BY DEF Revise, problem, IInv, Shapes, TypeOK
<1>2. /\ domains \in [Signals -> SUBSET Candidates]
      /\ compatibility \in Relations
      /\ pending \subseteq Free \X Free
      /\ \A u \in Signals : domains[u] \subseteq whole[u]
  BY DEF IInv, Shapes, TypeOK
<1>3. /\ Free' = Free /\ Assigned' = Assigned
      /\ \A f : IsWitness(f)' <=> IsWitness(f)
  BY <1>1 DEF Free, Assigned, IsWitness
<1>4. /\ domains' \in [Signals -> SUBSET Candidates]
      /\ domains'[s] = kept /\ \A u \in Signals \ {s} : domains'[u] = domains[u]
      /\ \A u \in Signals : domains'[u] \subseteq domains[u]
  BY <1>1, <1>2 DEF Free
<1>5. /\ pc' = IF kept = {} THEN "failed" ELSE "revise"
      /\ pending' = IF kept = {} THEN pending \ {arc}
                     ELSE (pending \ {arc}) \union
                          (IF kept = domains[s] THEN {} ELSE Arcs(Free \ {t}, {s}))
  BY <1>1 DEF Revise
<1>6. Shapes'
  <2>1. Arcs(Free \ {t}, {s}) \subseteq Free \X Free
    BY <1>1 DEF Arcs
  <2>2. pending' \subseteq Free \X Free /\ \A q \in pending' : q[1] # q[2]
    BY <1>2, <1>5, <2>1 DEF Arcs, IInv, Shapes
  <2>3. pc' \in {"revise", "failed"}
    BY <1>5
  <2> QED
    BY <1>1, <1>2, <1>3, <1>4, <2>2, <2>3 DEF IInv, Shapes, TypeOK, ConstraintNeighbors
<1>7. ASSUME NEW f \in [Signals -> Candidates], IsWitness(f), NEW u \in Free
      PROVE  f[u] \in domains'[u]
  <2>1. f[u] \in domains[u]
    BY <1>1, <1>7 DEF IInv, NoWitnessLost
  <2>2. CASE u = s
    <3>1. s # t
      BY DEF IInv, Shapes
    <3>2. Supported(domains, s, f[s], t)
      BY <1>1, <1>7, <3>1, WitnessSupported DEF IInv
    <3> QED
      BY <1>4, <2>1, <2>2, <3>2
  <2>3. CASE u # s
    BY <1>4, <2>1, <2>3 DEF Free
  <2> QED
    BY <2>2, <2>3
<1>8. CASE kept = {}
  <2>1. \A f \in [Signals -> Candidates] : ~IsWitness(f)
    BY <1>1, <1>4, <1>7, <1>8
  <2>2. pc' = "failed"
    BY <1>5, <1>8
  <2> QED
    BY <1>3, <1>6, <2>1, <2>2
       DEF IInv, NoFreeDomainEmpty, ChoicesRespected, NoWitnessLost, FailureIsProof,
           UnsupportedIsPending, FreeSupported, Running
<1>9. CASE kept # {}
  <2>1. pc' = "revise"
    BY <1>5, <1>9
  <2>2. NoFreeDomainEmpty' /\ ChoicesRespected'
    BY <1>1, <1>3, <1>4, <1>9, <2>1
       DEF IInv, NoFreeDomainEmpty, ChoicesRespected, Running, Free
  <2>3. NoWitnessLost'
    BY <1>3, <1>7 DEF NoWitnessLost
  <2>4. UnsupportedIsPending'
    <3>1. ASSUME NEW r \in Free, NEW u \in Free \ stale, r # u, NEW c \in domains'[r],
                 <<r, u>> \notin pending'
          PROVE  domains'[u] \cap compatibility[r][c][u] # {}
      <4>1. /\ r \in Signals /\ u \in Signals
            /\ c \in domains[r] /\ c \in whole[r] /\ c \in Candidates
        BY <1>2, <1>4 DEF Free
      <4>2. CASE r = s /\ u = t
        <5>1. c \in kept
          BY <1>4, <3>1, <4>2
        <5> QED
          BY <1>4, <3>1, <4>1, <4>2, <5>1 DEF Supported
      <4>3. CASE ~(r = s /\ u = t)
        <5>1. <<r, u>> \notin pending
          BY <1>1, <1>5, <1>9, <3>1, <4>3
        <5>2. Supported(domains, r, c, u)
          BY <1>1, <3>1, <4>1, <5>1 DEF IInv, UnsupportedIsPending
        <5>3. CASE u # s \/ kept = domains[s]
          <6>1. domains'[u] = domains[u]
            BY <1>4, <4>1, <5>3
          <6> QED
            BY <5>2, <6>1 DEF Supported
        <5>4. CASE u = s /\ kept # domains[s] /\ r = t
          <6>1. PICK b \in domains[s] : b \in compatibility[t][c][s]
            BY <5>2, <5>4 DEF Supported
          <6>2. c \in compatibility[s][b][t]
            BY <1>2, <4>1, <5>4, <6>1, SymmetricAssumption
          <6>3. b \in kept
            BY <4>1, <5>4, <6>1, <6>2 DEF Supported
          <6> QED
            BY <1>4, <5>4, <6>1, <6>3
        <5>5. CASE u = s /\ kept # domains[s] /\ r # t
          <6>1. r \notin neighbors[s]
            BY <1>5, <1>9, <3>1, <5>5 DEF Arcs
          <6>2. domains'[s] \subseteq whole[s] /\ domains'[s] # {}
            BY <1>2, <1>4, <1>9, <4>1, <5>5
          <6>3. Supported(domains', r, c, s)
            BY <3>1, <4>1, <5>5, <6>1, <6>2, NoNeighborSupported DEF IInv
          <6> QED
            BY <5>5, <6>3 DEF Supported
        <5> QED
          BY <5>3, <5>4, <5>5
      <4> QED
        BY <4>2, <4>3
    <3> QED
      BY <1>1, <1>3, <3>1 DEF UnsupportedIsPending, Supported
  <2> QED
    BY <1>6, <2>1, <2>2, <2>3, <2>4 DEF IInv, FailureIsProof, FreeSupported
<1> QED
  BY <1>8, <1>9

LEMMA SettledIInv == IInv /\ Settled => IInv'
<1> SUFFICES ASSUME IInv, Settled PROVE IInv'
  OBVIOUS
<1>1. /\ pc = "revise" /\ pc' = "choose" /\ pending = {}
      /\ UNCHANGED <<compatibility, whole, neighbors, domains, selection, pending, stale>>
  BY DEF Settled, problem
<1>2. /\ Free' = Free /\ Assigned' = Assigned
      /\ \A f : IsWitness(f)' <=> IsWitness(f)
  BY <1>1 DEF Free, Assigned, IsWitness
<1>3. Shapes'
  BY <1>1, <1>2 DEF IInv, Shapes, TypeOK, ConstraintNeighbors
<1>4. FreeSupported'
  BY <1>1, <1>2 DEF IInv, FreeSupported, UnsupportedIsPending, Supported
<1> QED
  BY <1>1, <1>2, <1>3, <1>4
     DEF IInv, NoFreeDomainEmpty, ChoicesRespected, NoWitnessLost, FailureIsProof,
         UnsupportedIsPending, Running

LEMMA OtherIInv == IInv /\ (DeadlinePasses \/ UNCHANGED vars) => IInv'
<1> SUFFICES ASSUME IInv, DeadlinePasses \/ UNCHANGED vars PROVE IInv'
  OBVIOUS
<1>1. UNCHANGED <<compatibility, whole, neighbors, domains, selection, pending, stale>>
  BY DEF DeadlinePasses, vars, problem
<1>2. /\ Free' = Free /\ Assigned' = Assigned
      /\ \A f : IsWitness(f)' <=> IsWitness(f)
  BY <1>1 DEF Free, Assigned, IsWitness
<1>3. pc' = pc \/ (pc \in {"rounds", "revise"} /\ pc' = "late")
  BY DEF DeadlinePasses, vars
<1>4. Shapes'
  BY <1>1, <1>2, <1>3 DEF IInv, Shapes, TypeOK, ConstraintNeighbors
<1> QED
  BY <1>1, <1>2, <1>3, <1>4
     DEF IInv, NoFreeDomainEmpty, ChoicesRespected, NoWitnessLost, FailureIsProof,
         UnsupportedIsPending, FreeSupported, Supported, Running

LEMMA NextIInv == IInv /\ [Next]_vars => IInv'
<1> SUFFICES ASSUME IInv, [Next]_vars PROVE IInv'
  OBVIOUS
<1>1. CASE Round
  BY <1>1, RoundIInv
<1>2. CASE Settled
  BY <1>2, SettledIInv
<1>3. CASE \E arc \in pending : Revise(arc)
  BY <1>3, ReviseIInv
<1>4. CASE \E s \in Signals : \E a \in domains[s] : Choose(s, a)
  BY <1>4, ChooseIInv
<1>5. CASE DeadlinePasses \/ Stop \/ UNCHANGED vars
  BY <1>5, OtherIInv DEF Stop
<1> QED
  BY <1>1, <1>2, <1>3, <1>4, <1>5 DEF Next, Propagate

LEMMA InvariantHolds == Spec => []IInv
BY InitIInv, NextIInv, PTL DEF Spec

\* The domains stay sets of candidates and the worklist holds arcs between
\* free signals only: an assigned signal is never revised.
THEOREM TypeCorrect == Spec => []TypeOK
<1>1. IInv => TypeOK
  BY DEF IInv, Shapes
<1> QED
  BY <1>1, InvariantHolds, PTL

\* Neither the rounds nor the worklist (Domains.rs) removes a candidate that
\* some complete assignment still needs, and a domain found empty proves that
\* the choices made so far cannot be completed: the search may cut the branch.
THEOREM PropagationKeepsWitnesses == Spec => []PropagationIsSound
<1>1. IInv => PropagationIsSound
  BY DEF IInv, Shapes, PropagationIsSound
<1> QED
  BY <1>1, InvariantHolds, PTL

\* The loop invariant of EnforceIncrementalArcConsistency: not enqueueing the
\* arc back to the domain just revised leaves nothing unsupported behind.
THEOREM WorklistIsComplete == Spec => []UnsupportedIsPending
<1>1. IInv => UnsupportedIsPending
  BY DEF IInv
<1> QED
  BY <1>1, InvariantHolds, PTL

\* Between two choices the free domains are non-empty, compatible with every
\* choice made, and arc consistent but for what was left to forward checking.
THEOREM ArcConsistentBetweenChoices == Spec => []ConsistentBetweenChoices
<1>1. IInv => ConsistentBetweenChoices
  <2>1. ASSUME IInv, pc = "choose", NEW s \in Free
        PROVE  /\ domains[s] # {}
               /\ \A a \in domains[s] :
                     /\ \A t \in Free \ (stale \union {s}) : Supported(domains, s, a, t)
                     /\ \A t \in Assigned : \A b \in selection[t] :
                           b \in compatibility[s][a][t]
    BY <2>1 DEF IInv, NoFreeDomainEmpty, ChoicesRespected, FreeSupported, Running
  <2>2. IInv => UnsupportedIsPending
    BY DEF IInv
  <2> QED
    BY <2>1, <2>2 DEF ConsistentBetweenChoices
<1> QED
  BY <1>1, InvariantHolds, PTL

(***************************************************************************)
(* The root waves never overspend the budget, pass no branch over and      *)
(* answer honestly, for any number of branches and threads, any budget and *)
(* any requests.                                                           *)
(*                                                                         *)
(* What ties an answer to the branches is that an outcome is final: nothing*)
(* is consumed before its wave has ended (WavesInOrder), every consumed    *)
(* branch but the last ended without a witness or a deadline, and if it    *)
(* was cut, anyLocal remembers it (Consumed).                              *)
(*                                                                         *)
(* First the sum of what the branches have spent.                          *)
(***************************************************************************)
UpTo(f) == CHOOSE u : u = [b \in 0 .. Branches |-> IF b = 0 THEN 0 ELSE u[b - 1] + f[b]]

LEMMA LeastNumber ==
    ASSUME NEW S \in SUBSET Nat, S # {}
    PROVE  \E n \in S : \A m \in S : n <= m
<1>1. PICK n \in S : \A m \in S : <<m, n>> \notin OpToRel(<, Nat)
  BY NatLessThanWellFounded, WFMin
<1>2. \A m \in S : ~(m < n)
  BY <1>1 DEF OpToRel
<1> QED
  BY <1>2

\* u holds the sums of f up to n.
Sums(u, f, n) ==
    /\ u \in [0 .. n -> Nat] /\ u[0] = 0
    /\ \A b \in 1 .. n : u[b] = u[b - 1] + f[b]

LEMMA PartialSums ==
    ASSUME NEW f \in [Index -> Nat]
    PROVE  \A n \in 0 .. Branches : \E u : Sums(u, f, n)
<1> USE WavesAssumption
<1> DEFINE Missing == {n \in 0 .. Branches : ~\E u : Sums(u, f, n)}
<1> SUFFICES ASSUME Missing # {} PROVE FALSE
  OBVIOUS
<1>1. PICK n \in Missing : \A m \in Missing : n <= m
  <2>1. Missing \subseteq Nat
    OBVIOUS
  <2> HIDE DEF Missing
  <2> QED
    BY <2>1, LeastNumber
<1>2. n # 0
  <2>1. Sums([b \in 0 .. 0 |-> 0], f, 0)
    BY DEF Sums
  <2> QED
    BY <1>1, <2>1
<1>3. n - 1 \in 0 .. Branches /\ n - 1 \notin Missing
  BY <1>1, <1>2
<1>4. PICK u : Sums(u, f, n - 1)
  BY <1>3
<1>5. n \in Index /\ f[n] \in Nat /\ u[n - 1] \in Nat
  BY <1>1, <1>2, <1>4 DEF Index, Sums
<1> DEFINE w == [b \in 0 .. n |-> IF b = n THEN u[n - 1] + f[n] ELSE u[b]]
<1>6. w \in [0 .. n -> Nat] /\ w[0] = 0
  BY <1>2, <1>4, <1>5 DEF Sums, Index
<1>7. ASSUME NEW b \in 1 .. n PROVE w[b] = w[b - 1] + f[b]
  BY <1>2, <1>4, <1>5 DEF Sums, Index
<1>8. Sums(w, f, n)
  <2> HIDE DEF w
  <2> QED
    BY <1>6, <1>7 DEF Sums
<1> QED
  BY <1>1, <1>8

LEMMA UpToSums ==
    ASSUME NEW f \in [Index -> Nat]
    PROVE  Sums(UpTo(f), f, Branches)
<1> USE WavesAssumption
<1>1. PICK u : Sums(u, f, Branches)
  BY PartialSums
<1>2. u = [b \in 0 .. Branches |-> IF b = 0 THEN 0 ELSE u[b - 1] + f[b]]
  BY <1>1 DEF Sums
<1>3. UpTo(f) = [b \in 0 .. Branches |-> IF b = 0 THEN 0 ELSE UpTo(f)[b - 1] + f[b]]
  BY <1>2 DEF UpTo
<1> DEFINE v == UpTo(f)
<1>4. DOMAIN v = 0 .. Branches /\ v[0] = 0
  BY <1>3
<1>5. \A b \in 1 .. Branches : v[b] = v[b - 1] + f[b]
  BY <1>3
<1>6. \A b \in 0 .. Branches : v[b] = u[b]
  <2> DEFINE Other == {b \in 0 .. Branches : v[b] # u[b]}
  <2> SUFFICES ASSUME Other # {} PROVE FALSE
    OBVIOUS
  <2>1. PICK b \in Other : \A c \in Other : b <= c
    <3>1. Other \subseteq Nat
      OBVIOUS
    <3> HIDE DEF Other
    <3> QED
      BY <3>1, LeastNumber
  <2>2. b # 0
    BY <1>1, <1>4, <2>1 DEF Sums
  <2>3. b - 1 \in 0 .. Branches /\ v[b - 1] = u[b - 1] /\ b \in 1 .. Branches
    BY <2>1, <2>2
  <2> HIDE DEF v
  <2> QED
    BY <1>1, <1>5, <2>1, <2>3 DEF Sums
<1>7. v \in [0 .. Branches -> Nat]
  BY <1>1, <1>3, <1>6 DEF Sums
<1> QED
  BY <1>4, <1>5, <1>7 DEF Sums

LEMMA NothingSpent ==
    UpTo([b \in Index |-> 0])[Branches] = 0
<1> USE WavesAssumption
<1> DEFINE f == [b \in Index |-> 0]
           v == UpTo(f)
           Some == {b \in 0 .. Branches : v[b] # 0}
<1>1. Sums(v, f, Branches)
  BY UpToSums
<1> HIDE DEF v
<1> SUFFICES ASSUME Some # {} PROVE FALSE
  BY DEF v
<1>2. PICK b \in Some : \A c \in Some : b <= c
  <2>1. Some \subseteq Nat
    OBVIOUS
  <2> HIDE DEF Some
  <2> QED
    BY <2>1, LeastNumber
<1>3. b # 0
  BY <1>1, <1>2 DEF Sums
<1>4. v[b - 1] = 0 /\ b \in 1 .. Branches
  BY <1>2, <1>3
<1> QED
  BY <1>1, <1>2, <1>4 DEF Sums, Index

\* When one branch spends more, the sum grows by as much.
LEMMA SpendMore ==
    ASSUME NEW f \in [Index -> Nat], NEW b \in Index, NEW n \in Nat,
           NEW g, g = [f EXCEPT ![b] = f[b] + n]
    PROVE  UpTo(g)[Branches] = UpTo(f)[Branches] + n
<1> USE WavesAssumption
<1>1. g \in [Index -> Nat] /\ g[b] = f[b] + n /\ \A c \in Index \ {b} : g[c] = f[c]
  OBVIOUS
<1>2. PICK u, v : u = UpTo(f) /\ v = UpTo(g)
  OBVIOUS
<1>3. Sums(u, f, Branches) /\ Sums(v, g, Branches)
  BY <1>1, <1>2, UpToSums
<1>4. \A c \in 0 .. Branches : v[c] = IF c < b THEN u[c] ELSE u[c] + n
  <2> DEFINE Off == {c \in 0 .. Branches : v[c] # IF c < b THEN u[c] ELSE u[c] + n}
  <2> SUFFICES ASSUME Off # {} PROVE FALSE
    OBVIOUS
  <2>1. PICK c \in Off : \A d \in Off : c <= d
    <3>1. Off \subseteq Nat
      OBVIOUS
    <3> HIDE DEF Off
    <3> QED
      BY <3>1, LeastNumber
  <2>2. c # 0
    BY <1>3, <2>1 DEF Sums, Index
  <2>3. c - 1 \in 0 .. Branches /\ c - 1 \notin Off /\ c \in 1 .. Branches
    BY <2>1, <2>2
  <2>4. v[c - 1] = IF c - 1 < b THEN u[c - 1] ELSE u[c - 1] + n
    BY <2>3
  <2>5. u[c - 1] \in Nat /\ v[c - 1] \in Nat /\ f[c] \in Nat /\ b \in Nat
    <3>1. u[c - 1] \in Nat /\ v[c - 1] \in Nat
      BY <1>3, <2>3 DEF Sums
    <3>2. f[c] \in Nat /\ b \in Nat
      BY <2>3 DEF Index
    <3> QED
      BY <3>1, <3>2
  <2>6. v[c] = v[c - 1] + g[c] /\ u[c] = u[c - 1] + f[c]
    BY <1>3, <2>3 DEF Sums
  <2>7. g[c] = IF c = b THEN f[c] + n ELSE f[c]
    BY <1>1, <2>3 DEF Index
  <2>8. v[c] # IF c < b THEN u[c] ELSE u[c] + n
    BY <2>1
  <2> QED
    BY <2>3, <2>4, <2>5, <2>6, <2>7, <2>8
<1>5. Branches \in 0 .. Branches /\ ~(Branches < b)
  BY DEF Index
<1>6. v[Branches] = u[Branches] + n
  BY <1>4, <1>5
<1> QED
  BY <1>2, <1>6

(***************************************************************************)
(* The waves.                                                              *)
(***************************************************************************)
Outcomes == [success : BOOLEAN, budget : BOOLEAN, deadline : BOOLEAN]
RunStates == {"idle", "entering", "working", "ended"}

WaveShapes ==
    /\ plan \in [Index -> Seq(Nat \ {0})] /\ feasible \in [Index -> BOOLEAN]
    /\ phase \in {"start", "run", "consume", "done"}
    /\ offset \in 0 .. Branches /\ waveEnd \in offset .. Branches
    /\ consumed \in offset .. waveEnd /\ chosen \in 0 .. Branches
    /\ expired \in BOOLEAN /\ anyLocal \in BOOLEAN /\ exhausted \in BOOLEAN

BranchShapes ==
    /\ running \in [Index -> RunStates]
    /\ spent \in [Index -> 0 .. Share]
    /\ step \in [Index -> Nat]
    /\ outcome \in [Index -> Outcomes]
    /\ \A b \in Index : step[b] <= Len(plan[b])

\* What has been spent is charged, and nothing has been before a branch enters.
Charged ==
    /\ shared \in 0 .. MaximumExpansionCount
    /\ UpTo(spent)[Branches] <= shared
    /\ \A b \in Index : running[b] \in {"idle", "entering"} => spent[b] = 0

\* Nothing is consumed before its wave has ended, nothing begins before its wave.
WavesInOrder ==
    /\ phase \in {"start", "run"} => consumed = offset
    /\ phase = "start" => waveEnd = offset
    /\ \A b \in Index : b > waveEnd => running[b] = "idle"
    /\ phase = "consume" => \A b \in 1 .. waveEnd : running[b] = "ended"
    /\ \A b \in 1 .. consumed : running[b] = "ended"

\* What an outcome says of the branch.
OutcomesAreTrue ==
    \A b \in Index : running[b] = "ended" =>
        /\ outcome[b].success => feasible[b]
        /\ feasible[b] => outcome[b].success \/ outcome[b].budget \/ outcome[b].deadline
        /\ outcome[b].deadline => expired

\* A branch that was consumed and did not end the search.
Passed(b) ==
    /\ ~outcome[b].success /\ ~outcome[b].deadline
    /\ outcome[b].budget => anyLocal

Consumed ==
    /\ phase # "done" =>
         chosen = 0 /\ ~exhausted /\ \A b \in 1 .. consumed : Passed(b)
    /\ phase = "done" =>
         /\ \A b \in 1 .. consumed - 1 : Passed(b)
         /\ chosen # 0 => chosen = consumed /\ outcome[chosen].success
         /\ chosen = 0 =>
              \/ expired \/ exhausted
              \/ consumed = Branches /\ \A b \in Index : Passed(b)

WavesInv ==
    WaveShapes /\ BranchShapes /\ Charged /\ WavesInOrder /\ OutcomesAreTrue /\ Consumed

-----------------------------------------------------------------------------
LEMMA ShareIsPositive == Share \in Nat \ {0}
<1> USE WavesAssumption
<1> DEFINE ways == Lesser(Branches, Threads)
<1>1. PICK w \in Nat \ {0} : w = ways
  BY DEF Lesser
<1>2. PICK x \in Nat : x = MaximumExpansionCount + w - 1 /\ x >= w
  BY <1>1
<1>3. x \div w \in Nat \ {0}
  <2>1. x \div w \in Int /\ x % w \in 0 .. w - 1 /\ x = w * (x \div w) + (x % w)
    <3>1. w \in Int /\ x \in Int /\ w > 0
      BY <1>1, <1>2
    <3>2. x \div w \in Int
      BY <3>1
    <3>3. x % w \in 0 .. w - 1
      BY <3>1
    <3>4. x = w * (x \div w) + (x % w)
      BY <3>1
    <3> QED
      BY <3>2, <3>3, <3>4
  <2>2. PICK q \in Int : q = x \div w
    BY <2>1
  <2>3. ASSUME q <= 0 PROVE FALSE
    <3>1. w * q <= 0
      BY <1>1, <2>3
    <3> QED
      BY <1>1, <1>2, <2>1, <2>2, <3>1
  <2> QED
    BY <2>2, <2>3
<1> QED
  BY <1>1, <1>2, <1>3 DEF Share

LEMMA InitWavesInv == WavesInit => WavesInv
<1> SUFFICES ASSUME WavesInit PROVE WavesInv
  OBVIOUS
<1> USE WavesAssumption DEF WavesInit
<1>1. WaveShapes
  <2>1. plan \in [Index -> Seq(Nat \ {0})]
    BY Zenon
  <2>2. 0 \in 0 .. Branches
    OBVIOUS
  <2> QED
    <3>1. feasible \in [Index -> BOOLEAN] /\ phase = "start" /\ waveEnd \in offset .. Branches
      BY <2>2
    <3>2. consumed \in offset .. waveEnd /\ offset \in 0 .. Branches /\ chosen \in 0 .. Branches
      BY <2>2
    <3>3. expired \in BOOLEAN /\ anyLocal \in BOOLEAN /\ exhausted \in BOOLEAN
      OBVIOUS
    <3> HIDE DEF WavesInit
    <3> QED
      BY <2>1, <3>1, <3>2, <3>3 DEF WaveShapes
<1>2. BranchShapes
  <2>1. 0 \in 0 .. Share
    BY ShareIsPositive
  <2>2. \A b \in Index : Len(plan[b]) \in Nat
    OBVIOUS
  <2> QED
    BY <2>1, <2>2 DEF BranchShapes, RunStates, Outcomes, NoOutcome
<1>3. Charged
  BY NothingSpent DEF Charged
<1>4. WavesInOrder /\ OutcomesAreTrue /\ Consumed
  BY DEF WavesInOrder, OutcomesAreTrue, Consumed
<1> QED
  BY <1>1, <1>2, <1>3, <1>4 DEF WavesInv

\* A step of one branch while its wave runs.
LEMMA BranchStepKeeps ==
    ASSUME WavesInv, NEW b \in Index, running[b] \in {"entering", "working"},
           NEW state \in RunStates \ {"idle", "entering"},
           running' = [running EXCEPT ![b] = state],
           outcome' = outcome \/ state = "ended",
           \A c \in Index \ {b} : outcome'[c] = outcome[c],
           phase = "run",
           UNCHANGED <<roots, phase, offset, waveEnd, expired, result>>,
           BranchShapes', Charged',
           state = "ended" =>
               /\ outcome'[b].success => feasible[b]
               /\ feasible[b] => outcome'[b].success \/ outcome'[b].budget \/ outcome'[b].deadline
               /\ outcome'[b].deadline => expired
    PROVE  WavesInv'
<1>1. WaveShapes'
  BY DEF WavesInv, WaveShapes, roots, result
<1>2. running'[b] = state /\ \A c \in Index \ {b} : running'[c] = running[c]
  BY DEF WavesInv, BranchShapes
<1>3. \A c \in 1 .. consumed : c # b /\ c \in Index
  <2>1. consumed \in Int /\ consumed <= Branches
    BY WavesAssumption DEF WavesInv, WaveShapes
  <2>2. \A c \in 1 .. consumed : c \in Index
    BY <2>1, WavesAssumption DEF Index
  <2>3. \A c \in 1 .. consumed : running[c] = "ended"
    BY DEF WavesInv, WavesInOrder
  <2> QED
    BY <2>2, <2>3
<1>4. WavesInOrder'
  BY <1>2, <1>3 DEF WavesInv, WavesInOrder, result
<1>5. OutcomesAreTrue'
  BY <1>2 DEF WavesInv, OutcomesAreTrue, roots
<1>6. Consumed'
  BY <1>3 DEF WavesInv, Consumed, Passed, result
<1> QED
  BY <1>1, <1>4, <1>5, <1>6 DEF WavesInv

LEMMA EnterKeeps ==
    ASSUME WavesInv, NEW b \in Index, Enter(b)
    PROVE  WavesInv'
<1> USE WavesAssumption
<1>1. /\ running[b] = "entering" /\ phase = "run"
      /\ UNCHANGED <<roots, phase, offset, waveEnd, step, expired, result>>
      /\ spent[b] = 0
  BY DEF Enter, WavesInv, Charged
<1>2. CASE /\ running' = [running EXCEPT ![b] = "working"]
           /\ spent' = [spent EXCEPT ![b] = 1] /\ shared' = shared + 1
           /\ shared < MaximumExpansionCount /\ UNCHANGED outcome
  <2>1. BranchShapes'
    BY <1>1, <1>2, ShareIsPositive DEF WavesInv, BranchShapes, RunStates, roots
  <2>2. Charged'
    <3>1. spent \in [Index -> Nat] /\ spent' = [spent EXCEPT ![b] = spent[b] + 1]
      BY <1>1, <1>2, ShareIsPositive DEF WavesInv, BranchShapes
    <3>2. PICK f, g : f = spent /\ g = spent'
      OBVIOUS
    <3>3. UpTo(g)[Branches] = UpTo(f)[Branches] + 1
      <4>1. PICK one \in Nat : one = 1
        OBVIOUS
      <4>2. f \in [Index -> Nat] /\ g = [f EXCEPT ![b] = f[b] + one]
        BY <3>1, <3>2, <4>1
      <4>3. UpTo(g)[Branches] = UpTo(f)[Branches] + one
        BY <4>2, SpendMore
      <4> QED
        BY <4>1, <4>3
    <3>4. UpTo(f)[Branches] \in Nat
      BY <3>1, <3>2, UpToSums DEF Sums
    <3>5. UpTo(f)[Branches] <= shared /\ shared \in 0 .. MaximumExpansionCount
      BY <3>2 DEF WavesInv, Charged
    <3>6. UpTo(g)[Branches] <= shared' /\ shared' \in 0 .. MaximumExpansionCount
      BY <1>2, <3>3, <3>4, <3>5
    <3>7. \A c \in Index : running'[c] \in {"idle", "entering"} => spent'[c] = 0
      BY <1>2 DEF WavesInv, Charged, BranchShapes
    <3> QED
      BY <3>2, <3>6, <3>7 DEF Charged
  <2> QED
    BY <1>1, <1>2, <2>1, <2>2, BranchStepKeeps DEF RunStates
<1>3. ASSUME (End(b, FALSE, FALSE, TRUE) /\ expired) \/ End(b, FALSE, TRUE, FALSE),
             UNCHANGED <<spent, shared>>
      PROVE  WavesInv'
  <2>1. PICK o \in Outcomes :
          /\ running' = [running EXCEPT ![b] = "ended"]
          /\ outcome' = [outcome EXCEPT ![b] = o]
          /\ ~o.success /\ (o.budget \/ o.deadline) /\ (o.deadline => expired)
    <3>1. ASSUME NEW budget \in BOOLEAN, NEW late \in BOOLEAN,
                 End(b, FALSE, budget, late), budget \/ late, late => expired
          PROVE  \E o \in Outcomes :
                   /\ running' = [running EXCEPT ![b] = "ended"]
                   /\ outcome' = [outcome EXCEPT ![b] = o]
                   /\ ~o.success /\ (o.budget \/ o.deadline) /\ (o.deadline => expired)
      <4> DEFINE o == [success |-> FALSE, budget |-> budget, deadline |-> late]
      <4>1. o \in Outcomes
        BY DEF Outcomes
      <4> QED
        BY <3>1, <4>1 DEF End
    <3> QED
      BY <1>3, <3>1
  <2>2. BranchShapes'
    BY <1>1, <1>3, <2>1 DEF WavesInv, BranchShapes, RunStates, roots
  <2>3. Charged'
    BY <1>1, <1>3, <2>1 DEF WavesInv, Charged, BranchShapes
  <2>4. outcome'[b] = o /\ \A c \in Index \ {b} : outcome'[c] = outcome[c]
    BY <2>1 DEF WavesInv, BranchShapes
  <2> QED
    BY <1>1, <2>1, <2>2, <2>3, <2>4, BranchStepKeeps DEF RunStates
<1> QED
  BY <1>2, <1>3 DEF Enter

LEMMA WorkKeeps ==
    ASSUME WavesInv, NEW b \in Index, Work(b)
    PROVE  WavesInv'
<1> USE WavesAssumption
<1>1. /\ running[b] = "working" /\ phase = "run" /\ step[b] < Len(plan[b])
      /\ UNCHANGED <<roots, phase, offset, waveEnd, expired, result>>
  BY DEF Work
<1>2. PICK n \in Nat \ {0} : n = plan[b][step[b] + 1]
  <2>1. plan[b] \in Seq(Nat \ {0}) /\ step[b] + 1 \in 1 .. Len(plan[b])
    BY <1>1 DEF WavesInv, WaveShapes, BranchShapes
  <2> QED
    BY <2>1
<1>3. /\ shared' \in {shared, shared + n} /\ shared' <= MaximumExpansionCount
      /\ shared' \in 0 .. MaximumExpansionCount
      /\ \/ /\ spent[b] + n <= Share /\ shared' = shared + n
            /\ spent' = [spent EXCEPT ![b] = spent[b] + n]
            /\ step' = [step EXCEPT ![b] = step[b] + 1]
            /\ UNCHANGED <<running, outcome>>
         \/ End(b, FALSE, TRUE, FALSE) /\ UNCHANGED <<spent, step>>
  <2>1. shared \in 0 .. MaximumExpansionCount
    BY DEF WavesInv, Charged
  <2>2. \/ /\ spent[b] + n <= Share /\ shared + n <= MaximumExpansionCount
           /\ shared' = shared + n
           /\ spent' = [spent EXCEPT ![b] = spent[b] + n]
           /\ step' = [step EXCEPT ![b] = step[b] + 1]
           /\ UNCHANGED <<running, outcome>>
        \/ /\ shared' = shared \/ (shared' = shared + n /\ shared + n <= MaximumExpansionCount)
           /\ End(b, FALSE, TRUE, FALSE) /\ UNCHANGED <<spent, step>>
    BY <1>2 DEF Work
  <2>3. CASE /\ spent[b] + n <= Share /\ shared + n <= MaximumExpansionCount
             /\ shared' = shared + n
             /\ spent' = [spent EXCEPT ![b] = spent[b] + n]
             /\ step' = [step EXCEPT ![b] = step[b] + 1]
             /\ UNCHANGED <<running, outcome>>
    <3>1. shared' \in 0 .. MaximumExpansionCount /\ shared' <= MaximumExpansionCount
      BY <2>1, <2>3
    <3> QED
      BY <2>3, <3>1
  <2>4. CASE /\ shared' = shared \/ (shared' = shared + n /\ shared + n <= MaximumExpansionCount)
             /\ End(b, FALSE, TRUE, FALSE) /\ UNCHANGED <<spent, step>>
    <3>1. shared' \in 0 .. MaximumExpansionCount /\ shared' <= MaximumExpansionCount
      BY <2>1, <2>4
    <3> QED
      BY <2>4, <3>1
  <2> QED
    BY <2>2, <2>3, <2>4
<1>4. spent \in [Index -> Nat] /\ UpTo(spent)[Branches] \in Nat
      /\ UpTo(spent)[Branches] <= shared /\ shared \in Nat
  <2>1. spent \in [Index -> Nat]
    BY ShareIsPositive DEF WavesInv, BranchShapes
  <2> QED
    BY <2>1, UpToSums DEF Sums, WavesInv, Charged
<1>5. CASE /\ spent[b] + n <= Share /\ shared' = shared + n
           /\ spent' = [spent EXCEPT ![b] = spent[b] + n]
           /\ step' = [step EXCEPT ![b] = step[b] + 1]
           /\ UNCHANGED <<running, outcome>>
  <2>1. BranchShapes'
    <3>1. spent[b] + n \in 0 .. Share
      BY <1>5, ShareIsPositive DEF WavesInv, BranchShapes
    <3>2. Len(plan[b]) \in Nat /\ step[b] + 1 <= Len(plan[b]) /\ step[b] + 1 \in Nat
      BY <1>1 DEF WavesInv, WaveShapes, BranchShapes
    <3> QED
      BY <1>1, <1>5, <3>1, <3>2 DEF WavesInv, BranchShapes, roots
  <2>2. Charged'
    <3>1. PICK f, g : f = spent /\ g = spent'
      OBVIOUS
    <3>2. UpTo(g)[Branches] = UpTo(f)[Branches] + n
      BY <1>4, <1>5, <3>1, SpendMore
    <3>3. UpTo(g)[Branches] <= shared'
      BY <1>4, <1>5, <3>1, <3>2
    <3>4. \A c \in Index : running'[c] \in {"idle", "entering"} => spent'[c] = 0
      BY <1>1, <1>5 DEF WavesInv, Charged, BranchShapes
    <3> QED
      BY <1>3, <3>1, <3>3, <3>4 DEF Charged
  <2>3. running' = [running EXCEPT ![b] = "working"]
    BY <1>1, <1>5 DEF WavesInv, BranchShapes
  <2> QED
    BY <1>1, <1>5, <2>1, <2>2, <2>3, BranchStepKeeps DEF RunStates
<1>6. CASE End(b, FALSE, TRUE, FALSE) /\ UNCHANGED <<spent, step>>
  <2>1. PICK o \in Outcomes :
          /\ running' = [running EXCEPT ![b] = "ended"]
          /\ outcome' = [outcome EXCEPT ![b] = o]
          /\ ~o.success /\ o.budget /\ ~o.deadline
    <3> DEFINE o == [success |-> FALSE, budget |-> TRUE, deadline |-> FALSE]
    <3>1. o \in Outcomes
      BY DEF Outcomes
    <3> QED
      BY <1>6, <3>1 DEF End
  <2>2. BranchShapes'
    BY <1>1, <1>6, <2>1 DEF WavesInv, BranchShapes, RunStates, roots
  <2>3. Charged'
    <3>1. UpTo(spent)[Branches] <= shared'
      BY <1>2, <1>3, <1>4
    <3>2. \A c \in Index : running'[c] \in {"idle", "entering"} => spent'[c] = 0
      BY <1>6, <2>1 DEF WavesInv, Charged, BranchShapes
    <3> QED
      BY <1>3, <1>6, <3>1, <3>2 DEF Charged
  <2>4. outcome'[b] = o /\ \A c \in Index \ {b} : outcome'[c] = outcome[c]
    BY <2>1 DEF WavesInv, BranchShapes
  <2> QED
    BY <1>1, <2>1, <2>2, <2>3, <2>4, BranchStepKeeps DEF RunStates
<1> QED
  BY <1>3, <1>5, <1>6

LEMMA ReturnKeeps ==
    ASSUME WavesInv, NEW b \in Index, Return(b)
    PROVE  WavesInv'
<1>1. /\ running[b] = "working" /\ phase = "run"
      /\ UNCHANGED <<roots, phase, offset, waveEnd, spent, step, shared, expired, result>>
  BY DEF Return
<1>2. PICK o \in Outcomes :
        /\ running' = [running EXCEPT ![b] = "ended"]
        /\ outcome' = [outcome EXCEPT ![b] = o]
        /\ o.success => feasible[b]
        /\ feasible[b] => o.success \/ o.budget \/ o.deadline
        /\ o.deadline => expired
  <2>1. expired \in BOOLEAN /\ feasible[b] \in BOOLEAN
    BY DEF WavesInv, WaveShapes
  <2>2. CASE End(b, feasible[b], FALSE, expired)
    <3> DEFINE o == [success |-> feasible[b], budget |-> FALSE, deadline |-> expired]
    <3>1. o \in Outcomes
      BY <2>1 DEF Outcomes
    <3> QED
      BY <2>2, <3>1 DEF End
  <2>3. CASE expired /\ End(b, FALSE, FALSE, TRUE)
    <3> DEFINE o == [success |-> FALSE, budget |-> FALSE, deadline |-> TRUE]
    <3>1. o \in Outcomes
      BY DEF Outcomes
    <3> QED
      BY <2>3, <3>1 DEF End
  <2> QED
    BY <2>2, <2>3 DEF Return
<1>3. BranchShapes'
  BY <1>1, <1>2 DEF WavesInv, BranchShapes, RunStates, roots
<1>4. Charged'
  BY <1>1, <1>2 DEF WavesInv, Charged, BranchShapes
<1>5. outcome'[b] = o /\ \A c \in Index \ {b} : outcome'[c] = outcome[c]
  BY <1>2 DEF WavesInv, BranchShapes
<1> QED
  BY <1>1, <1>2, <1>3, <1>4, <1>5, BranchStepKeeps DEF RunStates

LEMMA StartWaveKeeps ==
    ASSUME WavesInv, StartWave
    PROVE  WavesInv'
<1> USE WavesAssumption
<1>1. /\ phase = "start" /\ offset < Branches /\ phase' = "run"
      /\ running' = [b \in Index |-> IF b \in offset + 1 .. waveEnd'
                                       THEN "entering" ELSE running[b]]
      /\ UNCHANGED <<roots, offset, spent, step, outcome, shared, expired, result>>
  BY DEF StartWave
<1>2. offset \in Nat /\ waveEnd = offset /\ consumed = offset
  BY <1>1 DEF WavesInv, WaveShapes, WavesInOrder
<1>3. waveEnd' \in offset .. Branches
  <2>1. PICK ways \in Nat : waveEnd' = Lesser(offset + ways, Branches)
    BY <1>1 DEF StartWave
  <2> QED
    BY <1>1, <1>2, <2>1 DEF Lesser
<1>4. WaveShapes'
  BY <1>1, <1>2, <1>3 DEF WavesInv, WaveShapes, roots, result
<1>5. BranchShapes'
  BY <1>1 DEF WavesInv, BranchShapes, RunStates, roots
<1>6. \A b \in Index : b > offset => running[b] = "idle"
  BY <1>2 DEF WavesInv, WavesInOrder
<1>7. \A b \in Index : running'[b] = running[b] \/ (running'[b] = "entering" /\ b > offset)
  BY <1>1, <1>2, <1>3 DEF Index
<1>8. Charged'
  BY <1>1, <1>6, <1>7 DEF WavesInv, Charged
<1>9. WavesInOrder'
  <2>1. \A b \in 1 .. consumed : b \in Index /\ ~(b > offset)
    BY <1>1, <1>2 DEF Index
  <2>2. \A b \in 1 .. consumed : running'[b] = "ended"
    BY <1>7, <2>1 DEF WavesInv, WavesInOrder
  <2>3. \A b \in Index : b > waveEnd' => running'[b] = "idle"
    BY <1>1, <1>2, <1>3, <1>6 DEF Index
  <2> QED
    BY <1>1, <1>2, <2>2, <2>3 DEF WavesInOrder, result
<1>10. OutcomesAreTrue'
  BY <1>1, <1>7 DEF WavesInv, OutcomesAreTrue, roots
<1>11. Consumed'
  BY <1>1 DEF WavesInv, Consumed, Passed, result
<1> QED
  BY <1>4, <1>5, <1>8, <1>9, <1>10, <1>11 DEF WavesInv

\* Steps that leave the branches and their charges alone.
LEMMA ControlKeeps ==
    ASSUME WavesInv, UNCHANGED <<roots, branch, shared>>,
           expired => expired', WaveShapes', WavesInOrder', Consumed'
    PROVE  WavesInv'
<1>1. BranchShapes' /\ Charged'
  BY DEF WavesInv, BranchShapes, Charged, roots, branch
<1>2. OutcomesAreTrue'
  BY DEF WavesInv, OutcomesAreTrue, roots, branch
<1> QED
  BY <1>1, <1>2 DEF WavesInv

LEMMA JoinKeeps ==
    ASSUME WavesInv, Join
    PROVE  WavesInv'
<1>1. /\ phase = "run" /\ phase' = "consume"
      /\ \A b \in offset + 1 .. waveEnd : running[b] = "ended"
      /\ UNCHANGED <<roots, offset, waveEnd, branch, shared, expired, result>>
  BY DEF Join
<1>2. WaveShapes'
  BY <1>1 DEF WavesInv, WaveShapes, roots, result
<1>3. WavesInOrder'
  <2>1. consumed = offset /\ offset \in Nat /\ waveEnd \in Nat
    BY <1>1, WavesAssumption DEF WavesInv, WavesInOrder, WaveShapes
  <2>2. \A b \in 1 .. waveEnd : b \in 1 .. consumed \/ b \in offset + 1 .. waveEnd
    BY <2>1
  <2>3. \A b \in 1 .. waveEnd : running[b] = "ended"
    BY <1>1, <2>2 DEF WavesInv, WavesInOrder
  <2> QED
    BY <1>1, <2>3 DEF WavesInv, WavesInOrder, branch, result
<1>4. Consumed'
  BY <1>1 DEF WavesInv, Consumed, Passed, branch, result
<1> QED
  BY <1>1, <1>2, <1>3, <1>4, ControlKeeps

LEMMA ConsumeKeeps ==
    ASSUME WavesInv, Consume
    PROVE  WavesInv'
<1> USE WavesAssumption
<1>1. /\ phase = "consume" /\ consumed < waveEnd /\ consumed' = consumed + 1
      /\ UNCHANGED <<roots, offset, waveEnd, branch, shared, expired>>
  BY DEF Consume
<1>2. /\ consumed \in Nat /\ waveEnd \in Nat /\ waveEnd <= Branches
      /\ consumed + 1 \in Index /\ consumed + 1 \in offset .. waveEnd
      /\ chosen = 0 /\ ~exhausted /\ exhausted \in BOOLEAN /\ anyLocal \in BOOLEAN
  BY <1>1 DEF WavesInv, WaveShapes, Index, Consumed
<1>3. PICK o \in Outcomes : o = outcome[consumed + 1]
  BY <1>2 DEF WavesInv, BranchShapes
<1>4. \/ o.deadline /\ phase' = "done" /\ UNCHANGED <<anyLocal, exhausted, chosen>>
      \/ phase' = "done" /\ exhausted' = TRUE /\ UNCHANGED <<anyLocal, chosen>>
      \/ /\ ~o.deadline
         /\ anyLocal' = (anyLocal \/ o.budget)
         /\ chosen' = IF o.success THEN consumed + 1 ELSE 0
         /\ phase' = IF o.success THEN "done" ELSE phase
         /\ UNCHANGED exhausted
  BY <1>3 DEF Consume
<1>5. running[consumed + 1] = "ended"
  BY <1>1, <1>2 DEF WavesInv, WavesInOrder
<1>6. WaveShapes'
  <2>1. o.budget \in BOOLEAN
    BY DEF Outcomes
  <2>2. /\ phase' \in {"start", "run", "consume", "done"} /\ chosen' \in 0 .. Branches
        /\ anyLocal' \in BOOLEAN /\ exhausted' \in BOOLEAN
    <3>1. phase' \in {"done", "consume"}
      BY <1>1, <1>4
    <3>2. chosen' \in {0, consumed + 1} /\ exhausted' \in BOOLEAN
      BY <1>2, <1>4
    <3>3. anyLocal' = anyLocal \/ anyLocal' = (anyLocal \/ o.budget)
      BY <1>4
    <3>4. anyLocal' \in BOOLEAN
      BY <1>2, <2>1, <3>3
    <3> QED
      BY <1>2, <3>1, <3>2, <3>4 DEF Index
  <2> QED
    BY <1>1, <1>2, <2>2 DEF WavesInv, WaveShapes, roots
<1>7. WavesInOrder'
  <2>1. phase' \in {"done", "consume"}
    BY <1>1, <1>4
  <2>2. \A b \in 1 .. consumed + 1 : b \in 1 .. consumed \/ b = consumed + 1
    BY <1>2
  <2> QED
    BY <1>1, <1>5, <2>1, <2>2 DEF WavesInv, WavesInOrder, branch
<1>8. \A b \in 1 .. consumed : Passed(b)'
  <2>1. anyLocal => anyLocal'
    BY <1>4
  <2>2. outcome' = outcome
    BY <1>1 DEF branch
  <2> QED
    BY <1>1, <2>1, <2>2 DEF WavesInv, Consumed, Passed
<1>9. outcome' = outcome /\ expired' = expired /\ consumed' - 1 = consumed
      /\ \A b \in 1 .. consumed' : b \in 1 .. consumed \/ b = consumed + 1
  BY <1>1, <1>2 DEF branch
<1>10. Consumed'
  <2>1. CASE o.deadline /\ phase' = "done" /\ UNCHANGED <<anyLocal, exhausted, chosen>>
    <3>1. expired'
      BY <1>2, <1>3, <1>5, <1>9, <2>1 DEF WavesInv, OutcomesAreTrue
    <3> QED
      BY <1>2, <1>8, <1>9, <2>1, <3>1 DEF Consumed
  <2>2. CASE phase' = "done" /\ exhausted' = TRUE /\ UNCHANGED <<anyLocal, chosen>>
    BY <1>2, <1>8, <1>9, <2>2 DEF Consumed
  <2>3. CASE /\ ~o.deadline
             /\ anyLocal' = (anyLocal \/ o.budget)
             /\ chosen' = IF o.success THEN consumed + 1 ELSE 0
             /\ phase' = IF o.success THEN "done" ELSE phase
             /\ UNCHANGED exhausted
    <3>1. CASE o.success
      <4>1. chosen' = consumed' /\ chosen' # 0 /\ phase' = "done" /\ outcome'[chosen'].success
        BY <1>1, <1>2, <1>3, <1>9, <2>3, <3>1
      <4> QED
        BY <1>8, <1>9, <4>1 DEF Consumed
    <3>2. CASE ~o.success
      <4>1. ASSUME NEW b, b = consumed + 1 PROVE Passed(b)'
        BY <1>1, <1>3, <1>9, <2>3, <3>2, <4>1 DEF Passed
      <4>2. phase' = "consume" /\ chosen' = 0 /\ ~exhausted'
        BY <1>1, <1>2, <2>3, <3>2
      <4>3. \A b \in 1 .. consumed' : Passed(b)'
        BY <1>1, <1>8, <1>9, <4>1
      <4> QED
        BY <4>2, <4>3 DEF Consumed
    <3> QED
      BY <3>1, <3>2
  <2> QED
    BY <1>4, <2>1, <2>2, <2>3
<1> QED
  BY <1>1, <1>6, <1>7, <1>10, ControlKeeps

LEMMA WaveEndKeeps ==
    ASSUME WavesInv, NextWave \/ NoWaveLeft \/ RootDeadlinePasses \/ UNCHANGED wavesVars
    PROVE  WavesInv'
<1> USE WavesAssumption
<1>1. CASE NextWave
  <2>1. /\ phase = "consume" /\ consumed = waveEnd /\ offset' = waveEnd /\ phase' = "start"
        /\ UNCHANGED <<roots, waveEnd, branch, shared, expired, result>>
    BY <1>1 DEF NextWave
  <2>2. WaveShapes'
    BY <2>1 DEF WavesInv, WaveShapes, roots, result
  <2>3. WavesInOrder'
    BY <2>1 DEF WavesInv, WavesInOrder, branch, result
  <2>4. Consumed'
    BY <2>1 DEF WavesInv, Consumed, Passed, branch, result
  <2> QED
    BY <2>1, <2>2, <2>3, <2>4, ControlKeeps
<1>2. CASE NoWaveLeft
  <2>1. /\ phase = "start" /\ offset = Branches /\ phase' = "done"
        /\ UNCHANGED <<roots, offset, waveEnd, branch, shared, expired, result>>
    BY <1>2 DEF NoWaveLeft
  <2>2. WaveShapes'
    BY <2>1 DEF WavesInv, WaveShapes, roots, result
  <2>3. WavesInOrder'
    BY <2>1 DEF WavesInv, WavesInOrder, branch, result
  <2>4. consumed = Branches /\ \A b \in Index : Passed(b)
    BY <2>1 DEF WavesInv, WavesInOrder, Consumed, Index
  <2>5. chosen = 0 /\ \A b \in 1 .. consumed - 1 : b \in Index
    BY <2>1, <2>4 DEF WavesInv, Consumed, Index
  <2>6. Consumed'
    BY <2>1, <2>4, <2>5 DEF Consumed, Passed, branch, result
  <2> QED
    BY <2>1, <2>2, <2>3, <2>6, ControlKeeps
<1>3. CASE RootDeadlinePasses
  <2>1. /\ phase # "done" /\ expired' = TRUE
        /\ UNCHANGED <<roots, phase, offset, waveEnd, branch, shared, result>>
    BY <1>3 DEF RootDeadlinePasses
  <2>2. WaveShapes'
    BY <2>1 DEF WavesInv, WaveShapes, roots, result
  <2>3. WavesInOrder' /\ Consumed'
    BY <2>1 DEF WavesInv, WavesInOrder, Consumed, Passed, branch, result
  <2> QED
    BY <2>1, <2>2, <2>3, ControlKeeps
<1>4. CASE UNCHANGED wavesVars
  <2>1. /\ UNCHANGED <<roots, phase, offset, waveEnd, branch, shared, expired, result>>
    BY <1>4 DEF wavesVars
  <2>2. WaveShapes'
    BY <2>1 DEF WavesInv, WaveShapes, roots, result
  <2>3. WavesInOrder' /\ Consumed'
    BY <2>1 DEF WavesInv, WavesInOrder, Consumed, Passed, branch, result
  <2> QED
    BY <2>1, <2>2, <2>3, ControlKeeps
<1> QED
  BY <1>1, <1>2, <1>3, <1>4

LEMMA WavesInvHolds == WavesSpec => []WavesInv
<1>1. WavesInv /\ [WavesNext]_wavesVars => WavesInv'
  BY EnterKeeps, WorkKeeps, ReturnKeeps, StartWaveKeeps, JoinKeeps, ConsumeKeeps,
     WaveEndKeeps
  DEF WavesNext, WorkerStep, Control, Finished
<1> QED
  BY <1>1, InitWavesInv, PTL DEF WavesSpec

\* The expansions that racing branches make are all in the shared counter,
\* bundles and charges without an expansion included, and the counter stays
\* within the budget: for any number of branches, threads and requests.
THEOREM WavesStayCharged == WavesSpec => []WorkIsCharged
<1>1. WavesInv => WorkIsCharged
  <2> SUFFICES ASSUME WavesInv PROVE WorkIsCharged
    OBVIOUS
  <2>1. \A b \in Index : Len(plan[b]) \in Nat
    BY DEF WavesInv, WaveShapes
  <2>2. WavesTypeOK
    BY <2>1, WavesAssumption
       DEF WavesInv, WaveShapes, BranchShapes, Charged, WavesTypeOK, RunStates
  <2>3. Spent = UpTo(spent)[Branches]
    BY DEF Spent, UpTo
  <2> QED
    BY <2>2, <2>3 DEF WavesInv, Charged, WorkIsCharged
<1> QED
  BY <1>1, WavesInvHolds, PTL

\* The first witness in candidate order is taken: a branch before it was
\* searched to its end without one, or cut by a budget.
THEOREM NoneIsPassedOver == WavesSpec => []PassedOverOnlyWhenCut
<1>1. WavesInv => PassedOverOnlyWhenCut
  <2> SUFFICES ASSUME WavesInv, chosen # 0
               PROVE  /\ feasible[chosen]
                      /\ \A b \in 1 .. chosen - 1 :
                            running[b] = "ended" /\ (feasible[b] => outcome[b].budget)
    BY DEF PassedOverOnlyWhenCut, Success
  <2>1. phase = "done" /\ chosen = consumed /\ outcome[chosen].success
    BY DEF WavesInv, Consumed
  <2>2. chosen \in 1 .. consumed /\ chosen \in Index
        /\ \A b \in 1 .. chosen - 1 : b \in 1 .. consumed /\ b \in Index
    BY <2>1, WavesAssumption DEF WavesInv, WaveShapes, Index
  <2>3. \A b \in 1 .. consumed : running[b] = "ended"
    BY DEF WavesInv, WavesInOrder
  <2>4. feasible[chosen]
    BY <2>1, <2>2, <2>3 DEF WavesInv, OutcomesAreTrue
  <2>5. \A b \in 1 .. chosen - 1 : Passed(b)
    BY <2>1 DEF WavesInv, Consumed
  <2> QED
    BY <2>2, <2>3, <2>4, <2>5 DEF WavesInv, OutcomesAreTrue, Passed
<1> QED
  BY <1>1, WavesInvHolds, PTL

-----------------------------------------------------------------------------
(* The answer.                                                             *)

RootSolvable == \E b \in Index : feasible[b]

LEMMA WavesAnswerCases ==
    /\ phase # "done" => Answer = "none"
    /\ phase = "done" =>
         \/ Answer = "incomplete"
         \/ Answer = "witness" /\ Success
         \/ Answer = "unsatisfiable" /\ ~expired /\ ~Success /\ ~BudgetExhausted
<1>1. CASE phase # "done"
  BY <1>1, Zenon DEF Answer
<1>2. CASE phase = "done" /\ expired
  BY <1>2, Zenon DEF Answer
<1>3. CASE phase = "done" /\ ~expired /\ Success
  BY <1>3, Zenon DEF Answer
<1>4. CASE phase = "done" /\ ~expired /\ ~Success /\ BudgetExhausted
  BY <1>4, Zenon DEF Answer
<1>5. CASE phase = "done" /\ ~expired /\ ~Success /\ ~BudgetExhausted
  BY <1>5, Zenon DEF Answer
<1> QED
  BY <1>1, <1>2, <1>3, <1>4, <1>5

\* The waves answer once, true only where some branch has a witness and
\* "unsatisfiable" only where none has; that they answer is liveness, left to
\* the model checker.
THEOREM WavesAreHonest ==
    WavesSpec => Promise!Init /\ [][Promise!Next]_<<RootSolvable, Answer>>
<1> DEFINE Honest == /\ Answer = "witness" => RootSolvable
                     /\ Answer = "unsatisfiable" => ~RootSolvable
<1>1. WavesInit => Promise!Init
  <2> SUFFICES ASSUME WavesInit PROVE Promise!Init
    OBVIOUS
  <2>1. Answer = "none"
    BY WavesAnswerCases DEF WavesInit
  <2> QED
    BY <2>1 DEF Promise!Init
<1>2. WavesInv => Honest
  <2>1. ASSUME WavesInv, Answer = "witness" PROVE RootSolvable
    <3>1. chosen # 0 /\ outcome[chosen].success /\ chosen = consumed
      BY <2>1, WavesAnswerCases DEF Success, WavesInv, Consumed
    <3>2. chosen \in 1 .. consumed /\ chosen \in Index
      BY <2>1, <3>1, WavesAssumption DEF WavesInv, WaveShapes, Index
    <3>3. running[chosen] = "ended"
      BY <2>1, <3>2 DEF WavesInv, WavesInOrder
    <3> QED
      BY <2>1, <3>1, <3>2, <3>3 DEF WavesInv, OutcomesAreTrue, RootSolvable
  <2>2. ASSUME WavesInv, Answer = "unsatisfiable", NEW b \in Index, feasible[b] PROVE FALSE
    <3>1. phase = "done" /\ ~expired /\ chosen = 0 /\ ~exhausted /\ ~anyLocal
      BY <2>2, WavesAnswerCases DEF Success, BudgetExhausted
    <3>2. consumed = Branches /\ Passed(b)
      BY <2>2, <3>1 DEF WavesInv, Consumed
    <3>3. running[b] = "ended"
      BY <2>2, <3>2 DEF WavesInv, WavesInOrder, Index
    <3> QED
      BY <2>2, <3>1, <3>2, <3>3 DEF WavesInv, OutcomesAreTrue, Passed
  <2> QED
    BY <2>1, <2>2 DEF RootSolvable
<1>3. Honest' /\ [WavesNext]_wavesVars => [Promise!Next]_<<RootSolvable, Answer>>
  <2> SUFFICES ASSUME Honest', [WavesNext]_wavesVars
               PROVE  [Promise!Next]_<<RootSolvable, Answer>>
    OBVIOUS
  <2>1. RootSolvable' = RootSolvable
    BY DEF WavesNext, WorkerStep, Control, Finished, RootDeadlinePasses, Enter, Work, Return,
           StartWave, Join, Consume, NextWave, NoWaveLeft, wavesVars, roots, RootSolvable
  <2>2. CASE phase = "done"
    <3>1. UNCHANGED wavesVars
      BY <2>2 DEF WavesNext, WorkerStep, Control, Finished, RootDeadlinePasses, Enter, Work,
                  Return, StartWave, Join, Consume, NextWave, NoWaveLeft
    <3>2. Answer' = Answer
      BY <3>1 DEF wavesVars, result, Answer, Success, BudgetExhausted
    <3> QED
      BY <2>1, <3>2
  <2>3. CASE phase # "done"
    <3>1. Answer = "none"
      BY <2>3, WavesAnswerCases
    <3>2. Answer' \in {"none", "witness", "unsatisfiable", "incomplete"}
      BY DEF Answer
    <3>3. /\ Answer' = "witness" => RootSolvable
          /\ Answer' = "unsatisfiable" => ~RootSolvable
      BY <2>1
    <3> QED
      BY <2>1, <3>1, <3>2, <3>3 DEF Promise!Next, Promise!Answer, RootSolvable
  <2> QED
    BY <2>2, <2>3
<1> QED
  BY <1>1, <1>2, <1>3, WavesInvHolds, PTL DEF WavesSpec
===============================================================================
