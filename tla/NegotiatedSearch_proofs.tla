------------------------ MODULE NegotiatedSearch_proofs ------------------------
(***************************************************************************)
(* What the negotiated search guarantees for any signals, trees, problems  *)
(* and limits: the inputs of the route searches follow the selection, the  *)
(* stagnation count is honest, the exact assignment is given all that is   *)
(* known before the search gives up, and a failure names the signals in    *)
(* conflict.                                                               *)
(*                                                                         *)
(* The counts follow since a commit takes out the tree it replaces.  That  *)
(* a signal in rip-up is always known to the exact assignment holds for    *)
(* pass zero by what is routed, and for later passes because nothing ever  *)
(* leaves the retained options; so an expansion, which later passes do not *)
(* retain, can only happen in pass zero.                                   *)
(***************************************************************************)
EXTENDS NegotiatedSearch, FiniteSetTheorems, SequenceTheorems, TLAPS

\* The functions are defined on the signals, which TypeOK leaves open.
Shapes ==
    /\ selected \in [Signals -> Candidates \union {None}]
    /\ options \in [Signals -> SUBSET Candidates]

\* Every pass appends one count, and every signal of it is routed at its end.
Progress ==
    /\ phase \notin Ends => Len(overflow) = pass /\ stagnation <= pass
    /\ phase \in {"route", "assign", "retry", "close"} => pass < MaximumIterations
    /\ phase \in {"start", "assign", "retry", "close"} => toRoute = {}
    /\ phase \notin Ends /\ best = None => overflow = << >>

\* A pass begins with the conflicts and the repairs of the selection.
BeginsWithSelection ==
    phase = "start" =>
        /\ pass > 0 => conflictSignals = SignalsIn(selected)
        /\ \A s \in Signals : repair[s] \in {None, selected[s]}

Considered == offered = options \/ (problem.complete /\ ~discovered)

\* None of the limits is near, by the stagnation before the pass is counted.
RetryNotDue ==
    /\ ~problem.localClaims
    /\ pass + 1 < MaximumIterations
    /\ stagnation < StagnationPassLimit - 2

\* A pass that ends in conflicts has offered what is known, unless the search
\* goes on whatever the conflicts are.
Offering ==
    /\ OfferedBeforeGivingUp
    /\ pass = 0 => ~discovered
    /\ phase \in {"assign", "retry"} => offered = options
    /\ phase = "close" /\ FinalConflicts(selected) # {} => Considered \/ RetryNotDue
    /\ phase = "start" /\ pass = MaximumIterations => Considered

IInv ==
    /\ Shapes
    /\ InputsFollowSelection
    /\ Progress
    /\ BeginsWithSelection
    /\ Offering
    /\ StagnationIsHonest
    /\ FailureNamesTheConflicting

-----------------------------------------------------------------------------
(* Operators.                                                              *)

LEMMA ProblemFixed ==
    ASSUME UNCHANGED problem
    PROVE  /\ \A c : Uses(c)' = Uses(c)
           /\ \A table, r : Owners(table, r)' = Owners(table, r)
           /\ \A table : PresentCounts(table)' = PresentCounts(table)
           /\ \A table : FinalConflicts(table)' = FinalConflicts(table)
           /\ \A table : SignalsIn(table)' = SignalsIn(table)
BY DEF Uses, Owners, PresentCounts, FinalConflicts, SignalsIn

LEMMA ProblemFacts ==
    ASSUME problem \in Problems
    PROVE  /\ problem.of \in [Signals -> SUBSET Candidates]
           /\ problem.seeds \in [Signals -> SUBSET Candidates]
           /\ problem.initial \in [Signals -> SUBSET Candidates]
           /\ \A s \in Signals : (problem.seeds[s] \union problem.initial[s]) \subseteq problem.of[s]
           /\ None \notin Candidates /\ None \notin Nat
           /\ MaximumIterations \in Nat \ {0} /\ RoomLimit \in Nat
           /\ CompletionRoundLimit \in Nat
BY NegotiationAssumption DEF ProblemType

LEMMA OwnersAreCounted ==
    ASSUME NEW table, NEW r
    PROVE  /\ IsFiniteSet(Owners(table, r))
           /\ Cardinality(Owners(table, r)) \in 0 .. Cardinality(Signals)
<1>1. Owners(table, r) \in SUBSET Signals
  BY DEF Owners
<1> QED BY <1>1, FS_Subset, FS_CardinalityType, NegotiationAssumption

LEMMA PresentCountsType ==
    ASSUME NEW table
    PROVE  PresentCounts(table) \in [Resources -> 0 .. Cardinality(Signals)]
BY OwnersAreCounted DEF PresentCounts

LEMMA ConflictsAreCounted ==
    ASSUME NEW table
    PROVE  Cardinality(FinalConflicts(table)) \in Nat /\ SignalsIn(table) \subseteq Signals
<1>1. FinalConflicts(table) \in SUBSET Resources
  BY DEF FinalConflicts
<1>2. SignalsIn(table) \subseteq Signals
  BY DEF SignalsIn, Owners
<1> QED BY <1>1, <1>2, FS_Subset, FS_CardinalityType, NegotiationAssumption

Member(x, S) == IF x \in S THEN 1 ELSE 0

LEMMA CountedAgain ==
    ASSUME NEW S, NEW T, NEW x, IsFiniteSet(S), T \ {x} = S \ {x}
    PROVE  Cardinality(T) = Cardinality(S) - Member(x, S) + Member(x, T)
<1>1. /\ IsFiniteSet(S \ {x}) /\ Cardinality(S) \in Nat
      /\ Cardinality(S \ {x}) = Cardinality(S) - Member(x, S)
  BY FS_RemoveElement, FS_CardinalityType DEF Member
<1>2. CASE x \in T
  <2>1. T = (S \ {x}) \union {x}
    BY <1>2
  <2>2. Cardinality(T) = Cardinality(S \ {x}) + 1
    BY <1>1, <2>1, FS_AddElement
  <2> QED BY <1>1, <1>2, <2>2 DEF Member
<1>3. CASE x \notin T
  <2>1. T = S \ {x}
    BY <1>3
  <2>2. Cardinality(T) = Cardinality(S) - Member(x, S)
    BY <1>1, <2>1
  <2> QED BY <1>1, <1>3, <2>2 DEF Member
<1> QED BY <1>2, <1>3

\* Replacing the tree of one signal changes the counts by the two trees.
CountsFollow(before, after, s, c, r) ==
    Cardinality(Owners(after, r))
      = Cardinality(Owners(before, r)) - Count(before[s], r) + Count(c, r)

LEMMA OwnersAfterCommit ==
    ASSUME NEW s \in Signals, NEW c, NEW r, selected'[s] = c,
           \A t \in Signals \ {s} : selected'[t] = selected[t]
    PROVE  CountsFollow(selected, selected', s, c, r)
<1>1. PICK after : after = selected'
  OBVIOUS
<1>2. /\ Owners(after, r) \ {s} = Owners(selected, r) \ {s}
      /\ Member(s, Owners(selected, r)) = Count(selected[s], r)
      /\ Member(s, Owners(after, r)) = Count(c, r)
  BY <1>1 DEF Owners, Member, Count
<1>3. IsFiniteSet(Owners(selected, r))
  BY OwnersAreCounted
<1>4. Cardinality(Owners(after, r)) = Cardinality(Owners(selected, r))
        - Member(s, Owners(selected, r)) + Member(s, Owners(after, r))
  BY <1>2, <1>3, CountedAgain, Zenon
<1> QED BY <1>1, <1>2, <1>4 DEF CountsFollow

-----------------------------------------------------------------------------
(* The start, and the steps that route a signal.                           *)

LEMMA InitIInv == Init => IInv
<1> SUFFICES ASSUME Init PROVE IInv
  OBVIOUS
<1>1. /\ problem \in Problems /\ phase = "start" /\ pass = 0 /\ toRoute = {}
      /\ options = [s \in Signals |-> problem.seeds[s] \union problem.initial[s]]
      /\ offered = [s \in Signals |-> {}] /\ conflictSignals = Signals /\ cumulative = {}
      /\ best = None /\ stagnation = 0 /\ overflow = << >> /\ repair = NoRoute
      /\ rooms = [s \in Signals |-> RoomLimit] /\ exactCut = FALSE /\ rounds = 0
      /\ affected = {} /\ discovered = FALSE /\ present = [r \in Resources |-> 0]
  BY DEF Init
<1>2. /\ selected \in [Signals -> Candidates \union {None}]
      /\ \A s \in Signals : selected[s] \in problem.seeds[s] \union {None}
  BY DEF Init
<1>3. TypeOK
  <2>1. 0 \in 0 .. Cardinality(Signals)
    BY FS_CardinalityType, NegotiationAssumption
  <2>2. /\ overflow \in Seq(Nat) /\ Len(overflow) = 0
        /\ repair \in [Signals -> Candidates \union {None}]
    BY <1>1 DEF NoRoute
  <2>3. \A s \in Signals : options[s] \subseteq problem.of[s]
    BY <1>1, ProblemFacts
  <2>4. \A s \in Signals : selected[s] \in problem.of[s] \union {None}
    BY <1>1, <1>2, ProblemFacts
  <2>5. /\ MaximumIterations \in Nat /\ RoomLimit \in Nat /\ CompletionRoundLimit \in Nat
    BY NegotiationAssumption
  <2>6. /\ present \in [Resources -> 0 .. Cardinality(Signals)]
        /\ rooms \in [Signals -> 0 .. RoomLimit]
    BY <1>1, <2>1, <2>5
  <2>7. /\ discovered \in BOOLEAN /\ exactCut \in BOOLEAN
    BY <1>1
  <2>8. /\ pass \in 0 .. MaximumIterations /\ rounds \in 0 .. CompletionRoundLimit
        /\ stagnation \in 0 .. MaximumIterations /\ Len(overflow) <= MaximumIterations
        /\ toRoute \subseteq Signals /\ conflictSignals \subseteq Signals
        /\ cumulative \subseteq Signals /\ affected \subseteq Signals
    BY <1>1, <2>2, <2>5
  <2>9. /\ problem \in Problems /\ phase = "start" /\ best = None
    BY <1>1
  <2>10. offered \in [Signals -> SUBSET Candidates]
    BY <1>1
  <2> QED BY <2>2, <2>3, <2>4, <2>6, <2>7, <2>8, <2>9, <2>10 DEF TypeOK
<1>4. Shapes
  BY <1>1, <1>2, ProblemFacts DEF Shapes
<1>5. InputsFollowSelection
  BY <1>1, <1>3 DEF InputsFollowSelection, SelectionIsKnown
<1>6. Progress /\ BeginsWithSelection
  BY <1>1 DEF Progress, BeginsWithSelection, NoRoute, Ends
<1>7. Offering /\ StagnationIsHonest /\ FailureNamesTheConflicting
  BY <1>1, NegotiationAssumption
     DEF Offering, OfferedBeforeGivingUp, StagnationIsHonest, FailureNamesTheConflicting
<1> QED BY <1>3, <1>4, <1>5, <1>6, <1>7 DEF IInv

LEMMA StartPassStep == IInv /\ StartPass => IInv'
<1> SUFFICES ASSUME IInv, StartPass PROVE IInv'
  OBVIOUS
<1> USE DEF IInv, InputsFollowSelection, StartPass
<1>1. TypeOK'
  BY ProblemFacts, PresentCountsType DEF TypeOK, Shapes, NoRoute
<1>2. Shapes'
  BY DEF Shapes
<1>3. SelectionIsKnown'
  BY DEF SelectionIsKnown
<1>4. present' = PresentCounts(selected)'
  BY ProblemFixed
<1>5. \A s \in Signals : repair'[s] \in {None, selected'[s]}
  BY DEF BeginsWithSelection, NoRoute
<1>6. InputsFollowSelection'
  BY <1>1, <1>3, <1>4, <1>5 DEF TypeOK
<1>7. Progress' /\ BeginsWithSelection'
  BY DEF Progress, BeginsWithSelection, Ends
<1>8. Offering' /\ StagnationIsHonest' /\ FailureNamesTheConflicting'
  BY DEF Offering, OfferedBeforeGivingUp, StagnationIsHonest, FailureNamesTheConflicting
<1> QED BY <1>2, <1>6, <1>7, <1>8

\* What was known of a signal before it was popped is of its own trees, and
\* whatever is settled on is among it.
LEMMA KnownFacts ==
    ASSUME IInv, phase = "route", NEW s \in toRoute
    PROVE  /\ s \in Signals
           /\ Known(s) \subseteq problem.of[s] /\ Settled(s) \subseteq Known(s)
           /\ pass > 0 => Known(s) # {}
<1> USE DEF IInv, InputsFollowSelection
<1>1. s \in Signals /\ problem \in Problems /\ pass \in Nat
  BY DEF TypeOK
<1>2. /\ options[s] \subseteq problem.of[s]
      /\ selected[s] # None => selected[s] \in problem.of[s]
  BY <1>1 DEF TypeOK
<1>3. pass > 0 => selected[s] \in options[s] /\ Known(s) = options[s]
  BY <1>1 DEF SelectionIsKnown, Known
<1>4. Known(s) \subseteq problem.of[s]
  BY <1>1, <1>2 DEF Known, Usable
<1>5. Usable(s) => selected[s] \in Known(s)
  BY <1>1, <1>3 DEF Known, Usable
<1>6. Settled(s) \subseteq Known(s)
  BY <1>5 DEF Settled, Least
<1> QED BY <1>1, <1>3, <1>4, <1>6

\* A commit of a tree that the options then hold keeps everything.
LEMMA RoutedStep ==
    ASSUME IInv, phase = "route", NEW s \in toRoute, NEW c \in problem.of[s],
           CommitSelectedCandidate(s, c), RouteDone(s),
           options' \in [Signals -> SUBSET Candidates], c \in options'[s],
           \A t \in Signals : options[t] \subseteq options'[t],
           \A t \in Signals : options'[t] \subseteq problem.of[t],
           rooms' \in [Signals -> 0 .. RoomLimit], discovered' \in BOOLEAN,
           pass = 0 => discovered' = discovered
    PROVE  IInv'
<1> USE DEF IInv, InputsFollowSelection, RouteDone
<1>1. /\ problem \in Problems /\ s \in Signals /\ pass \in Nat /\ UNCHANGED problem
      /\ None \notin Candidates /\ problem.of \in [Signals -> SUBSET Candidates]
      /\ c \in Candidates
  BY ProblemFacts DEF TypeOK
<1>2. /\ selected' = [selected EXCEPT ![s] = c]
      /\ selected' \in [Signals -> Candidates \union {None}]
      /\ selected'[s] = c
      /\ \A t \in Signals \ {s} : selected'[t] = selected[t]
  BY <1>1 DEF CommitSelectedCandidate, Shapes
<1>3. Shapes'
  BY <1>2 DEF Shapes
<1>4. present' = PresentCounts(selected)'
  <2>1. present = PresentCounts(selected)
    OBVIOUS
  <2>2. ASSUME NEW r \in Resources
        PROVE  present[r] - Count(selected[s], r) + Count(c, r)
                   = Cardinality(Owners(selected', r))
    <3>1. CountsFollow(selected, selected', s, c, r)
      BY <1>1, <1>2, OwnersAfterCommit, Zenon
    <3> QED BY <2>1, <3>1 DEF PresentCounts, CountsFollow
  <2>3. present' = PresentCounts(selected')
    BY <2>2 DEF CommitSelectedCandidate, PresentCounts
  <2> QED BY <1>1, <2>3, ProblemFixed
<1>5. TypeOK'
  <2>1. present' \in [Resources -> 0 .. Cardinality(Signals)]
    BY <1>1, <1>4, ProblemFixed, PresentCountsType
  <2>2. \A t \in Signals : selected'[t] \in problem'.of[t] \union {None}
    BY <1>1, <1>2 DEF TypeOK
  <2> QED BY <2>1, <2>2 DEF TypeOK
<1>6. SelectionIsKnown'
  <2> SUFFICES ASSUME NEW t \in Signals
               PROVE  \/ pass' = 0 /\ t \in toRoute'
                      \/ selected'[t] \in options'[t]
    BY DEF SelectionIsKnown
  <2>1. CASE t = s
    BY <1>2, <2>1
  <2>2. CASE t # s
    BY <1>2, <2>2 DEF SelectionIsKnown
  <2> QED BY <2>1, <2>2
<1>7. \A t \in toRoute' : repair'[t] \in {None, selected'[t]}
  BY <1>2 DEF TypeOK
<1>8. InputsFollowSelection'
  BY <1>4, <1>5, <1>6, <1>7
<1>9. Progress' /\ BeginsWithSelection'
  BY DEF Progress, BeginsWithSelection, Ends
<1>10. Offering' /\ StagnationIsHonest' /\ FailureNamesTheConflicting'
  BY DEF Offering, OfferedBeforeGivingUp, StagnationIsHonest, FailureNamesTheConflicting
<1> QED BY <1>3, <1>8, <1>9, <1>10

LEMMA UseKnownStep ==
    ASSUME IInv, phase = "route", NEW s \in toRoute, UseKnown(s) PROVE IInv'
<1>1. /\ s \in Signals /\ Known(s) \subseteq problem.of[s] /\ Settled(s) \subseteq Known(s)
  BY KnownFacts
<1>2. PICK c \in Settled(s) : CommitSelectedCandidate(s, c)
  BY DEF UseKnown
<1>3. /\ options \in [Signals -> SUBSET Candidates]
      /\ problem.of \in [Signals -> SUBSET Candidates]
      /\ \A t \in Signals : options[t] \subseteq problem.of[t]
      /\ rooms \in [Signals -> 0 .. RoomLimit] /\ discovered \in BOOLEAN
  BY ProblemFacts DEF IInv, Shapes, InputsFollowSelection, TypeOK
<1>4. /\ options' = [options EXCEPT ![s] = @ \union Known(s)] /\ RouteDone(s)
      /\ UNCHANGED <<discovered, rooms>>
  BY DEF UseKnown
<1> QED BY <1>1, <1>2, <1>3, <1>4, RoutedStep

LEMMA UseFoundStep ==
    ASSUME IInv, phase = "route", NEW s \in toRoute, UseFound(s) PROVE IInv'
<1>1. s \in Signals /\ Known(s) \subseteq problem.of[s]
  BY KnownFacts
<1>2. PICK found \in RouteRequests(s) :
        /\ \E c \in Least(s, Known(s) \union found) : CommitSelectedCandidate(s, c)
        /\ options' = [options EXCEPT ![s] = @ \union Known(s) \union found]
        /\ discovered' = (discovered \/ (pass > 0 /\ ~(found \subseteq options[s])))
  BY DEF UseFound
<1>3. PICK c \in Least(s, Known(s) \union found) : CommitSelectedCandidate(s, c)
  BY <1>2
<1>4. found \subseteq problem.of[s] /\ c \in Known(s) \union found
  BY <1>2, <1>3 DEF RouteRequests, Least
<1>5. /\ options \in [Signals -> SUBSET Candidates]
      /\ problem.of \in [Signals -> SUBSET Candidates]
      /\ \A t \in Signals : options[t] \subseteq problem.of[t]
      /\ rooms \in [Signals -> 0 .. RoomLimit]
  BY ProblemFacts DEF IInv, Shapes, InputsFollowSelection, TypeOK
<1>6. RouteDone(s) /\ UNCHANGED rooms
  BY DEF UseFound
<1>7. discovered' \in BOOLEAN /\ (pass = 0 => discovered' = discovered)
  BY <1>2 DEF IInv, InputsFollowSelection, TypeOK
<1> QED BY <1>1, <1>2, <1>3, <1>4, <1>5, <1>6, <1>7, RoutedStep

\* An expansion happens in pass zero only, where its tree is retained.
LEMMA UseExpansionStep ==
    ASSUME IInv, phase = "route", NEW s \in toRoute, UseExpansion(s) PROVE IInv'
<1>1. s \in Signals /\ pass = 0
  BY KnownFacts DEF UseExpansion, IInv, InputsFollowSelection, TypeOK
<1>2. PICK c \in problem.of[s] :
        /\ CommitSelectedCandidate(s, c)
        /\ RetainNegotiatedInitialCandidateOption(s, c)
  BY DEF UseExpansion
<1>3. /\ options \in [Signals -> SUBSET Candidates]
      /\ problem.of \in [Signals -> SUBSET Candidates]
      /\ \A t \in Signals : options[t] \subseteq problem.of[t]
      /\ rooms \in [Signals -> 0 .. RoomLimit] /\ discovered \in BOOLEAN
  BY ProblemFacts DEF IInv, Shapes, InputsFollowSelection, TypeOK
<1>4. options' = [options EXCEPT ![s] = @ \union {c}]
  BY <1>1, <1>2 DEF RetainNegotiatedInitialCandidateOption
<1>5. rooms' \in [Signals -> 0 .. RoomLimit]
  BY <1>1, <1>3, NegotiationAssumption DEF UseExpansion
<1>6. RouteDone(s) /\ UNCHANGED discovered
  BY DEF UseExpansion
<1> QED BY <1>1, <1>2, <1>3, <1>4, <1>5, <1>6, RoutedStep

LEMMA RouteFailsStep ==
    ASSUME IInv, phase = "route", NEW s \in toRoute, RouteFails(s) PROVE IInv'
<1> USE DEF IInv, InputsFollowSelection, RouteFails, Fail
<1>1. /\ problem \in Problems /\ s \in Signals /\ phase' = "unrouted" /\ UNCHANGED problem
  BY DEF TypeOK
<1>2. /\ selected' = [selected EXCEPT ![s] = None]
      /\ selected' \in [Signals -> Candidates \union {None}]
      /\ selected'[s] = None /\ \A t \in Signals \ {s} : selected'[t] = selected[t]
  BY <1>1 DEF Shapes
<1>3. present' \in [Resources -> 0 .. Cardinality(Signals)]
  <2>1. present = PresentCounts(selected)
    OBVIOUS
  <2>2. ASSUME NEW r \in Resources
        PROVE  present[r] - Count(selected[s], r) = Cardinality(Owners(selected', r))
    <3>1. Count(None, r) = 0 /\ Count(selected[s], r) \in {0, 1}
      BY DEF Count, Uses
    <3>2. CountsFollow(selected, selected', s, None, r)
      BY <1>1, <1>2, OwnersAfterCommit, Zenon
    <3>3. Cardinality(Owners(selected, r)) \in Nat
      BY OwnersAreCounted
    <3> QED BY <2>1, <3>1, <3>2, <3>3 DEF PresentCounts, CountsFollow
  <2> QED BY <2>2, OwnersAreCounted
<1>4. TypeOK'
  BY <1>1, <1>2, <1>3 DEF TypeOK, Ends
<1>5. Shapes'
  BY <1>2 DEF Shapes
<1>6. InputsFollowSelection'
  BY <1>1, <1>4 DEF SelectionIsKnown
<1>7. Progress' /\ BeginsWithSelection'
  BY <1>1 DEF Progress, BeginsWithSelection, Ends
<1>8. Offering' /\ StagnationIsHonest' /\ FailureNamesTheConflicting'
  BY <1>1 DEF Offering, OfferedBeforeGivingUp, StagnationIsHonest, FailureNamesTheConflicting
<1> QED BY <1>5, <1>6, <1>7, <1>8

-----------------------------------------------------------------------------
(* The end of the routing, and the exact assignment.                       *)

\* A step that keeps the selection and only moves on to another phase.
LEMMA MovesOn ==
    ASSUME IInv, phase \in {"route", "assign", "retry"}, toRoute = {},
           phase' \in {"assign", "retry", "close", "unassigned"}, affected' \subseteq Signals,
           options' \in [Signals -> SUBSET Candidates],
           \A s \in Signals : options[s] \subseteq options'[s],
           \A s \in Signals : options'[s] \subseteq problem.of[s],
           rounds' \in 0 .. CompletionRoundLimit, exactCut' \in BOOLEAN,
           selected' \in [Signals -> Candidates \union {None}],
           \A s \in Signals : selected'[s] = selected[s] \/ selected'[s] \in options[s],
           UNCHANGED <<problem, pass, toRoute, present, discovered, conflictSignals,
                       cumulative, best, stagnation, overflow, repair, rooms>>,
           offered' \in [Signals -> SUBSET Candidates], Offering'
    PROVE  IInv'
<1> USE DEF IInv, InputsFollowSelection
<1>1. \A s \in Signals : selected[s] \in options[s]
  BY DEF SelectionIsKnown
<1>2. \A s \in Signals : selected'[s] \in options'[s]
  BY <1>1
<1>3. TypeOK'
  BY <1>2 DEF TypeOK, Ends
<1>4. Shapes' /\ SelectionIsKnown'
  BY <1>2 DEF Shapes, SelectionIsKnown
<1>5. InputsFollowSelection'
  BY <1>3, <1>4
<1>6. Progress' /\ BeginsWithSelection'
  BY DEF Progress, BeginsWithSelection, Ends
<1>7. StagnationIsHonest' /\ FailureNamesTheConflicting'
  BY DEF StagnationIsHonest, FailureNamesTheConflicting
<1> QED BY <1>4, <1>5, <1>6, <1>7

LEMMA TypesOfSearch ==
    ASSUME IInv
    PROVE  /\ options \in [Signals -> SUBSET Candidates]
           /\ \A s \in Signals : options[s] \subseteq problem.of[s]
           /\ problem.of \in [Signals -> SUBSET Candidates]
           /\ rounds \in 0 .. CompletionRoundLimit /\ exactCut \in BOOLEAN
           /\ selected \in [Signals -> Candidates \union {None}]
           /\ affected \subseteq Signals /\ offered \in [Signals -> SUBSET Candidates]
           /\ phase \in {"assign", "retry"} => toRoute = {}
BY ProblemFacts DEF IInv, Shapes, InputsFollowSelection, TypeOK, Progress

LEMMA EndRoutingStep == IInv /\ EndRouting => IInv'
<1> SUFFICES ASSUME IInv, EndRouting PROVE IInv'
  OBVIOUS
<1>1. /\ phase = "route" /\ phase' \in {"assign", "retry", "close"}
      /\ offered' = IF phase' = "close" THEN offered ELSE options
      /\ UNCHANGED <<problem, pass, selected, options, discovered, stagnation>>
  BY DEF EndRouting
<1>2. FinalConflicts(selected)' = FinalConflicts(selected)
  BY <1>1, ProblemFixed
<1>3. ASSUME phase' = "close", FinalConflicts(selected) # {}
      PROVE  Considered' \/ RetryNotDue'
  <2>1. /\ ~(pass = 0 /\ ~problem.complete)
        /\ ~ShouldRetryNegotiatedExactAssignment
    BY <1>3 DEF EndRouting
  <2>2. /\ pass \in Nat /\ stagnation \in Nat /\ (pass = 0 => ~discovered)
        /\ MaximumIterations \in Nat /\ StagnationPassLimit \in Nat
    BY NegotiationAssumption DEF IInv, InputsFollowSelection, TypeOK, Offering
  <2>3. (problem.complete /\ ~discovered) \/ RetryNotDue
    BY <2>1, <2>2 DEF ShouldRetryNegotiatedExactAssignment, RetryNotDue
  <2> QED BY <1>1, <2>3 DEF Considered, RetryNotDue
<1>4. Offering'
  BY <1>1, <1>2, <1>3 DEF IInv, Offering, OfferedBeforeGivingUp
<1>5. offered' \in [Signals -> SUBSET Candidates]
  BY <1>1, TypesOfSearch
<1> QED BY <1>1, <1>4, <1>5, TypesOfSearch, MovesOn DEF EndRouting

\* As long as the assignment goes on, what it is given is all that is known.
LEMMA StillOffered ==
    ASSUME IInv, phase \in {"assign", "retry"},
           phase' \in {"assign", "retry", "close", "unassigned"},
           offered' = options' \/ UNCHANGED <<offered, options>>,
           options' \in [Signals -> SUBSET Candidates], UNCHANGED <<pass, discovered>>
    PROVE  Offering' /\ offered' \in [Signals -> SUBSET Candidates]
<1>1. offered' = options' /\ (pass = 0 => ~discovered)
  BY DEF IInv, Offering
<1>2. Considered'
  BY <1>1 DEF Considered
<1> QED BY <1>1, <1>2 DEF Offering, OfferedBeforeGivingUp

LEMMA AssignmentFoundStep == IInv /\ AssignmentFound => IInv'
<1> SUFFICES ASSUME IInv, AssignmentFound PROVE IInv'
  OBVIOUS
<1>1. /\ selected' \in [Signals -> UNION {options[s] : s \in Signals}]
      /\ \A s \in Signals : selected'[s] \in options[s]
  BY DEF AssignmentFound, Assignments
<1>2. selected' \in [Signals -> Candidates \union {None}]
  BY <1>1, TypesOfSearch
<1>3. Offering' /\ offered' \in [Signals -> SUBSET Candidates]
  BY TypesOfSearch, StillOffered DEF AssignmentFound
<1> QED BY <1>1, <1>2, <1>3, TypesOfSearch, MovesOn DEF AssignmentFound

LEMMA AssignmentEnds ==
    ASSUME IInv, RetryFails \/ MandatoryAssignmentCut \/ HigherLayerRequested
                   \/ CompletionRound \/ PlacementAdvanced \/ AssignmentGivenUp
    PROVE  IInv'
<1>1. CASE RetryFails
  BY <1>1, TypesOfSearch, StillOffered, MovesOn DEF RetryFails
<1>2. CASE MandatoryAssignmentCut
  BY <1>2, TypesOfSearch, StillOffered, MovesOn DEF MandatoryAssignmentCut, AssignFails, Fail
<1>3. CASE HigherLayerRequested
  BY <1>3, TypesOfSearch, StillOffered, MovesOn DEF HigherLayerRequested, AssignFails, Fail
<1>4. CASE CompletionRound
  <2>1. PICK found :
          options' = [s \in Signals |-> options[s] \union (found \intersect problem.of[s])]
    BY <1>4 DEF CompletionRound
  <2>2. /\ options' \in [Signals -> SUBSET Candidates]
        /\ \A s \in Signals : options[s] \subseteq options'[s]
        /\ \A s \in Signals : options'[s] \subseteq problem.of[s]
    BY <2>1, TypesOfSearch
  <2>3. rounds' \in 0 .. CompletionRoundLimit
    BY <1>4, TypesOfSearch, NegotiationAssumption DEF CompletionRound
  <2> QED BY <1>4, <2>2, <2>3, TypesOfSearch, StillOffered, MovesOn DEF CompletionRound
<1>5. CASE PlacementAdvanced
  BY <1>5, TypesOfSearch, StillOffered, MovesOn DEF PlacementAdvanced, AssignFails, Fail
<1>6. CASE AssignmentGivenUp
  BY <1>6, TypesOfSearch, StillOffered, MovesOn DEF AssignmentGivenUp
<1> QED BY <1>1, <1>2, <1>3, <1>4, <1>5, <1>6

-----------------------------------------------------------------------------
(* The close of a pass.                                                    *)

LEMMA CountFacts ==
    ASSUME IInv, CountConflicts
    PROVE  /\ toRoute = {} /\ pass \in Nat /\ pass + 1 <= MaximumIterations
           /\ \A s \in Signals : selected[s] \in options[s]
           /\ conflictSignals' \subseteq Signals /\ cumulative' \subseteq Signals
           /\ Cardinality(FinalConflicts(selected)) \in Nat
           /\ overflow \in Seq(Nat) /\ Len(overflow) = pass /\ stagnation \in 0 .. pass
           /\ overflow' \in Seq(Nat) /\ Len(overflow') = pass + 1
           /\ overflow'[pass + 1] = Cardinality(FinalConflicts(selected))
           /\ \A i \in 1 .. pass : overflow'[i] = overflow[i]
           /\ best \in Nat \union {None} /\ None \notin Nat
           /\ best = None => overflow = << >>
<1> USE DEF IInv, InputsFollowSelection, CountConflicts
<1>1. /\ toRoute = {} /\ pass \in Nat /\ pass + 1 <= MaximumIterations
      /\ Len(overflow) = pass /\ overflow \in Seq(Nat) /\ stagnation \in 0 .. pass
      /\ best \in Nat \union {None}
      /\ best = None => overflow = << >>
  BY NegotiationAssumption DEF TypeOK, Progress, Ends
<1>2. \A s \in Signals : selected[s] \in options[s]
  BY <1>1 DEF SelectionIsKnown
<1>3. /\ Cardinality(FinalConflicts(selected)) \in Nat
      /\ conflictSignals' \subseteq Signals /\ cumulative' \subseteq Signals
  BY ConflictsAreCounted DEF TypeOK
<1>4. /\ overflow' \in Seq(Nat) /\ Len(overflow') = pass + 1
      /\ overflow'[pass + 1] = Cardinality(FinalConflicts(selected))
      /\ \A i \in 1 .. pass : overflow'[i] = overflow[i]
  BY <1>1, <1>3
<1>5. None \notin Nat
  BY NegotiationAssumption
<1> QED BY <1>1, <1>2, <1>3, <1>4, <1>5

\* What the close of a pass keeps, but for the counting of stagnation.
LEMMA CountedStep ==
    ASSUME IInv, CountConflicts,
           phase' \in {"start", "plan", "cut", "congested"},
           phase' = "start" => /\ pass' = pass + 1
                               /\ stagnation' <= pass'
                               /\ best' # None
                               /\ selected' = selected
                               /\ \A s \in Signals : repair'[s] \in {None, selected[s]},
           pass' \in 0 .. MaximumIterations, stagnation' \in 0 .. MaximumIterations,
           selected' \in [Signals -> Candidates \union {None}],
           \A s \in Signals : selected'[s] \in options[s],
           repair' \in [Signals -> Candidates \union {None}],
           rooms' \in [Signals -> 0 .. RoomLimit], affected' \subseteq Signals,
           best' \in Nat \union {None}, offered' \in [Signals -> SUBSET Candidates]
    PROVE  /\ Shapes' /\ InputsFollowSelection' /\ Progress' /\ BeginsWithSelection'
<1>1. /\ UNCHANGED <<problem, toRoute, options, present, discovered, exactCut, rounds>>
      /\ conflictSignals' = SignalsIn(selected)
  BY DEF CountConflicts
<1>2. TypeOK'
  BY <1>1, CountFacts DEF IInv, InputsFollowSelection, TypeOK, Ends
<1>3. Shapes' /\ SelectionIsKnown'
  BY <1>1 DEF IInv, Shapes, SelectionIsKnown
<1>4. InputsFollowSelection'
  BY <1>2, <1>3 DEF InputsFollowSelection
<1>5. Progress'
  BY <1>1, CountFacts DEF Progress, Ends
<1>6. BeginsWithSelection'
  <2>1. phase' = "start" => conflictSignals' = SignalsIn(selected')
    BY <1>1
  <2>2. SignalsIn(selected)' = SignalsIn(selected')
    BY <1>1, ProblemFixed
  <2> QED BY <2>1, <2>2 DEF BeginsWithSelection
<1> QED BY <1>3, <1>4, <1>5, <1>6

\* The best count is still the least, and every stagnating pass no better.
LEMMA StagnationStep ==
    ASSUME IInv, Negotiate, NEW n \in Nat, n <= StagnationAfter, stagnation' = n
    PROVE  /\ StagnationAfter \in 0 .. pass + 1
           /\ best' \in Nat /\ StagnationIsHonest'
<1> DEFINE count == Cardinality(FinalConflicts(selected))
<1>1. PICK c \in Nat : c = count
  BY CountFacts DEF Negotiate
<1>2. /\ pass \in Nat /\ Len(overflow) = pass /\ stagnation \in 0 .. pass
      /\ Len(overflow') = pass + 1 /\ overflow'[pass + 1] = c
      /\ \A i \in 1 .. pass : overflow'[i] = overflow[i] /\ overflow[i] \in Nat
      /\ best \in Nat \union {None} /\ None \notin Nat
      /\ best = None => pass = 0
      /\ overflow' \in Seq(Nat)
  BY <1>1, CountFacts DEF Negotiate
<1>3. best # None =>
        /\ \A i \in 1 .. pass : best <= overflow[i]
        /\ \E i \in 1 .. (pass - stagnation) : overflow[i] = best
  <2>1. overflow \in Seq(Nat) /\ DOMAIN overflow = 1 .. pass
    BY CountFacts DEF Negotiate
  <2>2. phase = "close"
    BY DEF Negotiate, CountConflicts
  <2> QED BY <1>2, <2>1, <2>2 DEF IInv, StagnationIsHonest
<1>4. DOMAIN overflow' = 1 .. pass + 1
  BY <1>2
<1>5. CASE Improves
  <2>1. best' = c /\ StagnationAfter = 0 /\ n = 0 /\ (best = None \/ c < best)
    BY <1>1, <1>5 DEF Negotiate, StagnationAfter, Improves
  <2>2. \A i \in 1 .. pass + 1 : c <= overflow'[i]
    BY <1>2, <1>3, <2>1
  <2>3. pass + 1 \in 1 .. (pass + 1 - n) /\ overflow'[pass + 1] = c
    BY <1>2, <2>1
  <2>4. StagnationIsHonest'
    BY <1>2, <1>4, <2>1, <2>2, <2>3 DEF StagnationIsHonest
  <2> QED BY <1>2, <2>1, <2>4
<1>6. CASE ~Improves
  <2>1. best' = best /\ StagnationAfter = stagnation + 1 /\ best \in Nat /\ best <= c
    BY <1>1, <1>2, <1>6 DEF Negotiate, StagnationAfter, Improves
  <2>2. \A i \in 1 .. pass + 1 : best <= overflow'[i]
    BY <1>2, <1>3, <2>1
  <2>3. PICK i \in 1 .. (pass - stagnation) : overflow[i] = best
    BY <1>2, <1>3, <2>1
  <2>4. i \in 1 .. (pass + 1 - n) /\ overflow'[i] = best
    BY <1>2, <2>1, <2>3
  <2>5. StagnationIsHonest'
    BY <1>2, <1>4, <2>1, <2>2, <2>4 DEF StagnationIsHonest
  <2> QED BY <1>2, <2>1, <2>5
<1> QED BY <1>5, <1>6

LEMMA ReturnPlanStep == IInv /\ ReturnPlan => IInv'
<1> SUFFICES ASSUME IInv, ReturnPlan PROVE IInv'
  OBVIOUS
<1>1. /\ CountConflicts /\ phase' = "plan"
      /\ UNCHANGED <<pass, best, stagnation, repair, rooms, affected>>
  BY DEF ReturnPlan
<1>2. selected' = selected \/ selected' \in Assignments
  BY DEF ReturnPlan
<1>3. /\ selected' \in [Signals -> Candidates \union {None}]
      /\ \A s \in Signals : selected'[s] \in options[s]
  <2>1. CASE selected' = selected
    BY <1>1, <2>1, CountFacts, TypesOfSearch
  <2>2. CASE selected' \in Assignments
    BY <2>2, TypesOfSearch DEF Assignments
  <2> QED BY <1>2, <2>1, <2>2
<1>4. offered' \in [Signals -> SUBSET Candidates]
  BY TypesOfSearch DEF ReturnPlan
<1>5. Offering'
  BY <1>1 DEF IInv, Offering, OfferedBeforeGivingUp, CountConflicts
<1>6. StagnationIsHonest' /\ FailureNamesTheConflicting'
  BY <1>1 DEF StagnationIsHonest, FailureNamesTheConflicting
<1>7. /\ pass \in 0 .. MaximumIterations /\ stagnation \in 0 .. MaximumIterations
      /\ repair \in [Signals -> Candidates \union {None}]
      /\ rooms \in [Signals -> 0 .. RoomLimit] /\ affected \subseteq Signals
      /\ best \in Nat \union {None}
  BY DEF IInv, InputsFollowSelection, TypeOK
<1>8. /\ Shapes' /\ InputsFollowSelection' /\ Progress' /\ BeginsWithSelection'
  BY <1>1, <1>3, <1>4, <1>7, CountedStep
<1> QED BY <1>5, <1>6, <1>8 DEF IInv

\* A pass that does not return has conflicts: every signal has a tree.
LEMMA ConflictsRemain ==
    ASSUME IInv, CountConflicts, ~MayReturn
    PROVE  Considered \/ RetryNotDue
<1>1. \A s \in Signals : selected[s] # None
  BY CountFacts, TypesOfSearch, NegotiationAssumption
<1>2. FinalConflicts(selected) # {}
  BY <1>1 DEF MayReturn
<1> QED BY <1>2 DEF IInv, Offering, CountConflicts

\* A failure names what is in conflict now, and all that ever was.
LEMMA NamedStep ==
    ASSUME IInv, CountConflicts, selected' = selected, affected' = AffectedSignals
    PROVE  affected' \subseteq Signals /\ FailureNamesTheConflicting'
<1>1. SignalsIn(selected)' = SignalsIn(selected')
  BY ProblemFixed DEF CountConflicts
<1>2. affected' \subseteq Signals /\ SignalsIn(selected') \subseteq affected'
  BY ConflictsAreCounted DEF AffectedSignals, IInv, InputsFollowSelection, TypeOK
<1> QED BY <1>1, <1>2 DEF FailureNamesTheConflicting

LEMMA PlacementCutStep == IInv /\ PlacementCut => IInv'
<1> SUFFICES ASSUME IInv, PlacementCut PROVE IInv'
  OBVIOUS
<1>1. /\ CountConflicts /\ phase' = "cut" /\ affected' = AffectedSignals
      /\ UNCHANGED <<pass, selected, best, stagnation, repair, rooms>>
  BY DEF PlacementCut, Fail
<1>2. affected' \subseteq Signals /\ FailureNamesTheConflicting'
  BY <1>1, NamedStep
<1>3. Offering' /\ StagnationIsHonest'
  <2>1. /\ problem.earlyCut \/ stagnation >= StagnationPassLimit - 2
        /\ pass = 0 => ~discovered
    BY NegotiationAssumption DEF PlacementCut, MandatoryCut, IInv, Offering
  <2>2. problem.earlyCut \/ Considered
    <3>1. stagnation \in Int /\ StagnationPassLimit \in Int
      BY <1>1, CountFacts, NegotiationAssumption
    <3>2. Considered \/ RetryNotDue
      BY <1>1, ConflictsRemain DEF PlacementCut
    <3> QED BY <2>1, <3>1, <3>2 DEF RetryNotDue
  <2>3. UNCHANGED <<problem, options, offered, discovered, pass>>
    BY <1>1 DEF PlacementCut, CountConflicts
  <2> QED BY <1>1, <2>1, <2>2, <2>3
          DEF Offering, OfferedBeforeGivingUp, Considered, StagnationIsHonest
<1>4. /\ pass \in 0 .. MaximumIterations /\ stagnation \in 0 .. MaximumIterations
      /\ repair \in [Signals -> Candidates \union {None}]
      /\ rooms \in [Signals -> 0 .. RoomLimit] /\ best \in Nat \union {None}
      /\ offered' \in [Signals -> SUBSET Candidates]
  BY TypesOfSearch DEF PlacementCut, IInv, InputsFollowSelection, TypeOK
<1>5. /\ Shapes' /\ InputsFollowSelection' /\ Progress' /\ BeginsWithSelection'
  BY <1>1, <1>2, <1>4, CountFacts, TypesOfSearch, CountedStep
<1> QED BY <1>2, <1>3, <1>5 DEF IInv

LEMMA NegotiateFacts ==
    ASSUME IInv, Negotiate
    PROVE  /\ CountConflicts /\ selected' = selected
           /\ repair' \in [Signals -> Candidates \union {None}]
           /\ \A s \in Signals : repair'[s] \in {None, selected[s]}
           /\ pass \in Nat /\ pass + 1 \in 0 .. MaximumIterations
           /\ selected \in [Signals -> Candidates \union {None}]
           /\ \A s \in Signals : selected[s] \in options[s]
           /\ rooms \in [Signals -> 0 .. RoomLimit] /\ affected \subseteq Signals
           /\ None \notin Nat /\ offered' \in [Signals -> SUBSET Candidates]
           /\ UNCHANGED <<problem, options, offered, discovered>>
           /\ Considered \/ RetryNotDue
<1>1. CountConflicts /\ selected' = selected
  BY DEF Negotiate
<1>2. PICK pruned : repair' = [s \in Signals |-> IF s \in pruned THEN selected[s] ELSE None]
  BY DEF Negotiate, BuildRepairStates
<1>3. rooms \in [Signals -> 0 .. RoomLimit] /\ affected \subseteq Signals
  BY DEF IInv, InputsFollowSelection, TypeOK
<1>4. pass \in Nat /\ pass + 1 \in 0 .. MaximumIterations /\ None \notin Nat
  BY <1>1, CountFacts, NegotiationAssumption
<1>5. /\ UNCHANGED <<problem, options, offered, discovered>>
      /\ Considered \/ RetryNotDue
  BY <1>1, ConflictsRemain DEF Negotiate, CountConflicts
<1> QED BY <1>1, <1>2, <1>3, <1>4, <1>5, CountFacts, TypesOfSearch

LEMMA NextPassStep == IInv /\ (NextPass \/ NextPassAfterGrowth) => IInv'
<1> SUFFICES ASSUME IInv, NextPass \/ NextPassAfterGrowth PROVE IInv'
  OBVIOUS
<1>1. Negotiate /\ pass' = pass + 1 /\ phase' = "start" /\ UNCHANGED affected
  BY DEF NextPass, NextPassAfterGrowth
<1>2. PICK grown \in Growable : Grow(grown)
  BY DEF NextPass, NextPassAfterGrowth
<1>3. rooms' \in [Signals -> 0 .. RoomLimit]
  BY <1>1, <1>2, NegotiateFacts, NegotiationAssumption DEF Grow, Growable
<1>4. StagnationAfter \in 0 .. pass + 1
  BY <1>1, NegotiateFacts, CountFacts DEF StagnationAfter
<1>5. PICK n \in 0 .. pass + 1 : n = stagnation' /\ n <= StagnationAfter
  BY <1>1, <1>4, NegotiateFacts DEF NextPass, NextPassAfterGrowth
<1>6. best' \in Nat /\ StagnationIsHonest'
  BY <1>1, <1>5, NegotiateFacts, StagnationStep
<1>7. /\ Shapes' /\ InputsFollowSelection' /\ Progress' /\ BeginsWithSelection'
  <2>1. /\ pass' \in 0 .. MaximumIterations /\ stagnation' \in 0 .. MaximumIterations
        /\ stagnation' <= pass'
    BY <1>1, <1>5, NegotiateFacts, NegotiationAssumption
  <2> QED BY <1>1, <1>3, <1>6, <2>1, NegotiateFacts, CountedStep
<1>8. Offering' /\ FailureNamesTheConflicting'
  <2>1. /\ pass \in Nat /\ (Considered \/ RetryNotDue)
        /\ UNCHANGED <<problem, options, offered, discovered>>
    BY <1>1, NegotiateFacts
  <2>2. pass' = MaximumIterations => Considered'
    BY <1>1, <2>1, NegotiationAssumption DEF Considered, RetryNotDue
  <2> QED BY <1>1, <2>1, <2>2
          DEF Offering, OfferedBeforeGivingUp, FailureNamesTheConflicting
<1> QED BY <1>6, <1>7, <1>8 DEF IInv

LEMMA GiveUpStep == IInv /\ GiveUp => IInv'
<1> SUFFICES ASSUME IInv, GiveUp PROVE IInv'
  OBVIOUS
<1>1. /\ Negotiate /\ phase' = "congested" /\ affected' = AffectedSignals
      /\ stagnation' = StagnationAfter /\ UNCHANGED <<pass, rooms>>
  BY DEF GiveUp, Fail
<1>2. StagnationAfter \in 0 .. pass + 1
  BY <1>1, NegotiateFacts, CountFacts DEF StagnationAfter
<1>3. PICK n \in 0 .. pass + 1 : n = stagnation' /\ n <= StagnationAfter
  BY <1>1, <1>2, NegotiateFacts
<1>4. best' \in Nat /\ StagnationIsHonest'
  BY <1>1, <1>3, NegotiateFacts, StagnationStep
<1>5. affected' \subseteq Signals /\ FailureNamesTheConflicting'
  BY <1>1, NegotiateFacts, NamedStep
<1>6. /\ Shapes' /\ InputsFollowSelection' /\ Progress' /\ BeginsWithSelection'
  <2>1. pass' \in 0 .. MaximumIterations /\ stagnation' \in 0 .. MaximumIterations
    BY <1>1, <1>3, NegotiateFacts, NegotiationAssumption
  <2> QED BY <1>1, <1>4, <1>5, <2>1, NegotiateFacts, CountedStep
<1>7. Offering'
  <2>1. /\ Considered \/ RetryNotDue
        /\ UNCHANGED <<problem, options, offered, discovered, pass>>
    BY <1>1, NegotiateFacts
  <2>2. ~RetryNotDue
    <3>1. StagnationAfter >= StagnationPassLimit - 1 /\ StagnationAfter \in {0, stagnation + 1}
      BY DEF GiveUp, Stuck, StagnationAfter
    <3>2. stagnation \in Nat /\ StagnationPassLimit \in Nat
      BY <1>1, NegotiateFacts, CountFacts, NegotiationAssumption
    <3> QED BY <3>1, <3>2 DEF RetryNotDue
  <2>3. Considered' /\ (pass' = 0 => ~discovered')
    BY <2>1, <2>2 DEF Considered, IInv, Offering
  <2> QED BY <1>1, <2>3 DEF Offering, OfferedBeforeGivingUp, Considered
<1> QED BY <1>4, <1>5, <1>6, <1>7 DEF IInv

LEMMA PassesRunOutStep == IInv /\ PassesRunOut => IInv'
<1> SUFFICES ASSUME IInv, PassesRunOut PROVE IInv'
  OBVIOUS
<1> USE DEF IInv, InputsFollowSelection, PassesRunOut, Fail
<1>1. pass > 0 /\ pass \in Nat
  BY NegotiationAssumption
<1>2. affected' \subseteq Signals /\ TypeOK'
  BY DEF TypeOK, Ends
<1>3. Shapes' /\ SelectionIsKnown'
  BY <1>1 DEF Shapes, SelectionIsKnown
<1>4. InputsFollowSelection'
  BY <1>2, <1>3
<1>5. Progress' /\ BeginsWithSelection' /\ Offering' /\ StagnationIsHonest'
  BY DEF Progress, BeginsWithSelection, Offering, OfferedBeforeGivingUp, Considered,
         StagnationIsHonest, Ends
<1>6. FailureNamesTheConflicting'
  <2>1. SignalsIn(selected)' = SignalsIn(selected')
    BY ProblemFixed
  <2> QED BY <1>1, <2>1 DEF BeginsWithSelection, FailureNamesTheConflicting
<1> QED BY <1>3, <1>4, <1>5, <1>6

LEMMA RuntimeExpiresStep == IInv /\ RuntimeExpires => IInv'
<1> SUFFICES ASSUME IInv, RuntimeExpires PROVE IInv'
  OBVIOUS
<1> USE DEF RuntimeExpires, Fail
<1>1. problem' \in Problems /\ phase' = "expired"
  BY DEF IInv, InputsFollowSelection, TypeOK
<1>2. TypeOK'
  <2>1. 0 \in 0 .. Cardinality(Signals)
    BY FS_CardinalityType, NegotiationAssumption
  <2>2. overflow' \in Seq(Nat) /\ Len(overflow') = 0
    OBVIOUS
  <2>3. \A s \in Signals : selected'[s] = None /\ options'[s] = {}
    BY DEF NoRoute
  <2>4. repair' \in [Signals -> Candidates \union {None}]
    BY DEF NoRoute
  <2>5. /\ present' \in [Resources -> 0 .. Cardinality(Signals)]
        /\ rooms' \in [Signals -> 0 .. RoomLimit]
    BY <2>1, NegotiationAssumption
  <2>6. discovered' \in BOOLEAN /\ exactCut' \in BOOLEAN
    OBVIOUS
  <2>7. /\ pass' \in 0 .. MaximumIterations /\ stagnation' \in 0 .. MaximumIterations
        /\ rounds' \in 0 .. CompletionRoundLimit /\ Len(overflow') <= MaximumIterations
    BY <2>2, NegotiationAssumption
  <2>8. /\ toRoute' \subseteq Signals /\ conflictSignals' \subseteq Signals
        /\ cumulative' \subseteq Signals /\ affected' \subseteq Signals
        /\ best' \in Nat \union {None}
    OBVIOUS
  <2> QED BY <1>1, <2>2, <2>3, <2>4, <2>5, <2>6, <2>7, <2>8 DEF TypeOK, Ends
<1>3. Shapes'
  BY DEF Shapes, NoRoute
<1>4. InputsFollowSelection'
  BY <1>1, <1>2 DEF InputsFollowSelection, SelectionIsKnown
<1>5. Progress' /\ BeginsWithSelection' /\ Offering' /\ FailureNamesTheConflicting'
  BY <1>1 DEF Progress, BeginsWithSelection, Offering, OfferedBeforeGivingUp,
             FailureNamesTheConflicting, Ends
<1>6. StagnationIsHonest'
  BY DEF StagnationIsHonest
<1> QED BY <1>3, <1>4, <1>5, <1>6 DEF IInv

LEMMA StutterStep == IInv /\ UNCHANGED vars => IInv'
<1> SUFFICES ASSUME IInv, UNCHANGED vars PROVE IInv'
  OBVIOUS
<1> USE DEF IInv, InputsFollowSelection, vars
<1>1. TypeOK' /\ Shapes' /\ SelectionIsKnown'
  BY DEF TypeOK, Shapes, SelectionIsKnown
<1>2. PresentCounts(selected)' = PresentCounts(selected)
  BY DEF PresentCounts, Owners, Uses
<1>3. InputsFollowSelection'
  BY <1>1, <1>2
<1>4. Progress' /\ StagnationIsHonest'
  BY DEF Progress, StagnationIsHonest
<1>5. BeginsWithSelection' /\ Offering' /\ FailureNamesTheConflicting'
  <2>1. SignalsIn(selected)' = SignalsIn(selected)
    BY DEF SignalsIn, FinalConflicts, Owners, Uses
  <2>2. FinalConflicts(selected)' = FinalConflicts(selected)
    BY DEF FinalConflicts, Owners, Uses
  <2> QED BY <2>1, <2>2 DEF BeginsWithSelection, Offering, OfferedBeforeGivingUp, Considered,
             RetryNotDue, FailureNamesTheConflicting
<1> QED BY <1>1, <1>3, <1>4, <1>5

LEMMA StepIInv == IInv /\ [Next]_vars => IInv'
<1> SUFFICES ASSUME IInv, [Next]_vars PROVE IInv'
  OBVIOUS
<1>1. CASE phase = "route" /\ \E s \in toRoute : RouteSignal(s)
  BY <1>1, UseKnownStep, UseFoundStep, UseExpansionStep, RouteFailsStep DEF RouteSignal
<1>2. CASE Returned \/ UNCHANGED vars
  BY <1>2, StutterStep DEF Returned
<1> QED BY <1>1, <1>2, StartPassStep, PassesRunOutStep, RuntimeExpiresStep, EndRoutingStep,
           AssignmentFoundStep, AssignmentEnds, ReturnPlanStep, PlacementCutStep,
           NextPassStep, GiveUpStep DEF Next

LEMMA Invariance == Spec => []IInv
BY InitIInv, StepIInv, PTL DEF Spec

-----------------------------------------------------------------------------
(* Theorems.                                                               *)

\* The counts and the repair a route search is given are those of the routes
\* selected, and the exact assignment knows every tree selected.
THEOREM InputsFollow == Spec => []InputsFollowSelection
<1>1. IInv => InputsFollowSelection
  BY DEF IInv
<1> QED BY <1>1, Invariance, PTL

\* The search gives up only after the exact assignment was given every tree
\* known by then, or when a complete domain brought nothing new.
THEOREM OfferedFirst == Spec => []OfferedBeforeGivingUp
<1>1. IInv => OfferedBeforeGivingUp
  BY DEF IInv, Offering
<1> QED BY <1>1, Invariance, PTL

\* The best count is the least reached, and no stagnating pass improved on it.
THEOREM StagnationCounts == Spec => []StagnationIsHonest
<1>1. IInv => StagnationIsHonest
  BY DEF IInv
<1> QED BY <1>1, Invariance, PTL

\* A failure by congestion or by a cut names every signal in conflict.
THEOREM FailuresName == Spec => []FailureNamesTheConflicting
<1>1. IInv => FailureNamesTheConflicting
  BY DEF IInv
<1> QED BY <1>1, Invariance, PTL

=============================================================================
