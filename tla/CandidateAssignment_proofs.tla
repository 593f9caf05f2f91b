---------------------- MODULE CandidateAssignment_proofs ----------------------
(***************************************************************************)
(* The selections kept by the exact search are legal, its domains follow   *)
(* them, its failures name the signal without a candidate among the        *)
(* conflicting ones, and its answers are those AssignmentAnswer promises,  *)
(* for any signals, candidates, compatibility and budgets.                 *)
(*                                                                         *)
(* The domains of the frame at depth n are those that the first n choices  *)
(* of Selected leave, and stay so when a call that failed has replaced     *)
(* Selected by a longer partial selection, since that one begins with the  *)
(* same n choices; that is why the truncation after a failed call restores *)
(* what the frame works on.  A candidate that a frame has tried is dead:   *)
(* no legal assignment extends the choices with it, unless the search was  *)
(* cut short.                                                              *)
(***************************************************************************)
EXTENDS CandidateAssignment, SequenceTheorems, FiniteSetTheorems, WellFoundedInduction,
        TLAPS

Uncut == ~exhausted /\ ~expired

\* The domains that the first n choices of a selection leave.
DomainsAfter(path, n) ==
    [s \in Signals \ {path[j][1] : j \in 1 .. n} |->
        {c \in groups[s] : \A j \in 1 .. n : Compatible(path[j], <<s, c>>)}]

DomainMaps == UNION {[S -> SUBSET Candidates] : S \in SUBSET Signals}

Frames == [signal : Signals, rest : SUBSET Candidates, domains : DomainMaps,
           depth : Nat, failure : Seq(Options)]

Shapes ==
    /\ budget \in Budgets
    /\ pc \in {"call", "next", "false", "done"}
    /\ domains \in DomainMaps
    /\ groups \in [Signals -> SUBSET Candidates]
    /\ stack \in Seq(Frames)
    /\ expansions \in Nat /\ shared \in 0 .. budget.limit
    /\ {exhausted, expired, success} \subseteq BOOLEAN
    /\ failureNet \subseteq Signals /\ conflicts \subseteq Signals

\* Where the search is: Selected has a choice for every caller, and after a
\* failed call it may have more.
Depths ==
    /\ selected \in Seq(Options) /\ IsSelection(selected)
    /\ pc \in {"call", "next"} => Uncut
    /\ pc = "call" => Len(selected) = Len(stack)
    /\ pc = "next" => Len(selected) + 1 = Len(stack)
    /\ pc = "false" => Len(selected) >= Len(stack)

CallFollows == pc = "call" => domains = DomainsAfter(selected, Len(selected))

Legal(f) ==
    /\ \A s \in Signals : f[s] \in groups[s]
    /\ \A s, t \in Signals : s < t => Compatible(<<s, f[s]>>, <<t, f[t]>>)

Extends(f, path, n) == \A j \in 1 .. n : f[path[j][1]] = path[j][2]

Dead(path, n) ==
    \A f \in [Signals -> Candidates] : Legal(f) => ~Extends(f, path, n)

DeadWith(path, n, s, c) ==
    \A f \in [Signals -> Candidates] : Legal(f) /\ Extends(f, path, n) => f[s] # c

\* The candidates a frame has tried are dead, but for the one under way.
TriedAreDead(i) ==
    \A c \in stack[i].domains[stack[i].signal] \ stack[i].rest :
      \/ DeadWith(selected, i - 1, stack[i].signal, c)
      \/ i <= Len(selected) /\ c = selected[i][2]

FrameFollows(i) ==
    LET frame == stack[i] IN
    /\ frame.signal \in DOMAIN frame.domains
    /\ frame.rest \subseteq frame.domains[frame.signal]
    /\ frame.depth = i - 1
    /\ frame.domains = DomainsAfter(selected, i - 1)
    /\ i <= Len(selected) => selected[i][1] = frame.signal
    /\ IsSelection(frame.failure)
    /\ frame.failure # <<>> => /\ Len(frame.failure) >= i - 1
                               /\ \A j \in 1 .. i - 1 : frame.failure[j] = selected[j]
    /\ Uncut => TriedAreDead(i)

FramesFollow == \A i \in 1 .. Len(stack) : FrameFollows(i)

Diagnosed == failureNet # {} /\ failureNet \subseteq conflicts

FailuresAreNamed ==
    Uncut =>
      /\ pc = "next" => Diagnosed \/ Top.rest # {}
      /\ pc = "false" => Diagnosed
      /\ pc = "done" /\ ~success => Diagnosed

\* A refusal is the first expansion over the budget.
Budgeted ==
    /\ BudgetIsRespected
    /\ ~budget.shared /\ ~exhausted => expansions <= budget.limit

FailureIsProof ==
    Uncut => /\ pc = "false" => Dead(selected, Len(stack))
             /\ pc = "done" /\ ~success => ~Solvable

WitnessIsWhole == pc = "done" /\ success => NamesOf(selected) = Signals

IInv ==
    /\ Shapes
    /\ Depths
    /\ CallFollows
    /\ FramesFollow
    /\ Budgeted
    /\ FailuresAreNamed
    /\ FailureIsProof
    /\ WitnessIsWhole

-----------------------------------------------------------------------------
(* Choices.                                                                *)

\* A set of numbers has a least one.
LEMMA FirstIsOne ==
    ASSUME NEW S \in SUBSET Nat, S # {}
    PROVE  First(S) \in S /\ \A y \in S : First(S) <= y
<1>1. PICK n \in S : \A m \in S : <<m, n>> \notin OpToRel(<, Nat)
  BY NatLessThanWellFounded, WFMin
<1>2. \A m \in S : ~(m < n)
  BY <1>1 DEF OpToRel
<1>3. \A m \in S : n <= m
  BY <1>2
<1> QED BY <1>3 DEF First

\* There is always a signal that is preferred to all others: of the least
\* deferred, those with the smallest domain, and the first of them.
LEMMA ChosenIsOne ==
    ASSUME NEW d \in DomainMaps, DOMAIN d # {}
    PROVE  ChooseSignal(d) \in DOMAIN d
<1>1. /\ DOMAIN d \subseteq Signals /\ \A s \in DOMAIN d : d[s] \subseteq Candidates
      /\ DOMAIN d \subseteq Nat
  BY AssignmentAssumption DEF DomainMaps
<1>2. \A s \in DOMAIN d : Cardinality(d[s]) \in Nat
  BY <1>1, AssignmentAssumption, FS_Subset, FS_CardinalityType
<1> DEFINE Eager == IF DOMAIN d \subseteq Deferred THEN DOMAIN d ELSE DOMAIN d \ Deferred
           Sizes == {Cardinality(d[s]) : s \in Eager}
           Smallest == {s \in Eager : Cardinality(d[s]) = First(Sizes)}
<1>3. Eager # {} /\ Eager \subseteq DOMAIN d
  OBVIOUS
<1>4. Sizes \subseteq Nat /\ Sizes # {}
  BY <1>2, <1>3
<1>5. First(Sizes) \in Sizes /\ \A n \in Sizes : First(Sizes) <= n
  <2> HIDE DEF Sizes
  <2> QED BY <1>4, FirstIsOne
<1>6. Smallest # {} /\ Smallest \subseteq Nat
  <2>1. PICK s \in Eager : Cardinality(d[s]) = First(Sizes)
    BY <1>5
  <2> QED BY <2>1, <1>1, <1>3
<1>7. First(Smallest) \in Smallest /\ \A n \in Smallest : First(Smallest) <= n
  <2> HIDE DEF Smallest
  <2> QED BY <1>6, FirstIsOne
<1>8. \A t \in DOMAIN d \ {First(Smallest)} : Prefers(d, First(Smallest), t)
  <2> SUFFICES ASSUME NEW t \in DOMAIN d, t # First(Smallest)
               PROVE  Prefers(d, First(Smallest), t)
    OBVIOUS
  <2> DEFINE s == First(Smallest)
  <2>1. s \in Eager /\ Cardinality(d[s]) = First(Sizes)
    BY <1>7
  <2>2. s \in Nat /\ t \in Nat /\ Cardinality(d[t]) \in Nat /\ Cardinality(d[s]) \in Nat
    BY <1>1, <1>2, <1>3, <2>1
  <2>3. CASE t \notin Eager
    BY <2>1, <2>3 DEF Prefers
  <2>4. CASE t \in Eager
    <3>1. s \in Deferred <=> t \in Deferred
      BY <2>1, <2>4
    <3>2. Cardinality(d[s]) <= Cardinality(d[t])
      BY <1>5, <2>1, <2>4
    <3>3. Cardinality(d[s]) = Cardinality(d[t]) => s <= t
      BY <1>7, <2>1, <2>4
    <3>4. Prefers(d, s, t)
      <4>1. s # t
        OBVIOUS
      <4> HIDE DEF s
      <4> QED BY <2>2, <3>1, <3>2, <3>3, <4>1 DEF Prefers
    <3> QED BY <3>4
  <2> QED BY <2>3, <2>4
<1>9. First(Smallest) \in DOMAIN d
  BY <1>3, <1>7
<1> HIDE DEF Smallest
<1> QED BY <1>8, <1>9 DEF ChooseSignal

-----------------------------------------------------------------------------
(* Sequences.                                                              *)

LEMMA PrefixFacts ==
    ASSUME NEW S, NEW q \in Seq(S), NEW n \in Nat, n <= Len(q)
    PROVE  /\ SubSeq(q, 1, n) \in Seq(S)
           /\ Len(SubSeq(q, 1, n)) = n
           /\ \A i \in 1 .. n : SubSeq(q, 1, n)[i] = q[i]
<1>1. SubSeq(q, 1, n) \in Seq(S)
  BY SMT
<1>2. Len(SubSeq(q, 1, n)) = n
  BY SMT
<1>3. \A i \in 1 .. n : SubSeq(q, 1, n)[i] = q[i]
  BY SMT
<1> QED BY <1>1, <1>2, <1>3

LEMMA FrontFacts ==
    ASSUME NEW S, NEW q \in Seq(S), q # <<>>
    PROVE  /\ Front(q) \in Seq(S) /\ Len(q) \in Nat \ {0}
           /\ Len(Front(q)) = Len(q) - 1
           /\ \A i \in 1 .. Len(q) - 1 : Front(q)[i] = q[i]
           /\ Last(q) \in S /\ Last(q) = q[Len(q)]
<1>1. Len(q) \in Nat \ {0}
  OBVIOUS
<1> DEFINE n == Len(q) - 1
<1>2. n \in Nat /\ n <= Len(q)
  BY <1>1
<1>3. SubSeq(q, 1, n) \in Seq(S) /\ Len(SubSeq(q, 1, n)) = n
      /\ \A i \in 1 .. n : SubSeq(q, 1, n)[i] = q[i]
  <2> HIDE DEF n
  <2> QED BY <1>2, PrefixFacts
<1>5. Last(q) \in S /\ Last(q) = q[Len(q)]
  BY <1>1 DEF Last
<1> QED BY <1>1, <1>3, <1>5 DEF Front

LEMMA ReplaceFacts ==
    ASSUME NEW S, NEW q \in Seq(S), q # <<>>, NEW e \in S
    PROVE  /\ Append(Front(q), e) \in Seq(S)
           /\ Len(Append(Front(q), e)) = Len(q)
           /\ \A i \in 1 .. Len(q) - 1 : Append(Front(q), e)[i] = q[i]
           /\ Append(Front(q), e)[Len(q)] = e
<1>1. /\ Front(q) \in Seq(S) /\ Len(q) \in Nat \ {0}
      /\ Len(Front(q)) = Len(q) - 1
      /\ \A i \in 1 .. Len(q) - 1 : Front(q)[i] = q[i]
  BY FrontFacts
<1> QED BY <1>1, AppendProperties

-----------------------------------------------------------------------------
(* What a selection leaves.                                                *)

LEMMA DomainsOfPrefix ==
    ASSUME NEW n \in Nat, NEW p, NEW q, \A j \in 1 .. n : p[j] = q[j]
    PROVE  DomainsAfter(p, n) = DomainsAfter(q, n)
<1>1. {p[j][1] : j \in 1 .. n} = {q[j][1] : j \in 1 .. n}
  OBVIOUS
<1>2. \A s, c : (\A j \in 1 .. n : Compatible(p[j], <<s, c>>))
                  <=> (\A j \in 1 .. n : Compatible(q[j], <<s, c>>))
  OBVIOUS
<1> QED BY <1>1, <1>2 DEF DomainsAfter

LEMMA DomainsAreMaps ==
    ASSUME groups \in [Signals -> SUBSET Candidates], NEW n \in Nat, NEW path
    PROVE  /\ DomainsAfter(path, n) \in DomainMaps
           /\ DOMAIN DomainsAfter(path, n) = Signals \ {path[j][1] : j \in 1 .. n}
<1> DEFINE S == Signals \ {path[j][1] : j \in 1 .. n}
<1>1. DomainsAfter(path, n) \in [S -> SUBSET Candidates]
  BY DEF DomainsAfter
<1>2. S \in SUBSET Signals
  OBVIOUS
<1>3. DOMAIN DomainsAfter(path, n) = S
  BY DEF DomainsAfter
<1> HIDE DEF S
<1>4. DomainsAfter(path, n) \in DomainMaps
  BY <1>1, <1>2 DEF DomainMaps
<1> QED BY <1>3, <1>4 DEF S

LEMMA LengthenedFacts ==
    ASSUME NEW path \in Seq(Options), NEW s \in Signals, NEW c \in Candidates
    PROVE  LET longer == Append(path, <<s, c>>) IN
           /\ longer \in Seq(Options) /\ Len(longer) = Len(path) + 1
           /\ Len(path) \in Nat
           /\ \A j \in 1 .. Len(path) : longer[j] = path[j]
           /\ longer[Len(path) + 1] = <<s, c>>
<1>1. <<s, c>> \in Options
  BY DEF Options
<1> QED BY <1>1, AppendProperties

\* Forward checking keeps the domains those of the longer selection.
LEMMA FilteredIsNext ==
    ASSUME NEW path \in Seq(Options), NEW s \in Signals, NEW c \in Candidates
    PROVE  Filtered(DomainsAfter(path, Len(path)), s, c)
             = DomainsAfter(Append(path, <<s, c>>), Len(path) + 1)
<1> DEFINE n == Len(path)
           longer == Append(path, <<s, c>>)
<1>1. n \in Nat /\ longer[n + 1] = <<s, c>> /\ \A j \in 1 .. n : longer[j] = path[j]
  BY LengthenedFacts
<1> HIDE DEF n, longer
<1>2. \A j : j \in 1 .. n + 1 <=> j \in 1 .. n \/ j = n + 1
  BY <1>1
<1>3. longer[n + 1][1] = s
  BY <1>1
<1>4. {longer[j][1] : j \in 1 .. n + 1} = {path[j][1] : j \in 1 .. n} \cup {s}
  BY <1>1, <1>2, <1>3
<1>5. \A t, k : Compatible(<<s, c>>, <<t, k>>) /\ (\A j \in 1 .. n : Compatible(path[j], <<t, k>>))
                  <=> \A j \in 1 .. n + 1 : Compatible(longer[j], <<t, k>>)
  BY <1>1, <1>2
<1> DEFINE before == DomainsAfter(path, n)
           after == DomainsAfter(longer, n + 1)
<1>6. /\ DOMAIN before = Signals \ {path[j][1] : j \in 1 .. n}
      /\ DOMAIN after = DOMAIN before \ {s}
  BY <1>4 DEF DomainsAfter
<1>7. \A t \in DOMAIN before \ {s} :
        {k \in before[t] : Compatible(<<s, c>>, <<t, k>>)} = after[t]
  <2> SUFFICES ASSUME NEW t \in DOMAIN before \ {s}
               PROVE  {k \in before[t] : Compatible(<<s, c>>, <<t, k>>)} = after[t]
    OBVIOUS
  <2>1. before[t] = {k \in groups[t] : \A j \in 1 .. n : Compatible(path[j], <<t, k>>)}
    BY <1>6 DEF DomainsAfter
  <2>2. after[t] = {k \in groups[t] : \A j \in 1 .. n + 1 : Compatible(longer[j], <<t, k>>)}
    BY <1>6 DEF DomainsAfter
  <2> HIDE DEF before, after
  <2> QED BY <1>5, <2>1, <2>2
<1>8. after = [t \in DOMAIN after |-> after[t]]
  BY DEF DomainsAfter
<1> HIDE DEF before, after
<1>9. Filtered(before, s, c) = after
  BY <1>6, <1>7, <1>8 DEF Filtered
<1> QED BY <1>9 DEF before, after, n, longer

LEMMA CompatibleIsSymmetric == \A x, y : Compatible(x, y) <=> Compatible(y, x)
BY DEF Compatible

LEMMA LongerSelection ==
    ASSUME NEW path \in Seq(Options), IsSelection(path),
           NEW s \in DOMAIN DomainsAfter(path, Len(path)),
           NEW c \in DomainsAfter(path, Len(path))[s], c \in Candidates
    PROVE  IsSelection(Append(path, <<s, c>>))
<1> DEFINE n == Len(path)
           longer == Append(path, <<s, c>>)
<1>1. s \in Signals /\ s \notin {path[j][1] : j \in 1 .. n}
  BY DEF DomainsAfter
<1>2. c \in groups[s] /\ \A j \in 1 .. n : Compatible(path[j], <<s, c>>)
  BY <1>1 DEF DomainsAfter
<1>3. /\ longer \in Seq(Options) /\ Len(longer) = n + 1 /\ n \in Nat
      /\ longer[n + 1] = <<s, c>> /\ \A j \in 1 .. n : longer[j] = path[j]
  BY <1>1, LengthenedFacts
<1>4. DOMAIN longer = 1 .. n + 1 /\ DOMAIN path = 1 .. n
  <2> HIDE DEF longer
  <2> QED BY <1>3
<1> HIDE DEF n, longer
<1>5. longer[n + 1][1] = s /\ longer[n + 1][2] = c
  BY <1>3
<1>6. \A i \in DOMAIN longer : longer[i][2] \in groups[longer[i][1]]
  <2> TAKE i \in DOMAIN longer
  <2>1. CASE i = n + 1
    BY <1>2, <1>5, <2>1
  <2>2. CASE i \in 1 .. n
    BY <1>3, <1>4, <2>2 DEF IsSelection
  <2> QED BY <1>3, <1>4, <2>1, <2>2
<1>7. ASSUME NEW i \in DOMAIN longer, NEW j \in DOMAIN longer, i < j
      PROVE  longer[i][1] # longer[j][1] /\ Compatible(longer[i], longer[j])
  <2>1. i \in 1 .. n
    BY <1>3, <1>4, <1>7
  <2>2. CASE j = n + 1
    BY <1>1, <1>2, <1>3, <1>5, <2>1, <2>2
  <2>3. CASE j \in 1 .. n
    BY <1>3, <1>4, <1>7, <2>1, <2>3 DEF IsSelection
  <2> QED BY <1>3, <1>4, <2>2, <2>3
<1>8. IsSelection(longer)
  BY <1>3, <1>6, <1>7 DEF IsSelection
<1> QED BY <1>8 DEF longer

LEMMA PrefixIsSelection ==
    ASSUME NEW path, IsSelection(path), NEW n \in Nat, n <= Len(path)
    PROVE  IsSelection(SubSeq(path, 1, n))
<1>1. path \in Seq(Options)
  BY DEF IsSelection
<1> DEFINE part == SubSeq(path, 1, n)
<1>2. /\ part \in Seq(Options) /\ Len(part) = n
      /\ \A i \in 1 .. n : part[i] = path[i]
  BY <1>1, PrefixFacts
<1> HIDE DEF part
<1>3. DOMAIN part = 1 .. n /\ DOMAIN path = 1 .. Len(path) /\ Len(path) \in Nat
  BY <1>1, <1>2
<1>4. \A i \in DOMAIN part : i \in DOMAIN path /\ part[i] = path[i] /\ i \in Nat
  BY <1>2, <1>3
<1>5. IsSelection(part)
  BY <1>2, <1>4 DEF IsSelection
<1> QED BY <1>5 DEF part

-----------------------------------------------------------------------------
(* Legal assignments.                                                      *)

\* A legal assignment that extends a selection takes the candidates of the
\* remaining signals from the domains the selection leaves.
LEMMA ExtensionsAreInDomains ==
    ASSUME NEW path \in Seq(Options), NEW n \in Nat, n <= Len(path),
           NEW f \in [Signals -> Candidates], Legal(f), Extends(f, path, n),
           NEW s \in DOMAIN DomainsAfter(path, n)
    PROVE  f[s] \in DomainsAfter(path, n)[s]
<1>1. s \in Signals /\ s \notin {path[j][1] : j \in 1 .. n}
  BY DEF DomainsAfter
<1>2. ASSUME NEW j \in 1 .. n PROVE Compatible(path[j], <<s, f[s]>>)
  <2>1. path[j] \in Options
    BY ElementOfSeq
  <2>2. PICK t \in Signals, k \in Candidates : path[j] = <<t, k>>
    BY <2>1 DEF Options
  <2>3. path[j][1] = t /\ path[j][2] = k
    BY <2>2
  <2>4. t # s /\ f[t] = k
    BY <1>1, <2>3 DEF Extends
  <2>5. s \in Nat /\ t \in Nat
    BY <1>1, AssignmentAssumption
  <2>6. CASE s < t
    <3>1. Compatible(<<s, f[s]>>, <<t, f[t]>>)
      BY <1>1, <2>6 DEF Legal
    <3> QED BY <2>2, <2>4, <3>1, CompatibleIsSymmetric
  <2>7. CASE t < s
    BY <1>1, <2>2, <2>4, <2>7 DEF Legal
  <2> QED BY <2>4, <2>5, <2>6, <2>7
<1>3. f[s] \in groups[s]
  BY <1>1 DEF Legal
<1> QED BY <1>1, <1>2, <1>3 DEF DomainsAfter

LEMMA EmptyIsDead ==
    ASSUME NEW path \in Seq(Options), NEW n \in Nat, n <= Len(path),
           NEW s \in DOMAIN DomainsAfter(path, n), DomainsAfter(path, n)[s] = {}
    PROVE  Dead(path, n)
BY ExtensionsAreInDomains DEF Dead

LEMMA EmptiedIsDead ==
    ASSUME NEW path \in Seq(Options), NEW s \in Signals, NEW c \in Candidates,
           Emptied(Filtered(DomainsAfter(path, Len(path)), s, c)) # {}
    PROVE  DeadWith(path, Len(path), s, c)
<1> DEFINE n == Len(path)
           longer == Append(path, <<s, c>>)
<1>1. /\ longer \in Seq(Options) /\ Len(longer) = n + 1 /\ n \in Nat
      /\ longer[n + 1] = <<s, c>> /\ \A j \in 1 .. n : longer[j] = path[j]
  BY LengthenedFacts
<1>2. PICK t \in DOMAIN DomainsAfter(longer, n + 1) : DomainsAfter(longer, n + 1)[t] = {}
  BY FilteredIsNext DEF Emptied
<1> HIDE DEF n, longer
<1>3. Dead(longer, n + 1)
  BY <1>1, <1>2, EmptyIsDead
<1>4. \A f : Extends(f, path, n) /\ f[s] = c => Extends(f, longer, n + 1)
  BY <1>1 DEF Extends
<1>5. DeadWith(path, n, s, c)
  BY <1>3, <1>4 DEF Dead, DeadWith
<1> QED BY <1>5 DEF n

\* A choice whose continuation is dead is dead itself.
LEMMA DeadChoice ==
    ASSUME NEW path \in Seq(Options), NEW n \in Nat \ {0}, n <= Len(path), Dead(path, n)
    PROVE  DeadWith(path, n - 1, path[n][1], path[n][2])
<1>1. \A f : Extends(f, path, n - 1) /\ f[path[n][1]] = path[n][2] => Extends(f, path, n)
  BY DEF Extends
<1> QED BY <1>1 DEF Dead, DeadWith

\* When every candidate of a signal is dead after some choices, so are they.
LEMMA AllAreDead ==
    ASSUME NEW path \in Seq(Options), NEW n \in Nat, n <= Len(path),
           NEW s \in DOMAIN DomainsAfter(path, n),
           \A c \in DomainsAfter(path, n)[s] : DeadWith(path, n, s, c)
    PROVE  Dead(path, n)
BY ExtensionsAreInDomains DEF Dead, DeadWith

LEMMA DeadOfPrefix ==
    ASSUME NEW n \in Nat, NEW p, NEW q, \A j \in 1 .. n : p[j] = q[j]
    PROVE  /\ Dead(p, n) <=> Dead(q, n)
           /\ \A s, c : DeadWith(p, n, s, c) <=> DeadWith(q, n, s, c)
<1>1. \A f : Extends(f, p, n) <=> Extends(f, q, n)
  BY DEF Extends
<1> QED BY <1>1 DEF Dead, DeadWith

-----------------------------------------------------------------------------
(* Frames that a step leaves alone.                                        *)

LEMMA ProblemFixed ==
    ASSUME UNCHANGED problem
    PROVE  /\ \A path : IsSelection(path)' <=> IsSelection(path)
           /\ \A path, n : DomainsAfter(path, n)' = DomainsAfter(path, n)
           /\ \A path, n : Dead(path, n)' <=> Dead(path, n)
           /\ \A path, n, s, c : DeadWith(path, n, s, c)' <=> DeadWith(path, n, s, c)
           /\ Solvable' <=> Solvable
BY DEF problem, IsSelection, DomainsAfter, Dead, DeadWith, Compatible, Legal, Extends, Solvable

LEMMA LowerFrameFollows ==
    ASSUME UNCHANGED problem, Uncut' => Uncut,
           NEW i \in Nat \ {0}, FrameFollows(i), stack'[i] = stack[i],
           i <= Len(selected), i <= Len(selected'),
           \A j \in 1 .. i : selected'[j] = selected[j]
    PROVE  FrameFollows(i)'
<1> DEFINE frame == stack[i]
<1>1. \A j \in 1 .. i - 1 : selected'[j] = selected[j]
  OBVIOUS
<1>2. selected'[i] = selected[i] /\ i - 1 \in Nat
  OBVIOUS
<1>3. DomainsAfter(selected, i - 1)' = DomainsAfter(selected, i - 1)
  BY <1>1, <1>2, ProblemFixed, DomainsOfPrefix
<1>4. \A c : DeadWith(selected, i - 1, frame.signal, c)' <=>
             DeadWith(selected, i - 1, frame.signal, c)
  <2>1. \A s, c : DeadWith(selected', i - 1, s, c) <=> DeadWith(selected, i - 1, s, c)
    BY <1>1, <1>2, DeadOfPrefix
  <2> QED BY <2>1, ProblemFixed
<1>5. Uncut' => TriedAreDead(i)'
  BY <1>2, <1>4 DEF FrameFollows, TriedAreDead
<1>6. IsSelection(frame.failure)'
  BY ProblemFixed DEF FrameFollows
<1> QED BY <1>1, <1>2, <1>3, <1>5, <1>6 DEF FrameFollows

LEMMA PopFollows ==
    ASSUME Shapes, Depths, FramesFollow, pc \in {"next", "false"}, UNCHANGED problem,
           stack # <<>>, stack' = Front(stack), Uncut' => Uncut,
           selected' \in Seq(Options), Len(selected') >= Len(stack) - 1,
           \A j \in 1 .. Len(stack) - 1 : selected'[j] = selected[j]
    PROVE  /\ stack' \in Seq(Frames) /\ Len(stack) \in Nat \ {0}
           /\ Len(stack') = Len(stack) - 1
           /\ FramesFollow'
<1>1. /\ stack' \in Seq(Frames) /\ Len(stack) \in Nat \ {0}
      /\ Len(stack') = Len(stack) - 1
      /\ \A i \in 1 .. Len(stack) - 1 : stack'[i] = stack[i]
  BY FrontFacts DEF Shapes
<1>2. Len(selected) >= Len(stack) - 1 /\ Len(selected) \in Nat /\ Len(selected') \in Nat
  BY <1>1 DEF Depths
<1>3. ASSUME NEW i \in 1 .. Len(stack') PROVE FrameFollows(i)'
  <2>1. i \in Nat \ {0} /\ i \in 1 .. Len(stack) - 1 /\ i \in 1 .. Len(stack)
    BY <1>1
  <2>2. \A j \in 1 .. i : selected'[j] = selected[j]
    BY <1>1, <2>1
  <2> QED BY <1>1, <1>2, <2>1, <2>2, LowerFrameFollows DEF FramesFollow
<1> QED BY <1>1, <1>3 DEF FramesFollow

LEMMA ReplaceFollows ==
    ASSUME Shapes, Depths, FramesFollow, pc \in {"next", "false"}, UNCHANGED problem,
           stack # <<>>, NEW frame \in Frames, stack' = ReplaceTop(frame), Uncut' => Uncut,
           selected' \in Seq(Options), Len(selected') >= Len(stack) - 1,
           \A j \in 1 .. Len(stack) - 1 : selected'[j] = selected[j],
           NEW n, n = Len(stack), stack'[n] = frame => FrameFollows(n)'
    PROVE  /\ stack' \in Seq(Frames) /\ Len(stack) \in Nat \ {0}
           /\ Len(stack') = Len(stack)
           /\ stack'[Len(stack)] = frame
           /\ FramesFollow'
<1>1. /\ stack' \in Seq(Frames) /\ Len(stack) \in Nat \ {0}
      /\ Len(stack') = Len(stack)
      /\ stack'[Len(stack)] = frame
      /\ \A i \in 1 .. Len(stack) - 1 : stack'[i] = stack[i]
  <2>1. stack \in Seq(Frames) /\ stack' = Append(Front(stack), frame)
    BY DEF Shapes, ReplaceTop
  <2>2. Len(stack) \in Nat \ {0}
    BY <2>1, FrontFacts
  <2>3. /\ Append(Front(stack), frame) \in Seq(Frames)
        /\ Len(Append(Front(stack), frame)) = Len(stack)
        /\ \A i \in 1 .. Len(stack) - 1 : Append(Front(stack), frame)[i] = stack[i]
        /\ Append(Front(stack), frame)[Len(stack)] = frame
    BY <2>1, ReplaceFacts, Zenon
  <2> QED BY <2>1, <2>2, <2>3, Zenon
<1>2. Len(selected) >= Len(stack) - 1 /\ Len(selected) \in Nat /\ Len(selected') \in Nat
  BY <1>1 DEF Depths
<1>3. ASSUME NEW i \in 1 .. Len(stack') PROVE FrameFollows(i)'
  <2>1. CASE i = Len(stack)
    <3>1. FrameFollows(n)'
      BY <1>1
    <3> QED BY <2>1, <3>1
  <2>2. CASE i \in 1 .. Len(stack) - 1
    <3>1. i \in Nat \ {0} /\ i \in 1 .. Len(stack)
      BY <1>1, <2>2
    <3>2. \A j \in 1 .. i : selected'[j] = selected[j]
      BY <1>1, <2>2
    <3> QED BY <1>1, <1>2, <2>2, <3>1, <3>2, LowerFrameFollows DEF FramesFollow
  <2> QED BY <1>1, <2>1, <2>2
<1> QED BY <1>1, <1>3 DEF FramesFollow

LEMMA FramesStay ==
    ASSUME FramesFollow, UNCHANGED <<problem, stack, selected>>, Uncut' => Uncut
    PROVE  FramesFollow'
<1> SUFFICES ASSUME NEW i \in 1 .. Len(stack), FrameFollows(i)
             PROVE  FrameFollows(i)'
  BY DEF FramesFollow
<1>1. /\ DomainsAfter(selected, i - 1)' = DomainsAfter(selected, i - 1)
      /\ IsSelection(stack[i].failure)' <=> IsSelection(stack[i].failure)
      /\ \A s, c : DeadWith(selected, i - 1, s, c)' <=> DeadWith(selected, i - 1, s, c)
  BY ProblemFixed
<1>2. TriedAreDead(i) => TriedAreDead(i)'
  BY <1>1 DEF TriedAreDead
<1> QED BY <1>1, <1>2 DEF FrameFollows

\* A loop works on the domains that the selection leaves.
LEMMA LoopFacts ==
    ASSUME Shapes, Depths, FramesFollow, pc = "next"
    PROVE  /\ stack # <<>> /\ Len(stack) \in Nat \ {0}
           /\ Len(selected) \in Nat /\ Len(stack) = Len(selected) + 1
           /\ Top = stack[Len(stack)] /\ Top \in Frames
           /\ Top.domains = DomainsAfter(selected, Len(selected))
           /\ Top.signal \in DOMAIN Top.domains /\ Top.signal \in Signals
           /\ Top.rest \subseteq Top.domains[Top.signal] /\ Top.rest \subseteq Candidates
           /\ FrameFollows(Len(stack))
<1>1. Len(selected) \in Nat /\ Len(stack) = Len(selected) + 1 /\ stack \in Seq(Frames)
  BY DEF Depths, Shapes
<1>2. Len(stack) \in Nat \ {0} /\ stack # <<>>
  BY <1>1
<1>3. Top = stack[Len(stack)] /\ Top \in Frames
  BY <1>1, <1>2, FrontFacts DEF Top
<1>4. FrameFollows(Len(stack))
  BY <1>2 DEF FramesFollow
<1>5. Len(stack) - 1 = Len(selected)
  BY <1>1
<1>6. /\ Top.domains = DomainsAfter(selected, Len(selected))
      /\ Top.signal \in DOMAIN Top.domains
      /\ Top.rest \subseteq Top.domains[Top.signal]
  BY <1>3, <1>4, <1>5 DEF FrameFollows
<1>7. Top.signal \in Signals /\ Top.rest \subseteq Candidates
  BY <1>3 DEF Frames
<1> QED BY <1>1, <1>2, <1>3, <1>4, <1>6, <1>7

LEMMA CandidateFacts ==
    ASSUME Shapes, Depths, FramesFollow, pc = "next", Top.rest # {}
    PROVE  First(Top.rest) \in Top.rest /\ First(Top.rest) \in Candidates
<1>1. Top.rest \subseteq Candidates /\ Top.rest \in SUBSET Nat
  BY LoopFacts, AssignmentAssumption
<1> QED BY <1>1, FirstIsOne

LEMMA NamesAreSignals ==
    ASSUME selected \in Seq(Options)
    PROVE  /\ NamesOf(selected) \subseteq Signals
           /\ NamesOf(selected) = {selected[j][1] : j \in 1 .. Len(selected)}
<1>1. DOMAIN selected = 1 .. Len(selected)
  OBVIOUS
<1>2. \A i \in DOMAIN selected : selected[i][1] \in Signals
  BY ElementOfSeq DEF Options
<1> QED BY <1>1, <1>2 DEF NamesOf

LEMMA BudgetFacts ==
    ASSUME Shapes
    PROVE  budget.limit \in Nat /\ budget.shared \in BOOLEAN
BY AssignmentAssumption DEF Shapes

-----------------------------------------------------------------------------
(* The initial states.                                                     *)

LEMMA InitIInv == Init => IInv
<1> SUFFICES ASSUME Init PROVE IInv
  OBVIOUS
<1> USE DEF Init
<1>1. budget.limit \in Nat
  BY AssignmentAssumption
<1>2. groups \in DomainMaps
  BY DEF DomainMaps
<1>3. Shapes
  <2>1. stack \in Seq(Frames)
    BY EmptySeq
  <2>2. shared \in 0 .. budget.limit
    BY <1>1
  <2> QED BY <1>2, <2>1, <2>2 DEF Shapes
<1>4. selected \in Seq(Options) /\ Len(selected) = 0 /\ Len(stack) = 0
  BY EmptySeq
<1>5. IsSelection(selected)
  BY <1>4 DEF IsSelection
<1>6. Depths
  BY <1>4, <1>5 DEF Depths, Uncut
<1>7. domains = DomainsAfter(selected, Len(selected))
  <2>1. 1 .. 0 = {}
    OBVIOUS
  <2>2. /\ {selected[j][1] : j \in 1 .. 0} = {}
        /\ \A s : {c \in groups[s] : \A j \in 1 .. 0 : Compatible(selected[j], <<s, c>>)}
                    = {c \in groups[s] : TRUE}
    BY <2>1
  <2>3. DomainsAfter(selected, 0) = [s \in Signals |-> {c \in groups[s] : TRUE}]
    BY <2>2 DEF DomainsAfter
  <2>4. groups = [s \in Signals |-> groups[s]]
    OBVIOUS
  <2>5. \A s \in Signals : {c \in groups[s] : TRUE} = groups[s]
    OBVIOUS
  <2> QED BY <1>4, <2>3, <2>4, <2>5
<1>8. CallFollows /\ FramesFollow
  BY <1>4, <1>7 DEF CallFollows, FramesFollow
<1>9. Budgeted
  BY <1>1 DEF Budgeted, BudgetIsRespected
<1> QED BY <1>3, <1>6, <1>8, <1>9 DEF IInv, FailuresAreNamed, FailureIsProof, WitnessIsWhole

-----------------------------------------------------------------------------
(* One step per action.                                                    *)

LEMMA AllAssignedStep == IInv /\ AllAssigned => IInv'
<1> SUFFICES ASSUME IInv, AllAssigned PROVE IInv'
  OBVIOUS
<1> USE DEF AllAssigned, counters, diagnosis
<1>1. Shapes'
  BY DEF IInv, Shapes, problem
<1>2. domains = DomainsAfter(selected, Len(selected)) /\ selected \in Seq(Options)
      /\ Len(selected) \in Nat
  BY DEF IInv, CallFollows, Depths
<1>3. NamesOf(selected) = Signals
  BY <1>2, NamesAreSignals, DomainsAreMaps DEF IInv, Shapes
<1>4. FramesFollow'
  BY FramesStay DEF IInv, Uncut
<1>5. Depths'
  BY ProblemFixed DEF IInv, Depths
<1>6. Budgeted'
  BY DEF IInv, Budgeted, BudgetIsRespected, problem
<1>7. WitnessIsWhole'
  BY <1>3 DEF WitnessIsWhole, NamesOf
<1> QED BY <1>1, <1>4, <1>5, <1>6, <1>7 DEF IInv, CallFollows, FailuresAreNamed, FailureIsProof

LEMMA EmptyDomainStep == IInv /\ EmptyDomain => IInv'
<1> SUFFICES ASSUME IInv, EmptyDomain PROVE IInv'
  OBVIOUS
<1> USE DEF EmptyDomain, counters
<1> DEFINE s == ChooseSignal(domains)
<1>1. domains = DomainsAfter(selected, Len(selected)) /\ selected \in Seq(Options)
      /\ Len(selected) \in Nat /\ Len(selected) = Len(stack)
  BY DEF IInv, CallFollows, Depths
<1>2. s \in DOMAIN domains /\ s \in Signals
  <2>1. domains \in DomainMaps
    BY DEF IInv, Shapes
  <2> QED BY <2>1, ChosenIsOne DEF DomainMaps
<1>3. failureNet' = {s} /\ conflicts' = NamesOf(selected) \cup {s} /\ domains[s] = {}
  OBVIOUS
<1> HIDE DEF s
<1>4. Diagnosed'
  BY <1>3 DEF Diagnosed
<1>5. failureNet' \subseteq Signals /\ conflicts' \subseteq Signals
  BY <1>1, <1>2, <1>3, NamesAreSignals
<1>6. Shapes'
  BY <1>5 DEF IInv, Shapes, problem
<1>7. FramesFollow'
  BY FramesStay DEF IInv, Uncut
<1>8. Depths'
  BY ProblemFixed DEF IInv, Depths
<1>9. Budgeted'
  BY DEF IInv, Budgeted, BudgetIsRespected, problem
<1>10. Dead(selected, Len(stack))
  BY <1>1, <1>2, <1>3, EmptyIsDead
<1>11. FailureIsProof'
  BY <1>10, ProblemFixed DEF FailureIsProof
<1> QED BY <1>4, <1>6, <1>7, <1>8, <1>9, <1>11
        DEF IInv, CallFollows, FailuresAreNamed, WitnessIsWhole

LEMMA EmptyIsSelection == IsSelection(<<>>)
BY EmptySeq DEF IsSelection

LEMMA BranchStep == IInv /\ Branch => IInv'
<1> SUFFICES ASSUME IInv, Branch PROVE IInv'
  OBVIOUS
<1> USE DEF Branch, counters, diagnosis
<1> DEFINE s == ChooseSignal(domains)
           frame == Frame(s, domains)
           n == Len(selected)
<1>1. /\ domains = DomainsAfter(selected, n) /\ selected \in Seq(Options)
      /\ n \in Nat /\ n = Len(stack) /\ domains \in DomainMaps /\ stack \in Seq(Frames)
  BY DEF IInv, CallFollows, Depths, Shapes
<1>2. /\ s \in DOMAIN domains /\ s \in Signals
      /\ domains[s] # {} /\ domains[s] \subseteq Candidates
  BY <1>1, ChosenIsOne DEF DomainMaps
<1>3. /\ frame.signal = s /\ frame.rest = domains[s] /\ frame.domains = domains
      /\ frame.depth = n /\ frame.failure = <<>>
  BY DEF Frame
<1>4. frame \in Frames
  <2>1. <<>> \in Seq(Options)
    BY EmptySeq
  <2> QED BY <1>1, <1>2, <2>1 DEF Frame, Frames
<1>5. stack' = Append(stack, frame)
  OBVIOUS
<1> HIDE DEF s, frame
<1>6. /\ stack' \in Seq(Frames) /\ Len(stack') = n + 1
      /\ stack'[n + 1] = frame
      /\ \A i \in 1 .. n : stack'[i] = stack[i]
  BY <1>1, <1>4, <1>5, AppendProperties
<1>7. Shapes'
  BY <1>6 DEF IInv, Shapes, problem
<1>8. Depths'
  BY <1>6, ProblemFixed DEF IInv, Depths, Uncut
<1>9. FrameFollows(n + 1)'
  <2>1. n + 1 - 1 = n /\ ~(n + 1 <= n)
    BY <1>1
  <2>2. domains = DomainsAfter(selected, n + 1 - 1)'
    BY <1>1, <2>1, ProblemFixed
  <2>3. IsSelection(<<>>)'
    BY EmptyIsSelection, ProblemFixed
  <2>4. TriedAreDead(n + 1)'
    BY <1>3, <1>6 DEF TriedAreDead
  <2> QED BY <1>2, <1>3, <1>6, <2>1, <2>2, <2>3, <2>4 DEF FrameFollows
<1>10. FramesFollow'
  <2> SUFFICES ASSUME NEW i \in 1 .. n + 1 PROVE FrameFollows(i)'
    BY <1>6 DEF FramesFollow
  <2>1. CASE i = n + 1
    BY <1>9, <2>1
  <2>2. CASE i \in 1 .. n
    <3>1. FrameFollows(i) /\ i \in Nat \ {0} /\ i <= Len(selected)
      BY <1>1, <2>2 DEF IInv, FramesFollow
    <3> QED BY <1>6, <2>2, <3>1, LowerFrameFollows DEF Uncut
  <2> QED BY <1>1, <2>1, <2>2
<1>11. Top'.rest # {}
  BY <1>2, <1>3, <1>6 DEF Top, Last
<1>12. FailuresAreNamed'
  BY <1>11 DEF FailuresAreNamed
<1>13. Budgeted'
  BY DEF IInv, Budgeted, BudgetIsRespected, problem
<1> QED BY <1>7, <1>8, <1>10, <1>12, <1>13 DEF IInv, CallFollows, FailureIsProof, WitnessIsWhole

LEMMA OutOfBudgetStep == IInv /\ OutOfBudget => IInv'
<1> SUFFICES ASSUME IInv, OutOfBudget PROVE IInv'
  OBVIOUS
<1> USE DEF OutOfBudget
<1>1. /\ stack # <<>> /\ Len(stack) \in Nat \ {0}
      /\ Len(selected) \in Nat /\ Len(stack) = Len(selected) + 1
      /\ Top.signal \in Signals
  BY LoopFacts DEF IInv
<1>2. /\ Uncut /\ exhausted' = TRUE /\ expansions' = expansions + 1 /\ shared' = shared
      /\ expired' = FALSE
  <2>1. Uncut /\ ~HasBudget /\ expired' = expired /\ expansions' = expansions + 1
    BY DEF IInv, Depths, Spend
  <2>2. exhausted' = TRUE
    BY <2>1, Zenon DEF Spend
  <2>3. shared' = shared
    BY <2>1 DEF Spend
  <2>4. expired' = FALSE
    BY <2>1 DEF IInv, Shapes, Uncut
  <2> QED BY <2>1, <2>2, <2>3, <2>4
<1>3. /\ stack' \in Seq(Frames) /\ Len(stack') = Len(stack) - 1 /\ FramesFollow'
  BY <1>1, <1>2, PopFollows DEF IInv, Depths
<1>4. Shapes'
  <2>1. expansions' \in Nat /\ shared' \in 0 .. budget.limit
    BY <1>2 DEF IInv, Shapes
  <2> QED BY <1>1, <1>2, <1>3, <2>1 DEF IInv, Shapes, problem
<1>5. Depths'
  BY <1>1, <1>3, ProblemFixed DEF IInv, Depths
<1>6. Budgeted'
  <2>1. /\ budget' = budget /\ exhausted = FALSE /\ budget.limit \in Nat
        /\ expansions \in Nat /\ shared \in 0 .. budget.limit
    BY <1>2, BudgetFacts DEF IInv, Shapes, Uncut, problem
  <2>2. CASE budget.shared
    <3>1. shared >= expansions /\ shared = budget.limit
      BY <2>1, <2>2 DEF IInv, Budgeted, BudgetIsRespected, HasBudget
    <3> QED BY <1>2, <2>1, <2>2, <3>1 DEF Budgeted, BudgetIsRespected
  <2>3. CASE ~budget.shared
    <3>1. expansions = budget.limit
      BY <2>1, <2>3 DEF IInv, Budgeted, BudgetIsRespected, HasBudget
    <3> QED BY <1>2, <2>1, <2>3, <3>1 DEF Budgeted, BudgetIsRespected
  <2> QED BY <2>2, <2>3
<1>7. ~Uncut'
  BY <1>2 DEF Uncut
<1> QED BY <1>3, <1>4, <1>5, <1>6, <1>7
        DEF IInv, CallFollows, FailuresAreNamed, FailureIsProof, WitnessIsWhole

LEMMA DeadlineInLoopStep == IInv /\ DeadlineInLoop => IInv'
<1> SUFFICES ASSUME IInv, DeadlineInLoop PROVE IInv'
  OBVIOUS
<1> USE DEF DeadlineInLoop
<1>1. /\ stack # <<>> /\ Len(stack) \in Nat \ {0}
      /\ Len(selected) \in Nat /\ Len(stack) = Len(selected) + 1
      /\ Top.signal \in Signals /\ Top \in Frames
  BY LoopFacts DEF IInv
<1>2. Uncut /\ exhausted' = exhausted /\ expired' = TRUE
  BY DEF IInv, Depths
<1>3. /\ stack' \in Seq(Frames) /\ Len(stack') = Len(stack) - 1 /\ FramesFollow'
  BY <1>1, <1>2, PopFollows DEF IInv, Depths
<1>4. failureNet' \subseteq Signals
  <2>1. DOMAIN Top.domains \subseteq Signals
    BY <1>1 DEF Frames, DomainMaps
  <2> QED BY <1>1, <2>1
<1>5. /\ expansions' \in Nat /\ shared' \in 0 .. budget.limit
      /\ Budgeted'
  BY <1>2, BudgetFacts DEF IInv, Shapes, Budgeted, BudgetIsRespected, problem, HasBudget, Uncut
<1>6. Shapes'
  BY <1>1, <1>2, <1>3, <1>4, <1>5 DEF IInv, Shapes, problem
<1>7. Depths'
  BY <1>1, <1>3, ProblemFixed DEF IInv, Depths
<1>8. ~Uncut'
  BY <1>2 DEF Uncut
<1> QED BY <1>3, <1>5, <1>6, <1>7, <1>8
        DEF IInv, CallFollows, FailuresAreNamed, FailureIsProof, WitnessIsWhole

LEMMA DeadlineOnEntryStep == IInv /\ DeadlineOnEntry => IInv'
<1> SUFFICES ASSUME IInv, DeadlineOnEntry PROVE IInv'
  OBVIOUS
<1> USE DEF DeadlineOnEntry, diagnosis
<1>1. Shapes'
  BY DEF IInv, Shapes, problem
<1>2. ~Uncut'
  BY DEF Uncut
<1>3. FramesFollow'
  BY <1>2, FramesStay DEF IInv
<1>4. Depths'
  BY ProblemFixed DEF IInv, Depths, Shapes
<1>5. Budgeted'
  BY DEF IInv, Budgeted, BudgetIsRespected, problem
<1> QED BY <1>1, <1>2, <1>3, <1>4, <1>5
        DEF IInv, CallFollows, FailuresAreNamed, FailureIsProof, WitnessIsWhole

LEMMA SpentElsewhereStep == IInv /\ SpentElsewhere => IInv'
<1> SUFFICES ASSUME IInv, SpentElsewhere PROVE IInv'
  OBVIOUS
<1> USE DEF SpentElsewhere, diagnosis
<1>1. /\ shared' \in 0 .. budget.limit /\ Budgeted'
  BY BudgetFacts DEF IInv, Shapes, Budgeted, BudgetIsRespected, problem
<1>2. Shapes'
  BY <1>1 DEF IInv, Shapes, problem
<1>3. FramesFollow'
  BY FramesStay DEF IInv, Uncut
<1>4. Depths'
  BY ProblemFixed DEF IInv, Depths, Uncut
<1>5. CallFollows'
  BY ProblemFixed DEF IInv, CallFollows
<1>6. FailuresAreNamed'
  BY DEF IInv, FailuresAreNamed, Uncut, Diagnosed, Top
<1>7. FailureIsProof'
  BY ProblemFixed DEF IInv, FailureIsProof, Uncut
<1>8. WitnessIsWhole'
  BY DEF WitnessIsWhole
<1> QED BY <1>1, <1>2, <1>3, <1>4, <1>5, <1>6, <1>7, <1>8 DEF IInv

LEMMA FailStep == IInv /\ Fail => IInv'
<1> SUFFICES ASSUME IInv, Fail PROVE IInv'
  OBVIOUS
<1> USE DEF Fail, counters, diagnosis
<1>1. Shapes'
  BY DEF IInv, Shapes, problem
<1>2. FramesFollow'
  BY FramesStay DEF IInv, Uncut
<1>3. Depths'
  BY ProblemFixed DEF IInv, Depths
<1>4. Budgeted'
  BY DEF IInv, Budgeted, BudgetIsRespected, problem
<1>5. FailuresAreNamed'
  BY DEF IInv, FailuresAreNamed, Uncut, Diagnosed
<1>6. Uncut => ~Solvable
  <2> SUFFICES ASSUME Uncut, Solvable PROVE FALSE
    OBVIOUS
  <2>1. Dead(selected, 0)
    BY DEF IInv, FailureIsProof
  <2>2. PICK f \in [Signals -> Candidates] : Legal(f)
    BY DEF Solvable, Legal
  <2> QED BY <2>1, <2>2 DEF Dead, Extends
<1>7. FailureIsProof'
  BY <1>6, ProblemFixed DEF FailureIsProof, Uncut
<1> QED BY <1>1, <1>2, <1>3, <1>4, <1>5, <1>7 DEF IInv, CallFollows, WitnessIsWhole

LEMMA SpendFacts ==
    ASSUME IInv, pc = "next", HasBudget, Spend, UNCHANGED problem
    PROVE  /\ expansions' \in Nat /\ shared' \in 0 .. budget.limit
           /\ exhausted' = FALSE /\ expired' = FALSE /\ Uncut /\ Uncut'
           /\ Budgeted'
<1>1. Uncut /\ expired' = FALSE
  BY DEF IInv, Depths, Shapes, Uncut, Spend
<1>2. exhausted' = FALSE
  BY Zenon DEF Spend
<1>3. /\ budget' = budget /\ exhausted = FALSE /\ budget.limit \in Nat
      /\ budget.shared \in BOOLEAN /\ expansions \in Nat /\ shared \in 0 .. budget.limit
      /\ expansions' = expansions + 1
  BY <1>1, BudgetFacts DEF IInv, Shapes, Uncut, problem, Spend
<1>4. CASE budget.shared
  <2>1. shared < budget.limit /\ shared' = shared + 1 /\ shared >= expansions
    BY <1>3, <1>4 DEF HasBudget, Spend, IInv, Budgeted, BudgetIsRespected
  <2> QED BY <1>1, <1>2, <1>3, <1>4, <2>1 DEF Budgeted, BudgetIsRespected, Uncut
<1>5. CASE ~budget.shared
  <2>1. expansions < budget.limit /\ shared' = shared
    BY <1>3, <1>5 DEF HasBudget, Spend
  <2> QED BY <1>1, <1>2, <1>3, <1>5, <2>1 DEF Budgeted, BudgetIsRespected, Uncut
<1> QED BY <1>4, <1>5

LEMMA InconsistentStep == IInv /\ Inconsistent => IInv'
<1> SUFFICES ASSUME IInv, Inconsistent PROVE IInv'
  OBVIOUS
<1>a. PICK s, c, n : s = Top.signal /\ c = First(Top.rest) /\ n = Len(stack)
  OBVIOUS
<1>b. PICK failed : failed = Append(selected, <<s, c>>)
  OBVIOUS
<1>c. PICK frame : frame = [Top EXCEPT !.rest = @ \ {c}, !.failure = failed]
  OBVIOUS
<1> DEFINE emptied == Emptied(Filtered(Top.domains, s, c))
<1>1. /\ pc = "next" /\ pc' = pc /\ Top.rest # {} /\ HasBudget /\ Spend
      /\ UNCHANGED <<problem, domains, selected, success>>
      /\ emptied # {} /\ failureNet' = {First(emptied)}
      /\ conflicts' = NamesOf(selected) \cup {s, First(emptied)}
      /\ stack' = ReplaceTop(frame)
  BY <1>a, <1>b, <1>c DEF Inconsistent
<1>2. /\ stack # <<>> /\ n \in Nat \ {0} /\ selected \in Seq(Options)
      /\ Len(selected) \in Nat /\ n = Len(selected) + 1 /\ n - 1 = Len(selected)
      /\ Top = stack[n] /\ Top \in Frames /\ IsSelection(selected)
      /\ Top.domains = DomainsAfter(selected, Len(selected))
      /\ s \in DOMAIN Top.domains /\ s \in Signals
      /\ Top.rest \subseteq Top.domains[s] /\ Top.rest \subseteq Candidates
      /\ FrameFollows(n)
  BY <1>a, <1>1, LoopFacts DEF IInv, Depths
<1>3. c \in Top.rest /\ c \in Candidates /\ c \in Top.domains[s]
  BY <1>a, <1>1, <1>2, CandidateFacts DEF IInv
<1>4. /\ expansions' \in Nat /\ shared' \in 0 .. budget.limit
      /\ exhausted' = FALSE /\ expired' = FALSE /\ Uncut /\ Uncut' /\ Budgeted'
  BY <1>1, SpendFacts
<1>5. /\ failed \in Seq(Options) /\ Len(failed) = n
      /\ \A j \in 1 .. n - 1 : failed[j] = selected[j]
      /\ IsSelection(failed)
  BY <1>b, <1>2, <1>3, LengthenedFacts, LongerSelection
<1>6. DeadWith(selected, n - 1, s, c)
  BY <1>1, <1>2, <1>3, EmptiedIsDead
<1>7. First(emptied) \in Signals
  <2>1. emptied \in SUBSET Signals
    BY <1>2 DEF Emptied, Filtered, Frames, DomainMaps
  <2>2. emptied \in SUBSET Nat
    BY <2>1, AssignmentAssumption
  <2> HIDE DEF emptied
  <2> QED BY <1>1, <2>1, <2>2, FirstIsOne
<1> HIDE DEF emptied
<1>8. /\ frame \in Frames
      /\ frame.signal = s /\ frame.rest = Top.rest \ {c} /\ frame.domains = Top.domains
      /\ frame.depth = Top.depth /\ frame.failure = failed
  BY <1>a, <1>c, <1>2, <1>5 DEF Frames
<1>9. ASSUME stack'[n] = frame PROVE FrameFollows(n)'
  <2>1. failed # <<>>
    BY <1>2, <1>5
  <2>2. DomainsAfter(selected, n - 1)' = Top.domains
    BY <1>1, <1>2, ProblemFixed
  <2>3. IsSelection(failed)'
    BY <1>1, <1>5, ProblemFixed
  <2>4. TriedAreDead(n)'
    <3> SUFFICES ASSUME NEW k \in Top.domains[s] \ (Top.rest \ {c})
                 PROVE  DeadWith(selected, n - 1, s, k)'
      BY <1>1, <1>2, <1>8, <1>9 DEF TriedAreDead
    <3>1. CASE k = c
      BY <1>1, <1>6, <3>1, ProblemFixed
    <3>2. CASE k # c
      <4>1. k \in stack[n].domains[stack[n].signal] \ stack[n].rest /\ ~(n <= Len(selected))
        BY <1>a, <1>2, <3>2
      <4>2. TriedAreDead(n)
        BY <1>2, <1>4 DEF FrameFollows
      <4>3. DeadWith(selected, n - 1, s, k)
        BY <1>a, <1>2, <4>1, <4>2 DEF TriedAreDead
      <4> QED BY <1>1, <4>3, ProblemFixed
    <3> QED BY <3>1, <3>2
  <2>5. /\ frame.depth = n - 1 /\ s \in DOMAIN frame.domains
        /\ frame.rest \subseteq frame.domains[s]
    BY <1>2, <1>8 DEF FrameFollows
  <2>6. ~(n <= Len(selected')) /\ Len(failed) >= n - 1
    BY <1>1, <1>2, <1>5
  <2> QED BY <1>1, <1>5, <1>8, <1>9, <2>1, <2>2, <2>3, <2>4, <2>5, <2>6 DEF FrameFollows
<1>10. /\ stack' \in Seq(Frames) /\ Len(stack') = n /\ FramesFollow'
  BY <1>a, <1>1, <1>2, <1>4, <1>8, <1>9, ReplaceFollows DEF IInv
<1>11. NamesOf(selected) \subseteq Signals
  BY <1>2, NamesAreSignals
<1>12. Shapes'
  BY <1>1, <1>2, <1>4, <1>7, <1>10, <1>11 DEF IInv, Shapes, problem
<1>13. Depths'
  BY <1>1, <1>2, <1>4, <1>10, ProblemFixed DEF Depths
<1>14. Diagnosed'
  BY <1>1 DEF Diagnosed
<1> QED BY <1>1, <1>4, <1>10, <1>12, <1>13, <1>14
        DEF IInv, CallFollows, FailuresAreNamed, FailureIsProof, WitnessIsWhole

LEMMA DescendStep == IInv /\ Descend => IInv'
<1> SUFFICES ASSUME IInv, Descend PROVE IInv'
  OBVIOUS
<1>a. PICK s, c, n : s = Top.signal /\ c = First(Top.rest) /\ n = Len(stack)
  OBVIOUS
<1>b. PICK longer : longer = Append(selected, <<s, c>>)
  OBVIOUS
<1>c. PICK frame : frame = [Top EXCEPT !.rest = @ \ {c}]
  OBVIOUS
<1>1. /\ pc = "next" /\ pc' = "call" /\ Top.rest # {} /\ HasBudget /\ Spend
      /\ UNCHANGED <<problem, diagnosis, success>>
      /\ domains' = Filtered(Top.domains, s, c)
      /\ selected' = longer
      /\ stack' = ReplaceTop(frame)
  BY <1>a, <1>b, <1>c DEF Descend
<1>2. /\ stack # <<>> /\ n \in Nat \ {0} /\ selected \in Seq(Options)
      /\ Len(selected) \in Nat /\ n = Len(selected) + 1 /\ n - 1 = Len(selected)
      /\ Top = stack[n] /\ Top \in Frames /\ IsSelection(selected)
      /\ Top.domains = DomainsAfter(selected, Len(selected))
      /\ s \in DOMAIN Top.domains /\ s \in Signals
      /\ Top.rest \subseteq Top.domains[s] /\ Top.rest \subseteq Candidates
      /\ FrameFollows(n)
  BY <1>a, <1>1, LoopFacts DEF IInv, Depths
<1>3. c \in Top.rest /\ c \in Candidates /\ c \in Top.domains[s]
  BY <1>a, <1>1, <1>2, CandidateFacts DEF IInv
<1>4. /\ expansions' \in Nat /\ shared' \in 0 .. budget.limit
      /\ exhausted' = FALSE /\ expired' = FALSE /\ Uncut /\ Uncut' /\ Budgeted'
  BY <1>1, SpendFacts
<1>5. /\ longer \in Seq(Options) /\ Len(longer) = n /\ longer[n] = <<s, c>>
      /\ \A j \in 1 .. n - 1 : longer[j] = selected[j]
      /\ IsSelection(longer)
  BY <1>b, <1>2, <1>3, LengthenedFacts, LongerSelection
<1>6. domains' = DomainsAfter(longer, n)
  BY <1>b, <1>1, <1>2, <1>3, FilteredIsNext
<1>7. /\ frame \in Frames
      /\ frame.signal = s /\ frame.rest = Top.rest \ {c} /\ frame.domains = Top.domains
      /\ frame.depth = Top.depth /\ frame.failure = Top.failure
  BY <1>a, <1>c, <1>2 DEF Frames
<1>8. ASSUME stack'[n] = frame PROVE FrameFollows(n)'
  <2>1. \A j \in 1 .. n - 1 : selected'[j] = selected[j]
    BY <1>1, <1>5
  <2>2. DomainsAfter(selected, n - 1)' = Top.domains
    <3>1. DomainsAfter(selected', n - 1) = DomainsAfter(selected, n - 1)
      BY <1>2, <2>1, DomainsOfPrefix
    <3> QED BY <1>1, <1>2, <3>1, ProblemFixed
  <2>3. IsSelection(frame.failure)'
    BY <1>1, <1>2, <1>7, ProblemFixed DEF FrameFollows
  <2>4. selected'[n][1] = s /\ selected'[n][2] = c /\ n <= Len(selected')
    BY <1>1, <1>2, <1>5
  <2>5. TriedAreDead(n)'
    <3> SUFFICES ASSUME NEW k \in Top.domains[s] \ (Top.rest \ {c}), k # c
                 PROVE  DeadWith(selected, n - 1, s, k)'
      BY <1>7, <1>8, <2>4 DEF TriedAreDead
    <3>1. k \in stack[n].domains[stack[n].signal] \ stack[n].rest /\ ~(n <= Len(selected))
      BY <1>a, <1>2
    <3>2. TriedAreDead(n)
      BY <1>2, <1>4 DEF FrameFollows
    <3>3. DeadWith(selected, n - 1, s, k)
      BY <1>a, <1>2, <3>1, <3>2 DEF TriedAreDead
    <3>4. DeadWith(selected', n - 1, s, k)
      BY <1>2, <2>1, <3>3, DeadOfPrefix
    <3> QED BY <1>1, <3>4, ProblemFixed
  <2>6. /\ frame.depth = n - 1 /\ s \in DOMAIN frame.domains
        /\ frame.rest \subseteq frame.domains[s]
    BY <1>2, <1>7 DEF FrameFollows
  <2>7. frame.failure # <<>> => /\ Len(frame.failure) >= n - 1
                               /\ \A j \in 1 .. n - 1 : frame.failure[j] = selected'[j]
    BY <1>2, <1>7, <2>1 DEF FrameFollows
  <2> QED BY <1>7, <1>8, <2>2, <2>3, <2>4, <2>5, <2>6, <2>7 DEF FrameFollows
<1>9. /\ stack' \in Seq(Frames) /\ Len(stack') = n /\ FramesFollow'
  BY <1>a, <1>1, <1>2, <1>4, <1>5, <1>7, <1>8, ReplaceFollows DEF IInv
<1>10. domains' \in DomainMaps
  BY <1>2, <1>6, DomainsAreMaps DEF IInv, Shapes
<1>11. Shapes'
  BY <1>1, <1>4, <1>9, <1>10 DEF IInv, Shapes, problem, diagnosis
<1>12. Depths'
  BY <1>1, <1>4, <1>5, <1>9, ProblemFixed DEF Depths
<1>13. CallFollows'
  BY <1>1, <1>5, <1>6, ProblemFixed DEF CallFollows
<1> QED BY <1>1, <1>4, <1>9, <1>11, <1>12, <1>13
        DEF IInv, FailuresAreNamed, FailureIsProof, WitnessIsWhole

LEMMA OutOfCandidatesStep == IInv /\ OutOfCandidates => IInv'
<1> SUFFICES ASSUME IInv, OutOfCandidates PROVE IInv'
  OBVIOUS
<1> USE DEF OutOfCandidates, counters, diagnosis
<1>a. PICK n, s : n = Len(stack) /\ s = Top.signal
  OBVIOUS
<1>1. /\ stack # <<>> /\ n \in Nat \ {0} /\ selected \in Seq(Options)
      /\ Len(selected) \in Nat /\ n = Len(selected) + 1 /\ n - 1 = Len(selected)
      /\ Top = stack[n] /\ Top \in Frames /\ IsSelection(selected)
      /\ Top.domains = DomainsAfter(selected, Len(selected))
      /\ s \in DOMAIN Top.domains /\ FrameFollows(n) /\ Uncut
  BY <1>a, LoopFacts DEF IInv, Depths
<1>2. /\ selected' \in Seq(Options) /\ IsSelection(selected')
      /\ Len(selected') \in Nat /\ Len(selected') >= n - 1
      /\ \A j \in 1 .. n - 1 : selected'[j] = selected[j]
  <2>1. CASE Top.failure = <<>>
    BY <1>1, <2>1 DEF OrElse
  <2>2. CASE Top.failure # <<>>
    <3>1. selected' = Top.failure
      BY <2>2 DEF OrElse
    <3>2. IsSelection(Top.failure) /\ Len(Top.failure) >= n - 1
          /\ \A j \in 1 .. n - 1 : Top.failure[j] = selected[j]
      BY <1>1, <2>2 DEF FrameFollows
    <3> QED BY <3>1, <3>2 DEF IsSelection
  <2> QED BY <2>1, <2>2
<1>3. Uncut'
  BY <1>1 DEF Uncut
<1>4. /\ stack' \in Seq(Frames) /\ Len(stack') = n - 1 /\ FramesFollow'
  BY <1>a, <1>1, <1>2, PopFollows DEF IInv
<1>5. Dead(selected', n - 1)
  <2>1. ASSUME NEW c \in DomainsAfter(selected, n - 1)[s]
        PROVE  DeadWith(selected, n - 1, s, c)
    <3>1. c \in stack[n].domains[stack[n].signal] \ stack[n].rest /\ ~(n <= Len(selected))
      BY <1>a, <1>1
    <3>2. TriedAreDead(n)
      BY <1>1 DEF FrameFollows
    <3> QED BY <1>a, <1>1, <3>1, <3>2 DEF TriedAreDead
  <2>2. Dead(selected, n - 1)
    BY <1>1, <2>1, AllAreDead
  <2> QED BY <1>1, <1>2, <2>2, DeadOfPrefix
<1>6. Diagnosed'
  BY <1>1 DEF IInv, FailuresAreNamed, Diagnosed
<1>7. Shapes'
  BY <1>4 DEF IInv, Shapes, problem
<1>8. Depths'
  BY <1>2, <1>4, ProblemFixed DEF Depths
<1>9. Budgeted'
  BY DEF IInv, Budgeted, BudgetIsRespected, problem
<1>10. FailureIsProof'
  BY <1>4, <1>5, ProblemFixed DEF FailureIsProof
<1> QED BY <1>4, <1>6, <1>7, <1>8, <1>9, <1>10
        DEF IInv, CallFollows, FailuresAreNamed, WitnessIsWhole

LEMMA BacktrackStep == IInv /\ Backtrack => IInv'
<1> SUFFICES ASSUME IInv, Backtrack PROVE IInv'
  OBVIOUS
<1> USE DEF counters, diagnosis
<1>a. PICK n, s, failure, undone :
        /\ n = Len(stack) /\ s = Top.signal
        /\ failure = Longer(selected, Top.failure)
        /\ undone = SubSeq(selected, 1, Top.depth)
  OBVIOUS
<1>b. PICK frame : frame = [Top EXCEPT !.failure = failure]
  OBVIOUS
<1>1. /\ pc = "false" /\ stack # <<>>
      /\ UNCHANGED <<problem, domains, counters, diagnosis, success>>
      /\ \/ /\ ~Uncut
            /\ selected' = OrElse(failure, undone) /\ stack' = Front(stack) /\ pc' = "false"
         \/ /\ Uncut
            /\ selected' = undone /\ stack' = ReplaceTop(frame) /\ pc' = "next"
  BY <1>a, <1>b DEF Backtrack, Uncut
<1>2. stack \in Seq(Frames) /\ n \in Nat \ {0} /\ Top \in Frames /\ Top = stack[n]
  BY <1>a, <1>1, FrontFacts DEF IInv, Shapes, Top
<1>3. /\ selected \in Seq(Options) /\ Len(selected) \in Nat /\ Len(selected) >= n
      /\ IsSelection(selected) /\ FrameFollows(n)
  BY <1>a, <1>1, <1>2 DEF IInv, Depths, FramesFollow
<1>4. /\ Top.depth = n - 1 /\ s \in DOMAIN Top.domains /\ selected[n][1] = s
      /\ Top.rest \subseteq Top.domains[s]
      /\ Top.domains = DomainsAfter(selected, n - 1)
  BY <1>a, <1>2, <1>3 DEF FrameFollows
<1>5. /\ undone \in Seq(Options) /\ Len(undone) = n - 1 /\ IsSelection(undone)
      /\ \A j \in 1 .. n - 1 : undone[j] = selected[j]
  <2>1. n - 1 \in Nat /\ n - 1 <= Len(selected)
    BY <1>2, <1>3
  <2> QED BY <1>a, <1>3, <1>4, <2>1, PrefixFacts, PrefixIsSelection
<1>6. /\ failure \in Seq(Options) /\ Len(failure) \in Nat /\ Len(failure) >= n
      /\ failure # <<>> /\ IsSelection(failure)
      /\ \A j \in 1 .. n - 1 : failure[j] = selected[j]
  <2>1. CASE Len(selected) > Len(Top.failure)
    <3>1. failure = selected
      BY <1>a, <2>1 DEF Longer
    <3> QED BY <1>2, <1>3, <3>1
  <2>2. CASE ~(Len(selected) > Len(Top.failure))
    <3>1. failure = Top.failure
      BY <1>a, <2>2 DEF Longer
    <3>2. Top.failure \in Seq(Options) /\ Len(Top.failure) \in Nat
      BY <1>2 DEF Frames
    <3>3. Len(Top.failure) >= n /\ Top.failure # <<>>
      BY <1>2, <1>3, <2>2, <3>2
    <3>4. IsSelection(Top.failure) /\ \A j \in 1 .. n - 1 : Top.failure[j] = selected[j]
      BY <1>2, <1>3, <3>3 DEF FrameFollows
    <3> QED BY <3>1, <3>2, <3>3, <3>4
  <2> QED BY <2>1, <2>2
<1>7. Budgeted'
  BY <1>1 DEF IInv, Budgeted, BudgetIsRespected, problem
<1>8. CASE ~Uncut /\ stack' = Front(stack)
  <2>1. selected' = failure /\ pc' = "false" /\ ~Uncut'
    BY <1>1, <1>6, <1>8 DEF OrElse, Uncut
  <2>2. /\ stack' \in Seq(Frames) /\ Len(stack') = n - 1 /\ FramesFollow'
    <3>1. /\ selected' \in Seq(Options) /\ Len(selected') >= n - 1
          /\ \A j \in 1 .. n - 1 : selected'[j] = selected[j]
      BY <1>2, <1>6, <2>1
    <3> QED BY <1>a, <1>1, <1>8, <2>1, <3>1, PopFollows DEF IInv
  <2>3. Shapes'
    BY <1>1, <2>1, <2>2 DEF IInv, Shapes, problem
  <2>4. Depths'
    BY <1>1, <1>2, <1>6, <2>1, <2>2, ProblemFixed DEF Depths
  <2> QED BY <1>7, <2>1, <2>2, <2>3, <2>4
          DEF IInv, CallFollows, FailuresAreNamed, FailureIsProof, WitnessIsWhole
<1>9. CASE Uncut /\ stack' = ReplaceTop(frame) /\ selected' = undone /\ pc' = "next"
  <2>1. /\ frame \in Frames /\ frame.signal = s /\ frame.rest = Top.rest
        /\ frame.domains = Top.domains /\ frame.depth = n - 1 /\ frame.failure = failure
    BY <1>a, <1>b, <1>2, <1>4, <1>6 DEF Frames
  <2>2. \A j \in 1 .. n - 1 : selected'[j] = selected[j]
    BY <1>5, <1>9
  <2>3. Dead(selected, n)
    BY <1>a, <1>1, <1>9 DEF IInv, FailureIsProof
  <2>4. DeadWith(selected, n - 1, s, selected[n][2])
    BY <1>2, <1>3, <1>4, <2>3, DeadChoice
  <2>5. ASSUME stack'[n] = frame PROVE FrameFollows(n)'
    <3>1. DomainsAfter(selected, n - 1)' = Top.domains
      <4>1. DomainsAfter(selected', n - 1) = DomainsAfter(selected, n - 1)
        BY <1>2, <2>2, DomainsOfPrefix
      <4> QED BY <1>1, <1>4, <4>1, ProblemFixed
    <3>2. IsSelection(failure)'
      BY <1>1, <1>6, ProblemFixed
    <3>3. \A j \in 1 .. n - 1 : failure[j] = selected'[j]
      BY <1>6, <2>2
    <3>4. TriedAreDead(n)'
      <4> SUFFICES ASSUME NEW k \in Top.domains[s] \ Top.rest
                   PROVE  DeadWith(selected, n - 1, s, k)'
        BY <2>1, <2>5 DEF TriedAreDead
      <4>1. TriedAreDead(n)
        BY <1>3, <1>9 DEF FrameFollows
      <4>2. DeadWith(selected, n - 1, s, k)
        BY <1>a, <1>2, <2>4, <4>1 DEF TriedAreDead
      <4>3. DeadWith(selected', n - 1, s, k)
        <5>1. n - 1 \in Nat /\ \A j \in 1 .. n - 1 : selected[j] = selected'[j]
          BY <1>2, <2>2
        <5>2. DeadWith(selected, n - 1, s, k) <=> DeadWith(selected', n - 1, s, k)
          BY <5>1, DeadOfPrefix, Zenon
        <5> QED BY <4>2, <5>2
      <4> QED BY <1>1, <4>3, ProblemFixed
    <3>5. ~(n <= Len(selected')) /\ Len(failure) >= n - 1
      BY <1>2, <1>5, <1>6, <1>9
    <3> QED BY <1>4, <1>6, <2>1, <2>5, <3>1, <3>2, <3>3, <3>4, <3>5 DEF FrameFollows
  <2>6. /\ stack' \in Seq(Frames) /\ Len(stack') = n /\ FramesFollow'
    <3>1. selected' \in Seq(Options) /\ Len(selected') >= n - 1
      BY <1>2, <1>5, <1>9
    <3> QED BY <1>a, <1>1, <1>9, <2>1, <2>2, <2>5, <3>1, ReplaceFollows DEF IInv
  <2>7. Uncut'
    BY <1>1, <1>9 DEF Uncut
  <2>8. Shapes'
    BY <1>1, <1>9, <2>6 DEF IInv, Shapes, problem
  <2>9. Depths'
    BY <1>1, <1>2, <1>5, <1>9, <2>6, <2>7, ProblemFixed DEF Depths
  <2>10. Diagnosed'
    BY <1>1, <1>9 DEF IInv, FailuresAreNamed, Diagnosed
  <2> QED BY <1>7, <1>9, <2>6, <2>8, <2>9, <2>10
          DEF IInv, CallFollows, FailuresAreNamed, FailureIsProof, WitnessIsWhole
<1> QED BY <1>1, <1>8, <1>9

LEMMA StepIInv == IInv /\ [Next]_vars => IInv'
<1> SUFFICES ASSUME IInv, [Next]_vars PROVE IInv'
  OBVIOUS
<1>1. CASE Search
  BY <1>1, AllAssignedStep, EmptyDomainStep, BranchStep, OutOfBudgetStep, InconsistentStep,
     DescendStep, OutOfCandidatesStep, BacktrackStep, FailStep DEF Search
<1>2. CASE UNCHANGED vars
  <2> USE <1>2 DEF vars, counters, diagnosis
  <2>1. Shapes'
    BY DEF IInv, Shapes, problem
  <2>2. Depths'
    BY ProblemFixed DEF IInv, Depths, Uncut
  <2>3. CallFollows'
    BY ProblemFixed DEF IInv, CallFollows
  <2>4. FramesFollow'
    BY FramesStay DEF IInv, Uncut
  <2>5. Budgeted'
    BY DEF IInv, Budgeted, BudgetIsRespected, problem
  <2>6. FailuresAreNamed'
    BY DEF IInv, FailuresAreNamed, Uncut, Diagnosed, Top
  <2>7. FailureIsProof'
    BY ProblemFixed DEF IInv, FailureIsProof, Uncut
  <2>8. WitnessIsWhole'
    BY DEF IInv, WitnessIsWhole, NamesOf
  <2> QED BY <2>1, <2>2, <2>3, <2>4, <2>5, <2>6, <2>7, <2>8 DEF IInv
<1> QED BY <1>1, <1>2, DeadlineOnEntryStep, DeadlineInLoopStep, SpentElsewhereStep
        DEF Next, Finished

LEMMA Invariance == Spec => []IInv
BY InitIInv, StepIInv, PTL DEF Spec

-----------------------------------------------------------------------------
(* Theorems.                                                               *)

\* Every variable stays in its type, and a frame's depth is its place.
THEOREM TypeCorrect == Spec => []TypeOK
<1>1. IInv => TypeOK
  <2> SUFFICES ASSUME IInv PROVE TypeOK
    OBVIOUS
  <2>1. DOMAIN stack = 1 .. Len(stack)
    BY DEF IInv, Shapes
  <2>2. \A i \in DOMAIN stack :
          /\ stack[i].signal \in DOMAIN stack[i].domains
          /\ stack[i].rest \subseteq stack[i].domains[stack[i].signal]
          /\ stack[i].depth = i - 1
    BY <2>1 DEF IInv, FramesFollow, FrameFollows
  <2>3. pc = "next" => stack # <<>>
    BY LoopFacts DEF IInv
  <2> QED BY <2>2, <2>3 DEF IInv, Shapes, TypeOK, DomainMaps
<1> QED BY <1>1, Invariance, PTL

\* No search spends more than its budget, however others spend the shared one.
THEOREM BudgetsHold == Spec => []BudgetIsRespected
<1>1. IInv => BudgetIsRespected
  BY DEF IInv, Budgeted
<1> QED BY <1>1, Invariance, PTL

\* The partial selections of the search are legal, and a witness is whole.
THEOREM SelectionsAreLegal == Spec => []SelectionIsLegal
<1>1. IInv /\ TypeOK => SelectionIsLegal
  <2> SUFFICES ASSUME IInv, TypeOK PROVE SelectionIsLegal
    OBVIOUS
  <2>1. \A i \in DOMAIN stack : IsSelection(stack[i].failure)
    <3>1. DOMAIN stack = 1 .. Len(stack)
      BY DEF IInv, Shapes
    <3> QED BY <3>1 DEF IInv, FramesFollow, FrameFollows
  <2> QED BY <2>1 DEF IInv, Depths, Budgeted, WitnessIsWhole, SelectionIsLegal
<1> QED BY <1>1, TypeCorrect, Invariance, PTL

\* The domains of a call are what the choices so far leave, after any backtracks.
THEOREM DomainsFollow == Spec => []DomainsFollowSelection
<1>1. IInv => DomainsFollowSelection
  <2> SUFFICES ASSUME IInv, pc = "call"
               PROVE  domains = [s \in Signals \ NamesOf(selected) |->
                                   {c \in groups[s] :
                                      \A i \in DOMAIN selected : Compatible(selected[i], <<s, c>>)}]
    BY DEF DomainsFollowSelection
  <2>1. /\ DOMAIN selected = 1 .. Len(selected)
        /\ NamesOf(selected) = {selected[j][1] : j \in 1 .. Len(selected)}
    BY NamesAreSignals DEF IInv, Depths
  <2>2. domains = DomainsAfter(selected, Len(selected))
    BY DEF IInv, CallFollows
  <2> QED BY <2>1, <2>2 DEF DomainsAfter
<1> QED BY <1>1, Invariance, PTL

\* A failure that is no cut names a signal without candidates that conflicts.
THEOREM FailuresNameConflicts == Spec => []FailureNetConflicts
<1>1. IInv => FailureNetConflicts
  BY DEF IInv, FailuresAreNamed, FailureNetConflicts, Uncut, Diagnosed
<1> QED BY <1>1, Invariance, PTL

-----------------------------------------------------------------------------
(* The answers are those that AssignmentAnswer promises.                   *)

LEMMA WitnessSolves ==
    ASSUME IInv, NamesOf(selected) = Signals PROVE Solvable
<1> DEFINE choice(s) == CHOOSE i \in DOMAIN selected : selected[i][1] = s
           f == [s \in Signals |-> selected[choice(s)][2]]
<1>1. selected \in Seq(Options) /\ IsSelection(selected)
  BY DEF IInv, Depths
<1>2. ASSUME NEW s \in Signals
      PROVE  /\ choice(s) \in DOMAIN selected /\ selected[choice(s)][1] = s
             /\ selected[choice(s)] = <<s, f[s]>> /\ f[s] \in Candidates
  <2>1. \E i \in DOMAIN selected : selected[i][1] = s
    BY DEF NamesOf
  <2>2. choice(s) \in DOMAIN selected /\ selected[choice(s)][1] = s
    BY <2>1
  <2>3. selected[choice(s)] \in Options
    BY <1>1, <2>2
  <2> QED BY <2>2, <2>3 DEF Options
<1>3. f \in [Signals -> Candidates]
  BY <1>2
<1>4. \A s \in Signals : f[s] \in groups[s]
  BY <1>1, <1>2 DEF IsSelection
<1>5. ASSUME NEW s \in Signals, NEW t \in Signals, s < t
      PROVE  Compatible(<<s, f[s]>>, <<t, f[t]>>)
  <2> HIDE DEF f, choice
  <2>1. /\ choice(s) \in DOMAIN selected /\ selected[choice(s)] = <<s, f[s]>>
        /\ choice(t) \in DOMAIN selected /\ selected[choice(t)] = <<t, f[t]>>
    BY <1>2
  <2>2. choice(s) # choice(t)
    <3>1. s # t
      BY <1>5, AssignmentAssumption
    <3> QED BY <2>1, <3>1
  <2>3. choice(s) < choice(t) \/ choice(t) < choice(s)
    BY <1>1, <2>1, <2>2
  <2>4. CASE choice(s) < choice(t)
    BY <1>1, <2>1, <2>4 DEF IsSelection
  <2>5. CASE choice(t) < choice(s)
    <3>1. Compatible(<<t, f[t]>>, <<s, f[s]>>)
      BY <1>1, <2>1, <2>5 DEF IsSelection
    <3> QED BY <3>1 DEF Compatible
  <2> QED BY <2>3, <2>4, <2>5
<1> QED BY <1>3, <1>4, <1>5 DEF Solvable

LEMMA AnswerCases ==
    /\ pc # "done" => Answer = "none"
    /\ pc = "done" =>
         \/ Answer = "incomplete"
         \/ Answer = "witness" /\ success
         \/ Answer = "unsatisfiable" /\ ~success /\ Uncut
BY Zenon DEF Answer, Uncut

\* What the two final answers say of the problem.
Honest ==
    pc = "done" => /\ success => Solvable
                   /\ Uncut /\ ~success => ~Solvable

LEMMA AnswerStep ==
    ASSUME Honest', [Next]_vars
    PROVE  [Promise!Next]_<<Solvable, Answer>>
<1>1. CASE UNCHANGED vars
  <2>1. UNCHANGED Solvable /\ UNCHANGED Answer
    BY <1>1 DEF vars, counters, problem, Solvable, Compatible, Answer
  <2> QED BY <2>1
<1>2. CASE ~UNCHANGED vars
  <2>1. pc # "done" /\ UNCHANGED problem
    BY <1>2 DEF Next, Search, Finished, AllAssigned, EmptyDomain, Branch, OutOfBudget,
                Inconsistent, Descend, OutOfCandidates, Backtrack, Fail,
                DeadlineOnEntry, DeadlineInLoop, SpentElsewhere, problem
  <2>2. UNCHANGED Solvable /\ Answer = "none"
    BY <2>1, AnswerCases DEF problem, Solvable, Compatible
  <2>3. CASE pc' # "done"
    <3>1. Answer' = "none"
      BY <2>3, Zenon DEF Answer
    <3> QED BY <2>2, <3>1
  <2>4. CASE pc' = "done"
    <3>1. \/ Answer' = "incomplete"
          \/ Answer' = "witness" /\ success'
          \/ Answer' = "unsatisfiable" /\ ~success' /\ Uncut'
      BY <2>4, Zenon DEF Answer, Uncut
    <3>2. /\ success' => Solvable'
          /\ Uncut' /\ ~success' => ~Solvable'
      BY <2>4 DEF Honest
    <3>3. Promise!Answer
      BY <2>2, <3>1, <3>2 DEF Promise!Answer
    <3> QED BY <3>3 DEF Promise!Next
  <2> QED BY <2>3, <2>4
<1> QED BY <1>1, <1>2

\* The search answers once, true only where a legal assignment exists and
\* false, without a budget or deadline flag, only where none does; that it
\* answers at all is liveness, left to the model checker.
THEOREM AnswersAreHonest == Spec => Promise!Init /\ [][Promise!Next]_<<Solvable, Answer>>
<1>1. Init => Promise!Init
  <2> SUFFICES ASSUME Init PROVE Promise!Init
    OBVIOUS
  <2>1. Answer = "none"
    BY AnswerCases DEF Init
  <2>2. Solvable \in BOOLEAN
    BY DEF Solvable
  <2> QED BY <2>1, <2>2 DEF Promise!Init
<1>2. IInv => Honest
  BY WitnessSolves DEF IInv, WitnessIsWhole, FailureIsProof, Honest
<1>3. Honest' /\ [Next]_vars => [Promise!Next]_<<Solvable, Answer>>
  BY AnswerStep
<1> QED BY <1>1, <1>2, <1>3, Invariance, PTL DEF Spec

=============================================================================
