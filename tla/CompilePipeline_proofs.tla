------------------------ MODULE CompilePipeline_proofs ------------------------
(***************************************************************************)
(* Proofs about a compile from end to end, for any inputs, sources,        *)
(* compiles, directories and delays.                                       *)
(*                                                                         *)
(* The first half is about LogicSynthesis alone: simplification, the       *)
(* rebuilding from truth tables and the NAND transform each preserve what  *)
(* every signal computes.  A valuation gives all signals their meaning at  *)
(* once; it holds for the gates of the source, a stage extends it by the   *)
(* nets it adds, and what an evaluation of the new gates finds is what     *)
(* every valuation says that holds for them.                               *)
(*                                                                         *)
(* The second half is about the files: a compile leaves its own three      *)
(* success artifacts or none, whatever else happened in its directory;     *)
(* its schematic shows the settled circuit; and what becomes stable        *)
(* computes what its source says.  Per compile, Progress says what its     *)
(* directory holds at each place in the code.  A step of one compile       *)
(* cannot touch what is said of another: either they work in different     *)
(* directories, or the other is idle or over and no longer the last there. *)
(***************************************************************************)
EXTENDS CompilePipeline, Integers, FiniteSetTheorems, SequenceTheorems,
        WellFoundedInduction, TLAPS

(***************************************************************************)
(* The library's principle of induction takes an operator; this instance   *)
(* of it takes a set.                                                      *)
(***************************************************************************)
LEMMA Reaches ==
    ASSUME NEW N \in Nat, NEW S, 0 \in S,
           \A n \in 1 .. N : n - 1 \in S => n \in S
    PROVE  \A n \in 0 .. N : n \in S
<1> DEFINE Out == {n \in 0 .. N : n \notin S}
<1> SUFFICES ASSUME Out # {} PROVE FALSE
  OBVIOUS
<1>1. Out \in SUBSET Nat
  OBVIOUS
<1>2. PICK n \in Out : \A m \in Out : <<m, n>> \notin OpToRel(<, Nat)
  <2> HIDE DEF Out
  <2> QED
    BY <1>1, NatLessThanWellFounded, WFMin
<1>3. \A m \in Out : ~(m < n)
  BY <1>1, <1>2 DEF OpToRel
<1>4. n \in 0 .. N /\ n \notin S /\ n # 0
  BY <1>2
<1>5. n - 1 \in 0 .. N /\ n - 1 < n /\ n \in 1 .. N
  BY <1>4
<1> QED
  BY <1>3, <1>4, <1>5

Selected(signals, kept, g) == IF g.output \in signals THEN Append(kept, g) ELSE kept
Simplified(gates) == Accumulate(SimplifyGate, NothingEmitted, gates)
Mapped(gates) == Accumulate(LAMBDA acc, g : MapGate(gates, acc, g), NothingEmitted, gates)
Inverted(gates, cube, literals) ==
    Accumulate(LAMBDA acc, x : EmitLiteral(acc, cube, x), gates, literals)
TermsOf(gates, cubes) == Accumulate(EmitTerm, [gates |-> gates, nets |-> << >>], cubes)
OutputsOf(sums, order) ==
    Accumulate(LAMBDA gates, o : EmitOutput(gates, o, sums[o]), << >>, order)
Combined(kind, acc, net) == EmitOnce(acc.gates, kind, {acc.net, net})
Widened(gates, S) == S \cup UNION {g.inputs : g \in {h \in ToSet(gates) : h.output \in S}}

\* Each recursive function of LogicSynthesis is one that its equations hold of: a
\* function that satisfies them exists up to any length, by induction on it, and the
\* fold is its last value.  A lemma on Accumulate would take its operator as a
\* parameter, so there is one for each use.  This one is SelectGates.
LEMMA SelectRun ==
    ASSUME NEW gates, NEW signals, Len(gates) \in Nat
    PROVE  \E f : /\ f[0] = << >>
                  /\ \A n \in 1 .. Len(gates) : f[n] = Selected(signals, f[n - 1], gates[n])
                  /\ SelectGates(gates, signals) = f[Len(gates)]
<1> DEFINE Run(f, m) ==
             f = [n \in 0 .. m |-> IF n = 0 THEN << >> ELSE Selected(signals, f[n - 1], gates[n])]
           Good  == {m \in 0 .. Len(gates) : \E f : Run(f, m)}
           whole == CHOOSE f : Run(f, Len(gates))
<1>1. 0 \in Good
  <2>1. Run([n \in 0 .. 0 |-> << >>], 0)
    OBVIOUS
  <2> HIDE DEF Run
  <2> QED
    BY <2>1
<1>2. ASSUME NEW m \in 1 .. Len(gates), m - 1 \in Good PROVE m \in Good
  <2>1. PICK f : Run(f, m - 1)
    BY <1>2
  <2> DEFINE g == [n \in 0 .. m |-> IF n = m THEN Selected(signals, f[m - 1], gates[m]) ELSE f[n]]
  <2>2. g = [n \in 0 .. m |-> IF n = 0 THEN << >> ELSE Selected(signals, g[n - 1], gates[n])]
    BY <2>1
  <2>3. Run(g, m)
    BY <2>2
  <2> HIDE DEF Run, g
  <2> QED
    BY <2>3
<1>3. \A m \in 0 .. Len(gates) : m \in Good
  <2> HIDE DEF Good
  <2> QED
    BY <1>1, <1>2, Reaches
<1>4. Run(whole, Len(gates))
  <2>1. \E f : Run(f, Len(gates))
    <3> HIDE DEF Run
    <3> QED
      BY <1>3
  <2> QED
    BY <2>1
<1>5. SelectGates(gates, signals) = whole[Len(gates)]
  BY DEF SelectGates, Selected, Accumulate
<1> HIDE DEF whole
<1>6. whole[0] = << >>
  BY <1>4
<1>7. ASSUME NEW n \in 1 .. Len(gates)
      PROVE  whole[n] = Selected(signals, whole[n - 1], gates[n])
  BY <1>4
<1> QED
  BY <1>5, <1>6, <1>7

\* The levels of Required.
LEMMA RequiredRun ==
    ASSUME NEW gates, NEW outputs, Len(gates) \in Nat
    PROVE  \E f : /\ f[0] = outputs
                  /\ \A n \in 1 .. Len(gates) : f[n] = Widened(gates, f[n - 1])
                  /\ Required(gates, outputs) = f[Len(gates)]
<1> DEFINE Run(f, m) ==
             f = [n \in 0 .. m |-> IF n = 0 THEN outputs ELSE Widened(gates, f[n - 1])]
           Good  == {m \in 0 .. Len(gates) : \E f : Run(f, m)}
           whole == CHOOSE f : Run(f, Len(gates))
<1>1. 0 \in Good
  <2>1. Run([n \in 0 .. 0 |-> outputs], 0)
    OBVIOUS
  <2> HIDE DEF Run
  <2> QED
    BY <2>1
<1>2. ASSUME NEW m \in 1 .. Len(gates), m - 1 \in Good PROVE m \in Good
  <2>1. PICK f : Run(f, m - 1)
    BY <1>2
  <2> DEFINE g == [n \in 0 .. m |-> IF n = m THEN Widened(gates, f[m - 1]) ELSE f[n]]
  <2>2. g = [n \in 0 .. m |-> IF n = 0 THEN outputs ELSE Widened(gates, g[n - 1])]
    BY <2>1
  <2>3. Run(g, m)
    BY <2>2
  <2> HIDE DEF Run, g
  <2> QED
    BY <2>3
<1>3. \A m \in 0 .. Len(gates) : m \in Good
  <2> HIDE DEF Good
  <2> QED
    BY <1>1, <1>2, Reaches
<1>4. Run(whole, Len(gates))
  <2>1. \E f : Run(f, Len(gates))
    <3> HIDE DEF Run
    <3> QED
      BY <1>3
  <2> QED
    BY <2>1
<1>5. Required(gates, outputs) = whole[Len(gates)]
  BY DEF Required, Widened
<1> HIDE DEF whole
<1>6. whole[0] = outputs
  BY <1>4
<1>7. ASSUME NEW n \in 1 .. Len(gates)
      PROVE  whole[n] = Widened(gates, whole[n - 1])
  BY <1>4
<1> QED
  BY <1>5, <1>6, <1>7

\* The visits of EvaluateLogicModule.
LEMMA EvaluateRun ==
    ASSUME NEW gates, (Len(gates) * Len(gates)) \in Nat
    PROVE  \E f : /\ f[0] = InputTables
                  /\ \A n \in 1 .. (Len(gates) * Len(gates)) : f[n] = Evaluate(f[n - 1], gates[((n - 1) % Len(gates)) + 1])
                  /\ EvaluateLogicModule(gates) = f[(Len(gates) * Len(gates))]
<1> DEFINE Run(f, m) ==
             f = [n \in 0 .. m |-> IF n = 0 THEN InputTables ELSE Evaluate(f[n - 1], gates[((n - 1) % Len(gates)) + 1])]
           Good  == {m \in 0 .. (Len(gates) * Len(gates)) : \E f : Run(f, m)}
           whole == CHOOSE f : Run(f, (Len(gates) * Len(gates)))
<1>1. 0 \in Good
  <2>1. Run([n \in 0 .. 0 |-> InputTables], 0)
    OBVIOUS
  <2> HIDE DEF Run
  <2> QED
    BY <2>1
<1>2. ASSUME NEW m \in 1 .. (Len(gates) * Len(gates)), m - 1 \in Good PROVE m \in Good
  <2>1. PICK f : Run(f, m - 1)
    BY <1>2
  <2> DEFINE g == [n \in 0 .. m |-> IF n = m THEN Evaluate(f[m - 1], gates[((m - 1) % Len(gates)) + 1]) ELSE f[n]]
  <2>2. g = [n \in 0 .. m |-> IF n = 0 THEN InputTables ELSE Evaluate(g[n - 1], gates[((n - 1) % Len(gates)) + 1])]
    BY <2>1
  <2>3. Run(g, m)
    BY <2>2
  <2> HIDE DEF Run, g
  <2> QED
    BY <2>3
<1>3. \A m \in 0 .. (Len(gates) * Len(gates)) : m \in Good
  <2> HIDE DEF Good
  <2> QED
    BY <1>1, <1>2, Reaches
<1>4. Run(whole, (Len(gates) * Len(gates)))
  <2>1. \E f : Run(f, (Len(gates) * Len(gates)))
    <3> HIDE DEF Run
    <3> QED
      BY <1>3
  <2> QED
    BY <2>1
<1>5. EvaluateLogicModule(gates) = whole[(Len(gates) * Len(gates))]
  BY DEF EvaluateLogicModule
<1> HIDE DEF whole
<1>6. whole[0] = InputTables
  BY <1>4
<1>7. ASSUME NEW n \in 1 .. (Len(gates) * Len(gates))
      PROVE  whole[n] = Evaluate(whole[n - 1], gates[((n - 1) % Len(gates)) + 1])
  BY <1>4
<1> QED
  BY <1>5, <1>6, <1>7

\* The pass of StructurallySimplifyLogic.
LEMMA SimplifyRun ==
    ASSUME NEW gates, Len(gates) \in Nat
    PROVE  \E f : /\ f[0] = NothingEmitted
                  /\ \A n \in 1 .. Len(gates) : f[n] = SimplifyGate(f[n - 1], gates[n])
                  /\ Simplified(gates) = f[Len(gates)]
<1> DEFINE Run(f, m) ==
             f = [n \in 0 .. m |-> IF n = 0 THEN NothingEmitted ELSE SimplifyGate(f[n - 1], gates[n])]
           Good  == {m \in 0 .. Len(gates) : \E f : Run(f, m)}
           whole == CHOOSE f : Run(f, Len(gates))
<1>1. 0 \in Good
  <2>1. Run([n \in 0 .. 0 |-> NothingEmitted], 0)
    OBVIOUS
  <2> HIDE DEF Run
  <2> QED
    BY <2>1
<1>2. ASSUME NEW m \in 1 .. Len(gates), m - 1 \in Good PROVE m \in Good
  <2>1. PICK f : Run(f, m - 1)
    BY <1>2
  <2> DEFINE g == [n \in 0 .. m |-> IF n = m THEN SimplifyGate(f[m - 1], gates[m]) ELSE f[n]]
  <2>2. g = [n \in 0 .. m |-> IF n = 0 THEN NothingEmitted ELSE SimplifyGate(g[n - 1], gates[n])]
    BY <2>1
  <2>3. Run(g, m)
    BY <2>2
  <2> HIDE DEF Run, g
  <2> QED
    BY <2>3
<1>3. \A m \in 0 .. Len(gates) : m \in Good
  <2> HIDE DEF Good
  <2> QED
    BY <1>1, <1>2, Reaches
<1>4. Run(whole, Len(gates))
  <2>1. \E f : Run(f, Len(gates))
    <3> HIDE DEF Run
    <3> QED
      BY <1>3
  <2> QED
    BY <2>1
<1>5. Simplified(gates) = whole[Len(gates)]
  BY DEF Simplified, Accumulate
<1> HIDE DEF whole
<1>6. whole[0] = NothingEmitted
  BY <1>4
<1>7. ASSUME NEW n \in 1 .. Len(gates)
      PROVE  whole[n] = SimplifyGate(whole[n - 1], gates[n])
  BY <1>4
<1> QED
  BY <1>5, <1>6, <1>7

\* The pass of ToNandOnly.
LEMMA MapRun ==
    ASSUME NEW gates, Len(gates) \in Nat
    PROVE  \E f : /\ f[0] = NothingEmitted
                  /\ \A n \in 1 .. Len(gates) : f[n] = MapGate(gates, f[n - 1], gates[n])
                  /\ Mapped(gates) = f[Len(gates)]
<1> DEFINE Run(f, m) ==
             f = [n \in 0 .. m |-> IF n = 0 THEN NothingEmitted ELSE MapGate(gates, f[n - 1], gates[n])]
           Good  == {m \in 0 .. Len(gates) : \E f : Run(f, m)}
           whole == CHOOSE f : Run(f, Len(gates))
<1>1. 0 \in Good
  <2>1. Run([n \in 0 .. 0 |-> NothingEmitted], 0)
    OBVIOUS
  <2> HIDE DEF Run
  <2> QED
    BY <2>1
<1>2. ASSUME NEW m \in 1 .. Len(gates), m - 1 \in Good PROVE m \in Good
  <2>1. PICK f : Run(f, m - 1)
    BY <1>2
  <2> DEFINE g == [n \in 0 .. m |-> IF n = m THEN MapGate(gates, f[m - 1], gates[m]) ELSE f[n]]
  <2>2. g = [n \in 0 .. m |-> IF n = 0 THEN NothingEmitted ELSE MapGate(gates, g[n - 1], gates[n])]
    BY <2>1
  <2>3. Run(g, m)
    BY <2>2
  <2> HIDE DEF Run, g
  <2> QED
    BY <2>3
<1>3. \A m \in 0 .. Len(gates) : m \in Good
  <2> HIDE DEF Good
  <2> QED
    BY <1>1, <1>2, Reaches
<1>4. Run(whole, Len(gates))
  <2>1. \E f : Run(f, Len(gates))
    <3> HIDE DEF Run
    <3> QED
      BY <1>3
  <2> QED
    BY <2>1
<1>5. Mapped(gates) = whole[Len(gates)]
  BY DEF Mapped, Accumulate
<1> HIDE DEF whole
<1>6. whole[0] = NothingEmitted
  BY <1>4
<1>7. ASSUME NEW n \in 1 .. Len(gates)
      PROVE  whole[n] = MapGate(gates, whole[n - 1], gates[n])
  BY <1>4
<1> QED
  BY <1>5, <1>6, <1>7

\* The left fold of Combine.
LEMMA CombineRun ==
    ASSUME NEW gates, NEW kind, NEW nets, Len(Tail(nets)) \in Nat
    PROVE  \E f : /\ f[0] = [gates |-> gates, net |-> Head(nets)]
                  /\ \A n \in 1 .. Len(Tail(nets)) : f[n] = Combined(kind, f[n - 1], Tail(nets)[n])
                  /\ Combine(gates, kind, nets) = f[Len(Tail(nets))]
<1> DEFINE Run(f, m) ==
             f = [n \in 0 .. m |-> IF n = 0 THEN [gates |-> gates, net |-> Head(nets)] ELSE Combined(kind, f[n - 1], Tail(nets)[n])]
           Good  == {m \in 0 .. Len(Tail(nets)) : \E f : Run(f, m)}
           whole == CHOOSE f : Run(f, Len(Tail(nets)))
<1>1. 0 \in Good
  <2>1. Run([n \in 0 .. 0 |-> [gates |-> gates, net |-> Head(nets)]], 0)
    OBVIOUS
  <2> HIDE DEF Run
  <2> QED
    BY <2>1
<1>2. ASSUME NEW m \in 1 .. Len(Tail(nets)), m - 1 \in Good PROVE m \in Good
  <2>1. PICK f : Run(f, m - 1)
    BY <1>2
  <2> DEFINE g == [n \in 0 .. m |-> IF n = m THEN Combined(kind, f[m - 1], Tail(nets)[m]) ELSE f[n]]
  <2>2. g = [n \in 0 .. m |-> IF n = 0 THEN [gates |-> gates, net |-> Head(nets)] ELSE Combined(kind, g[n - 1], Tail(nets)[n])]
    BY <2>1
  <2>3. Run(g, m)
    BY <2>2
  <2> HIDE DEF Run, g
  <2> QED
    BY <2>3
<1>3. \A m \in 0 .. Len(Tail(nets)) : m \in Good
  <2> HIDE DEF Good
  <2> QED
    BY <1>1, <1>2, Reaches
<1>4. Run(whole, Len(Tail(nets)))
  <2>1. \E f : Run(f, Len(Tail(nets)))
    <3> HIDE DEF Run
    <3> QED
      BY <1>3
  <2> QED
    BY <2>1
<1>5. Combine(gates, kind, nets) = whole[Len(Tail(nets))]
  BY DEF Combine, Combined, Accumulate
<1> HIDE DEF whole
<1>6. whole[0] = [gates |-> gates, net |-> Head(nets)]
  BY <1>4
<1>7. ASSUME NEW n \in 1 .. Len(Tail(nets))
      PROVE  whole[n] = Combined(kind, whole[n - 1], Tail(nets)[n])
  BY <1>4
<1> QED
  BY <1>5, <1>6, <1>7

\* The literals of a cube.
LEMMA LiteralsRun ==
    ASSUME NEW gates, NEW cube, NEW literals, Len(literals) \in Nat
    PROVE  \E f : /\ f[0] = gates
                  /\ \A n \in 1 .. Len(literals) : f[n] = EmitLiteral(f[n - 1], cube, literals[n])
                  /\ Inverted(gates, cube, literals) = f[Len(literals)]
<1> DEFINE Run(f, m) ==
             f = [n \in 0 .. m |-> IF n = 0 THEN gates ELSE EmitLiteral(f[n - 1], cube, literals[n])]
           Good  == {m \in 0 .. Len(literals) : \E f : Run(f, m)}
           whole == CHOOSE f : Run(f, Len(literals))
<1>1. 0 \in Good
  <2>1. Run([n \in 0 .. 0 |-> gates], 0)
    OBVIOUS
  <2> HIDE DEF Run
  <2> QED
    BY <2>1
<1>2. ASSUME NEW m \in 1 .. Len(literals), m - 1 \in Good PROVE m \in Good
  <2>1. PICK f : Run(f, m - 1)
    BY <1>2
  <2> DEFINE g == [n \in 0 .. m |-> IF n = m THEN EmitLiteral(f[m - 1], cube, literals[m]) ELSE f[n]]
  <2>2. g = [n \in 0 .. m |-> IF n = 0 THEN gates ELSE EmitLiteral(g[n - 1], cube, literals[n])]
    BY <2>1
  <2>3. Run(g, m)
    BY <2>2
  <2> HIDE DEF Run, g
  <2> QED
    BY <2>3
<1>3. \A m \in 0 .. Len(literals) : m \in Good
  <2> HIDE DEF Good
  <2> QED
    BY <1>1, <1>2, Reaches
<1>4. Run(whole, Len(literals))
  <2>1. \E f : Run(f, Len(literals))
    <3> HIDE DEF Run
    <3> QED
      BY <1>3
  <2> QED
    BY <2>1
<1>5. Inverted(gates, cube, literals) = whole[Len(literals)]
  BY DEF Inverted, Accumulate
<1> HIDE DEF whole
<1>6. whole[0] = gates
  BY <1>4
<1>7. ASSUME NEW n \in 1 .. Len(literals)
      PROVE  whole[n] = EmitLiteral(whole[n - 1], cube, literals[n])
  BY <1>4
<1> QED
  BY <1>5, <1>6, <1>7

\* The terms of a sum.
LEMMA TermsRun ==
    ASSUME NEW gates, NEW cubes, Len(cubes) \in Nat
    PROVE  \E f : /\ f[0] = [gates |-> gates, nets |-> << >>]
                  /\ \A n \in 1 .. Len(cubes) : f[n] = EmitTerm(f[n - 1], cubes[n])
                  /\ TermsOf(gates, cubes) = f[Len(cubes)]
<1> DEFINE Run(f, m) ==
             f = [n \in 0 .. m |-> IF n = 0 THEN [gates |-> gates, nets |-> << >>] ELSE EmitTerm(f[n - 1], cubes[n])]
           Good  == {m \in 0 .. Len(cubes) : \E f : Run(f, m)}
           whole == CHOOSE f : Run(f, Len(cubes))
<1>1. 0 \in Good
  <2>1. Run([n \in 0 .. 0 |-> [gates |-> gates, nets |-> << >>]], 0)
    OBVIOUS
  <2> HIDE DEF Run
  <2> QED
    BY <2>1
<1>2. ASSUME NEW m \in 1 .. Len(cubes), m - 1 \in Good PROVE m \in Good
  <2>1. PICK f : Run(f, m - 1)
    BY <1>2
  <2> DEFINE g == [n \in 0 .. m |-> IF n = m THEN EmitTerm(f[m - 1], cubes[m]) ELSE f[n]]
  <2>2. g = [n \in 0 .. m |-> IF n = 0 THEN [gates |-> gates, nets |-> << >>] ELSE EmitTerm(g[n - 1], cubes[n])]
    BY <2>1
  <2>3. Run(g, m)
    BY <2>2
  <2> HIDE DEF Run, g
  <2> QED
    BY <2>3
<1>3. \A m \in 0 .. Len(cubes) : m \in Good
  <2> HIDE DEF Good
  <2> QED
    BY <1>1, <1>2, Reaches
<1>4. Run(whole, Len(cubes))
  <2>1. \E f : Run(f, Len(cubes))
    <3> HIDE DEF Run
    <3> QED
      BY <1>3
  <2> QED
    BY <2>1
<1>5. TermsOf(gates, cubes) = whole[Len(cubes)]
  BY DEF TermsOf, Accumulate
<1> HIDE DEF whole
<1>6. whole[0] = [gates |-> gates, nets |-> << >>]
  BY <1>4
<1>7. ASSUME NEW n \in 1 .. Len(cubes)
      PROVE  whole[n] = EmitTerm(whole[n - 1], cubes[n])
  BY <1>4
<1> QED
  BY <1>5, <1>6, <1>7

\* The outputs of a candidate.
LEMMA OutputsRun ==
    ASSUME NEW sums, NEW order, Len(order) \in Nat
    PROVE  \E f : /\ f[0] = << >>
                  /\ \A n \in 1 .. Len(order) : f[n] = EmitOutput(f[n - 1], order[n], sums[order[n]])
                  /\ OutputsOf(sums, order) = f[Len(order)]
<1> DEFINE Run(f, m) ==
             f = [n \in 0 .. m |-> IF n = 0 THEN << >> ELSE EmitOutput(f[n - 1], order[n], sums[order[n]])]
           Good  == {m \in 0 .. Len(order) : \E f : Run(f, m)}
           whole == CHOOSE f : Run(f, Len(order))
<1>1. 0 \in Good
  <2>1. Run([n \in 0 .. 0 |-> << >>], 0)
    OBVIOUS
  <2> HIDE DEF Run
  <2> QED
    BY <2>1
<1>2. ASSUME NEW m \in 1 .. Len(order), m - 1 \in Good PROVE m \in Good
  <2>1. PICK f : Run(f, m - 1)
    BY <1>2
  <2> DEFINE g == [n \in 0 .. m |-> IF n = m THEN EmitOutput(f[m - 1], order[m], sums[order[m]]) ELSE f[n]]
  <2>2. g = [n \in 0 .. m |-> IF n = 0 THEN << >> ELSE EmitOutput(g[n - 1], order[n], sums[order[n]])]
    BY <2>1
  <2>3. Run(g, m)
    BY <2>2
  <2> HIDE DEF Run, g
  <2> QED
    BY <2>3
<1>3. \A m \in 0 .. Len(order) : m \in Good
  <2> HIDE DEF Good
  <2> QED
    BY <1>1, <1>2, Reaches
<1>4. Run(whole, Len(order))
  <2>1. \E f : Run(f, Len(order))
    <3> HIDE DEF Run
    <3> QED
      BY <1>3
  <2> QED
    BY <2>1
<1>5. OutputsOf(sums, order) = whole[Len(order)]
  BY DEF OutputsOf, Accumulate
<1> HIDE DEF whole
<1>6. whole[0] = << >>
  BY <1>4
<1>7. ASSUME NEW n \in 1 .. Len(order)
      PROVE  whole[n] = EmitOutput(whole[n - 1], order[n], sums[order[n]])
  BY <1>4
<1> QED
  BY <1>5, <1>6, <1>7

(***************************************************************************)
(* Evaluation.  A valuation gives every signal the assignments that make   *)
(* it true; it holds for a gate if the gate computes what it says.         *)
(***************************************************************************)
Kinds == {"BUFFER", "NOT", "AND", "NAND", "OR", "XOR"}

Valuation(W) ==
    /\ W \in [DOMAIN W -> SUBSET Assignments]
    /\ Inputs \subseteq DOMAIN W
    /\ \A x \in Inputs : W[x] = InputTables[x]

TablesOf(W, S) == {W[s] : s \in S}

Holds(W, g) ==
    /\ g.inputs \subseteq DOMAIN W
    /\ g.output \in DOMAIN W
    /\ W[g.output] = Computes(g.kind, TablesOf(W, g.inputs))

IsSeq(s) == s \in Seq(ToSet(s))

\* What a gate computes is a set of assignments.
LEMMA ComputesType ==
    ASSUME NEW kind \in Kinds, NEW tables \in SUBSET SUBSET Assignments
    PROVE  Computes(kind, tables) \in SUBSET Assignments
<1>1. UNION tables \subseteq Assignments
  OBVIOUS
<1> QED
  BY <1>1 DEF Computes, Kinds

\* Positions and elements of a sequence.
LEMMA SeqElements ==
    ASSUME NEW s, IsSeq(s)
    PROVE  /\ Len(s) \in Nat /\ DOMAIN s = 1 .. Len(s)
           /\ \A i \in 1 .. Len(s) : s[i] \in ToSet(s)
           /\ \A x \in ToSet(s) : \E i \in 1 .. Len(s) : x = s[i]
  BY DEF IsSeq, ToSet

LEMMA NoElements == IsSeq(<< >>) /\ ToSet(<< >>) = {} /\ Len(<< >>) = 0
  BY DEF IsSeq, ToSet

LEMMA AppendElements ==
    ASSUME NEW s, IsSeq(s), NEW x
    PROVE  /\ IsSeq(Append(s, x)) /\ ToSet(Append(s, x)) = ToSet(s) \cup {x}
           /\ Len(Append(s, x)) = Len(s) + 1 /\ Append(s, x)[Len(s) + 1] = x
           /\ \A i \in 1 .. Len(s) : Append(s, x)[i] = s[i]
<1> DEFINE T == ToSet(s) \cup {x}
           a == Append(s, x)
<1>1. s \in Seq(T)
  BY DEF IsSeq
<1>2. a \in Seq(T) /\ Len(a) = Len(s) + 1 /\ a[Len(s) + 1] = x /\ DOMAIN a = 1 .. Len(s) + 1
  BY <1>1
<1>3. \A i \in 1 .. Len(s) : a[i] = s[i]
  BY <1>1
<1>4. Len(s) \in Nat /\ DOMAIN s = 1 .. Len(s)
  BY SeqElements
<1>5. ToSet(a) = T
  <2> HIDE DEF a
  <2>1. ToSet(a) \subseteq T
    <3> SUFFICES ASSUME NEW i \in 1 .. Len(s) + 1 PROVE a[i] \in T
      BY <1>2 DEF ToSet
    <3>1. CASE i = Len(s) + 1
      BY <1>2, <3>1
    <3>2. CASE i \in 1 .. Len(s)
      BY <1>3, <1>4, <3>2 DEF ToSet
    <3> QED
      BY <1>4, <3>1, <3>2
  <2>2. T \subseteq ToSet(a)
    <3>1. x \in ToSet(a)
      BY <1>2, <1>4 DEF ToSet
    <3>2. ASSUME NEW i \in 1 .. Len(s) PROVE s[i] \in ToSet(a)
      BY <1>2, <1>3, <1>4 DEF ToSet
    <3> QED
      BY <1>4, <3>1, <3>2 DEF ToSet
  <2> QED
    BY <2>1, <2>2
<1> QED
  BY <1>2, <1>3, <1>5 DEF IsSeq

LEMMA OutputsAre ==
    ASSUME NEW gates, IsSeq(gates)
    PROVE  Outputs(gates) = {g.output : g \in ToSet(gates)}
  BY SeqElements DEF Outputs

\* A visit is of a gate, and the first round goes through them in order.
LEMMA Visited ==
    ASSUME NEW gates, IsSeq(gates), NEW n \in 1 .. (Len(gates) * Len(gates))
    PROVE  /\ ((n - 1) % Len(gates)) + 1 \in 1 .. Len(gates)
           /\ n <= Len(gates) => ((n - 1) % Len(gates)) + 1 = n
<1>1. Len(gates) \in Nat
  BY SeqElements
<1>2. Len(gates) # 0
  BY <1>1
<1> QED
  BY <1>1, <1>2

LEMMA Visits ==
    ASSUME NEW gates, IsSeq(gates)
    PROVE  Len(gates) \in Nat /\ (Len(gates) * Len(gates)) \in Nat
           /\ (Len(gates) * Len(gates)) >= Len(gates)
<1>1. Len(gates) \in Nat
  BY SeqElements
<1> QED
  BY <1>1

\* A gate whose inputs are known is evaluated, any other left pending.
LEMMA EvaluateKnown ==
    ASSUME NEW known, NEW g, g.inputs \subseteq DOMAIN known
    PROVE  /\ DOMAIN Evaluate(known, g) = DOMAIN known \cup {g.output}
           /\ Evaluate(known, g)[g.output] = Computes(g.kind, TablesOf(known, g.inputs))
           /\ \A s \in DOMAIN known : s # g.output => Evaluate(known, g)[s] = known[s]
  BY DEF Evaluate, With, TablesOf

LEMMA EvaluatePending ==
    ASSUME NEW known, NEW g, ~(g.inputs \subseteq DOMAIN known)
    PROVE  Evaluate(known, g) = known
  BY DEF Evaluate

\* No signal becomes unknown.
LEMMA EvaluateGrows ==
    ASSUME NEW known, NEW g
    PROVE  /\ DOMAIN known \subseteq DOMAIN Evaluate(known, g)
           /\ g.inputs \subseteq DOMAIN known => g.output \in DOMAIN Evaluate(known, g)
  BY DEF Evaluate, With

\* What an evaluation finds is what every valuation that holds for the gates
\* says.
LEMMA EvaluationIsSound ==
    ASSUME NEW gates, IsSeq(gates), NEW W, Valuation(W),
           \A g \in ToSet(gates) : Holds(W, g)
    PROVE  /\ Inputs \subseteq DOMAIN EvaluateLogicModule(gates)
           /\ DOMAIN EvaluateLogicModule(gates) \subseteq DOMAIN W
           /\ \A s \in DOMAIN EvaluateLogicModule(gates) : EvaluateLogicModule(gates)[s] = W[s]
<1> DEFINE visits == Len(gates) * Len(gates)
<1>1. visits \in Nat
  BY Visits
<1>2. PICK f : /\ f[0] = InputTables
               /\ \A n \in 1 .. visits :
                    f[n] = Evaluate(f[n - 1], gates[((n - 1) % Len(gates)) + 1])
               /\ EvaluateLogicModule(gates) = f[visits]
  BY <1>1, EvaluateRun
<1> DEFINE Good == {n \in 0 .. visits :
                      /\ Inputs \subseteq DOMAIN f[n] /\ DOMAIN f[n] \subseteq DOMAIN W
                      /\ \A s \in DOMAIN f[n] : f[n][s] = W[s]}
<1>3. 0 \in Good
  <2>1. DOMAIN InputTables = Inputs
    BY DEF InputTables
  <2> QED
    BY <1>1, <1>2, <2>1 DEF Valuation
<1>4. ASSUME NEW n \in 1 .. visits, n - 1 \in Good PROVE n \in Good
  <2> DEFINE known == f[n - 1]
             g     == gates[((n - 1) % Len(gates)) + 1]
  <2>1. /\ Inputs \subseteq DOMAIN known /\ DOMAIN known \subseteq DOMAIN W
        /\ \A s \in DOMAIN known : known[s] = W[s]
    BY <1>4
  <2>2. Holds(W, g)
    BY <1>4, Visited, SeqElements
  <2>3. f[n] = Evaluate(known, g)
    BY <1>2
  <2>4. n \in 0 .. visits
    BY <1>1
  <2> HIDE DEF known, g
  <2>5. CASE g.inputs \subseteq DOMAIN known
    <3>1. TablesOf(known, g.inputs) = TablesOf(W, g.inputs)
      BY <2>1, <2>5 DEF TablesOf
    <3>2. /\ DOMAIN f[n] = DOMAIN known \cup {g.output}
          /\ f[n][g.output] = Computes(g.kind, TablesOf(known, g.inputs))
          /\ \A s \in DOMAIN known : s # g.output => f[n][s] = known[s]
      <4>1. /\ DOMAIN Evaluate(known, g) = DOMAIN known \cup {g.output}
            /\ Evaluate(known, g)[g.output] = Computes(g.kind, TablesOf(known, g.inputs))
            /\ \A s \in DOMAIN known : s # g.output => Evaluate(known, g)[s] = known[s]
        BY <2>5, EvaluateKnown
      <4> QED
        BY <2>3, <4>1
    <3>3. g.output \in DOMAIN W /\ W[g.output] = f[n][g.output]
      BY <2>2, <3>1, <3>2 DEF Holds
    <3> QED
      BY <2>1, <2>4, <3>2, <3>3
  <2>6. CASE ~(g.inputs \subseteq DOMAIN known)
    BY <2>1, <2>3, <2>4, <2>6, EvaluatePending
  <2> QED
    BY <2>5, <2>6
<1>5. \A n \in 0 .. visits : n \in Good
  <2> HIDE DEF Good, visits
  <2> QED
    BY <1>1, <1>3, <1>4, Reaches
<1>6. visits \in Good
  BY <1>1, <1>5
<1> QED
  BY <1>2, <1>6

\* On gates in order of their dependencies, every signal is found.
LEMMA EvaluationIsComplete ==
    ASSUME NEW gates, IsSeq(gates), InDependencyOrder(gates)
    PROVE  Inputs \cup Outputs(gates) \subseteq DOMAIN EvaluateLogicModule(gates)
<1> DEFINE visits == Len(gates) * Len(gates)
<1>1. visits \in Nat /\ Len(gates) \in Nat /\ visits >= Len(gates)
  BY Visits
<1>2. PICK f : /\ f[0] = InputTables
               /\ \A n \in 1 .. visits :
                    f[n] = Evaluate(f[n - 1], gates[((n - 1) % Len(gates)) + 1])
               /\ EvaluateLogicModule(gates) = f[visits]
  BY <1>1, EvaluateRun
<1> DEFINE Good == {n \in 0 .. visits :
                      /\ Inputs \subseteq DOMAIN f[n]
                      /\ \A i \in 1 .. Len(gates) : i <= n => gates[i].output \in DOMAIN f[n]}
<1>3. 0 \in Good
  BY <1>1, <1>2 DEF InputTables
<1>4. ASSUME NEW n \in 1 .. visits, n - 1 \in Good PROVE n \in Good
  <2> DEFINE g == gates[((n - 1) % Len(gates)) + 1]
  <2>1. /\ Inputs \subseteq DOMAIN f[n - 1]
        /\ \A i \in 1 .. Len(gates) : i <= n - 1 => gates[i].output \in DOMAIN f[n - 1]
    BY <1>4
  <2>2. f[n] = Evaluate(f[n - 1], g)
    BY <1>2
  <2>3. n \in 0 .. visits
    BY <1>1
  <2>4. DOMAIN f[n - 1] \subseteq DOMAIN f[n]
    <3> HIDE DEF g
    <3> QED
      BY <2>2, EvaluateGrows
  <2>5. ASSUME n <= Len(gates) PROVE gates[n].output \in DOMAIN f[n]
    <3>1. n \in 1 .. Len(gates) /\ g = gates[n]
      BY <1>1, <2>5, Visited
    <3>2. g.inputs \subseteq Inputs \cup {gates[j].output : j \in 1 .. n - 1}
      BY <3>1, SeqElements DEF InDependencyOrder
    <3>3. g.inputs \subseteq DOMAIN f[n - 1]
      BY <1>1, <2>1, <3>1, <3>2
    <3>4. g.inputs \subseteq DOMAIN f[n - 1]
      BY <3>1, <3>3
    <3>5. g.output \in DOMAIN f[n]
      <4> HIDE DEF g
      <4> QED
        BY <2>2, <3>4, EvaluateGrows
    <3> QED
      BY <3>1, <3>5
  <2>6. ASSUME NEW i \in 1 .. Len(gates), i <= n PROVE gates[i].output \in DOMAIN f[n]
    BY <1>1, <2>1, <2>4, <2>5, <2>6
  <2> HIDE DEF g, visits
  <2> QED
    BY <2>1, <2>3, <2>4, <2>6
<1>5. \A n \in 0 .. visits : n \in Good
  <2> HIDE DEF Good, visits
  <2> QED
    BY <1>1, <1>3, <1>4, Reaches
<1>6. visits \in Good
  BY <1>1, <1>5
<1>7. \A i \in 1 .. Len(gates) : gates[i].output \in DOMAIN f[visits]
  BY <1>1, <1>6
<1> QED
  BY <1>2, <1>6, <1>7, SeqElements DEF Outputs

\* A valuation with more signals still holds for what it held for.
Extends(W, V) == DOMAIN V \subseteq DOMAIN W /\ \A s \in DOMAIN V : W[s] = V[s]

\* Signals compute the same in an extended valuation.
LEMMA ExtendedTables ==
    ASSUME NEW V, NEW W, Extends(W, V), NEW S, S \subseteq DOMAIN V
    PROVE  TablesOf(W, S) = TablesOf(V, S)
  BY DEF Extends, TablesOf

LEMMA ExtendedHolds ==
    ASSUME NEW V, NEW W, Extends(W, V), NEW g, Holds(V, g)
    PROVE  Holds(W, g)
<1>1. TablesOf(W, g.inputs) = TablesOf(V, g.inputs)
  BY ExtendedTables DEF Holds
<1> QED
  BY <1>1 DEF Holds, Extends

\* A value for a new signal extends a valuation.
LEMMA WithExtends ==
    ASSUME NEW V, Valuation(V), NEW x, x \notin DOMAIN V, NEW table \in SUBSET Assignments
    PROVE  /\ Valuation(With(V, x, table)) /\ Extends(With(V, x, table), V)
           /\ DOMAIN With(V, x, table) = DOMAIN V \cup {x}
           /\ With(V, x, table)[x] = table
  BY DEF With, Valuation, Extends

UniqueDrivers(gates) ==
    \A g, h \in ToSet(gates) : g.output = h.output => g = h

WellFormed(gates) ==
    \A g \in ToSet(gates) :
        /\ g.kind \in Kinds /\ g.output \notin Inputs
        /\ g.kind \in {"NOT", "BUFFER"} => IsSingle(g.inputs)
        /\ \E s, t \in g.inputs : g.inputs = {s, t}

\* Without a loop, the evaluation of the gates is a valuation that holds for
\* all of them.
LEMMA EvaluationHolds ==
    ASSUME NEW gates, IsSeq(gates), UniqueDrivers(gates), WellFormed(gates),
           Outputs(gates) \subseteq DOMAIN EvaluateLogicModule(gates)
    PROVE  /\ Valuation(EvaluateLogicModule(gates))
           /\ \A g \in ToSet(gates) : Holds(EvaluateLogicModule(gates), g)
<1> DEFINE visits == Len(gates) * Len(gates)
           Settled(known) ==
             /\ Valuation(known)
             /\ \A g \in ToSet(gates) : g.output \in DOMAIN known => Holds(known, g)
<1>1. visits \in Nat
  BY Visits
<1>2. PICK f : /\ f[0] = InputTables
               /\ \A n \in 1 .. visits :
                    f[n] = Evaluate(f[n - 1], gates[((n - 1) % Len(gates)) + 1])
               /\ EvaluateLogicModule(gates) = f[visits]
  BY <1>1, EvaluateRun
<1>3. Settled(f[0])
  <2>1. DOMAIN InputTables = Inputs /\ InputTables \in [Inputs -> SUBSET Assignments]
    BY DEF InputTables
  <2> QED
    BY <1>2, <2>1 DEF Valuation, WellFormed
<1>4. ASSUME NEW known, Settled(known), NEW h \in ToSet(gates)
      PROVE  Settled(Evaluate(known, h))
  <2> DEFINE table == Computes(h.kind, TablesOf(known, h.inputs))
  <2>1. CASE ~(h.inputs \subseteq DOMAIN known)
    BY <1>4, <2>1, EvaluatePending
  <2>2. CASE h.inputs \subseteq DOMAIN known /\ h.output \in DOMAIN known
    <3>1. known[h.output] = table
      BY <1>4, <2>2 DEF Holds
    <3>2. Evaluate(known, h) = With(known, h.output, table)
      BY <2>2 DEF Evaluate, TablesOf
    <3>3. known \in [DOMAIN known -> SUBSET Assignments]
      BY <1>4 DEF Valuation
    <3> HIDE DEF table
    <3>4. With(known, h.output, table) = known
      BY <2>2, <3>1, <3>3 DEF With
    <3> QED
      BY <1>4, <3>2, <3>4
  <2>3. CASE h.inputs \subseteq DOMAIN known /\ h.output \notin DOMAIN known
    <3> DEFINE more == With(known, h.output, table)
    <3>1. Evaluate(known, h) = more
      BY <2>3 DEF Evaluate, TablesOf
    <3>2. table \in SUBSET Assignments
      <4>1. TablesOf(known, h.inputs) \in SUBSET SUBSET Assignments
        BY <1>4, <2>3 DEF TablesOf, Valuation
      <4> QED
        BY <1>4, <4>1, ComputesType DEF WellFormed
    <3>3. /\ Valuation(more) /\ Extends(more, known)
          /\ DOMAIN more = DOMAIN known \cup {h.output} /\ more[h.output] = table
      <4>1. Valuation(known) /\ h.output \notin DOMAIN known
        BY <1>4, <2>3
      <4> HIDE DEF table
      <4>2. /\ Valuation(With(known, h.output, table))
            /\ Extends(With(known, h.output, table), known)
        BY <4>1, <3>2, WithExtends
      <4>3. /\ DOMAIN With(known, h.output, table) = DOMAIN known \cup {h.output}
            /\ With(known, h.output, table)[h.output] = table
        BY DEF With
      <4> QED
        BY <4>2, <4>3
    <3>4. Holds(more, h)
      <4> HIDE DEF more
      <4>1. TablesOf(more, h.inputs) = TablesOf(known, h.inputs)
        BY <2>3, <3>3, ExtendedTables
      <4> QED
        BY <2>3, <3>3, <4>1 DEF Holds
    <3>5. ASSUME NEW g \in ToSet(gates), g.output \in DOMAIN more PROVE Holds(more, g)
      <4> HIDE DEF more
      <4>1. CASE g.output = h.output
        <5>1. g = h
          BY <1>4, <4>1 DEF UniqueDrivers
        <5> QED
          BY <3>4, <5>1
      <4>2. CASE g.output \in DOMAIN known
        BY <1>4, <3>3, <4>2, ExtendedHolds
      <4> QED
        BY <3>3, <3>5, <4>1, <4>2
    <3> HIDE DEF more
    <3> QED
      BY <3>1, <3>3, <3>5
  <2> QED
    BY <2>1, <2>2, <2>3
<1> DEFINE Good == {n \in 0 .. visits : Settled(f[n])}
<1>5. ASSUME NEW n \in 1 .. visits, n - 1 \in Good PROVE n \in Good
  <2>1. gates[((n - 1) % Len(gates)) + 1] \in ToSet(gates)
    BY Visited, SeqElements
  <2>2. n \in 0 .. visits /\ Settled(f[n - 1])
    BY <1>1, <1>5
  <2> HIDE DEF Settled
  <2> QED
    BY <1>2, <1>4, <2>1, <2>2
<1>6. \A n \in 0 .. visits : n \in Good
  <2>1. 0 \in Good
    <3> HIDE DEF Settled, visits
    <3> QED
      BY <1>1, <1>3
  <2> HIDE DEF Good, visits
  <2> QED
    BY <1>1, <1>5, <2>1, Reaches
<1>7. Settled(f[visits])
  <2> HIDE DEF Settled, visits
  <2> QED
    BY <1>1, <1>6
<1> QED
  BY <1>2, <1>7, OutputsAre

(***************************************************************************)
(* The tables of a pass.  They are sound for a valuation if it holds for   *)
(* what was emitted, gives a name and what it stands for the same table,   *)
(* and a signal and its inversion complementary ones.                      *)
(***************************************************************************)
Shape(st) ==
    /\ st = [gates |-> st.gates, aliases |-> st.aliases, inversions |-> st.inversions]
    /\ IsSeq(st.gates)

Sound(W, st) ==
    /\ Shape(st)
    /\ \A g \in ToSet(st.gates) : Holds(W, g)
    /\ \A s \in DOMAIN st.aliases :
          s \in DOMAIN W /\ st.aliases[s] \in DOMAIN W /\ W[st.aliases[s]] = W[s]
    /\ \A s \in DOMAIN st.inversions :
          /\ s \in DOMAIN W /\ st.inversions[s] \in DOMAIN W
          /\ W[st.inversions[s]] = Assignments \ W[s]

Renamed(aliases, name, target) ==
    [s \in DOMAIN aliases \cup {name} |->
        IF s = name THEN target ELSE IF aliases[s] = name THEN target ELSE aliases[s]]

\* What Alias, Emit and NoteInversion change of the tables, and what they leave alone.
LEMMA AliasFields ==
    ASSUME NEW st, Shape(st), NEW name, NEW target
    PROVE  /\ Shape(Alias(st, name, target))
           /\ Alias(st, name, target).gates = st.gates
           /\ Alias(st, name, target).inversions = st.inversions
           /\ Alias(st, name, target).aliases = Renamed(st.aliases, name, target)
<1>1. Alias(st, name, target) =
        [gates |-> st.gates, aliases |-> Renamed(st.aliases, name, target),
         inversions |-> st.inversions]
  <2> DEFINE a == Renamed(st.aliases, name, target)
  <2>1. Alias(st, name, target) = [st EXCEPT !.aliases = a]
    BY DEF Alias, Renamed
  <2> HIDE DEF a
  <2>2. PICK x, y, z : st = [gates |-> x, aliases |-> y, inversions |-> z]
    BY DEF Shape
  <2>3. [st EXCEPT !.aliases = a] = [gates |-> x, aliases |-> a, inversions |-> z]
    BY <2>2
  <2>4. st.gates = x /\ st.aliases = y /\ st.inversions = z
    BY <2>2
  <2> QED
    BY <2>1, <2>3, <2>4 DEF a
<1> QED
  BY <1>1 DEF Shape

LEMMA EmitFields ==
    ASSUME NEW st, Shape(st), NEW g
    PROVE  /\ Shape(Emit(st, g))
           /\ Emit(st, g).gates = Append(st.gates, g)
           /\ Emit(st, g).inversions = st.inversions
           /\ Emit(st, g).aliases = st.aliases
<1>1. Emit(st, g) = [gates |-> Append(st.gates, g), aliases |-> st.aliases,
                     inversions |-> st.inversions]
  <2> DEFINE a == Append(st.gates, g)
  <2>1. Emit(st, g) = [st EXCEPT !.gates = a]
    BY DEF Emit
  <2> HIDE DEF a
  <2>2. PICK x, y, z : st = [gates |-> x, aliases |-> y, inversions |-> z]
    BY DEF Shape
  <2>3. [st EXCEPT !.gates = a] = [gates |-> a, aliases |-> y, inversions |-> z]
    BY <2>2
  <2>4. st.gates = x /\ st.aliases = y /\ st.inversions = z
    BY <2>2
  <2> QED
    BY <2>1, <2>3, <2>4 DEF a
<1>2. IsSeq(Append(st.gates, g))
  BY AppendElements DEF Shape
<1> QED
  BY <1>1, <1>2 DEF Shape

LEMMA NoteFields ==
    ASSUME NEW st, Shape(st), NEW s, NEW t
    PROVE  /\ Shape(NoteInversion(st, s, t))
           /\ NoteInversion(st, s, t).gates = st.gates
           /\ NoteInversion(st, s, t).aliases = st.aliases
           /\ NoteInversion(st, s, t).inversions = With(With(st.inversions, t, s), s, t)
<1>1. NoteInversion(st, s, t) =
        [gates |-> st.gates, aliases |-> st.aliases,
         inversions |-> With(With(st.inversions, t, s), s, t)]
  <2> DEFINE a == With(With(st.inversions, t, s), s, t)
  <2>1. NoteInversion(st, s, t) = [st EXCEPT !.inversions = a]
    BY DEF NoteInversion
  <2> HIDE DEF a
  <2>2. PICK x, y, z : st = [gates |-> x, aliases |-> y, inversions |-> z]
    BY DEF Shape
  <2>3. [st EXCEPT !.inversions = a] = [gates |-> x, aliases |-> y, inversions |-> a]
    BY <2>2
  <2>4. st.gates = x /\ st.aliases = y /\ st.inversions = z
    BY <2>2
  <2> QED
    BY <2>1, <2>3, <2>4 DEF a
<1> QED
  BY <1>1 DEF Shape

LEMMA NothingFields ==
    /\ Shape(NothingEmitted) /\ NothingEmitted.gates = << >>
    /\ DOMAIN NothingEmitted.aliases = {} /\ DOMAIN NothingEmitted.inversions = {}
  BY NoElements DEF Shape, NothingEmitted

\* Nothing emitted is sound, whatever the valuation.
LEMMA NothingSound == ASSUME NEW W PROVE Sound(W, NothingEmitted)
  BY NothingFields, NoElements DEF Sound

\* A signal and what stands for it compute the same.
LEMMA ResolveSound ==
    ASSUME NEW W, NEW st, Sound(W, st), NEW s \in DOMAIN W
    PROVE  Resolve(st, s) \in DOMAIN W /\ W[Resolve(st, s)] = W[s]
  BY DEF Sound, Resolve

ResolveAll(st, S) == {Resolve(st, s) : s \in S}

LEMMA ResolvedTables ==
    ASSUME NEW W, NEW st, Sound(W, st), NEW S, S \subseteq DOMAIN W
    PROVE  /\ ResolveAll(st, S) \subseteq DOMAIN W
           /\ TablesOf(W, ResolveAll(st, S)) = TablesOf(W, S)
  BY ResolveSound DEF ResolveAll, TablesOf

\* Tables stay sound under an alias for an equal, a gate that holds, an inversion that
\* is one, and a wider valuation.
LEMMA SoundAlias ==
    ASSUME NEW W, NEW st, Sound(W, st), NEW name \in DOMAIN W, NEW target \in DOMAIN W,
           W[target] = W[name]
    PROVE  Sound(W, Alias(st, name, target))
<1> DEFINE new == Alias(st, name, target)
<1>1. /\ Shape(new) /\ new.gates = st.gates /\ new.inversions = st.inversions
      /\ new.aliases = Renamed(st.aliases, name, target)
  BY AliasFields DEF Sound
<1> HIDE DEF new
<1>2. ASSUME NEW s \in DOMAIN new.aliases
      PROVE  s \in DOMAIN W /\ new.aliases[s] \in DOMAIN W /\ W[new.aliases[s]] = W[s]
  BY <1>1 DEF Sound, Renamed
<1>3. Sound(W, new)
  BY <1>1, <1>2 DEF Sound
<1> QED
  BY <1>3 DEF new

LEMMA SoundEmit ==
    ASSUME NEW W, NEW st, Sound(W, st), NEW g, Holds(W, g)
    PROVE  Sound(W, Emit(st, g))
<1> DEFINE new == Emit(st, g)
<1>1. /\ Shape(new) /\ new.gates = Append(st.gates, g)
      /\ new.inversions = st.inversions /\ new.aliases = st.aliases
  BY EmitFields DEF Sound
<1>2. ToSet(Append(st.gates, g)) = ToSet(st.gates) \cup {g}
  BY AppendElements DEF Sound, Shape
<1> HIDE DEF new
<1>3. Sound(W, new)
  BY <1>1, <1>2 DEF Sound
<1> QED
  BY <1>3 DEF new

LEMMA SoundNote ==
    ASSUME NEW W, Valuation(W), NEW st, Sound(W, st), NEW s \in DOMAIN W, NEW t \in DOMAIN W,
           W[t] = Assignments \ W[s]
    PROVE  Sound(W, NoteInversion(st, s, t))
<1> DEFINE new == NoteInversion(st, s, t)
<1>1. /\ Shape(new) /\ new.gates = st.gates /\ new.aliases = st.aliases
      /\ new.inversions = With(With(st.inversions, t, s), s, t)
  BY NoteFields DEF Sound
<1>2. W[s] = Assignments \ W[t]
  <2>1. W[s] \in SUBSET Assignments
    BY DEF Valuation
  <2> QED
    BY <2>1
<1>3. ASSUME NEW x \in DOMAIN new.inversions
      PROVE  /\ x \in DOMAIN W /\ new.inversions[x] \in DOMAIN W
             /\ W[new.inversions[x]] = Assignments \ W[x]
  <2> HIDE DEF new
  <2>1. CASE x = s
    BY <1>1, <2>1 DEF With
  <2>2. CASE x # s /\ x = t
    BY <1>1, <1>2, <2>2 DEF With
  <2>3. CASE x # s /\ x # t
    BY <1>1, <2>3 DEF With, Sound
  <2> QED
    BY <2>1, <2>2, <2>3
<1> HIDE DEF new
<1>4. Sound(W, new)
  BY <1>1, <1>3 DEF Sound
<1> QED
  BY <1>4 DEF new

LEMMA SoundExtended ==
    ASSUME NEW V, NEW W, Extends(W, V), NEW st, Sound(V, st)
    PROVE  Sound(W, st)
<1>1. \A g \in ToSet(st.gates) : Holds(W, g)
  BY ExtendedHolds DEF Sound
<1> QED
  BY <1>1 DEF Sound, Extends

\* What a gate computes, by kind.
LEMMA TheOnly == ASSUME NEW x PROVE The({x}) = x /\ IsSingle({x})
  BY DEF The, IsSingle

LEMMA SingleIs == ASSUME NEW S, IsSingle(S) PROVE S = {The(S)}
  BY TheOnly DEF IsSingle

\* Every kind of gate, of one signal read twice.
LEMMA OneInput ==
    ASSUME NEW A \in SUBSET Assignments
    PROVE  /\ \A kind \in {"BUFFER", "AND", "OR"} : Computes(kind, {A}) = A
           /\ \A kind \in {"NOT", "NAND"} : Computes(kind, {A}) = Assignments \ A
           /\ Computes("XOR", {A}) = {}
<1>1. Computes("BUFFER", {A}) = A /\ Computes("OR", {A}) = A /\ Computes("NOT", {A}) = Assignments \ A
  BY DEF Computes
<1>2. Computes("AND", {A}) = A
  BY DEF Computes
<1>3. Computes("NAND", {A}) = Assignments \ A
  BY DEF Computes
<1>4. Computes("XOR", {A}) = {}
  BY DEF Computes
<1> QED
  BY <1>1, <1>2, <1>3, <1>4

(***************************************************************************)
(* The NAND of some signals.  The valuation V of the netlist grows into    *)
(* one, W, of the nets that were added as well.                            *)
(***************************************************************************)
NandTables(V, W, st) ==
    /\ Valuation(W) /\ Extends(W, V) /\ Sound(W, st)
    /\ \A s \in DOMAIN W : s \in DOMAIN V \/ \E g \in ToSet(st.gates) : s = g.output
    /\ \A g \in ToSet(st.gates) :
          g.kind = "NAND" /\ (g.output \in DOMAIN V \/ g.output = <<g.inputs>>)

\* No signal has a name that AddNand gives.
NewNetNames(V) == Unnamed \notin DOMAIN V /\ \A S : <<S>> \notin DOMAIN V

Answered(st, output, net) == IF output = Unnamed THEN st ELSE Alias(st, output, net)
NewNet(inputs, output) == IF output = Unnamed THEN <<inputs>> ELSE output
Added(st, inputs, output) == Emit(st, Gate("NAND", inputs, NewNet(inputs, output)))

IsFound(st, inputs, net) ==
    \/ /\ IsSingle(inputs) /\ The(inputs) \in DOMAIN st.inversions
       /\ net = Resolve(st, st.inversions[The(inputs)])
    \/ \E g \in Same(st.gates, "NAND", inputs) : net = Resolve(st, g.output)

\* AddNand answers with a net that there is, under one of two names, or adds a gate.
LEMMA AddNandCases ==
    ASSUME NEW st, NEW signals, NEW output, NEW r, r = AddNand(st, signals, output),
           NEW inputs, inputs = ResolveAll(st, signals)
    PROVE  \/ /\ IsFound(st, inputs, r.net)
              /\ r.st = Answered(st, output, r.net)
           \/ /\ Same(st.gates, "NAND", inputs) = {}
              /\ r.net = NewNet(inputs, output)
              /\ \/ r.st = Added(st, inputs, output)
                 \/ /\ IsSingle(inputs)
                    /\ r.st = NoteInversion(Added(st, inputs, output), The(inputs), r.net)
<1> DEFINE input == The(inputs)
           same  == Same(st.gates, "NAND", inputs)
           inverse == Resolve(st, st.inversions[input])
           twin  == Resolve(st, The(same).output)
           new   == NewNet(inputs, output)
<1>1. r = IF IsSingle(inputs) /\ input \in DOMAIN st.inversions
            THEN [st |-> Answered(st, output, inverse), net |-> inverse]
          ELSE IF same # {} THEN [st |-> Answered(st, output, twin), net |-> twin]
          ELSE IF IsSingle(inputs)
            THEN [st |-> NoteInversion(Added(st, inputs, output), input, new), net |-> new]
          ELSE [st |-> Added(st, inputs, output), net |-> new]
  BY DEF AddNand, Answered, NewNet, Added, ResolveAll
<1>2. same # {} => The(same) \in same
  BY DEF The
<1> QED
  BY <1>1, <1>2 DEF IsFound

LEMMA NandGateFields ==
    ASSUME NEW inputs, NEW net
    PROVE  /\ Gate("NAND", inputs, net).kind = "NAND"
           /\ Gate("NAND", inputs, net).inputs = inputs
           /\ Gate("NAND", inputs, net).output = net
  BY DEF Gate

\* A net that is found computes the NAND asked for.
LEMMA FoundIsRight ==
    ASSUME NEW V, NEW W, NEW st, NandTables(V, W, st), NEW inputs, inputs \subseteq DOMAIN W,
           NEW net, IsFound(st, inputs, net)
    PROVE  net \in DOMAIN W /\ W[net] = Computes("NAND", TablesOf(W, inputs))
<1>1. CASE /\ IsSingle(inputs) /\ The(inputs) \in DOMAIN st.inversions
           /\ net = Resolve(st, st.inversions[The(inputs)])
  <2> DEFINE i == The(inputs)
  <2>1. inputs = {i}
    BY <1>1, SingleIs
  <2>2. /\ st.inversions[i] \in DOMAIN W /\ i \in DOMAIN W
        /\ W[st.inversions[i]] = Assignments \ W[i]
    BY <1>1 DEF NandTables, Sound
  <2> HIDE DEF i
  <2>3. TablesOf(W, inputs) = {W[i]} /\ W[i] \in SUBSET Assignments
    BY <2>1, <2>2 DEF TablesOf, NandTables, Valuation
  <2>4. Computes("NAND", {W[i]}) = Assignments \ W[i]
    BY <2>3, OneInput
  <2>5. net \in DOMAIN W /\ W[net] = W[st.inversions[i]]
    BY <1>1, <2>2, ResolveSound DEF NandTables, i
  <2> QED
    BY <2>2, <2>3, <2>4, <2>5
<1>2. CASE \E g \in Same(st.gates, "NAND", inputs) : net = Resolve(st, g.output)
  <2>1. PICK g \in Same(st.gates, "NAND", inputs) : net = Resolve(st, g.output)
    BY <1>2
  <2>2. Holds(W, g) /\ g.kind = "NAND" /\ g.inputs = inputs
    BY <2>1 DEF Same, NandTables, Sound
  <2>3. net \in DOMAIN W /\ W[net] = W[g.output]
    BY <2>1, <2>2, ResolveSound DEF NandTables, Holds
  <2> QED
    BY <2>2, <2>3 DEF Holds
<1> QED
  BY <1>1, <1>2 DEF IsFound

\* A gate that is added does, and no valuation is lost by it.
LEMMA AddedIsSound ==
    ASSUME NEW V, NEW W, Valuation(W), Extends(W, V), NEW st, Sound(W, st),
           \A g \in ToSet(st.gates) :
              g.kind = "NAND" /\ (g.output \in DOMAIN V \/ g.output = <<g.inputs>>),
           NEW inputs, NEW output, NEW net, net = NewNet(inputs, output),
           \A s \in DOMAIN W :
              s \in DOMAIN V \/ s = net \/ \E g \in ToSet(st.gates) : s = g.output,
           net \in DOMAIN V \/ net = <<inputs>>,
           inputs \subseteq DOMAIN W, net \in DOMAIN W,
           W[net] = Computes("NAND", TablesOf(W, inputs)),
           NEW new,
           \/ new = Added(st, inputs, output)
           \/ /\ IsSingle(inputs)
              /\ new = NoteInversion(Added(st, inputs, output), The(inputs), net)
    PROVE  NandTables(V, W, new)
<1> DEFINE g == Gate("NAND", inputs, net)
           added == Emit(st, g)
<1>1. g.kind = "NAND" /\ g.inputs = inputs /\ g.output = net
  BY NandGateFields
<1>2. Added(st, inputs, output) = added
  BY DEF Added
<1> HIDE DEF g
<1>3. Holds(W, g)
  BY <1>1 DEF Holds
<1>4. /\ Shape(added) /\ added.gates = Append(st.gates, g)
      /\ ToSet(added.gates) = ToSet(st.gates) \cup {g}
  <2>1. Shape(st) /\ IsSeq(st.gates)
    BY DEF Sound, Shape
  <2>2. Shape(added) /\ added.gates = Append(st.gates, g)
    BY <2>1, EmitFields
  <2>3. ToSet(Append(st.gates, g)) = ToSet(st.gates) \cup {g}
    BY <2>1, AppendElements
  <2> QED
    BY <2>2, <2>3
<1>5. Sound(W, added)
  BY <1>3, SoundEmit
<1> HIDE DEF added
<1>6. Sound(W, new) /\ new.gates = added.gates
  <2>1. CASE new = added
    BY <1>5, <2>1
  <2>2. CASE IsSingle(inputs) /\ new = NoteInversion(added, The(inputs), net)
    <3> DEFINE i == The(inputs)
    <3>1. inputs = {i}
      BY <2>2, SingleIs
    <3> HIDE DEF i
    <3>2. i \in DOMAIN W /\ W[i] \in SUBSET Assignments
      BY <3>1 DEF Valuation
    <3>3. TablesOf(W, inputs) = {W[i]}
      BY <3>1 DEF TablesOf
    <3>4. W[net] = Assignments \ W[i]
      BY <3>2, <3>3, OneInput
    <3>5. new = NoteInversion(added, i, net)
      BY <2>2 DEF i
    <3> QED
      BY <1>4, <1>5, <3>2, <3>4, <3>5, SoundNote, NoteFields
  <2> QED
    BY <1>2, <2>1, <2>2
<1>7. \A s \in DOMAIN W : s \in DOMAIN V \/ \E h \in ToSet(new.gates) : s = h.output
  BY <1>1, <1>4, <1>6
<1>8. \A h \in ToSet(new.gates) :
        h.kind = "NAND" /\ (h.output \in DOMAIN V \/ h.output = <<h.inputs>>)
  BY <1>1, <1>4, <1>6
<1> QED
  BY <1>6, <1>7, <1>8 DEF NandTables

\* AddNand (NandTransform.py): the net it returns computes the NAND of the
\* signals it was given, whether it is an inversion already known, the output
\* of an earlier gate or a new one, and the tables stay sound.
THEOREM AddNandIsSound ==
    ASSUME NEW V, NewNetNames(V), NEW W, NEW st, NandTables(V, W, st),
           NEW signals, signals \subseteq DOMAIN W, NEW output,
           \/ output = Unnamed
           \/ output \in DOMAIN V /\ V[output] = Computes("NAND", TablesOf(W, signals)),
           NEW r, r = AddNand(st, signals, output)
    PROVE  \E W2 : /\ NandTables(V, W2, r.st) /\ Extends(W2, W)
                   /\ r.net \in DOMAIN W2
                   /\ W2[r.net] = Computes("NAND", TablesOf(W, signals))
<1> DEFINE inputs == ResolveAll(st, signals)
           table  == Computes("NAND", TablesOf(W, signals))
<1>1. inputs \subseteq DOMAIN W /\ TablesOf(W, inputs) = TablesOf(W, signals)
  BY ResolvedTables DEF NandTables
<1>2. table \in SUBSET Assignments
  <2>1. TablesOf(W, signals) \in SUBSET SUBSET Assignments
    BY DEF TablesOf, NandTables, Valuation
  <2> QED
    BY <2>1, ComputesType DEF Kinds
<1>3. Extends(W, W)
  BY DEF Extends
<1>4. output # Unnamed => output \in DOMAIN W /\ W[output] = table
  BY DEF NandTables, Extends
<1>5. \/ IsFound(st, inputs, r.net) /\ r.st = Answered(st, output, r.net)
      \/ /\ Same(st.gates, "NAND", inputs) = {}
         /\ r.net = NewNet(inputs, output)
         /\ \/ r.st = Added(st, inputs, output)
            \/ /\ IsSingle(inputs)
               /\ r.st = NoteInversion(Added(st, inputs, output), The(inputs), r.net)
  BY AddNandCases
<1> HIDE DEF inputs, table
<1>6. CASE IsFound(st, inputs, r.net) /\ r.st = Answered(st, output, r.net)
  <2>1. r.net \in DOMAIN W /\ W[r.net] = table
    BY <1>1, <1>6, FoundIsRight DEF table
  <2>2. Sound(W, r.st) /\ r.st.gates = st.gates
    <3>1. CASE output = Unnamed
      BY <1>6, <3>1 DEF Answered, NandTables
    <3>2. CASE output # Unnamed
      <4>1. r.st = Alias(st, output, r.net)
        BY <1>6, <3>2 DEF Answered
      <4>2. Sound(W, st) /\ Shape(st)
        BY DEF NandTables, Sound
      <4> QED
        BY <1>4, <2>1, <3>2, <4>1, <4>2, SoundAlias, AliasFields
    <3> QED
      BY <3>1, <3>2
  <2>3. NandTables(V, W, r.st)
    BY <2>2 DEF NandTables
  <2> QED
    BY <1>3, <2>1, <2>3 DEF table
<1>7. ASSUME Same(st.gates, "NAND", inputs) = {},
             r.net = NewNet(inputs, output),
             \/ r.st = Added(st, inputs, output)
             \/ /\ IsSingle(inputs)
                /\ r.st = NoteInversion(Added(st, inputs, output), The(inputs), r.net)
      PROVE  \E W2 : /\ NandTables(V, W2, r.st) /\ Extends(W2, W)
                     /\ r.net \in DOMAIN W2 /\ W2[r.net] = table
  <2>1. CASE output # Unnamed
    <3>1. r.net = output
      BY <1>7, <2>1 DEF NewNet
    <3>2. NandTables(V, W, r.st)
      <4>1. /\ Valuation(W) /\ Extends(W, V) /\ Sound(W, st)
            /\ \A g \in ToSet(st.gates) :
                 g.kind = "NAND" /\ (g.output \in DOMAIN V \/ g.output = <<g.inputs>>)
        BY DEF NandTables
      <4>2. \A s \in DOMAIN W :
              s \in DOMAIN V \/ s = r.net \/ \E g \in ToSet(st.gates) : s = g.output
        BY DEF NandTables
      <4>3. /\ r.net \in DOMAIN V \/ r.net = <<inputs>>
            /\ r.net \in DOMAIN W /\ W[r.net] = Computes("NAND", TablesOf(W, inputs))
        BY <1>1, <1>4, <2>1, <3>1 DEF table
      <4> QED
        BY <1>1, <1>7, <4>1, <4>2, <4>3, AddedIsSound
    <3> QED
      BY <1>3, <1>4, <2>1, <3>1, <3>2
  <2>2. CASE output = Unnamed
    <3> DEFINE net == <<inputs>>
               W2  == With(W, net, table)
    <3>1. r.net = net
      BY <1>7, <2>2 DEF NewNet
    <3>2. net \notin DOMAIN W
      <4> SUFFICES ASSUME net \in DOMAIN W PROVE FALSE
        OBVIOUS
      <4>1. net \notin DOMAIN V
        BY DEF NewNetNames
      <4>2. PICK g \in ToSet(st.gates) : g.output = net
        BY <4>1 DEF NandTables
      <4>3. g.kind = "NAND" /\ <<g.inputs>> = <<inputs>>
        BY <4>1, <4>2 DEF NandTables
      <4>4. g.inputs = inputs
        <5>1. <<g.inputs>>[1] = <<inputs>>[1]
          BY <4>3
        <5> QED
          BY <5>1
      <4> QED
        BY <1>7, <4>3, <4>4 DEF Same
    <3> HIDE DEF net
    <3>3. Valuation(W)
      BY DEF NandTables
    <3>4. Valuation(W2) /\ Extends(W2, W)
      BY <1>2, <3>2, <3>3, WithExtends
    <3>5. DOMAIN W2 = DOMAIN W \cup {net} /\ W2[net] = table
      BY DEF With
    <3> HIDE DEF W2
    <3>6. TablesOf(W2, inputs) = TablesOf(W, inputs)
      BY <1>1, <3>4, ExtendedTables
    <3>7. /\ Extends(W2, V) /\ Sound(W2, st)
          /\ \A g \in ToSet(st.gates) :
               g.kind = "NAND" /\ (g.output \in DOMAIN V \/ g.output = <<g.inputs>>)
      <4>1. Sound(W2, st)
        BY <3>4, SoundExtended DEF NandTables
      <4> QED
        BY <3>4, <4>1 DEF NandTables, Extends
    <3>8. \A s \in DOMAIN W2 :
            s \in DOMAIN V \/ s = net \/ \E g \in ToSet(st.gates) : s = g.output
      BY <3>5 DEF NandTables
    <3>9. /\ net \in DOMAIN V \/ net = <<inputs>>
          /\ inputs \subseteq DOMAIN W2 /\ net \in DOMAIN W2
          /\ W2[net] = Computes("NAND", TablesOf(W2, inputs))
      BY <1>1, <3>5, <3>6 DEF net, table
    <3>10. NandTables(V, W2, r.st)
      <4>1. /\ \A s \in DOMAIN W2 :
                  s \in DOMAIN V \/ s = r.net \/ \E g \in ToSet(st.gates) : s = g.output
            /\ r.net \in DOMAIN V \/ r.net = <<inputs>>
            /\ r.net \in DOMAIN W2 /\ W2[r.net] = Computes("NAND", TablesOf(W2, inputs))
        BY <3>1, <3>8, <3>9
      <4> QED
        BY <1>7, <3>4, <3>7, <3>9, <4>1, AddedIsSound
    <3> QED
      BY <3>1, <3>4, <3>5, <3>10
  <2> QED
    BY <2>1, <2>2
<1> QED
  BY <1>5, <1>6, <1>7 DEF table


\* Every binary kind, of two.
LEMMA TwoInputs ==
    ASSUME NEW A \in SUBSET Assignments, NEW B \in SUBSET Assignments
    PROVE  /\ Computes("OR", {A, B}) = A \cup B
           /\ Computes("AND", {A, B}) = A \cap B
           /\ Computes("NAND", {A, B}) = Assignments \ (A \cap B)
           /\ Computes("XOR", {A, B}) = (A \ B) \cup (B \ A)
<1>1. Computes("OR", {A, B}) = A \cup B
  BY DEF Computes
<1>2. Computes("AND", {A, B}) = A \cap B
  BY DEF Computes
<1>3. Computes("NAND", {A, B}) = Assignments \ (A \cap B)
  BY DEF Computes
<1>4. Computes("XOR", {A, B}) = (A \ B) \cup (B \ A)
  BY DEF Computes
<1> QED
  BY <1>1, <1>2, <1>3, <1>4

\* AND is the complement of NAND.
LEMMA NandIsNotAnd ==
    ASSUME NEW tables
    PROVE  Computes("NAND", tables) = Assignments \ Computes("AND", tables)
  BY DEF Computes

NandsOf(W, R, S) == {Computes("NAND", TablesOf(W, R)), Computes("NAND", TablesOf(W, S))}

Both(R, S) == {R, S}

\* Two NANDs without an output of their own.
LEMMA AddNandsIsSound ==
    ASSUME NEW V, NewNetNames(V), NEW W, NEW st, NandTables(V, W, st),
           NEW R, NEW S, R \subseteq DOMAIN W, S \subseteq DOMAIN W,
           NEW r, r = AddNands(st, Both(R, S))
    PROVE  \E W2 : /\ NandTables(V, W2, r.st) /\ Extends(W2, W)
                   /\ r.nets \subseteq DOMAIN W2
                   /\ TablesOf(W2, r.nets) = NandsOf(W, R, S)
<1> DEFINE family == Both(R, S)
           first == The(family)
           rest  == family \ {first}
           one   == AddNand(st, first, Unnamed)
           two   == AddNand(one.st, The(rest), Unnamed)
<1>0. family = {R, S}
  BY DEF Both
<1>1. first \in family
  BY <1>0 DEF The
<1>2. r = IF rest = {} THEN [st |-> one.st, nets |-> {one.net}]
                       ELSE [st |-> two.st, nets |-> {one.net, two.net}]
  BY DEF AddNands
<1> HIDE DEF family
<1>3. first \subseteq DOMAIN W
  BY <1>0, <1>1
<1>4. PICK W1 : /\ NandTables(V, W1, one.st) /\ Extends(W1, W)
                /\ one.net \in DOMAIN W1
                /\ W1[one.net] = Computes("NAND", TablesOf(W, first))
  <2> HIDE DEF first
  <2> QED
    BY <1>3, AddNandIsSound
<1> HIDE DEF one
<1>5. CASE rest = {}
  <2>1. R = first /\ S = first
    BY <1>0, <1>5
  <2>2. r.st = one.st /\ r.nets = {one.net}
    BY <1>2, <1>5
  <2>3. TablesOf(W1, {one.net}) = {W1[one.net]}
    BY DEF TablesOf
  <2> HIDE DEF first, rest
  <2> QED
    BY <1>4, <2>1, <2>2, <2>3 DEF NandsOf
<1>6. CASE rest # {}
  <2> DEFINE second == The(rest)
  <2>1. second \in rest
    BY <1>6 DEF The
  <2>2. {R, S} = {first, second} /\ second \subseteq DOMAIN W
    BY <1>0, <1>1, <2>1
  <2>3. second \subseteq DOMAIN W1
    BY <1>4, <2>2 DEF Extends
  <2> HIDE DEF second, first, rest
  <2>4. PICK W2 : /\ NandTables(V, W2, AddNand(one.st, second, Unnamed).st)
                  /\ Extends(W2, W1)
                  /\ AddNand(one.st, second, Unnamed).net \in DOMAIN W2
                  /\ W2[AddNand(one.st, second, Unnamed).net] =
                        Computes("NAND", TablesOf(W1, second))
    BY <1>4, <2>3, AddNandIsSound
  <2>5. two = AddNand(one.st, second, Unnamed)
    BY DEF second
  <2> HIDE DEF two
  <2>6. r.st = two.st /\ r.nets = {one.net, two.net}
    BY <1>2, <1>6
  <2>7. TablesOf(W1, second) = TablesOf(W, second)
    BY <1>4, <2>2, ExtendedTables
  <2>8. /\ Extends(W2, W) /\ one.net \in DOMAIN W2 /\ two.net \in DOMAIN W2
        /\ W2[one.net] = Computes("NAND", TablesOf(W, first))
        /\ W2[two.net] = Computes("NAND", TablesOf(W, second))
    BY <1>4, <2>4, <2>5, <2>7 DEF Extends
  <2>9. TablesOf(W2, {one.net, two.net}) = {W2[one.net], W2[two.net]}
    BY DEF TablesOf
  <2>10. {Computes("NAND", TablesOf(W, R)), Computes("NAND", TablesOf(W, S))} =
         {Computes("NAND", TablesOf(W, first)), Computes("NAND", TablesOf(W, second))}
    BY <2>2
  <2> QED
    BY <2>4, <2>5, <2>6, <2>8, <2>9, <2>10 DEF NandsOf
<1> QED
  BY <1>5, <1>6

(***************************************************************************)
(* ToNandOnly, of a netlist that V holds for.                              *)
(***************************************************************************)
Meaning(V, gates) ==
    /\ IsSeq(gates) /\ UniqueDrivers(gates) /\ WellFormed(gates)
    /\ Valuation(V)
    /\ \A g \in ToSet(gates) : Holds(V, g)

\* What an OR reads for a signal: the signal, or what the AND that is merged
\* into the OR reads.
ReadFor(gates, s) ==
    IF s \in FusedAndOutputs(gates)
      THEN The({h \in ToSet(gates) : h.output = s}).inputs
      ELSE {s}

\* What an OR reads in place of a signal, merged or not, has the complement of the
\* signal as its NAND.
LEMMA ReadForIsComplement ==
    ASSUME NEW V, NEW gates, Meaning(V, gates), NEW s \in DOMAIN V
    PROVE  /\ ReadFor(gates, s) \subseteq DOMAIN V
           /\ Computes("NAND", TablesOf(V, ReadFor(gates, s))) = Assignments \ V[s]
<1>0. V[s] \in SUBSET Assignments
  BY DEF Meaning, Valuation
<1>1. CASE s \in FusedAndOutputs(gates)
  <2>1. PICK g \in ToSet(gates) : g.kind = "AND" /\ g.output = s
    BY <1>1 DEF FusedAndOutputs
  <2>2. {h \in ToSet(gates) : h.output = s} = {g}
    BY <2>1 DEF Meaning, UniqueDrivers
  <2>3. ReadFor(gates, s) = g.inputs
    BY <1>1, <2>2, TheOnly DEF ReadFor
  <2>4. g.inputs \subseteq DOMAIN V /\ V[s] = Computes("AND", TablesOf(V, g.inputs))
    BY <2>1 DEF Meaning, Holds
  <2> QED
    BY <2>3, <2>4, NandIsNotAnd
<1>2. CASE s \notin FusedAndOutputs(gates)
  <2>1. ReadFor(gates, s) = {s} /\ TablesOf(V, {s}) = {V[s]}
    BY <1>2 DEF ReadFor, TablesOf
  <2> QED
    BY <1>0, <2>1, OneInput
<1> QED
  BY <1>1, <1>2

Halves(gates, st, g) ==
    LET shared == AddNand(st, g.inputs, Unnamed)
    IN CASE g.kind = "OR"  -> AddNands(st, {ReadFor(gates, s) : s \in g.inputs})
         [] g.kind = "XOR" -> AddNands(shared.st, {{s, shared.net} : s \in g.inputs})
         [] g.kind = "AND" -> [st |-> shared.st, nets |-> {shared.net}]
         [] OTHER -> [st |-> st, nets |-> g.inputs]

\* MapGate by the nets its last NAND reads.
LEMMA MapGateIs ==
    ASSUME NEW gates, NEW st, NEW g
    PROVE  MapGate(gates, st, g) =
             IF g.kind = "AND" /\ g.output \in FusedAndOutputs(gates) THEN st
             ELSE IF g.kind = "BUFFER"
               THEN Alias(st, g.output, Resolve(st, The(g.inputs)))
             ELSE AddNand(Halves(gates, st, g).st, Halves(gates, st, g).nets, g.output).st
  BY DEF MapGate, Halves, ReadFor

\* The nets that a gate's final NAND reads give it the table of the gate.
LEMMA HalvesAreSound ==
    ASSUME NEW V, NEW gates, Meaning(V, gates), NewNetNames(V),
           NEW W, NEW st, NandTables(V, W, st),
           NEW g \in ToSet(gates), g.kind # "BUFFER"
    PROVE  \E W2 : /\ NandTables(V, W2, Halves(gates, st, g).st)
                   /\ Halves(gates, st, g).nets \subseteq DOMAIN W2
                   /\ Computes("NAND", TablesOf(W2, Halves(gates, st, g).nets)) = V[g.output]
<1> DEFINE r == Halves(gates, st, g)
           shared == AddNand(st, g.inputs, Unnamed)
<1>1. PICK s \in g.inputs, t \in g.inputs : g.inputs = {s, t}
  BY DEF Meaning, WellFormed
<1> DEFINE A == V[s]
           B == V[t]
<1>2. s \in DOMAIN V /\ t \in DOMAIN V /\ A \in SUBSET Assignments /\ B \in SUBSET Assignments
  BY <1>1 DEF Meaning, Holds, Valuation
<1>3. /\ g.inputs \subseteq DOMAIN W /\ W[s] = A /\ W[t] = B
      /\ Extends(W, V)
  BY <1>1, <1>2 DEF NandTables, Extends
<1>4. TablesOf(W, g.inputs) = {A, B} /\ TablesOf(V, g.inputs) = {A, B}
  BY <1>1, <1>3 DEF TablesOf
<1>5. V[g.output] = Computes(g.kind, {A, B})
  BY <1>4 DEF Meaning, Holds
<1> HIDE DEF A, B
<1>6. CASE g.kind = "OR"
  <2> DEFINE R == ReadFor(gates, s)
             S == ReadFor(gates, t)
  <2>1. r = AddNands(st, Both(R, S))
    <3>1. {ReadFor(gates, x) : x \in g.inputs} = Both(R, S)
      BY <1>1 DEF Both
    <3> QED
      BY <1>6, <3>1 DEF Halves
  <2>2. /\ R \subseteq DOMAIN V /\ Computes("NAND", TablesOf(V, R)) = Assignments \ A
        /\ S \subseteq DOMAIN V /\ Computes("NAND", TablesOf(V, S)) = Assignments \ B
    BY <1>2, ReadForIsComplement DEF A, B
  <2> HIDE DEF R, S
  <2>3. TablesOf(W, R) = TablesOf(V, R) /\ TablesOf(W, S) = TablesOf(V, S)
    BY <1>3, <2>2, ExtendedTables
  <2>4. R \subseteq DOMAIN W /\ S \subseteq DOMAIN W
    BY <1>3, <2>2 DEF Extends
  <2>5. PICK W2 : /\ NandTables(V, W2, r.st)
                  /\ r.nets \subseteq DOMAIN W2
                  /\ TablesOf(W2, r.nets) = NandsOf(W, R, S)
    <3> HIDE DEF r
    <3>1. \E W2 : /\ NandTables(V, W2, AddNands(st, Both(R, S)).st) /\ Extends(W2, W)
                  /\ AddNands(st, Both(R, S)).nets \subseteq DOMAIN W2
                  /\ TablesOf(W2, AddNands(st, Both(R, S)).nets) = NandsOf(W, R, S)
      BY <2>4, AddNandsIsSound
    <3> QED
      BY <2>1, <3>1
  <2>6. TablesOf(W2, r.nets) = {Assignments \ A, Assignments \ B}
    BY <2>2, <2>3, <2>5 DEF NandsOf
  <2>7. Computes("NAND", {Assignments \ A, Assignments \ B}) = A \cup B
    <3>1. Computes("NAND", {Assignments \ A, Assignments \ B}) =
            Assignments \ ((Assignments \ A) \cap (Assignments \ B))
      BY TwoInputs
    <3> QED
      BY <1>2, <3>1
  <2>8. V[g.output] = A \cup B
    <3>1. Computes("OR", {A, B}) = A \cup B
      BY <1>2, TwoInputs
    <3> QED
      BY <1>5, <1>6, <3>1
  <2> HIDE DEF r
  <2>9. Computes("NAND", TablesOf(W2, r.nets)) = V[g.output]
    BY <2>6, <2>7, <2>8
  <2> QED
    BY <2>5, <2>9 DEF r
<1>7. CASE g.kind \in {"XOR", "AND"}
  <2> DEFINE n == Assignments \ (A \cap B)
  <2>1. Computes("NAND", {A, B}) = n
    BY <1>2, TwoInputs
  <2>2. PICK W1 : /\ NandTables(V, W1, shared.st) /\ Extends(W1, W)
                  /\ shared.net \in DOMAIN W1
                  /\ W1[shared.net] = Computes("NAND", TablesOf(W, g.inputs))
    BY <1>3, AddNandIsSound
  <2>3. W1[shared.net] = n
    BY <1>4, <2>1, <2>2
  <2> HIDE DEF shared
  <2>4. CASE g.kind = "AND"
    <3>1. r.st = shared.st /\ r.nets = {shared.net}
      BY <2>4 DEF Halves, shared
    <3>2. TablesOf(W1, {shared.net}) = {n}
      BY <2>3 DEF TablesOf
    <3>3. Computes("NAND", {n}) = Assignments \ n
      BY OneInput
    <3>4. V[g.output] = Assignments \ n
      <4>1. V[g.output] = A \cap B
        <5>1. Computes("AND", {A, B}) = A \cap B
          BY <1>2, TwoInputs
        <5> QED
          BY <1>5, <2>4, <5>1
      <4> QED
        BY <1>2, <4>1
    <3> HIDE DEF r, n
    <3>5. Computes("NAND", TablesOf(W1, r.nets)) = V[g.output]
      BY <3>1, <3>2, <3>3, <3>4
    <3> QED
      BY <2>2, <3>1, <3>5 DEF r
  <2>5. CASE g.kind = "XOR"
    <3> DEFINE R == {s, shared.net}
               S == {t, shared.net}
      <3>1. r = AddNands(shared.st, Both(R, S))
      <4>1. {{x, shared.net} : x \in g.inputs} = Both(R, S)
        BY <1>1 DEF Both
      <4> QED
        BY <2>5, <4>1 DEF Halves, shared
    <3>2. W1[s] = A /\ W1[t] = B /\ s \in DOMAIN W1 /\ t \in DOMAIN W1
      BY <1>1, <1>3, <2>2 DEF Extends
    <3>3. /\ R \subseteq DOMAIN W1 /\ S \subseteq DOMAIN W1
          /\ TablesOf(W1, R) = {A, n} /\ TablesOf(W1, S) = {B, n}
      BY <2>2, <2>3, <3>2 DEF TablesOf
    <3> HIDE DEF R, S
    <3>4. PICK W2 : /\ NandTables(V, W2, r.st)
                    /\ r.nets \subseteq DOMAIN W2
                    /\ TablesOf(W2, r.nets) = NandsOf(W1, R, S)
      <4> HIDE DEF r
      <4>1. \E W2 : /\ NandTables(V, W2, AddNands(shared.st, Both(R, S)).st) /\ Extends(W2, W1)
                    /\ AddNands(shared.st, Both(R, S)).nets \subseteq DOMAIN W2
                    /\ TablesOf(W2, AddNands(shared.st, Both(R, S)).nets) = NandsOf(W1, R, S)
        BY <2>2, <3>3, AddNandsIsSound
      <4> QED
        BY <3>1, <4>1
    <3>5. /\ Computes("NAND", {A, n}) = Assignments \ (A \cap n)
          /\ Computes("NAND", {B, n}) = Assignments \ (B \cap n)
      BY <1>2, TwoInputs
    <3> DEFINE P == Assignments \ (A \cap n)
               Q == Assignments \ (B \cap n)
    <3>6. Computes("NAND", {P, Q}) = Assignments \ (P \cap Q)
      <4> HIDE DEF n
      <4>1. P \in SUBSET Assignments /\ Q \in SUBSET Assignments
        OBVIOUS
      <4> HIDE DEF P, Q
      <4> QED
        BY <4>1, TwoInputs
    <3>7. V[g.output] = Assignments \ (P \cap Q)
      <4>1. V[g.output] = (A \ B) \cup (B \ A)
        <5>1. Computes("XOR", {A, B}) = (A \ B) \cup (B \ A)
          BY <1>2, TwoInputs
        <5> QED
          BY <1>5, <2>5, <5>1
      <4> QED
        BY <1>2, <4>1
    <3>8. TablesOf(W2, r.nets) = {P, Q}
      BY <3>3, <3>4, <3>5 DEF NandsOf
    <3> HIDE DEF r, n, P, Q
    <3>9. Computes("NAND", TablesOf(W2, r.nets)) = V[g.output]
      BY <3>6, <3>7, <3>8
    <3> QED
      BY <3>4, <3>9 DEF r
  <2> QED
    BY <1>7, <2>4, <2>5
<1>8. CASE g.kind \in {"NOT", "NAND"}
  <2>1. r.st = st /\ r.nets = g.inputs
    BY <1>8 DEF Halves
  <2>2. Computes("NAND", {A, B}) = V[g.output]
    <3>1. CASE g.kind = "NAND"
      BY <1>5, <3>1
    <3>2. CASE g.kind = "NOT"
      <4>1. {A, B} = {A}
        <5>1. IsSingle(g.inputs)
          BY <3>2 DEF Meaning, WellFormed
        <5> QED
          BY <1>1, <5>1 DEF IsSingle, A, B
      <4> QED
        <5>1. Computes("NOT", {A}) = Assignments \ A /\ Computes("NAND", {A}) = Assignments \ A
          BY <1>2, OneInput
        <5> QED
          BY <1>5, <3>2, <4>1, <5>1
    <3> QED
      BY <1>8, <3>1, <3>2
  <2> HIDE DEF r
  <2>3. Computes("NAND", TablesOf(W, r.nets)) = V[g.output]
    BY <1>4, <2>1, <2>2
  <2> QED
    BY <1>3, <2>1, <2>3 DEF r
<1>9. g.kind \in Kinds
  BY DEF Meaning, WellFormed
<1> QED
  BY <1>6, <1>7, <1>8, <1>9 DEF Kinds

\* One gate of the source mapped: the tables stay sound.
LEMMA MapGateIsSound ==
    ASSUME NEW V, NEW gates, Meaning(V, gates), NewNetNames(V),
           NEW st, \E W : NandTables(V, W, st), NEW g \in ToSet(gates)
    PROVE  \E W : NandTables(V, W, MapGate(gates, st, g))
<1>1. PICK W : NandTables(V, W, st)
  OBVIOUS
<1>2. CASE g.kind = "AND" /\ g.output \in FusedAndOutputs(gates)
  BY <1>1, <1>2, MapGateIs
<1>3. CASE g.kind = "BUFFER"
  <2> DEFINE x == The(g.inputs)
             y == Resolve(st, x)
  <2>1. MapGate(gates, st, g) = Alias(st, g.output, y)
    BY <1>3, MapGateIs
  <2>2. g.inputs = {x}
    BY <1>3, SingleIs DEF Meaning, WellFormed
  <2> HIDE DEF x
  <2>3. /\ x \in DOMAIN V /\ V[x] \in SUBSET Assignments /\ g.output \in DOMAIN V
        /\ V[g.output] = V[x]
    <3>1. x \in DOMAIN V /\ V[x] \in SUBSET Assignments
      BY <2>2 DEF Meaning, Holds, Valuation
    <3>2. TablesOf(V, g.inputs) = {V[x]}
      BY <2>2 DEF TablesOf
    <3> QED
      BY <1>3, <3>1, <3>2, OneInput DEF Meaning, Holds
  <2>4. x \in DOMAIN W /\ g.output \in DOMAIN W /\ W[g.output] = W[x]
    BY <1>1, <2>3 DEF NandTables, Extends
  <2>5. y \in DOMAIN W /\ W[y] = W[x]
    BY <1>1, <2>4, ResolveSound DEF NandTables
  <2> HIDE DEF y
  <2>6. Sound(W, Alias(st, g.output, y))
    BY <1>1, <2>4, <2>5, SoundAlias DEF NandTables
  <2>7. Alias(st, g.output, y).gates = st.gates
    BY <1>1, AliasFields DEF NandTables, Sound
  <2>8. NandTables(V, W, Alias(st, g.output, y))
    BY <1>1, <2>6, <2>7 DEF NandTables
  <2> QED
    BY <2>1, <2>8
<1>4. CASE ~(g.kind = "AND" /\ g.output \in FusedAndOutputs(gates)) /\ g.kind # "BUFFER"
  <2> DEFINE half == Halves(gates, st, g)
  <2>1. PICK W1 : /\ NandTables(V, W1, half.st) /\ half.nets \subseteq DOMAIN W1
                  /\ Computes("NAND", TablesOf(W1, half.nets)) = V[g.output]
    BY <1>1, <1>4, HalvesAreSound
  <2>2. MapGate(gates, st, g) = AddNand(half.st, half.nets, g.output).st
    BY <1>4, MapGateIs
  <2>3. g.output \in DOMAIN V
    BY DEF Meaning, Holds
  <2> HIDE DEF half
  <2>4. \E W2 : NandTables(V, W2, AddNand(half.st, half.nets, g.output).st)
    BY <2>1, <2>3, AddNandIsSound
  <2> QED
    BY <2>2, <2>4
<1> QED
  BY <1>2, <1>3, <1>4

LEMMA NothingIsNand ==
    ASSUME NEW V, Valuation(V) PROVE NandTables(V, V, NothingEmitted)
  BY NothingFields, NothingSound, NoElements DEF NandTables, Extends

\* All of them mapped, in whatever order they come.
LEMMA NandsAreSound ==
    ASSUME NEW V, NEW gates, Meaning(V, gates), NewNetNames(V)
    PROVE  \E W : NandTables(V, W, Mapped(gates))
<1> DEFINE end == Mapped(gates)
<1>1. Len(gates) \in Nat
  BY SeqElements DEF Meaning
<1>2. PICK f : /\ f[0] = NothingEmitted
               /\ \A n \in 1 .. Len(gates) : f[n] = MapGate(gates, f[n - 1], gates[n])
               /\ end = f[Len(gates)]
  BY <1>1, MapRun
<1> HIDE DEF end
<1> DEFINE Good == {n \in 0 .. Len(gates) : \E W : NandTables(V, W, f[n])}
<1>3. 0 \in Good
  BY <1>1, <1>2, NothingIsNand DEF Meaning
<1>4. ASSUME NEW n \in 1 .. Len(gates), n - 1 \in Good PROVE n \in Good
  <2>1. \E W : NandTables(V, W, f[n - 1])
    BY <1>4
  <2>2. gates[n] \in ToSet(gates)
    BY SeqElements DEF Meaning
  <2>3. \E W : NandTables(V, W, f[n])
    BY <1>2, <2>1, <2>2, MapGateIsSound
  <2> QED
    BY <1>1, <2>3
<1>5. \A n \in 0 .. Len(gates) : n \in Good
  <2> HIDE DEF Good
  <2> QED
    BY <1>1, <1>3, <1>4, Reaches
<1>6. \E W : NandTables(V, W, end)
  BY <1>1, <1>2, <1>5
<1> QED
  BY <1>6 DEF end

\* ToNandOnly (NandTransform.py): whatever the order of the gates, every
\* lamp of the NAND module that has a value shows what the netlist computes
\* for its output.
THEOREM NandModuleIsSound ==
    ASSUME NEW V, NEW netlist, Meaning(V, netlist.gates), NewNetNames(V),
           NEW o \in netlist.outputs, o \in DOMAIN V,
           NEW nand, nand = ToNandOnly(netlist),
           NEW made, made = EvaluateLogicModule(nand.gates),
           nand.lamps[o] \in DOMAIN made
    PROVE  made[nand.lamps[o]] = V[o]
<1> DEFINE st == Mapped(netlist.gates)
<1>1. nand.gates = st.gates /\ nand.lamps[o] = Resolve(st, o)
  BY DEF ToNandOnly, Mapped
<1>2. PICK W : NandTables(V, W, st)
  BY NandsAreSound
<1> HIDE DEF st
<1>3. o \in DOMAIN W /\ W[o] = V[o]
  BY <1>2 DEF NandTables, Extends
<1>4. W[Resolve(st, o)] = V[o]
  BY <1>2, <1>3, ResolveSound DEF NandTables
<1>5. /\ Valuation(W) /\ IsSeq(st.gates)
      /\ \A g \in ToSet(st.gates) : Holds(W, g)
  BY <1>2 DEF NandTables, Sound, Shape
<1>6. \A s \in DOMAIN EvaluateLogicModule(st.gates) : EvaluateLogicModule(st.gates)[s] = W[s]
  BY <1>5, EvaluationIsSound
<1> QED
  BY <1>1, <1>4, <1>6

(***************************************************************************)
(* The order of the gates.  The tables of a pass are tidy if the gates are *)
(* in order and every name stands for a signal that has been driven.       *)
(***************************************************************************)
Known(st) == Inputs \cup Outputs(st.gates)
Named(st) == Known(st) \cup DOMAIN st.aliases

Tidy(st) ==
    /\ Shape(st) /\ InDependencyOrder(st.gates)
    /\ \A s \in DOMAIN st.aliases : st.aliases[s] \in Known(st)
    /\ \A s \in DOMAIN st.inversions : st.inversions[s] \in Known(st)

\* In tidy tables what stands for a signal with a name is driven.
LEMMA ResolveTidy ==
    ASSUME NEW st, Tidy(st), NEW s \in Named(st)
    PROVE  Resolve(st, s) \in Known(st)
  BY DEF Tidy, Named, Resolve

LEMMA OutputsGrow ==
    ASSUME NEW gates, IsSeq(gates), NEW g
    PROVE  Outputs(Append(gates, g)) = Outputs(gates) \cup {g.output}
<1>1. IsSeq(Append(gates, g)) /\ ToSet(Append(gates, g)) = ToSet(gates) \cup {g}
  BY AppendElements
<1>2. Outputs(Append(gates, g)) = {h.output : h \in ToSet(Append(gates, g))}
  BY <1>1, OutputsAre
<1>3. Outputs(gates) = {h.output : h \in ToSet(gates)}
  BY OutputsAre
<1> QED
  BY <1>1, <1>2, <1>3

\* A gate over signals that are driven keeps the order.
LEMMA OrderedAppend ==
    ASSUME NEW gates, IsSeq(gates), InDependencyOrder(gates),
           NEW g, g.inputs \subseteq Inputs \cup Outputs(gates)
    PROVE  InDependencyOrder(Append(gates, g))
<1> DEFINE a == Append(gates, g)
<1>1. Len(gates) \in Nat /\ DOMAIN gates = 1 .. Len(gates)
  BY SeqElements
<1>2. DOMAIN a = 1 .. Len(gates) + 1 /\ a[Len(gates) + 1] = g
  BY AppendElements, SeqElements
<1>3. \A i \in 1 .. Len(gates) : a[i] = gates[i]
  BY AppendElements
<1> HIDE DEF a
<1>4. ASSUME NEW i \in DOMAIN a
      PROVE  a[i].inputs \subseteq Inputs \cup {a[j].output : j \in 1 .. i - 1}
  <2>1. CASE i \in 1 .. Len(gates)
    <3>1. \A j \in 1 .. i - 1 : a[j] = gates[j]
      BY <1>1, <1>3, <2>1
    <3>2. {a[j].output : j \in 1 .. i - 1} = {gates[j].output : j \in 1 .. i - 1}
      BY <3>1
    <3> QED
      BY <1>1, <1>3, <2>1, <3>2 DEF InDependencyOrder
  <2>2. CASE i = Len(gates) + 1
    <3>1. i - 1 = Len(gates)
      BY <1>1, <2>2
    <3>2. {a[j].output : j \in 1 .. i - 1} = Outputs(gates)
      BY <1>1, <1>3, <3>1 DEF Outputs
    <3> QED
      BY <1>2, <2>2, <3>2
  <2> QED
    BY <1>1, <1>2, <2>1, <2>2
<1>5. InDependencyOrder(a)
  BY <1>4 DEF InDependencyOrder
<1> QED
  BY <1>5 DEF a

\* Tables stay tidy under an alias for a driven signal, a gate over driven signals, and
\* an inversion between driven ones.
LEMMA TidyAlias ==
    ASSUME NEW st, Tidy(st), NEW name, NEW target \in Known(st)
    PROVE  /\ Tidy(Alias(st, name, target))
           /\ Known(Alias(st, name, target)) = Known(st)
           /\ Named(Alias(st, name, target)) = Named(st) \cup {name}
<1> DEFINE new == Alias(st, name, target)
<1>1. /\ Shape(new) /\ new.gates = st.gates /\ new.inversions = st.inversions
      /\ new.aliases = Renamed(st.aliases, name, target)
  BY AliasFields DEF Tidy
<1> HIDE DEF new
<1>2. Known(new) = Known(st) /\ Named(new) = Named(st) \cup {name}
  BY <1>1 DEF Known, Named, Renamed
<1>3. Tidy(new)
  BY <1>1, <1>2 DEF Tidy, Renamed
<1> QED
  BY <1>2, <1>3 DEF new

LEMMA TidyEmit ==
    ASSUME NEW st, Tidy(st), NEW g, g.inputs \subseteq Known(st)
    PROVE  /\ Tidy(Emit(st, g))
           /\ Known(Emit(st, g)) = Known(st) \cup {g.output}
           /\ Named(Emit(st, g)) = Named(st) \cup {g.output}
<1> DEFINE new == Emit(st, g)
<1>1. /\ Shape(new) /\ new.gates = Append(st.gates, g)
      /\ new.inversions = st.inversions /\ new.aliases = st.aliases
  BY EmitFields DEF Tidy
<1>2. IsSeq(st.gates) /\ InDependencyOrder(st.gates)
  BY DEF Tidy, Shape
<1>3. Outputs(Append(st.gates, g)) = Outputs(st.gates) \cup {g.output}
  BY <1>2, OutputsGrow
<1>4. InDependencyOrder(Append(st.gates, g))
  BY <1>2, OrderedAppend DEF Known
<1> HIDE DEF new
<1>5. Known(new) = Known(st) \cup {g.output} /\ Named(new) = Named(st) \cup {g.output}
  BY <1>1, <1>3 DEF Known, Named
<1>6. Tidy(new)
  BY <1>1, <1>4, <1>5 DEF Tidy
<1> QED
  BY <1>5, <1>6 DEF new

LEMMA TidyNote ==
    ASSUME NEW st, Tidy(st), NEW s \in Known(st), NEW t \in Known(st)
    PROVE  /\ Tidy(NoteInversion(st, s, t))
           /\ Known(NoteInversion(st, s, t)) = Known(st)
           /\ Named(NoteInversion(st, s, t)) = Named(st)
<1> DEFINE new == NoteInversion(st, s, t)
<1>1. /\ Shape(new) /\ new.gates = st.gates /\ new.aliases = st.aliases
      /\ new.inversions = With(With(st.inversions, t, s), s, t)
  BY NoteFields DEF Tidy
<1> HIDE DEF new
<1>2. Known(new) = Known(st) /\ Named(new) = Named(st)
  BY <1>1 DEF Known, Named
<1>3. \A x \in DOMAIN new.inversions : new.inversions[x] \in Known(st)
  BY <1>1 DEF With, Tidy
<1>4. Tidy(new)
  BY <1>1, <1>2, <1>3 DEF Tidy
<1> QED
  BY <1>2, <1>4 DEF new

LEMMA NothingTidy == Tidy(NothingEmitted) /\ Inputs \subseteq Named(NothingEmitted)
  BY NothingFields, NoElements DEF Tidy, InDependencyOrder, Named, Known

\* And so for a set of them.
LEMMA ResolvedKnown ==
    ASSUME NEW st, Tidy(st), NEW S, S \subseteq Named(st)
    PROVE  ResolveAll(st, S) \subseteq Known(st)
  BY ResolveTidy DEF ResolveAll

LEMMA EmittedKnown ==
    ASSUME NEW st, Tidy(st), NEW g \in ToSet(st.gates)
    PROVE  g.output \in Known(st)
  BY OutputsAre DEF Tidy, Shape, Known

LEMMA KnownNamed ==
    ASSUME NEW st PROVE Known(st) \subseteq Named(st)
  BY DEF Named

\* AddNand and MapGate keep tables tidy, and name what they are asked to.
LEMMA AddedIsTidy ==
    ASSUME NEW st, Tidy(st), NEW inputs, inputs \subseteq Known(st),
           NEW output, NEW net, net = NewNet(inputs, output), NEW new,
           \/ new = Added(st, inputs, output)
           \/ /\ IsSingle(inputs)
              /\ new = NoteInversion(Added(st, inputs, output), The(inputs), net)
    PROVE  /\ Tidy(new) /\ Known(new) = Known(st) \cup {net}
           /\ Named(new) = Named(st) \cup {net}
<1> DEFINE g == Gate("NAND", inputs, net)
           added == Emit(st, g)
<1>1. g.kind = "NAND" /\ g.inputs = inputs /\ g.output = net
  BY NandGateFields
<1>2. Added(st, inputs, output) = added
  BY DEF Added
<1> HIDE DEF g
<1>3. /\ Tidy(added) /\ Known(added) = Known(st) \cup {g.output}
      /\ Named(added) = Named(st) \cup {g.output}
  <2>1. g.inputs \subseteq Known(st)
    BY <1>1
  <2> QED
    BY <2>1, TidyEmit
<1> HIDE DEF added
<1>4. CASE new = added
  BY <1>1, <1>3, <1>4
<1>5. CASE IsSingle(inputs) /\ new = NoteInversion(added, The(inputs), net)
  <2>1. The(inputs) \in inputs
    BY <1>5, SingleIs
  <2>2. The(inputs) \in Known(added) /\ net \in Known(added)
    BY <1>1, <1>3, <2>1
  <2> DEFINE i == The(inputs)
  <2> HIDE DEF i
  <2>3. /\ Tidy(NoteInversion(added, i, net))
        /\ Known(NoteInversion(added, i, net)) = Known(added)
        /\ Named(NoteInversion(added, i, net)) = Named(added)
    BY <1>3, <2>2, TidyNote DEF i
  <2>4. new = NoteInversion(added, i, net)
    BY <1>5 DEF i
  <2> QED
    BY <1>1, <1>3, <2>3, <2>4
<1> QED
  BY <1>2, <1>4, <1>5

LEMMA FoundIsKnown ==
    ASSUME NEW st, Tidy(st), NEW inputs, NEW net, IsFound(st, inputs, net)
    PROVE  net \in Known(st)
<1>1. CASE /\ IsSingle(inputs) /\ The(inputs) \in DOMAIN st.inversions
           /\ net = Resolve(st, st.inversions[The(inputs)])
  <2>1. st.inversions[The(inputs)] \in Named(st)
    BY <1>1, KnownNamed DEF Tidy
  <2> QED
    BY <1>1, <2>1, ResolveTidy
<1>2. CASE \E g \in Same(st.gates, "NAND", inputs) : net = Resolve(st, g.output)
  <2>1. PICK g \in Same(st.gates, "NAND", inputs) : net = Resolve(st, g.output)
    BY <1>2
  <2>2. g.output \in Named(st)
    BY <2>1, EmittedKnown, KnownNamed DEF Same
  <2> QED
    BY <2>1, <2>2, ResolveTidy
<1> QED
  BY <1>1, <1>2 DEF IsFound

LEMMA AddNandIsTidy ==
    ASSUME NEW st, Tidy(st), NEW signals, signals \subseteq Named(st), NEW output,
           NEW r, r = AddNand(st, signals, output)
    PROVE  /\ Tidy(r.st) /\ Named(st) \subseteq Named(r.st)
           /\ r.net \in Named(r.st)
           /\ output # Unnamed => output \in Named(r.st)
<1> DEFINE inputs == ResolveAll(st, signals)
<1>1. inputs \subseteq Known(st)
  BY ResolvedKnown
<1>2. \/ IsFound(st, inputs, r.net) /\ r.st = Answered(st, output, r.net)
      \/ /\ r.net = NewNet(inputs, output)
         /\ \/ r.st = Added(st, inputs, output)
            \/ /\ IsSingle(inputs)
               /\ r.st = NoteInversion(Added(st, inputs, output), The(inputs), r.net)
  BY AddNandCases
<1> HIDE DEF inputs
<1>3. CASE IsFound(st, inputs, r.net) /\ r.st = Answered(st, output, r.net)
  <2>1. r.net \in Known(st)
    BY <1>3, FoundIsKnown
  <2>2. CASE output = Unnamed
    BY <1>3, <2>1, <2>2, KnownNamed DEF Answered
  <2>3. CASE output # Unnamed
    <3> DEFINE net == r.net
    <3>1. r.st = Alias(st, output, net)
      BY <1>3, <2>3 DEF Answered
    <3> HIDE DEF net
    <3>2. /\ Tidy(Alias(st, output, net)) /\ Known(Alias(st, output, net)) = Known(st)
          /\ Named(Alias(st, output, net)) = Named(st) \cup {output}
      BY <2>1, TidyAlias DEF net
    <3> QED
      BY <2>1, <3>1, <3>2, KnownNamed
  <2> QED
    BY <2>2, <2>3
<1>4. CASE /\ r.net = NewNet(inputs, output)
           /\ \/ r.st = Added(st, inputs, output)
              \/ /\ IsSingle(inputs)
                 /\ r.st = NoteInversion(Added(st, inputs, output), The(inputs), r.net)
  <2>1. /\ Tidy(r.st) /\ Named(r.st) = Named(st) \cup {r.net}
    BY <1>1, <1>4, AddedIsTidy
  <2>2. output # Unnamed => r.net = output
    BY <1>4 DEF NewNet
  <2> QED
    BY <2>1, <2>2
<1> QED
  BY <1>2, <1>3, <1>4

LEMMA AddNandsIsTidy ==
    ASSUME NEW st, Tidy(st), NEW family, family # {},
           \A S \in family : S \subseteq Named(st),
           NEW r, r = AddNands(st, family)
    PROVE  /\ Tidy(r.st) /\ Named(st) \subseteq Named(r.st) /\ r.nets \subseteq Named(r.st)
<1> DEFINE first == The(family)
           rest  == family \ {first}
           one   == AddNand(st, first, Unnamed)
           two   == AddNand(one.st, The(rest), Unnamed)
<1>1. first \in family
  BY DEF The
<1>2. r = IF rest = {} THEN [st |-> one.st, nets |-> {one.net}]
                       ELSE [st |-> two.st, nets |-> {one.net, two.net}]
  BY DEF AddNands
<1>3. first \subseteq Named(st)
  BY <1>1
<1>4. Tidy(one.st) /\ Named(st) \subseteq Named(one.st) /\ one.net \in Named(one.st)
  <2> HIDE DEF first
  <2> QED
    BY <1>3, AddNandIsTidy
<1> HIDE DEF one
<1>5. CASE rest = {}
  BY <1>2, <1>4, <1>5
<1>6. CASE rest # {}
  <2> DEFINE second == The(rest)
  <2>1. second \in rest
    BY <1>6 DEF The
  <2>2. second \subseteq Named(one.st)
    BY <1>4, <2>1
  <2>3. two = AddNand(one.st, second, Unnamed)
    OBVIOUS
  <2> HIDE DEF second, two
  <2>4. Tidy(two.st) /\ Named(one.st) \subseteq Named(two.st) /\ two.net \in Named(two.st)
    BY <1>4, <2>2, <2>3, AddNandIsTidy
  <2> QED
    BY <1>2, <1>4, <1>6, <2>4
<1> QED
  BY <1>5, <1>6

\* MapGate, of a gate whose inputs, and those of the ANDs merged into it,
\* have been seen.
LEMMA MapGateIsTidy ==
    ASSUME NEW gates, NEW st, Tidy(st), NEW g, g.inputs # {},
           g.kind = "BUFFER" => IsSingle(g.inputs),
           ~(g.kind = "AND" /\ g.output \in FusedAndOutputs(gates)), g.output # Unnamed,
           IF g.kind = "OR" THEN \A s \in g.inputs : ReadFor(gates, s) \subseteq Named(st)
                            ELSE g.inputs \subseteq Named(st),
           NEW r, r = MapGate(gates, st, g)
    PROVE  Tidy(r) /\ Named(st) \cup {g.output} \subseteq Named(r)
<1> DEFINE half == Halves(gates, st, g)
           shared == AddNand(st, g.inputs, Unnamed)
<1>1. CASE g.kind = "BUFFER"
  <2> DEFINE y == Resolve(st, The(g.inputs))
  <2>1. r = Alias(st, g.output, y)
    BY <1>1, MapGateIs
  <2>2. The(g.inputs) \in Named(st)
    BY <1>1, SingleIs
  <2>3. y \in Known(st)
    BY <2>2, ResolveTidy
  <2> HIDE DEF y
  <2>4. /\ Tidy(Alias(st, g.output, y))
        /\ Named(Alias(st, g.output, y)) = Named(st) \cup {g.output}
    BY <2>3, TidyAlias
  <2> QED
    BY <2>1, <2>4
<1>2. CASE g.kind # "BUFFER"
  <2>1. r = AddNand(half.st, half.nets, g.output).st
    BY <1>2, MapGateIs
  <2>2. Tidy(half.st) /\ Named(st) \subseteq Named(half.st) /\ half.nets \subseteq Named(half.st)
    <3>1. CASE g.kind = "OR"
      <4> DEFINE family == {ReadFor(gates, s) : s \in g.inputs}
      <4>1. half = AddNands(st, family)
        BY <3>1 DEF Halves
      <4>2. family # {} /\ \A S \in family : S \subseteq Named(st)
        BY <3>1
      <4> HIDE DEF family, half
      <4> QED
        BY <4>1, <4>2, AddNandsIsTidy
    <3>2. CASE g.kind # "OR"
      <4>1. /\ Tidy(shared.st) /\ Named(st) \subseteq Named(shared.st)
            /\ shared.net \in Named(shared.st)
        BY <3>2, AddNandIsTidy
      <4> HIDE DEF shared
      <4>2. CASE g.kind = "XOR"
        <5> DEFINE family == {{s, shared.net} : s \in g.inputs}
        <5>1. half = AddNands(shared.st, family)
          BY <4>2 DEF Halves, shared
        <5>2. family # {} /\ \A S \in family : S \subseteq Named(shared.st)
          BY <3>2, <4>1
        <5> HIDE DEF family, half
        <5>3. /\ Tidy(half.st) /\ Named(shared.st) \subseteq Named(half.st)
              /\ half.nets \subseteq Named(half.st)
          BY <4>1, <5>1, <5>2, AddNandsIsTidy
        <5> QED
          BY <4>1, <5>3
      <4>3. CASE g.kind = "AND"
        <5>1. half.st = shared.st /\ half.nets = {shared.net}
          BY <4>3 DEF Halves, shared
        <5> QED
          BY <4>1, <5>1
      <4>4. CASE g.kind \notin {"OR", "XOR", "AND"}
        <5>1. half = [st |-> st, nets |-> g.inputs]
          BY <4>4, Zenon DEF Halves
        <5> QED
          BY <3>2, <5>1
      <4> QED
        BY <3>2, <4>2, <4>3, <4>4
    <3> QED
      BY <3>1, <3>2
  <2> HIDE DEF half
  <2> DEFINE final == AddNand(half.st, half.nets, g.output)
  <2>3. Tidy(final.st) /\ Named(half.st) \subseteq Named(final.st) /\ g.output \in Named(final.st)
    BY <2>2, AddNandIsTidy
  <2> QED
    BY <2>1, <2>2, <2>3
<1> QED
  BY <1>1, <1>2

\* An AND that is merged is read by an OR only, which reads its inputs instead.
LEMMA FusedIsMerged ==
    ASSUME NEW gates, UniqueDrivers(gates), NEW s \in FusedAndOutputs(gates)
    PROVE  /\ \E h \in ToSet(gates) :
                h.kind = "AND" /\ h.output = s /\ ReadFor(gates, s) = h.inputs
           /\ \A g \in ToSet(gates) : s \in g.inputs => g.kind = "OR"
           /\ \A g \in ToSet(gates) : g.output = s => g.kind = "AND"
<1>1. PICK h \in ToSet(gates) :
        /\ h.kind = "AND" /\ h.output = s
        /\ \E r \in ToSet(gates) :
             /\ r.kind = "OR" /\ \A q \in ToSet(gates) \ {r} : h.output \notin q.inputs
  BY DEF FusedAndOutputs
<1>2. {g \in ToSet(gates) : g.output = s} = {h}
  BY <1>1 DEF UniqueDrivers
<1>3. ReadFor(gates, s) = h.inputs
  BY <1>2, TheOnly DEF ReadFor
<1> QED
  BY <1>1, <1>2, <1>3 DEF UniqueDrivers

\* Every gate reads what an earlier gate drives; an AND that is merged is only
\* read by its OR, which reads in its stead what came before it.
LEMMA ReadersAreSeen ==
    ASSUME NEW gates, IsSeq(gates), UniqueDrivers(gates), WellFormed(gates),
           InDependencyOrder(gates), NEW n \in 1 .. Len(gates), NEW seen, Inputs \subseteq seen,
           \A i \in 1 .. n - 1 : gates[i].output \in seen \cup FusedAndOutputs(gates)
    PROVE  IF gates[n].kind = "OR"
             THEN \A s \in gates[n].inputs : ReadFor(gates, s) \subseteq seen
             ELSE gates[n].inputs \subseteq seen
<1>1. Len(gates) \in Nat /\ DOMAIN gates = 1 .. Len(gates)
  BY SeqElements
<1>2. ASSUME NEW i \in 1 .. n, NEW s \in gates[i].inputs
      PROVE  s \in seen \/ (s \in FusedAndOutputs(gates) /\ \E j \in 1 .. i - 1 : s = gates[j].output)
  <2>1. s \in Inputs \cup {gates[j].output : j \in 1 .. i - 1}
    BY <1>1, <1>2 DEF InDependencyOrder
  <2>2. CASE s \in Inputs
    BY <2>2
  <2>3. ASSUME NEW j \in 1 .. i - 1, s = gates[j].output
        PROVE  s \in seen \cup FusedAndOutputs(gates)
    BY <1>1, <2>3
  <2> QED
    BY <2>1, <2>2, <2>3
<1>3. ASSUME NEW i \in 1 .. n, gates[i].kind # "OR"
      PROVE  gates[i].inputs \subseteq seen
  <2>1. gates[i] \in ToSet(gates)
    BY <1>1, SeqElements
  <2> QED
    BY <1>2, <1>3, <2>1, FusedIsMerged
<1>4. ASSUME gates[n].kind = "OR", NEW s \in gates[n].inputs
      PROVE  ReadFor(gates, s) \subseteq seen
  <2>1. CASE s \notin FusedAndOutputs(gates)
    <3>1. n \in 1 .. n
      BY <1>1
    <3> QED
      BY <1>2, <1>4, <2>1, <3>1 DEF ReadFor
  <2>2. CASE s \in FusedAndOutputs(gates)
    <3>1. PICK h \in ToSet(gates) :
            h.kind = "AND" /\ h.output = s /\ ReadFor(gates, s) = h.inputs
      BY <2>2, FusedIsMerged
    <3>2. n \in 1 .. n /\ s \in Inputs \cup {gates[j].output : j \in 1 .. n - 1}
      BY <1>1, <1>4 DEF InDependencyOrder
    <3>3. PICK j \in 1 .. n - 1 : s = gates[j].output
      BY <3>1, <3>2 DEF WellFormed
    <3>4. j \in 1 .. n /\ gates[j] \in ToSet(gates)
      BY <1>1, <3>3, SeqElements
    <3>5. gates[j] = h
      BY <3>1, <3>3, <3>4 DEF UniqueDrivers
    <3>6. gates[j].inputs \subseteq seen
      BY <1>3, <3>1, <3>4, <3>5
    <3> QED
      BY <3>1, <3>5, <3>6
  <2> QED
    BY <2>1, <2>2
<1>5. n \in 1 .. n
  BY <1>1
<1> QED
  BY <1>3, <1>4, <1>5

\* All gates mapped, in order: every signal but the merged ones has a name.
LEMMA NandsAreTidy ==
    ASSUME NEW gates, IsSeq(gates), UniqueDrivers(gates), WellFormed(gates),
           InDependencyOrder(gates), Unnamed \notin Outputs(gates),
           NEW end, end = Mapped(gates)
    PROVE  /\ Tidy(end)
           /\ (Inputs \cup Outputs(gates)) \ FusedAndOutputs(gates) \subseteq Named(end)
<1> DEFINE fused == FusedAndOutputs(gates)
<1>1. Len(gates) \in Nat /\ DOMAIN gates = 1 .. Len(gates)
  BY SeqElements
<1>2. PICK f : /\ f[0] = NothingEmitted
               /\ \A n \in 1 .. Len(gates) : f[n] = MapGate(gates, f[n - 1], gates[n])
               /\ end = f[Len(gates)]
  <2>1. \E f : /\ f[0] = NothingEmitted
               /\ \A n \in 1 .. Len(gates) : f[n] = MapGate(gates, f[n - 1], gates[n])
               /\ Mapped(gates) = f[Len(gates)]
    BY <1>1, MapRun
  <2> QED
    BY <2>1
<1> HIDE DEF fused
<1> DEFINE Seen(n) == \A i \in 1 .. n : gates[i].output \in Named(f[n]) \cup fused
           Good == {n \in 0 .. Len(gates) : Tidy(f[n]) /\ Inputs \subseteq Named(f[n]) /\ Seen(n)}
<1>3. 0 \in Good
  BY <1>1, <1>2, NothingTidy
<1>4. ASSUME NEW n \in 1 .. Len(gates), n - 1 \in Good PROVE n \in Good
  <2> DEFINE g   == gates[n]
             old == f[n - 1]
  <2>1. Tidy(old) /\ Inputs \subseteq Named(old) /\ Seen(n - 1)
    BY <1>4
  <2>2. g \in ToSet(gates) /\ g.output \in Outputs(gates)
    BY <1>1, SeqElements DEF Outputs
  <2>3. IF g.kind = "OR" THEN \A s \in g.inputs : ReadFor(gates, s) \subseteq Named(old)
                         ELSE g.inputs \subseteq Named(old)
    BY <2>1, ReadersAreSeen DEF fused
  <2>4. g.inputs # {} /\ (g.kind = "BUFFER" => IsSingle(g.inputs)) /\ g.output # Unnamed
    BY <2>2 DEF WellFormed
  <2>5. f[n] = MapGate(gates, old, g)
    BY <1>2
  <2>6. \A i \in 1 .. n : i \in 1 .. n - 1 \/ i = n
    BY <1>1
  <2>7. n \in 0 .. Len(gates)
    BY <1>1
  <2>8. CASE g.kind = "AND" /\ g.output \in FusedAndOutputs(gates)
    <3>1. f[n] = old
      BY <2>5, <2>8, MapGateIs
    <3>2. Seen(n)
      BY <2>1, <2>6, <2>8, <3>1 DEF fused
    <3> QED
      BY <2>1, <2>7, <3>1, <3>2
  <2>9. CASE ~(g.kind = "AND" /\ g.output \in FusedAndOutputs(gates))
    <3>1. Tidy(f[n]) /\ Named(old) \cup {g.output} \subseteq Named(f[n])
      <4> HIDE DEF g, old
      <4> QED
        BY <2>1, <2>3, <2>4, <2>5, <2>9, MapGateIsTidy
    <3>2. Seen(n)
      BY <2>1, <2>6, <3>1
    <3> QED
      BY <2>1, <2>7, <3>1, <3>2
  <2> QED
    BY <2>8, <2>9
<1>5. \A n \in 0 .. Len(gates) : n \in Good
  <2> HIDE DEF Good
  <2> QED
    BY <1>1, <1>3, <1>4, Reaches
<1>6. Tidy(end) /\ Inputs \subseteq Named(end) /\ Seen(Len(gates))
  <2>1. Len(gates) \in Good
    <3> HIDE DEF Good
    <3> QED
      BY <1>1, <1>5
  <2> QED
    BY <1>2, <2>1
<1>7. Outputs(gates) \ fused \subseteq Named(end)
  BY <1>1, <1>2, <1>6 DEF Outputs
<1> QED
  BY <1>6, <1>7 DEF fused

\* ToNandOnly (NandTransform.py), of gates in order: an output has a lamp with
\* a value, unless an AND that drives it was merged into an OR.
THEOREM LampsAreDriven ==
    ASSUME NEW netlist, IsSeq(netlist.gates), UniqueDrivers(netlist.gates),
           WellFormed(netlist.gates), InDependencyOrder(netlist.gates),
           Unnamed \notin Outputs(netlist.gates),
           NEW o \in netlist.outputs, o \in Inputs \cup Outputs(netlist.gates),
           o \notin FusedAndOutputs(netlist.gates),
           NEW nand, nand = ToNandOnly(netlist)
    PROVE  nand.lamps[o] \in DOMAIN EvaluateLogicModule(nand.gates)
<1> DEFINE st == Mapped(netlist.gates)
<1>1. nand.gates = st.gates /\ nand.lamps[o] = Resolve(st, o)
  BY DEF ToNandOnly, Mapped
<1>2. /\ Tidy(st)
      /\ (Inputs \cup Outputs(netlist.gates)) \ FusedAndOutputs(netlist.gates) \subseteq Named(st)
  BY NandsAreTidy
<1> HIDE DEF st
<1>3. Resolve(st, o) \in Known(st)
  BY <1>2, ResolveTidy
<1>4. Inputs \cup Outputs(st.gates) \subseteq DOMAIN EvaluateLogicModule(st.gates)
  BY <1>2, EvaluationIsComplete DEF Tidy, Shape
<1> QED
  BY <1>1, <1>3, <1>4 DEF Known

(***************************************************************************)
(* StructurallySimplifyLogic.                                              *)
(***************************************************************************)
IsFoundAs(st, kind, inputs, net) ==
    \/ IsWire(kind, inputs) /\ net = The(inputs)
    \/ /\ kind = "NOT" /\ The(inputs) \in DOMAIN st.inversions
       /\ net = Resolve(st, st.inversions[The(inputs)])
    \/ \E g \in Same(st.gates, kind, inputs) : net = Resolve(st, g.output)

\* SimplifyGate makes another name for a net that there is, or keeps the gate.
LEMMA SimplifyCases ==
    ASSUME NEW st, NEW g, NEW inputs, inputs = ResolveAll(st, g.inputs),
           NEW kept, kept = Gate(g.kind, inputs, g.output),
           NEW r, r = SimplifyGate(st, g)
    PROVE  \/ \E net : IsFoundAs(st, g.kind, inputs, net) /\ r = Alias(st, g.output, net)
           \/ r = Emit(st, kept)
           \/ g.kind = "NOT" /\ r = NoteInversion(Emit(st, kept), The(inputs), g.output)
<1> DEFINE input   == The(inputs)
           same    == Same(st.gates, g.kind, inputs)
           inverse == Resolve(st, st.inversions[input])
           twin    == Resolve(st, The(same).output)
<1>1. r = IF IsWire(g.kind, inputs) THEN Alias(st, g.output, input)
          ELSE IF g.kind = "NOT" /\ input \in DOMAIN st.inversions
            THEN Alias(st, g.output, inverse)
          ELSE IF same # {} THEN Alias(st, g.output, twin)
          ELSE IF g.kind = "NOT" THEN NoteInversion(Emit(st, kept), input, g.output)
          ELSE Emit(st, kept)
  BY DEF SimplifyGate, ResolveAll
<1>2. same # {} => The(same) \in same
  BY DEF The
<1>3. CASE IsWire(g.kind, inputs)
  BY <1>1, <1>3 DEF IsFoundAs
<1>4. CASE ~IsWire(g.kind, inputs) /\ g.kind = "NOT" /\ input \in DOMAIN st.inversions
  <2>1. r = Alias(st, g.output, inverse)
    BY <1>1, <1>4
  <2>2. IsFoundAs(st, g.kind, inputs, inverse)
    BY <1>4 DEF IsFoundAs
  <2> QED
    BY <2>1, <2>2
<1>5. CASE /\ ~IsWire(g.kind, inputs) /\ ~(g.kind = "NOT" /\ input \in DOMAIN st.inversions)
           /\ same # {}
  <2>1. r = Alias(st, g.output, twin)
    BY <1>1, <1>5
  <2>2. IsFoundAs(st, g.kind, inputs, twin)
    BY <1>2, <1>5 DEF IsFoundAs
  <2> QED
    BY <2>1, <2>2
<1>6. CASE /\ ~IsWire(g.kind, inputs) /\ ~(g.kind = "NOT" /\ input \in DOMAIN st.inversions)
           /\ same = {}
  BY <1>1, <1>6
<1> QED
  BY <1>3, <1>4, <1>5, <1>6

LEMMA KeptFields ==
    ASSUME NEW kind, NEW inputs, NEW net
    PROVE  /\ Gate(kind, inputs, net).kind = kind
           /\ Gate(kind, inputs, net).inputs = inputs
           /\ Gate(kind, inputs, net).output = net
  BY DEF Gate

WellMade(g) ==
    /\ g.kind \in Kinds /\ g.output \notin Inputs
    /\ g.kind \in {"NOT", "BUFFER"} => IsSingle(g.inputs)
    /\ \E s, t \in g.inputs : g.inputs = {s, t}

IsPair(S) == \E s, t \in S : S = {s, t}

\* Resolving keeps one or two inputs one or two.
LEMMA ResolvedPair ==
    ASSUME NEW st, NEW g, WellMade(g), NEW inputs, inputs = ResolveAll(st, g.inputs)
    PROVE  /\ IsPair(inputs)
           /\ IsSingle(g.inputs) => IsSingle(inputs)
<1>1. PICK s \in g.inputs, t \in g.inputs : g.inputs = {s, t}
  BY DEF WellMade
<1>2. inputs = {Resolve(st, s), Resolve(st, t)}
  BY <1>1 DEF ResolveAll
<1>3. IsSingle(g.inputs) => s = t
  BY <1>1 DEF IsSingle
<1> QED
  BY <1>2, <1>3 DEF IsSingle, IsPair

\* The other name is one of a net that computes the same.
LEMMA FoundAsIsRight ==
    ASSUME NEW W, Valuation(W), NEW st, Sound(W, st), NEW kind, NEW inputs,
           inputs \subseteq DOMAIN W,
           kind = "NOT" => IsSingle(inputs), kind = "BUFFER" => IsSingle(inputs),
           NEW net, IsFoundAs(st, kind, inputs, net)
    PROVE  net \in DOMAIN W /\ W[net] = Computes(kind, TablesOf(W, inputs))
<1>1. CASE IsWire(kind, inputs) /\ net = The(inputs)
  <2>1. IsSingle(inputs) /\ kind \in {"BUFFER", "AND", "OR"}
    BY <1>1 DEF IsWire
  <2>2. inputs = {net}
    BY <1>1, <2>1, SingleIs
  <2>3. net \in DOMAIN W /\ W[net] \in SUBSET Assignments
    BY <2>2 DEF Valuation
  <2>4. TablesOf(W, inputs) = {W[net]}
    BY <2>2 DEF TablesOf
  <2>5. Computes(kind, {W[net]}) = W[net]
    BY <2>1, <2>3, OneInput
  <2> QED
    BY <2>3, <2>4, <2>5
<1>2. CASE /\ kind = "NOT" /\ The(inputs) \in DOMAIN st.inversions
           /\ net = Resolve(st, st.inversions[The(inputs)])
  <2> DEFINE i == The(inputs)
  <2>1. inputs = {i}
    BY <1>2, SingleIs
  <2>2. /\ st.inversions[i] \in DOMAIN W /\ i \in DOMAIN W
        /\ W[st.inversions[i]] = Assignments \ W[i]
    BY <1>2 DEF Sound
  <2> HIDE DEF i
  <2>3. TablesOf(W, inputs) = {W[i]} /\ W[i] \in SUBSET Assignments
    BY <2>1, <2>2 DEF TablesOf, Valuation
  <2>4. Computes("NOT", {W[i]}) = Assignments \ W[i]
    BY <2>3, OneInput
  <2>5. net \in DOMAIN W /\ W[net] = W[st.inversions[i]]
    BY <1>2, <2>2, ResolveSound DEF i
  <2> QED
    BY <1>2, <2>2, <2>3, <2>4, <2>5
<1>3. CASE \E g \in Same(st.gates, kind, inputs) : net = Resolve(st, g.output)
  <2>1. PICK g \in Same(st.gates, kind, inputs) : net = Resolve(st, g.output)
    BY <1>3
  <2>2. Holds(W, g) /\ g.kind = kind /\ g.inputs = inputs
    BY <2>1 DEF Same, Sound
  <2>3. net \in DOMAIN W /\ W[net] = W[g.output]
    BY <2>1, <2>2, ResolveSound DEF Holds
  <2> QED
    BY <2>2, <2>3 DEF Holds
<1> QED
  BY <1>1, <1>2, <1>3 DEF IsFoundAs

\* One gate simplified: the tables stay sound.
LEMMA SimplifyGateIsSound ==
    ASSUME NEW W, Valuation(W), NEW st, Sound(W, st), NEW g, WellMade(g), Holds(W, g),
           NEW r, r = SimplifyGate(st, g)
    PROVE  Sound(W, r)
<1> DEFINE inputs == ResolveAll(st, g.inputs)
           kept   == Gate(g.kind, inputs, g.output)
<1>1. g.inputs \subseteq DOMAIN W /\ g.output \in DOMAIN W
  BY DEF Holds
<1>2. inputs \subseteq DOMAIN W /\ TablesOf(W, inputs) = TablesOf(W, g.inputs)
  BY <1>1, ResolvedTables
<1>3. W[g.output] = Computes(g.kind, TablesOf(W, inputs))
  BY <1>2 DEF Holds
<1>4. g.kind \in {"NOT", "BUFFER"} => IsSingle(inputs)
  BY ResolvedPair DEF WellMade
<1>5. kept.kind = g.kind /\ kept.inputs = inputs /\ kept.output = g.output
  BY KeptFields
<1>6. \/ \E net : IsFoundAs(st, g.kind, inputs, net) /\ r = Alias(st, g.output, net)
      \/ r = Emit(st, kept)
      \/ g.kind = "NOT" /\ r = NoteInversion(Emit(st, kept), The(inputs), g.output)
  BY SimplifyCases
<1> HIDE DEF inputs, kept
<1>7. Holds(W, kept)
  BY <1>1, <1>2, <1>3, <1>5 DEF Holds
<1>8. Sound(W, Emit(st, kept))
  BY <1>7, SoundEmit
<1>9. ASSUME NEW net, IsFoundAs(st, g.kind, inputs, net), r = Alias(st, g.output, net)
      PROVE  Sound(W, r)
  <2>1. net \in DOMAIN W /\ W[net] = Computes(g.kind, TablesOf(W, inputs))
    <3>1. (g.kind = "NOT" => IsSingle(inputs)) /\ (g.kind = "BUFFER" => IsSingle(inputs))
      BY <1>4
    <3> QED
      BY <1>2, <1>9, <3>1, FoundAsIsRight
  <2>2. Sound(W, Alias(st, g.output, net))
    BY <1>1, <1>3, <2>1, SoundAlias
  <2> QED
    BY <1>9, <2>2
<1>10. CASE g.kind = "NOT" /\ r = NoteInversion(Emit(st, kept), The(inputs), g.output)
  <2> DEFINE i == The(inputs)
             emitted == Emit(st, kept)
  <2>1. inputs = {i}
    BY <1>4, <1>10, SingleIs
  <2> HIDE DEF i
  <2>2. i \in DOMAIN W /\ W[i] \in SUBSET Assignments /\ TablesOf(W, inputs) = {W[i]}
    BY <1>2, <2>1 DEF Valuation, TablesOf
  <2>3. Computes("NOT", {W[i]}) = Assignments \ W[i]
    BY <2>2, OneInput
  <2>4. W[g.output] = Assignments \ W[i]
    BY <1>3, <1>10, <2>2, <2>3
  <2> HIDE DEF emitted
  <2>5. Sound(W, NoteInversion(emitted, i, g.output))
    BY <1>1, <1>8, <2>2, <2>4, SoundNote DEF emitted
  <2> QED
    BY <1>10, <2>5 DEF i, emitted
<1> QED
  BY <1>6, <1>8, <1>9, <1>10

\* What was emitted drives signals seen so far, each once, and gives none of
\* them another name.
Drivers(gates) == \A i, j \in DOMAIN gates : gates[i].output = gates[j].output => i = j

Kept(st, seen) ==
    /\ Shape(st) /\ Drivers(st.gates) /\ WellFormed(st.gates)
    /\ Outputs(st.gates) \cup DOMAIN st.aliases \subseteq seen
    /\ Outputs(st.gates) \cap DOMAIN st.aliases = {}

\* A gate with an output of its own keeps each signal at one driver.
LEMMA AppendDrivers ==
    ASSUME NEW gates, IsSeq(gates), Drivers(gates), NEW g, g.output \notin Outputs(gates)
    PROVE  Drivers(Append(gates, g))
<1> DEFINE a == Append(gates, g)
<1>1. Len(gates) \in Nat /\ DOMAIN gates = 1 .. Len(gates)
  BY SeqElements
<1>2. DOMAIN a = 1 .. Len(gates) + 1 /\ a[Len(gates) + 1] = g
  BY AppendElements, SeqElements
<1>3. \A i \in 1 .. Len(gates) : a[i] = gates[i] /\ gates[i].output \in Outputs(gates)
  BY <1>1, AppendElements DEF Outputs
<1> HIDE DEF a
<1>4. Drivers(a)
  BY <1>1, <1>2, <1>3 DEF Drivers
<1> QED
  BY <1>4 DEF a

LEMMA DriversAreUnique ==
    ASSUME NEW gates, IsSeq(gates), Drivers(gates) PROVE UniqueDrivers(gates)
  BY SeqElements DEF Drivers, UniqueDrivers

\* What has been kept so far is of gates seen so far, under each step on the tables.
LEMMA KeepsAlias ==
    ASSUME NEW st, NEW seen, Kept(st, seen), NEW name, name \notin seen, NEW net
    PROVE  Kept(Alias(st, name, net), seen \cup {name})
<1> DEFINE new == Alias(st, name, net)
<1>1. Shape(new) /\ new.gates = st.gates /\ new.aliases = Renamed(st.aliases, name, net)
  BY AliasFields DEF Kept
<1>2. DOMAIN new.aliases = DOMAIN st.aliases \cup {name}
  BY <1>1 DEF Renamed
<1> HIDE DEF new
<1>3. Kept(new, seen \cup {name})
  BY <1>1, <1>2 DEF Kept
<1> QED
  BY <1>3 DEF new

LEMMA KeepsEmit ==
    ASSUME NEW st, NEW seen, Kept(st, seen), NEW g, WellMade(g), g.output \notin seen
    PROVE  Kept(Emit(st, g), seen \cup {g.output})
<1> DEFINE new == Emit(st, g)
<1>1. Shape(new) /\ new.gates = Append(st.gates, g) /\ new.aliases = st.aliases
  BY EmitFields DEF Kept
<1>2. IsSeq(st.gates) /\ g.output \notin Outputs(st.gates)
  BY DEF Kept, Shape
<1>3. /\ ToSet(Append(st.gates, g)) = ToSet(st.gates) \cup {g}
      /\ Outputs(Append(st.gates, g)) = Outputs(st.gates) \cup {g.output}
      /\ Drivers(Append(st.gates, g))
  BY <1>2, AppendElements, OutputsGrow, AppendDrivers DEF Kept
<1>4. WellFormed(Append(st.gates, g))
  BY <1>3 DEF Kept, WellFormed, WellMade
<1> HIDE DEF new
<1>5. Kept(new, seen \cup {g.output})
  BY <1>1, <1>3, <1>4 DEF Kept
<1> QED
  BY <1>5 DEF new

LEMMA SimplifyGateKeeps ==
    ASSUME NEW st, NEW seen, Kept(st, seen), NEW g, WellMade(g), g.output \notin seen,
           NEW r, r = SimplifyGate(st, g)
    PROVE  Kept(r, seen \cup {g.output})
<1> DEFINE inputs == ResolveAll(st, g.inputs)
           kept   == Gate(g.kind, inputs, g.output)
<1>1. \/ \E net : r = Alias(st, g.output, net)
      \/ r = Emit(st, kept)
      \/ r = NoteInversion(Emit(st, kept), The(inputs), g.output)
  BY SimplifyCases
<1>2. kept.kind = g.kind /\ kept.inputs = inputs /\ kept.output = g.output
  BY KeptFields
<1>3. WellMade(kept)
  <2>1. /\ \E s, t \in inputs : inputs = {s, t}
        /\ g.kind \in {"NOT", "BUFFER"} => IsSingle(inputs)
    <3>1. IsPair(inputs) /\ (IsSingle(g.inputs) => IsSingle(inputs))
      BY ResolvedPair
    <3> HIDE DEF inputs
    <3> QED
      BY <3>1 DEF WellMade, IsPair
  <2> HIDE DEF inputs, kept
  <2> QED
    BY <1>2, <2>1 DEF WellMade
<1> HIDE DEF inputs, kept
<1>4. CASE \E net : r = Alias(st, g.output, net)
  BY <1>4, KeepsAlias
<1>5. Kept(Emit(st, kept), seen \cup {g.output})
  BY <1>2, <1>3, KeepsEmit
<1>6. CASE r = NoteInversion(Emit(st, kept), The(inputs), g.output)
  <2> DEFINE e == Emit(st, kept)
  <2>1. Kept(e, seen \cup {g.output}) /\ Shape(e)
    BY <1>5 DEF Kept
  <2> HIDE DEF e
  <2>2. /\ Shape(NoteInversion(e, The(inputs), g.output))
        /\ NoteInversion(e, The(inputs), g.output).gates = e.gates
        /\ NoteInversion(e, The(inputs), g.output).aliases = e.aliases
    BY <2>1, NoteFields
  <2>3. Kept(NoteInversion(e, The(inputs), g.output), seen \cup {g.output})
    BY <2>1, <2>2 DEF Kept
  <2> QED
    BY <1>6, <2>3 DEF e
<1> QED
  BY <1>1, <1>4, <1>5, <1>6

\* With its inputs seen before, a gate leaves the tables tidy.
LEMMA SimplifyGateIsTidy ==
    ASSUME NEW st, Tidy(st), NEW g, WellMade(g), g.inputs \subseteq Named(st),
           NEW r, r = SimplifyGate(st, g)
    PROVE  Tidy(r) /\ Named(st) \cup {g.output} \subseteq Named(r)
<1> DEFINE inputs == ResolveAll(st, g.inputs)
           kept   == Gate(g.kind, inputs, g.output)
<1>1. inputs \subseteq Known(st)
  BY ResolvedKnown
<1>2. kept.inputs = inputs /\ kept.output = g.output
  BY KeptFields
<1>3. /\ inputs # {}
      /\ g.kind \in {"NOT", "BUFFER"} => IsSingle(inputs)
  BY ResolvedPair DEF WellMade, IsPair
<1>4. \/ \E net : IsFoundAs(st, g.kind, inputs, net) /\ r = Alias(st, g.output, net)
      \/ r = Emit(st, kept)
      \/ g.kind = "NOT" /\ r = NoteInversion(Emit(st, kept), The(inputs), g.output)
  BY SimplifyCases
<1> HIDE DEF inputs, kept
<1>5. The(inputs) \in Known(st)
  BY <1>1, <1>3 DEF The
<1>6. /\ Tidy(Emit(st, kept))
      /\ Known(Emit(st, kept)) = Known(st) \cup {g.output}
      /\ Named(Emit(st, kept)) = Named(st) \cup {g.output}
  BY <1>1, <1>2, TidyEmit
<1>7. ASSUME NEW net, IsFoundAs(st, g.kind, inputs, net), r = Alias(st, g.output, net)
      PROVE  Tidy(r) /\ Named(st) \cup {g.output} \subseteq Named(r)
  <2>1. net \in Known(st)
    <3>1. CASE IsWire(g.kind, inputs) /\ net = The(inputs)
      BY <1>5, <3>1
    <3>2. CASE /\ The(inputs) \in DOMAIN st.inversions
               /\ net = Resolve(st, st.inversions[The(inputs)])
      <4>1. st.inversions[The(inputs)] \in Named(st)
        BY <3>2, KnownNamed DEF Tidy
      <4> QED
        BY <3>2, <4>1, ResolveTidy
    <3>3. CASE \E h \in Same(st.gates, g.kind, inputs) : net = Resolve(st, h.output)
      <4>1. PICK h \in Same(st.gates, g.kind, inputs) : net = Resolve(st, h.output)
        BY <3>3
      <4>2. h.output \in Named(st)
        BY <4>1, EmittedKnown, KnownNamed DEF Same
      <4> QED
        BY <4>1, <4>2, ResolveTidy
    <3> QED
      BY <1>7, <3>1, <3>2, <3>3 DEF IsFoundAs
  <2>2. /\ Tidy(Alias(st, g.output, net))
        /\ Named(Alias(st, g.output, net)) = Named(st) \cup {g.output}
    BY <2>1, TidyAlias
  <2> QED
    BY <1>7, <2>2
<1>8. CASE r = NoteInversion(Emit(st, kept), The(inputs), g.output)
  <2> DEFINE e == Emit(st, kept)
             i == The(inputs)
  <2>1. Tidy(e) /\ i \in Known(e) /\ g.output \in Known(e) /\ Named(e) = Named(st) \cup {g.output}
    BY <1>5, <1>6
  <2> HIDE DEF e, i
  <2>2. /\ Tidy(NoteInversion(e, i, g.output))
        /\ Named(NoteInversion(e, i, g.output)) = Named(e)
    BY <2>1, TidyNote
  <2> QED
    BY <1>8, <2>1, <2>2 DEF e, i
<1> QED
  BY <1>4, <1>6, <1>7, <1>8

\* A finite set as a sequence.
LEMMA Enumerated ==
    ASSUME NEW S, IsFiniteSet(S)
    PROVE  /\ IsSeq(SetToSeq(S)) /\ ToSet(SetToSeq(S)) = S
           /\ Len(SetToSeq(S)) = Cardinality(S) /\ Cardinality(S) \in Nat
           /\ DOMAIN SetToSeq(S) = 1 .. Cardinality(S)
           /\ \A i, j \in 1 .. Cardinality(S) : SetToSeq(S)[i] = SetToSeq(S)[j] => i = j
<1> DEFINE c == Cardinality(S)
           q == SetToSeq(S)
<1>1. c \in Nat /\ ExistsBijection(1 .. c, S)
  BY FS_CardinalityType
<1>2. \E f \in [1 .. c -> S] : IsInjective(f)
  BY <1>1 DEF ExistsBijection, Bijection, Injection
<1>3. q \in [1 .. c -> S] /\ IsInjective(q)
  BY <1>2 DEF SetToSeq
<1>4. IsFiniteSet(1 .. c) /\ Cardinality(1 .. c) = c
  <2>1. 1 \in Int /\ c \in Int /\ c - 1 + 1 = c
    BY <1>1
  <2> QED
    BY <1>1, <2>1, FS_Interval
<1> HIDE DEF q, c
<1>5. q \in Injection(1 .. c, S)
  BY <1>3 DEF Injection
<1>6. q \in Surjection(1 .. c, S)
  <2>1. Cardinality(1 .. c) = Cardinality(S)
    BY <1>4 DEF c
  <2> QED
    BY <1>5, <2>1, FS_Injection
<1>7. \A x \in S : \E i \in 1 .. c : q[i] = x
  BY <1>6 DEF Surjection
<1>8. DOMAIN q = 1 .. c /\ \A i \in 1 .. c : q[i] \in S
  BY <1>3
<1>9. ToSet(q) = S
  BY <1>7, <1>8 DEF ToSet
<1>10. q \in Seq(S) /\ Len(q) = c
  BY <1>1, <1>3
<1>11. \A i, j \in 1 .. c : q[i] = q[j] => i = j
  BY <1>3, <1>8 DEF IsInjective
<1> QED
  BY <1>1, <1>8, <1>9, <1>10, <1>11 DEF IsSeq, q, c

\* Elements of a concatenation.
LEMMA Concatenated ==
    ASSUME NEW s, NEW t, IsSeq(s), IsSeq(t)
    PROVE  /\ IsSeq(s \o t) /\ Len(s \o t) = Len(s) + Len(t)
           /\ ToSet(s \o t) = ToSet(s) \cup ToSet(t)
           /\ \A i \in 1 .. Len(s) : (s \o t)[i] = s[i]
           /\ \A i \in 1 .. Len(t) : (s \o t)[Len(s) + i] = t[i]
<1> DEFINE U == ToSet(s) \cup ToSet(t)
           c == s \o t
<1>1. s \in Seq(U) /\ t \in Seq(U)
  BY DEF IsSeq
<1>2. c \in Seq(U) /\ Len(c) = Len(s) + Len(t) /\ DOMAIN c = 1 .. Len(s) + Len(t)
  BY <1>1
<1>3. Len(s) \in Nat /\ Len(t) \in Nat
  BY SeqElements
<1>4. \A i \in 1 .. Len(s) : c[i] = s[i]
  BY <1>1, <1>3
<1>5. \A i \in 1 .. Len(t) : c[Len(s) + i] = t[i]
  BY <1>1, <1>3
<1> HIDE DEF c
<1>6. ToSet(c) = U
  <2>1. ToSet(c) \subseteq U
    BY <1>2 DEF ToSet
  <2>2. ASSUME NEW x \in ToSet(s) PROVE x \in ToSet(c)
    <3>1. PICK i \in 1 .. Len(s) : x = s[i]
      BY SeqElements
    <3>2. i \in DOMAIN c /\ c[i] = x
      BY <1>2, <1>3, <1>4, <3>1
    <3> QED
      BY <3>2 DEF ToSet
  <2>3. ASSUME NEW x \in ToSet(t) PROVE x \in ToSet(c)
    <3>1. PICK i \in 1 .. Len(t) : x = t[i]
      BY SeqElements
    <3>2. Len(s) + i \in DOMAIN c
      BY <1>2, <1>3
    <3> QED
      BY <1>5, <3>1, <3>2 DEF ToSet
  <2> QED
    BY <2>1, <2>2, <2>3
<1> QED
  BY <1>2, <1>4, <1>5, <1>6 DEF IsSeq, c

\* The gates of some signals, in the order they were in.
LEMMA SelectGatesKeeps ==
    ASSUME NEW gates, IsSeq(gates), NEW signals, NEW kept, kept = SelectGates(gates, signals)
    PROVE  /\ IsSeq(kept)
           /\ ToSet(kept) = {g \in ToSet(gates) : g.output \in signals}
           /\ InDependencyOrder(gates)
                 /\ (\A g \in ToSet(gates) : g.output \in signals => g.inputs \subseteq signals)
              => InDependencyOrder(kept)
<1>1. Len(gates) \in Nat /\ DOMAIN gates = 1 .. Len(gates)
  BY SeqElements
<1>2. PICK f : /\ f[0] = << >>
               /\ \A n \in 1 .. Len(gates) : f[n] = Selected(signals, f[n - 1], gates[n])
               /\ SelectGates(gates, signals) = f[Len(gates)]
  BY <1>1, SelectRun
<1> DEFINE Closed == /\ InDependencyOrder(gates)
                     /\ \A g \in ToSet(gates) : g.output \in signals => g.inputs \subseteq signals
           First(n) == {gates[i] : i \in 1 .. n}
           Good == {n \in 0 .. Len(gates) :
                      /\ IsSeq(f[n])
                      /\ ToSet(f[n]) = {g \in First(n) : g.output \in signals}
                      /\ Closed => InDependencyOrder(f[n])}
<1>3. 0 \in Good
  <2>1. First(0) = {}
    OBVIOUS
  <2>2. InDependencyOrder(<< >>)
    BY DEF InDependencyOrder
  <2> HIDE DEF Closed, First
  <2> QED
    BY <1>1, <1>2, <2>1, <2>2, NoElements
<1>4. ASSUME NEW n \in 1 .. Len(gates), n - 1 \in Good PROVE n \in Good
  <2> DEFINE g == gates[n]
             old == f[n - 1]
  <2>1. /\ IsSeq(old) /\ ToSet(old) = {h \in First(n - 1) : h.output \in signals}
        /\ Closed => InDependencyOrder(old)
    BY <1>4
  <2>2. First(n) = First(n - 1) \cup {g}
    BY <1>1
  <2>3. n \in 0 .. Len(gates) /\ g \in ToSet(gates)
    BY <1>1, SeqElements
  <2>4. f[n] = IF g.output \in signals THEN Append(old, g) ELSE old
    BY <1>2 DEF Selected
  <2>5. ASSUME Closed, g.output \in signals PROVE InDependencyOrder(Append(old, g))
    <3>1. g.inputs \subseteq Inputs \cup {gates[j].output : j \in 1 .. n - 1}
      BY <1>1, <2>5 DEF InDependencyOrder
    <3>2. g.inputs \subseteq signals
      BY <2>3, <2>5
    <3>3. Outputs(old) = {h.output : h \in ToSet(old)}
      BY <2>1, OutputsAre
    <3>4. g.inputs \subseteq Inputs \cup Outputs(old)
      BY <2>1, <3>1, <3>2, <3>3
    <3> HIDE DEF g, old
    <3> QED
      BY <2>1, <2>5, <3>4, OrderedAppend
  <2> HIDE DEF Closed, First, g, old
  <2>6. CASE g.output \in signals
    <3>1. IsSeq(Append(old, g)) /\ ToSet(Append(old, g)) = ToSet(old) \cup {g}
      BY <2>1, AppendElements
    <3>2. /\ IsSeq(f[n]) /\ ToSet(f[n]) = {h \in First(n) : h.output \in signals}
          /\ Closed => InDependencyOrder(f[n])
      BY <2>1, <2>2, <2>4, <2>5, <2>6, <3>1
    <3> QED
      BY <2>3, <3>2
  <2>7. CASE g.output \notin signals
    <3>1. /\ IsSeq(f[n]) /\ ToSet(f[n]) = {h \in First(n) : h.output \in signals}
          /\ Closed => InDependencyOrder(f[n])
      BY <2>1, <2>2, <2>4, <2>7
    <3> QED
      BY <2>3, <3>1
  <2> QED
    BY <2>6, <2>7
<1>5. \A n \in 0 .. Len(gates) : n \in Good
  <2> HIDE DEF Good
  <2> QED
    BY <1>1, <1>3, <1>4, Reaches
<1>6. Len(gates) \in Good
  <2> HIDE DEF Good
  <2> QED
    BY <1>1, <1>5
<1>7. First(Len(gates)) = ToSet(gates)
  BY <1>1 DEF ToSet
<1> QED
  BY <1>2, <1>6, <1>7

\* Of gates in order, those whose output is required have required inputs.
LEMMA RequiredIsClosed ==
    ASSUME NEW gates, IsSeq(gates), NEW outputs
    PROVE  /\ outputs \subseteq Required(gates, outputs)
           /\ InDependencyOrder(gates) /\ Drivers(gates) /\ Outputs(gates) \cap Inputs = {} =>
                \A g \in ToSet(gates) : g.output \in Required(gates, outputs) =>
                  g.inputs \subseteq Required(gates, outputs)
<1> DEFINE N == Len(gates)
<1>1. N \in Nat /\ DOMAIN gates = 1 .. N /\ \A i \in 1 .. N : gates[i] \in ToSet(gates)
  BY SeqElements
<1>2. PICK f : /\ f[0] = outputs
               /\ \A n \in 1 .. N : f[n] = Widened(gates, f[n - 1])
               /\ Required(gates, outputs) = f[N]
  BY <1>1, RequiredRun
<1> HIDE DEF N
<1> DEFINE R == f[N]
           Read(S) == UNION {g.inputs : g \in {h \in ToSet(gates) : h.output \in S}}
<1>3. \A n \in 1 .. N : f[n] = f[n - 1] \cup Read(f[n - 1])
  BY <1>2 DEF Widened
<1>4. \A m \in 0 .. N : \A n \in 0 .. m : f[n] \subseteq f[m]
  <2> DEFINE Good == {m \in 0 .. N : \A n \in 0 .. m : f[n] \subseteq f[m]}
  <2>1. 0 \in Good
    BY <1>1
  <2>2. ASSUME NEW m \in 1 .. N, m - 1 \in Good PROVE m \in Good
    <3>1. \A n \in 0 .. m - 1 : f[n] \subseteq f[m - 1]
      BY <2>2
    <3>2. f[m - 1] \subseteq f[m]
      BY <1>3
    <3>3. \A n \in 0 .. m : n \in 0 .. m - 1 \/ n = m
      BY <1>1
    <3>4. m \in 0 .. N
      BY <1>1
    <3> QED
      BY <3>1, <3>2, <3>3, <3>4
  <2>3. \A m \in 0 .. N : m \in Good
    <3> HIDE DEF Good
    <3> QED
      BY <1>1, <2>1, <2>2, Reaches
  <2> QED
    BY <2>3
<1>5. R \subseteq outputs \cup Read(R)
  <2> DEFINE Good == {m \in 0 .. N : f[m] \subseteq outputs \cup Read(R)}
  <2>1. 0 \in Good
    BY <1>1, <1>2
  <2>2. ASSUME NEW m \in 1 .. N, m - 1 \in Good PROVE m \in Good
    <3>1. m \in 0 .. N /\ m - 1 \in 0 .. N /\ N \in 0 .. N
      BY <1>1
    <3>2. f[m - 1] \subseteq outputs \cup Read(R) /\ f[m - 1] \subseteq R
      BY <1>4, <2>2, <3>1
    <3>3. Read(f[m - 1]) \subseteq Read(R)
      BY <3>2
    <3> QED
      BY <1>3, <3>1, <3>2, <3>3
  <2>3. \A m \in 0 .. N : m \in Good
    <3> HIDE DEF Good
    <3> QED
      BY <1>1, <2>1, <2>2, Reaches
  <2>4. N \in Good
    BY <1>1, <2>3
  <2> QED
    BY <2>4
<1>6. ASSUME InDependencyOrder(gates), Drivers(gates), Outputs(gates) \cap Inputs = {},
             NEW g \in ToSet(gates), g.output \in R
      PROVE  g.inputs \subseteq R
  <2> DEFINE Good == {m \in 0 .. N : \A i \in 1 .. N :
                        i >= N - m /\ gates[i].output \in R => gates[i].output \in f[N - i]}
  <2>1. ASSUME NEW i \in 1 .. N, gates[i].output \in R,
               \A j \in i + 1 .. N : gates[j].output \in R => gates[j].output \in f[N - j]
        PROVE  gates[i].output \in f[N - i]
    <3> DEFINE s == gates[i].output
    <3>1. 0 \in 0 .. N - i /\ N - i \in 0 .. N
      BY <1>1
    <3>2. CASE s \in outputs
      BY <1>2, <1>4, <3>1, <3>2
    <3>3. CASE s \in Read(R)
      <4>1. PICK j \in 1 .. N : gates[j].output \in R /\ s \in gates[j].inputs
        <5>1. PICK h \in ToSet(gates) : h.output \in R /\ s \in h.inputs
          BY <3>3
        <5>2. PICK j \in 1 .. N : h = gates[j]
          BY SeqElements DEF N
        <5> QED
          BY <5>1, <5>2
      <4>2. PICK k \in 1 .. j - 1 : s = gates[k].output
        <5>1. s \notin Inputs
          BY <1>1, <1>6 DEF Outputs
        <5> QED
          BY <1>1, <1>6, <4>1, <5>1 DEF InDependencyOrder
      <4>3. k = i
        BY <1>1, <1>6, <4>1, <4>2 DEF Drivers
      <4>4. j \in i + 1 .. N /\ N - j + 1 \in 1 .. N /\ N - j + 1 \in 0 .. N - i
            /\ N - j + 1 - 1 = N - j
        BY <1>1, <4>1, <4>2, <4>3
      <4>5. gates[j].output \in f[N - j]
        BY <2>1, <4>1, <4>4
      <4>6. s \in f[N - j + 1]
        <5>1. f[N - j + 1] = f[N - j] \cup Read(f[N - j])
          <6>1. \A n \in 1 .. N : \A l : l = n - 1 => f[n] = f[l] \cup Read(f[l])
            BY <1>3
          <6> HIDE DEF Read
          <6> QED
            BY <1>1, <4>4, <6>1
        <5> QED
          BY <1>1, <4>1, <4>5, <5>1
      <4> QED
        BY <1>4, <3>1, <4>4, <4>6
    <3> QED
      BY <1>5, <2>1, <3>2, <3>3
  <2>2. 0 \in Good
    <3>1. ASSUME NEW i \in 1 .. N, i >= N - 0, gates[i].output \in R
          PROVE  gates[i].output \in f[N - i]
      <4>1. i + 1 .. N = {}
        BY <1>1, <3>1
      <4> QED
        BY <2>1, <3>1, <4>1
    <3> QED
      BY <1>1, <3>1
  <2>3. ASSUME NEW m \in 1 .. N, m - 1 \in Good PROVE m \in Good
    <3>1. \A i \in 1 .. N :
            i >= N - (m - 1) /\ gates[i].output \in R => gates[i].output \in f[N - i]
      BY <2>3
    <3>2. ASSUME NEW i \in 1 .. N, i >= N - m, gates[i].output \in R
          PROVE  gates[i].output \in f[N - i]
      <4>1. ASSUME NEW j \in i + 1 .. N, gates[j].output \in R
            PROVE  gates[j].output \in f[N - j]
        <5>1. j \in 1 .. N /\ j >= N - (m - 1)
          BY <1>1, <3>2
        <5> QED
          BY <3>1, <4>1, <5>1
      <4> QED
        BY <2>1, <3>2, <4>1
    <3>3. m \in 0 .. N
      BY <1>1
    <3> QED
      BY <3>2, <3>3
  <2>4. \A m \in 0 .. N : m \in Good
    <3> HIDE DEF Good
    <3> QED
      BY <1>1, <2>2, <2>3, Reaches
  <2>5. N \in Good
    BY <1>1, <2>4
  <2>6. PICK i \in 1 .. N : g = gates[i]
    BY <1>6, SeqElements DEF N
  <2>7. g.output \in f[N - i]
    <3>1. i >= N - N
      BY <1>1
    <3> QED
      BY <1>6, <2>5, <2>6, <3>1
  <2>8. /\ N - i + 1 \in 1 .. N /\ N - i + 1 - 1 = N - i
        /\ N - i + 1 \in 0 .. N /\ N \in 0 .. N
    BY <1>1
  <2>9. f[N - i + 1] = f[N - i] \cup Read(f[N - i])
    BY <1>3, <2>8
  <2>10. g.inputs \subseteq f[N - i + 1]
    BY <1>6, <2>7, <2>9
  <2> QED
    BY <1>4, <2>8, <2>10
<1>7. 0 \in 0 .. N /\ N \in 0 .. N
  BY <1>1
<1>8. outputs \subseteq R
  BY <1>2, <1>4, <1>7
<1> HIDE DEF R, Read
<1>9. Required(gates, outputs) = R
  BY <1>2 DEF R
<1> QED
  BY <1>6, <1>8, <1>9

\* The whole pass: sound, kept and, for gates in order, tidy tables.
LEMMA SimplifiedIsSound ==
    ASSUME NEW V, NEW gates, Meaning(V, gates), Drivers(gates),
           NEW end, end = Simplified(gates)
    PROVE  /\ Sound(V, end) /\ Kept(end, Outputs(gates))
           /\ InDependencyOrder(gates) =>
                Tidy(end) /\ Inputs \cup Outputs(gates) \subseteq Named(end)
<1>1. Len(gates) \in Nat /\ DOMAIN gates = 1 .. Len(gates)
  BY SeqElements DEF Meaning
<1>2. PICK f : /\ f[0] = NothingEmitted
               /\ \A n \in 1 .. Len(gates) : f[n] = SimplifyGate(f[n - 1], gates[n])
               /\ end = f[Len(gates)]
  <2>1. \E f : /\ f[0] = NothingEmitted
               /\ \A n \in 1 .. Len(gates) : f[n] = SimplifyGate(f[n - 1], gates[n])
               /\ Simplified(gates) = f[Len(gates)]
    BY <1>1, SimplifyRun
  <2> QED
    BY <2>1
<1> DEFINE Seen(n) == {gates[i].output : i \in 1 .. n}
           InOrder == InDependencyOrder(gates)
           Good == {n \in 0 .. Len(gates) :
                      /\ Sound(V, f[n]) /\ Kept(f[n], Seen(n))
                      /\ InOrder => Tidy(f[n]) /\ Inputs \cup Seen(n) \subseteq Named(f[n])}
<1>3. 0 \in Good
  <2>1. Kept(NothingEmitted, {})
    BY NothingFields, NoElements DEF Kept, Drivers, WellFormed, Outputs
  <2>2. Seen(0) = {}
    OBVIOUS
  <2> HIDE DEF Seen, InOrder
  <2> QED
    BY <1>1, <1>2, <2>1, <2>2, NothingSound, NothingTidy
<1>4. ASSUME NEW n \in 1 .. Len(gates), n - 1 \in Good PROVE n \in Good
  <2> DEFINE g   == gates[n]
             old == f[n - 1]
  <2>1. /\ Sound(V, old) /\ Kept(old, Seen(n - 1))
        /\ InOrder => Tidy(old) /\ Inputs \cup Seen(n - 1) \subseteq Named(old)
    BY <1>4
  <2>2. g \in ToSet(gates)
    BY <1>1, SeqElements DEF Meaning
  <2>3. Valuation(V) /\ Holds(V, g) /\ WellMade(g)
    BY <2>2 DEF Meaning, WellFormed, WellMade
  <2>4. g.output \notin Seen(n - 1) /\ Seen(n) = Seen(n - 1) \cup {g.output}
    BY <1>1 DEF Drivers
  <2>5. f[n] = SimplifyGate(old, g)
    BY <1>2
  <2>6. InOrder => g.inputs \subseteq Inputs \cup Seen(n - 1)
    BY <1>1 DEF InDependencyOrder
  <2>7. n \in 0 .. Len(gates)
    BY <1>1
  <2> HIDE DEF g, old, Seen, InOrder
  <2>8. Sound(V, f[n])
    BY <2>1, <2>3, <2>5, SimplifyGateIsSound
  <2>9. Kept(f[n], Seen(n))
    BY <2>1, <2>3, <2>4, <2>5, SimplifyGateKeeps
  <2>10. ASSUME InOrder PROVE Tidy(f[n]) /\ Inputs \cup Seen(n) \subseteq Named(f[n])
    <3>1. Tidy(old) /\ g.inputs \subseteq Named(old)
      BY <2>1, <2>6, <2>10
    <3>2. Tidy(f[n]) /\ Named(old) \cup {g.output} \subseteq Named(f[n])
      BY <2>3, <2>5, <3>1, SimplifyGateIsTidy
    <3> QED
      BY <2>1, <2>4, <2>10, <3>2
  <2> QED
    BY <2>7, <2>8, <2>9, <2>10
<1>5. \A n \in 0 .. Len(gates) : n \in Good
  <2> HIDE DEF Good
  <2> QED
    BY <1>1, <1>3, <1>4, Reaches
<1>6. Len(gates) \in Good
  <2> HIDE DEF Good
  <2> QED
    BY <1>1, <1>5
<1>7. Seen(Len(gates)) = Outputs(gates)
  BY <1>1 DEF Outputs
<1> QED
  BY <1>2, <1>6, <1>7

Aliased(st, outputs) == {o \in outputs : Resolve(st, o) # o}

\* The buffers of the outputs that have become other names.
LEMMA BuffersAre ==
    ASSUME NEW st, NEW outputs, IsFiniteSet(outputs),
           NEW buffers, buffers = BufferOutputs(st, outputs)
    PROVE  /\ IsSeq(buffers) /\ Drivers(buffers)
           /\ ToSet(buffers) =
                {Gate("BUFFER", {Resolve(st, o)}, o) : o \in Aliased(st, outputs)}
<1> DEFINE S == Aliased(st, outputs)
           q == SetToSeq(S)
           c == Cardinality(S)
           Buffer(o) == Gate("BUFFER", {Resolve(st, o)}, o)
<1>1. IsFiniteSet(S)
  BY FS_Subset DEF Aliased
<1>2. /\ IsSeq(q) /\ ToSet(q) = S /\ c \in Nat /\ DOMAIN q = 1 .. c /\ Len(q) = c
      /\ \A i, j \in 1 .. c : q[i] = q[j] => i = j
  <2> HIDE DEF S
  <2> QED
    BY <1>1, Enumerated
<1>3. buffers = [i \in DOMAIN q |-> Buffer(q[i])]
  BY DEF BufferOutputs, Aliased
<1>4. \A i \in 1 .. c : q[i] \in S
  BY <1>2, SeqElements
<1>5. \A o \in S : \E i \in 1 .. c : o = q[i]
  BY <1>2, SeqElements
<1> HIDE DEF q, c, S, Buffer
<1>6. DOMAIN buffers = 1 .. c /\ \A i \in 1 .. c : buffers[i] = Buffer(q[i])
  BY <1>2, <1>3
<1>7. ToSet(buffers) = {Buffer(o) : o \in S}
  <2>1. ToSet(buffers) = {buffers[i] : i \in 1 .. c}
    BY <1>6 DEF ToSet
  <2> QED
    BY <1>4, <1>5, <1>6, <2>1
<1>8. IsSeq(buffers)
  <2>1. buffers = [i \in 1 .. c |-> buffers[i]] /\ \A i \in 1 .. c : buffers[i] \in ToSet(buffers)
    BY <1>3, <1>2, <1>6 DEF ToSet
  <2> QED
    BY <1>2, <2>1 DEF IsSeq
<1>9. \A i \in 1 .. c : buffers[i].output = q[i]
  <2>1. \A o : Buffer(o).output = o
    BY KeptFields DEF Buffer
  <2> QED
    BY <1>6, <2>1
<1>10. Drivers(buffers)
  BY <1>2, <1>6, <1>9 DEF Drivers
<1> QED
  BY <1>7, <1>8, <1>10 DEF S, Buffer

\* Two sequences of gates with outputs apart have one driver for each signal.
LEMMA ConcatenatedDrivers ==
    ASSUME NEW s, NEW t, IsSeq(s), IsSeq(t), Drivers(s), Drivers(t),
           Outputs(s) \cap Outputs(t) = {}
    PROVE  Drivers(s \o t) /\ Outputs(s \o t) = Outputs(s) \cup Outputs(t)
<1> DEFINE c == s \o t
<1>1. /\ Len(s) \in Nat /\ Len(t) \in Nat /\ DOMAIN s = 1 .. Len(s) /\ DOMAIN t = 1 .. Len(t)
  BY SeqElements
<1>2. /\ IsSeq(c) /\ Len(c) = Len(s) + Len(t) /\ ToSet(c) = ToSet(s) \cup ToSet(t)
  BY Concatenated
<1>3. /\ \A i \in 1 .. Len(s) : c[i] = s[i]
      /\ \A i \in 1 .. Len(t) : c[Len(s) + i] = t[i]
  BY Concatenated
<1>4. DOMAIN c = 1 .. Len(s) + Len(t)
  BY <1>2, SeqElements
<1> HIDE DEF c
<1>5. \A i \in 1 .. Len(s) + Len(t) :
         \/ i \in 1 .. Len(s) /\ c[i].output = s[i].output /\ s[i].output \in Outputs(s)
         \/ /\ i - Len(s) \in 1 .. Len(t) /\ c[i].output = t[i - Len(s)].output
            /\ t[i - Len(s)].output \in Outputs(t)
  <2> SUFFICES ASSUME NEW i \in 1 .. Len(s) + Len(t)
               PROVE  \/ /\ i \in 1 .. Len(s) /\ c[i].output = s[i].output
                         /\ s[i].output \in Outputs(s)
                      \/ /\ i - Len(s) \in 1 .. Len(t) /\ c[i].output = t[i - Len(s)].output
                         /\ t[i - Len(s)].output \in Outputs(t)
    OBVIOUS
  <2>1. CASE i \in 1 .. Len(s)
    BY <1>1, <1>3, <2>1 DEF Outputs
  <2>2. CASE i \notin 1 .. Len(s)
    <3>1. i - Len(s) \in 1 .. Len(t) /\ Len(s) + (i - Len(s)) = i
      BY <1>1, <2>2
    <3>2. c[Len(s) + (i - Len(s))] = t[i - Len(s)]
      BY <1>3, <3>1
    <3> QED
      BY <1>1, <3>1, <3>2 DEF Outputs
  <2> QED
    BY <2>1, <2>2
<1>6. Drivers(c)
  <2> SUFFICES ASSUME NEW i \in DOMAIN c, NEW j \in DOMAIN c, c[i].output = c[j].output
               PROVE  i = j
    BY DEF Drivers
  <2>1. CASE i \in 1 .. Len(s) /\ j \in 1 .. Len(s)
    BY <1>1, <1>3, <2>1 DEF Drivers
  <2>2. CASE i - Len(s) \in 1 .. Len(t) /\ j - Len(s) \in 1 .. Len(t)
    <3>1. t[i - Len(s)].output = t[j - Len(s)].output
      BY <1>1, <1>4, <1>5, <2>2
    <3>2. i - Len(s) = j - Len(s)
      BY <1>1, <2>2, <3>1 DEF Drivers
    <3> QED
      BY <1>1, <1>4, <3>2
  <2> QED
    BY <1>4, <1>5, <2>1, <2>2
<1>7. Outputs(c) = Outputs(s) \cup Outputs(t)
  <2>1. /\ Outputs(c) = {g.output : g \in ToSet(c)}
        /\ Outputs(s) = {g.output : g \in ToSet(s)}
        /\ Outputs(t) = {g.output : g \in ToSet(t)}
    BY <1>2, OutputsAre
  <2> QED
    BY <1>2, <2>1
<1> QED
  BY <1>6, <1>7 DEF c

\* Gates over what the first sequence drives may follow it.
LEMMA OrderedConcatenation ==
    ASSUME NEW s, NEW t, IsSeq(s), IsSeq(t), InDependencyOrder(s),
           \A g \in ToSet(t) : g.inputs \subseteq Inputs \cup Outputs(s)
    PROVE  InDependencyOrder(s \o t)
<1> DEFINE c == s \o t
<1>1. /\ Len(s) \in Nat /\ Len(t) \in Nat /\ DOMAIN s = 1 .. Len(s) /\ DOMAIN t = 1 .. Len(t)
      /\ \A i \in 1 .. Len(t) : t[i] \in ToSet(t)
  BY SeqElements
<1>2. IsSeq(c) /\ Len(c) = Len(s) + Len(t)
  BY Concatenated
<1>3. /\ \A i \in 1 .. Len(s) : c[i] = s[i]
      /\ \A i \in 1 .. Len(t) : c[Len(s) + i] = t[i]
  BY Concatenated
<1>4. DOMAIN c = 1 .. Len(s) + Len(t)
  BY <1>2, SeqElements
<1> HIDE DEF c
<1>5. ASSUME NEW i \in DOMAIN c
      PROVE  c[i].inputs \subseteq Inputs \cup {c[j].output : j \in 1 .. i - 1}
  <2>1. CASE i \in 1 .. Len(s)
    <3>1. {c[j].output : j \in 1 .. i - 1} = {s[j].output : j \in 1 .. i - 1}
      <4>1. \A j \in 1 .. i - 1 : c[j] = s[j]
        BY <1>1, <1>3, <2>1
      <4> QED
        BY <4>1
    <3> QED
      BY <1>1, <1>3, <2>1, <3>1 DEF InDependencyOrder
  <2>2. CASE i \notin 1 .. Len(s)
    <3>1. /\ i - Len(s) \in 1 .. Len(t) /\ Len(s) + (i - Len(s)) = i
          /\ \A j \in 1 .. Len(s) : j \in 1 .. i - 1
      BY <1>1, <1>4, <2>2
    <3>2. c[i] = t[i - Len(s)]
      BY <1>3, <3>1
    <3>3. c[i].inputs \subseteq Inputs \cup Outputs(s)
      BY <1>1, <3>1, <3>2
    <3>4. Outputs(s) \subseteq {c[j].output : j \in 1 .. i - 1}
      BY <1>1, <1>3, <3>1 DEF Outputs
    <3> QED
      BY <3>3, <3>4
  <2> QED
    BY <2>1, <2>2
<1>6. InDependencyOrder(c)
  BY <1>5 DEF InDependencyOrder
<1> QED
  BY <1>6 DEF c

\* StructurallySimplifyLogic (LogicOptimization.py): whatever the order of the
\* gates, what is left of them computes what the netlist did; and from a netlist
\* in order it is in order, with every output driven.
THEOREM SimplificationIsSound ==
    ASSUME NEW V, NEW netlist, Meaning(V, netlist.gates), Drivers(netlist.gates),
           IsFiniteSet(netlist.outputs), netlist.outputs \subseteq Outputs(netlist.gates),
           NEW simple, simple = StructurallySimplifyLogic(netlist)
    PROVE  /\ Meaning(V, simple.gates) /\ simple.outputs = netlist.outputs
           /\ InDependencyOrder(netlist.gates) =>
                /\ InDependencyOrder(simple.gates)
                /\ netlist.outputs \subseteq Inputs \cup Outputs(simple.gates)
<1> DEFINE outputs == netlist.outputs
           st      == Simplified(netlist.gates)
           buffers == BufferOutputs(st, outputs)
           gates   == st.gates \o buffers
           needed  == Required(gates, outputs)
           Ordered == InDependencyOrder(netlist.gates)
<1>1. simple = [gates |-> SelectGates(gates, needed), outputs |-> outputs]
  BY DEF StructurallySimplifyLogic, Simplified
<1>2. /\ Sound(V, st) /\ Kept(st, Outputs(netlist.gates))
      /\ Ordered => Tidy(st) /\ Inputs \cup Outputs(netlist.gates) \subseteq Named(st)
  BY SimplifiedIsSound
<1>3. IsSeq(st.gates)
  BY <1>2 DEF Kept, Shape
<1> HIDE DEF st, Ordered
<1> DEFINE aliased == Aliased(st, outputs)
           Buffer(o) == Gate("BUFFER", {Resolve(st, o)}, o)
<1>4. /\ IsSeq(buffers) /\ Drivers(buffers)
      /\ ToSet(buffers) = {Buffer(o) : o \in aliased}
  BY BuffersAre
<1>5. aliased \subseteq DOMAIN st.aliases /\ aliased \subseteq outputs
  BY DEF Aliased, Resolve
<1>6. \A o : Buffer(o).kind = "BUFFER" /\ Buffer(o).inputs = {Resolve(st, o)} /\ Buffer(o).output = o
  BY KeptFields
<1> HIDE DEF buffers, aliased, Buffer
<1>7. Outputs(buffers) = aliased
  <2>1. Outputs(buffers) = {g.output : g \in ToSet(buffers)}
    BY <1>4, OutputsAre
  <2> QED
    BY <1>4, <1>6, <2>1
<1>8. Outputs(st.gates) \cap Outputs(buffers) = {} /\ Drivers(st.gates)
  BY <1>2, <1>5, <1>7 DEF Kept
<1>9. /\ IsSeq(gates) /\ ToSet(gates) = ToSet(st.gates) \cup ToSet(buffers)
      /\ Drivers(gates) /\ Outputs(gates) = Outputs(st.gates) \cup aliased
  <2>1. IsSeq(gates) /\ ToSet(gates) = ToSet(st.gates) \cup ToSet(buffers)
    BY <1>3, <1>4, Concatenated
  <2>2. Drivers(gates) /\ Outputs(gates) = Outputs(st.gates) \cup Outputs(buffers)
    BY <1>3, <1>4, <1>8, ConcatenatedDrivers
  <2> QED
    BY <1>7, <2>1, <2>2
<1>10. outputs \subseteq DOMAIN V
  <2>1. Outputs(netlist.gates) = {g.output : g \in ToSet(netlist.gates)}
    BY OutputsAre DEF Meaning
  <2> QED
    BY <2>1 DEF Meaning, Holds
<1>11. outputs \cap Inputs = {}
  <2>1. Outputs(netlist.gates) = {g.output : g \in ToSet(netlist.gates)}
    BY OutputsAre DEF Meaning
  <2> QED
    BY <2>1 DEF Meaning, WellFormed
<1>12. ASSUME NEW o \in aliased PROVE Holds(V, Buffer(o)) /\ WellMade(Buffer(o))
  <2>1. o \in DOMAIN V /\ o \notin Inputs
    BY <1>5, <1>10, <1>11
  <2>2. Resolve(st, o) \in DOMAIN V /\ V[Resolve(st, o)] = V[o]
    BY <1>2, <2>1, ResolveSound
  <2> DEFINE r == Resolve(st, o)
  <2> HIDE DEF r
  <2>3. TablesOf(V, {r}) = {V[r]} /\ V[r] \in SUBSET Assignments
    BY <2>2 DEF TablesOf, Meaning, Valuation, r
  <2>4. Computes("BUFFER", {V[r]}) = V[r]
    BY <2>3, OneInput
  <2>5. Buffer(o).inputs = {r}
    BY <1>6 DEF r
  <2>6. Holds(V, Buffer(o))
    BY <1>6, <2>1, <2>2, <2>3, <2>4, <2>5 DEF Holds, r
  <2>7. WellMade(Buffer(o))
    <3>1. IsSingle({r}) /\ \E s, t \in {r} : {r} = {s, t}
      BY TheOnly
    <3>2. IsSingle(Buffer(o).inputs) /\ \E s, t \in Buffer(o).inputs : Buffer(o).inputs = {s, t}
      BY <2>5, <3>1
    <3> QED
      BY <1>6, <2>1, <3>2 DEF WellMade, Kinds
  <2> QED
    BY <2>6, <2>7
<1>13. \A g \in ToSet(gates) : Holds(V, g) /\ WellMade(g)
  <2>1. \A g \in ToSet(st.gates) : Holds(V, g) /\ WellMade(g)
    BY <1>2 DEF Sound, Kept, WellFormed, WellMade
  <2> QED
    BY <1>4, <1>9, <1>12, <2>1
<1> HIDE DEF gates
<1>14. /\ outputs \subseteq needed
       /\ InDependencyOrder(gates) /\ Outputs(gates) \cap Inputs = {} =>
            \A g \in ToSet(gates) : g.output \in needed => g.inputs \subseteq needed
  BY <1>9, RequiredIsClosed
<1> HIDE DEF needed
<1>15. /\ IsSeq(simple.gates) /\ simple.outputs = outputs
       /\ ToSet(simple.gates) = {g \in ToSet(gates) : g.output \in needed}
       /\ InDependencyOrder(gates)
             /\ (\A g \in ToSet(gates) : g.output \in needed => g.inputs \subseteq needed)
          => InDependencyOrder(simple.gates)
  BY <1>1, <1>9, SelectGatesKeeps
<1>16. Meaning(V, simple.gates)
  <2>1. UniqueDrivers(gates)
    BY <1>9, DriversAreUnique
  <2>2. UniqueDrivers(simple.gates)
    BY <1>15, <2>1 DEF UniqueDrivers
  <2>3. WellFormed(simple.gates) /\ \A g \in ToSet(simple.gates) : Holds(V, g)
    BY <1>13, <1>15 DEF WellFormed, WellMade
  <2>4. Valuation(V)
    BY DEF Meaning
  <2> QED
    BY <1>15, <2>2, <2>3, <2>4 DEF Meaning
<1>17. ASSUME Ordered
       PROVE  /\ InDependencyOrder(simple.gates)
              /\ outputs \subseteq Inputs \cup Outputs(simple.gates)
  <2>1. Tidy(st) /\ outputs \subseteq Named(st)
    BY <1>2, <1>17
  <2>2. \A g \in ToSet(buffers) : g.inputs \subseteq Inputs \cup Outputs(st.gates)
    <3>1. \A o \in aliased : Resolve(st, o) \in Known(st)
      BY <1>5, <2>1, ResolveTidy
    <3> QED
      BY <1>4, <1>6, <3>1 DEF Known
  <2>3. InDependencyOrder(gates)
    BY <1>3, <1>4, <2>1, <2>2, OrderedConcatenation DEF Tidy, gates
  <2>4. Outputs(gates) = {g.output : g \in ToSet(gates)}
    BY <1>9, OutputsAre
  <2>5. Outputs(gates) \cap Inputs = {}
    BY <1>13, <2>4 DEF WellMade
  <2>6. InDependencyOrder(simple.gates)
    BY <1>14, <1>15, <2>3, <2>5
  <2>7. outputs \subseteq Inputs \cup Outputs(gates)
    <3>1. ASSUME NEW o \in outputs PROVE o \in Inputs \cup Outputs(gates)
      <4>1. CASE o \in aliased
        BY <1>9, <4>1
      <4>2. CASE o \notin aliased
        <5>1. Resolve(st, o) = o
          BY <4>2 DEF aliased, Aliased
        <5>2. Resolve(st, o) \in Known(st)
          BY <2>1, ResolveTidy
        <5> QED
          BY <1>9, <5>1, <5>2 DEF Known
      <4> QED
        BY <4>1, <4>2
    <3> QED
      BY <3>1
  <2>8. Outputs(simple.gates) = {g.output : g \in ToSet(simple.gates)}
    BY <1>15, OutputsAre
  <2>9. \A o \in outputs : o \in Outputs(gates) => o \in Outputs(simple.gates)
    BY <1>14, <1>15, <2>4, <2>8
  <2> QED
    BY <2>6, <2>7, <2>9
<1> QED
  BY <1>15, <1>16, <1>17 DEF Ordered

(***************************************************************************)
(* The candidate from the truth table.  Its nets are named by their gates, *)
(* but for the outputs, which are buffered once each.  The valuation V of  *)
(* the netlist grows into one, W, of these nets as well.                   *)
(***************************************************************************)
NewPairNames(V) == \A k, S : <<k, S>> \notin DOMAIN V

Driven(gates) == Inputs \cup Outputs(gates)

Built(V, W, done, gates) ==
    /\ Valuation(W) /\ Extends(W, V)
    /\ IsSeq(gates) /\ UniqueDrivers(gates) /\ InDependencyOrder(gates)
    /\ \A g \in ToSet(gates) :
          /\ Holds(W, g) /\ WellMade(g)
          /\ \/ g.kind = "BUFFER" /\ g.output \in done
             \/ g.kind # "BUFFER" /\ g.output = <<g.kind, g.inputs>>
    /\ \A s \in DOMAIN W : s \in DOMAIN V \/ \E g \in ToSet(gates) : s = g.output

\* What is driven has a value.
LEMMA DrivenKnown ==
    ASSUME NEW V, NEW W, NEW done, NEW gates, Built(V, W, done, gates)
    PROVE  Driven(gates) \subseteq DOMAIN W
  BY OutputsAre DEF Built, Driven, Holds, Valuation

Simple == {"NOT", "AND", "OR"}

EmitsRight(V, W, done, gates, kind, inputs, r) ==
    \E W2 : /\ Built(V, W2, done, r.gates) /\ Extends(W2, W)
            /\ Driven(gates) \subseteq Driven(r.gates) /\ r.net \in Driven(r.gates)
            /\ W2[r.net] = Computes(kind, TablesOf(W, inputs))

\* A gate emitted once, or found, computes its kind of its inputs.
LEMMA EmitOnceIsSound ==
    ASSUME NEW V, NewPairNames(V), NEW W, NEW done, done \subseteq DOMAIN V,
           NEW gates, Built(V, W, done, gates), NEW kind \in Simple, NEW inputs,
           inputs \subseteq Driven(gates), IsPair(inputs),
           kind = "NOT" => IsSingle(inputs),
           NEW r, r = EmitOnce(gates, kind, inputs)
    PROVE  EmitsRight(V, W, done, gates, kind, inputs, r) /\ r.net = <<kind, inputs>>
<1> DEFINE net   == <<kind, inputs>>
           new   == Gate(kind, inputs, net)
           table == Computes(kind, TablesOf(W, inputs))
<1>1. r = [gates |-> IF Same(gates, kind, inputs) # {} THEN gates ELSE Append(gates, new),
           net |-> net]
  BY DEF EmitOnce
<1>2. new.kind = kind /\ new.inputs = inputs /\ new.output = net
  BY KeptFields
<1>3. inputs \subseteq DOMAIN W
  BY DrivenKnown
<1>4. table \in SUBSET Assignments
  <2>1. TablesOf(W, inputs) \in SUBSET SUBSET Assignments
    BY <1>3 DEF TablesOf, Built, Valuation
  <2> QED
    BY <2>1, ComputesType DEF Kinds, Simple
<1>5. kind # "BUFFER" /\ kind \in Kinds /\ IsSeq(gates)
  BY DEF Simple, Kinds, Built
<1> HIDE DEF new, table
<1>6. CASE Same(gates, kind, inputs) # {}
  <2>1. PICK g \in ToSet(gates) : g.kind = kind /\ g.inputs = inputs
    BY <1>6 DEF Same
  <2>2. g.output = net /\ Holds(W, g)
    BY <1>5, <2>1 DEF Built
  <2>3. W[net] = table
    BY <2>1, <2>2 DEF Holds, table
  <2>4. net \in Driven(gates)
    BY <1>5, <2>1, <2>2, OutputsAre DEF Driven
  <2>5. Extends(W, W) /\ r.gates = gates /\ r.net = net
    BY <1>1, <1>6 DEF Extends
  <2> HIDE DEF net
  <2>6. EmitsRight(V, W, done, gates, kind, inputs, r)
    BY <2>3, <2>4, <2>5 DEF EmitsRight, table
  <2> QED
    BY <2>5, <2>6 DEF net
<1>7. CASE Same(gates, kind, inputs) = {}
  <2> DEFINE W2 == With(W, net, table)
             more == Append(gates, new)
  <2>1. \A g \in ToSet(gates) : g.output # net
    <3> SUFFICES ASSUME NEW g \in ToSet(gates), g.output = net PROVE FALSE
      OBVIOUS
    <3>1. g.kind # "BUFFER" /\ g.output = <<g.kind, g.inputs>>
      BY DEF Built, NewPairNames
    <3>2. <<g.kind, g.inputs>>[1] = net[1] /\ <<g.kind, g.inputs>>[2] = net[2]
      BY <3>1
    <3>3. g.kind = kind /\ g.inputs = inputs
      BY <3>2
    <3> QED
      BY <1>7, <3>3 DEF Same
  <2>2. net \notin DOMAIN W
    BY <2>1 DEF Built, NewPairNames
  <2>3. Valuation(W) /\ Extends(W, V)
    BY DEF Built
  <2>4. Valuation(W2) /\ Extends(W2, W)
    <3> HIDE DEF net
    <3> QED
      BY <1>4, <2>2, <2>3, WithExtends
  <2>5. DOMAIN W2 = DOMAIN W \cup {net} /\ W2[net] = table
    BY DEF With
  <2> HIDE DEF W2
  <2>6. Extends(W2, V)
    BY <2>3, <2>4 DEF Extends
  <2>7. Holds(W2, new) /\ WellMade(new)
    <3>1. TablesOf(W2, inputs) = TablesOf(W, inputs)
      BY <1>3, <2>4, ExtendedTables
    <3>2. Holds(W2, new)
      BY <1>2, <1>3, <2>5, <3>1 DEF Holds, table
    <3>3. net \notin Inputs
      BY <2>2, <2>3 DEF Valuation
    <3>4. WellMade(new)
      BY <1>2, <1>5, <3>3 DEF WellMade, IsPair
    <3> QED
      BY <3>2, <3>4
  <2>8. /\ IsSeq(more) /\ ToSet(more) = ToSet(gates) \cup {new}
        /\ Outputs(more) = Outputs(gates) \cup {net} /\ InDependencyOrder(more)
    <3>1. InDependencyOrder(gates) /\ new.inputs \subseteq Inputs \cup Outputs(gates)
      BY <1>2 DEF Built, Driven
    <3> HIDE DEF net
    <3>2. InDependencyOrder(more) /\ Outputs(more) = Outputs(gates) \cup {new.output}
      BY <1>5, <3>1, OrderedAppend, OutputsGrow
    <3> QED
      BY <1>2, <1>5, <3>2, AppendElements
  <2> HIDE DEF more
  <2>9. UniqueDrivers(more)
    BY <1>2, <2>1, <2>8 DEF Built, UniqueDrivers
  <2>10. \A g \in ToSet(gates) : Holds(W2, g)
    BY <2>4, ExtendedHolds DEF Built
  <2>11. Built(V, W2, done, more)
    <3>1. \A g \in ToSet(more) :
            /\ Holds(W2, g) /\ WellMade(g)
            /\ \/ g.kind = "BUFFER" /\ g.output \in done
               \/ g.kind # "BUFFER" /\ g.output = <<g.kind, g.inputs>>
      BY <1>2, <1>5, <2>7, <2>8, <2>10 DEF Built
    <3>2. \A s \in DOMAIN W2 : s \in DOMAIN V \/ \E g \in ToSet(more) : s = g.output
      BY <1>2, <2>5, <2>8 DEF Built
    <3> QED
      BY <2>4, <2>6, <2>8, <2>9, <3>1, <3>2 DEF Built
  <2>12. r.gates = more /\ r.net = net
    BY <1>1, <1>7 DEF more
  <2>13. Driven(gates) \subseteq Driven(more) /\ net \in Driven(more)
    BY <2>8 DEF Driven
  <2> HIDE DEF net
  <2>14. EmitsRight(V, W, done, gates, kind, inputs, r)
    BY <2>4, <2>5, <2>11, <2>12, <2>13 DEF EmitsRight, table
  <2> QED
    BY <2>12, <2>14 DEF net
<1> QED
  BY <1>6, <1>7

\* A left fold of ANDs or of ORs.
Folded(kind, W, nets, m) ==
    IF kind = "AND" THEN {v \in Assignments : \A i \in 1 .. m : v \in W[nets[i]]}
                    ELSE {v \in Assignments : \E i \in 1 .. m : v \in W[nets[i]]}

Yields(V, W, done, gates, r, table) ==
    \E W2 : /\ Built(V, W2, done, r.gates) /\ Extends(W2, W)
            /\ Driven(gates) \subseteq Driven(r.gates) /\ r.net \in Driven(r.gates)
            /\ W2[r.net] = table

\* A left fold of binary gates computes the AND or OR of all its nets.
LEMMA CombineIsSound ==
    ASSUME NEW V, NewPairNames(V), NEW W, NEW done, done \subseteq DOMAIN V,
           NEW gates, Built(V, W, done, gates), NEW kind \in {"AND", "OR"},
           NEW nets, IsSeq(nets), Len(nets) # 0, ToSet(nets) \subseteq Driven(gates),
           NEW r, r = Combine(gates, kind, nets)
    PROVE  Yields(V, W, done, gates, r, Folded(kind, W, nets, Len(nets)))
<1>0. /\ Len(nets) \in Nat \ {0} /\ DOMAIN nets = 1 .. Len(nets)
      /\ \A i \in 1 .. Len(nets) : nets[i] \in Driven(gates)
  BY SeqElements
<1> DEFINE final == Len(nets) - 1
<1>1. /\ final \in Nat /\ Len(Tail(nets)) = final /\ Head(nets) = nets[1]
      /\ \A n \in 1 .. final : Tail(nets)[n] = nets[n + 1]
  <2>1. nets \in Seq(ToSet(nets)) /\ nets # << >>
    BY <1>0 DEF IsSeq
  <2> QED
    BY <1>0, <2>1
<1>2. PICK f : /\ f[0] = [gates |-> gates, net |-> Head(nets)]
               /\ \A n \in 1 .. final : f[n] = Combined(kind, f[n - 1], Tail(nets)[n])
               /\ r = f[final]
  <2>1. Len(Tail(nets)) \in Nat
    BY <1>1
  <2>2. \E f : /\ f[0] = [gates |-> gates, net |-> Head(nets)]
               /\ \A n \in 1 .. Len(Tail(nets)) : f[n] = Combined(kind, f[n - 1], Tail(nets)[n])
               /\ Combine(gates, kind, nets) = f[Len(Tail(nets))]
    BY <2>1, CombineRun
  <2> QED
    BY <1>1, <2>2
<1> HIDE DEF final
<1> DEFINE Good == {n \in 0 .. final :
                      Yields(V, W, done, gates, f[n], Folded(kind, W, nets, n + 1))}
<1>3. \A i \in 1 .. Len(nets) : nets[i] \in DOMAIN W /\ W[nets[i]] \in SUBSET Assignments
  BY <1>0, DrivenKnown DEF Built, Valuation
<1>4. 0 \in Good
  <2>1. f[0].gates = gates /\ f[0].net = nets[1] /\ 1 \in 1 .. Len(nets)
    BY <1>0, <1>1, <1>2
  <2>2. Folded(kind, W, nets, 1) = W[nets[1]]
    BY <1>3, <2>1 DEF Folded
  <2>3. Extends(W, W)
    BY DEF Extends
  <2>4. Yields(V, W, done, gates, f[0], Folded(kind, W, nets, 1))
    BY <1>0, <2>1, <2>2, <2>3 DEF Yields
  <2> QED
    BY <1>1, <2>4
<1>5. ASSUME NEW n \in 1 .. final, n - 1 \in Good PROVE n \in Good
  <2> DEFINE acc  == f[n - 1]
             net  == nets[n + 1]
             both == {acc.net, net}
             A    == Folded(kind, W, nets, n)
             B    == W[net]
  <2>1. n + 1 \in 1 .. Len(nets) /\ n - 1 + 1 = n /\ n \in 0 .. final
    BY <1>0, <1>1, <1>5 DEF final
  <2>2. PICK W1 : /\ Built(V, W1, done, acc.gates) /\ Extends(W1, W)
                  /\ Driven(gates) \subseteq Driven(acc.gates)
                  /\ acc.net \in Driven(acc.gates) /\ W1[acc.net] = A
    BY <1>5, <2>1 DEF Yields
  <2>3. f[n] = EmitOnce(acc.gates, kind, both)
    BY <1>1, <1>2 DEF Combined
  <2>4. both \subseteq Driven(acc.gates) /\ IsPair(both)
    BY <1>0, <2>1, <2>2 DEF IsPair
  <2>5. W1[net] = B
    BY <1>3, <2>1, <2>2 DEF Extends
  <2>6. TablesOf(W1, both) = {A, B}
    BY <2>2, <2>5 DEF TablesOf
  <2>7. Computes(kind, {A, B}) = Folded(kind, W, nets, n + 1)
    <3>1. A \in SUBSET Assignments /\ B \in SUBSET Assignments
      BY <1>3, <2>1 DEF Folded
    <3>2. \A i \in 1 .. n + 1 : i \in 1 .. n \/ i = n + 1
      BY <2>1
    <3>3. \A i \in 1 .. n : i \in 1 .. n + 1
      BY <2>1
    <3>4. CASE kind = "AND"
      <4>1. A \cap B = Folded(kind, W, nets, n + 1)
        BY <2>1, <3>1, <3>2, <3>3, <3>4 DEF Folded
      <4>2. Computes("AND", {A, B}) = A \cap B
        <5> HIDE DEF A, B
        <5> QED
          BY <3>1, TwoInputs
      <4> QED
        BY <3>4, <4>1, <4>2
    <3>5. CASE kind = "OR"
      <4>1. A \cup B = Folded(kind, W, nets, n + 1)
        BY <2>1, <3>1, <3>2, <3>3, <3>5 DEF Folded
      <4>2. Computes("OR", {A, B}) = A \cup B
        <5> HIDE DEF A, B
        <5> QED
          BY <3>1, TwoInputs
      <4> QED
        BY <3>5, <4>1, <4>2
    <3> QED
      BY <3>4, <3>5
  <2> HIDE DEF acc, net, both, A, B, Good
  <2>8. EmitsRight(V, W1, done, acc.gates, kind, both, f[n])
    <3>1. kind \in Simple /\ kind # "NOT"
      BY DEF Simple
    <3>2. EmitsRight(V, W1, done, acc.gates, kind, both, EmitOnce(acc.gates, kind, both))
      BY <2>2, <2>4, <3>1, EmitOnceIsSound
    <3> QED
      BY <2>3, <3>2
  <2>9. Yields(V, W, done, gates, f[n], Folded(kind, W, nets, n + 1))
    <3>1. PICK W2 : /\ Built(V, W2, done, f[n].gates) /\ Extends(W2, W1)
                    /\ Driven(acc.gates) \subseteq Driven(f[n].gates)
                    /\ f[n].net \in Driven(f[n].gates)
                    /\ W2[f[n].net] = Computes(kind, TablesOf(W1, both))
      BY <2>8 DEF EmitsRight
    <3>2. Extends(W2, W)
      BY <2>2, <3>1 DEF Extends
    <3>3. W2[f[n].net] = Folded(kind, W, nets, n + 1)
      BY <2>6, <2>7, <3>1
    <3>4. Driven(gates) \subseteq Driven(f[n].gates)
      BY <2>2, <3>1
    <3> QED
      BY <3>1, <3>2, <3>3, <3>4 DEF Yields
  <2> QED
    BY <2>1, <2>9 DEF Good
<1>6. \A n \in 0 .. final : n \in Good
  <2> HIDE DEF Good
  <2> QED
    BY <1>1, <1>4, <1>5, Reaches
<1>7. final \in Good /\ final + 1 = Len(nets)
  <2>1. final + 1 = Len(nets)
    BY <1>0 DEF final
  <2> HIDE DEF Good
  <2> QED
    BY <1>1, <1>6, <2>1
<1> QED
  BY <1>2, <1>7

LiteralTable(cube, x) == {v \in Assignments : x \in v <=> x \in cube.value}

LiteralsRight(V, W, done, gates, more, cube, literals, n) ==
    \E W2 : /\ Built(V, W2, done, more) /\ Extends(W2, W)
            /\ Driven(gates) \subseteq Driven(more)
            /\ \A i \in 1 .. n :
                  /\ Literal(cube, literals[i]) \in Driven(more)
                  /\ W2[Literal(cube, literals[i])] = LiteralTable(cube, literals[i])

\* A literal is an input or its inverter.
LEMMA EmitLiteralIsSound ==
    ASSUME NEW V, NewPairNames(V), NEW W, NEW done, done \subseteq DOMAIN V,
           NEW gates, Built(V, W, done, gates), NEW cube, NEW x \in Inputs,
           NEW more, more = EmitLiteral(gates, cube, x)
    PROVE  \E W2 : /\ Built(V, W2, done, more) /\ Extends(W2, W)
                   /\ Driven(gates) \subseteq Driven(more)
                   /\ Literal(cube, x) \in Driven(more)
                   /\ W2[Literal(cube, x)] = LiteralTable(cube, x)
<1>1. x \in DOMAIN W /\ W[x] = {v \in Assignments : x \in v} /\ x \in Driven(gates)
  BY DEF Built, Valuation, InputTables, Driven
<1>2. CASE x \in cube.value
  <2>1. more = gates /\ Literal(cube, x) = x /\ Extends(W, W)
    BY <1>2 DEF EmitLiteral, Literal, Extends
  <2>2. W[x] = LiteralTable(cube, x)
    BY <1>1, <1>2 DEF LiteralTable
  <2> QED
    BY <1>1, <2>1, <2>2
<1>3. CASE x \notin cube.value
  <2> DEFINE r == EmitOnce(gates, "NOT", {x})
             S == {x}
  <2>1. more = r.gates /\ Literal(cube, x) = <<"NOT", S>>
    BY <1>3 DEF EmitLiteral, Literal
  <2>2. S \subseteq Driven(gates) /\ IsPair(S) /\ IsSingle(S)
    BY <1>1, TheOnly DEF IsPair
  <2>3. TablesOf(W, S) = {W[x]}
    BY DEF TablesOf
  <2>4. Computes("NOT", {W[x]}) = LiteralTable(cube, x)
    <3>1. Computes("NOT", {W[x]}) = Assignments \ W[x]
      BY <1>1, OneInput
    <3> QED
      BY <1>1, <1>3, <3>1 DEF LiteralTable
  <2>5. r = EmitOnce(gates, "NOT", S)
    OBVIOUS
  <2> HIDE DEF r, S
  <2>6. EmitsRight(V, W, done, gates, "NOT", S, r) /\ r.net = <<"NOT", S>>
    <3> DEFINE kind == "NOT"
    <3>1. kind \in Simple
      BY DEF Simple
    <3> HIDE DEF kind
    <3>2. EmitsRight(V, W, done, gates, kind, S, EmitOnce(gates, kind, S))
      BY <2>2, <3>1, EmitOnceIsSound
    <3>3. EmitOnce(gates, kind, S).net = <<kind, S>>
      BY DEF EmitOnce
    <3> QED
      BY <2>5, <3>2, <3>3 DEF kind
  <2> QED
    BY <2>1, <2>3, <2>4, <2>6 DEF EmitsRight
<1> QED
  BY <1>2, <1>3

\* The literals of a cube.
LEMMA LiteralsAreSound ==
    ASSUME NEW V, NewPairNames(V), NEW W, NEW done, done \subseteq DOMAIN V,
           NEW gates, Built(V, W, done, gates), NEW cube,
           NEW literals, IsSeq(literals), ToSet(literals) \subseteq Inputs,
           NEW more, more = Inverted(gates, cube, literals)
    PROVE  LiteralsRight(V, W, done, gates, more, cube, literals, Len(literals))
<1> DEFINE N == Len(literals)
<1>1. N \in Nat /\ \A i \in 1 .. N : literals[i] \in Inputs
  BY SeqElements
<1>2. PICK f : /\ f[0] = gates
               /\ \A n \in 1 .. N : f[n] = EmitLiteral(f[n - 1], cube, literals[n])
               /\ more = f[N]
  <2>1. \E f : /\ f[0] = gates
               /\ \A n \in 1 .. Len(literals) : f[n] = EmitLiteral(f[n - 1], cube, literals[n])
               /\ Inverted(gates, cube, literals) = f[Len(literals)]
    <3>1. Len(literals) \in Nat
      BY <1>1
    <3> QED
      BY <3>1, LiteralsRun
  <2> QED
    BY <2>1
<1> HIDE DEF N
<1> DEFINE Good == {n \in 0 .. N : LiteralsRight(V, W, done, gates, f[n], cube, literals, n)}
<1>3. 0 \in Good
  <2>1. Extends(W, W)
    BY DEF Extends
  <2>2. LiteralsRight(V, W, done, gates, f[0], cube, literals, 0)
    BY <1>2, <2>1 DEF LiteralsRight
  <2> QED
    BY <1>1, <2>2
<1>4. ASSUME NEW n \in 1 .. N, n - 1 \in Good PROVE n \in Good
  <2> DEFINE x   == literals[n]
             old == f[n - 1]
  <2>1. PICK W1 : /\ Built(V, W1, done, old) /\ Extends(W1, W)
                  /\ Driven(gates) \subseteq Driven(old)
                  /\ \A i \in 1 .. n - 1 :
                        /\ Literal(cube, literals[i]) \in Driven(old)
                        /\ W1[Literal(cube, literals[i])] = LiteralTable(cube, literals[i])
    BY <1>4 DEF LiteralsRight
  <2>2. f[n] = EmitLiteral(old, cube, x) /\ x \in Inputs
    BY <1>1, <1>2
  <2>3. \A i \in 1 .. n : i \in 1 .. n - 1 \/ literals[i] = x
    BY <1>1
  <2> HIDE DEF x, old
  <2>4. PICK W2 : /\ Built(V, W2, done, f[n]) /\ Extends(W2, W1)
                  /\ Driven(old) \subseteq Driven(f[n])
                  /\ Literal(cube, x) \in Driven(f[n])
                  /\ W2[Literal(cube, x)] = LiteralTable(cube, x)
    BY <2>1, <2>2, EmitLiteralIsSound
  <2>5. Driven(old) \subseteq DOMAIN W1
    BY <2>1, DrivenKnown
  <2>6. Extends(W2, W) /\ Driven(gates) \subseteq Driven(f[n])
    BY <2>1, <2>4 DEF Extends
  <2>7. \A i \in 1 .. n :
           /\ Literal(cube, literals[i]) \in Driven(f[n])
           /\ W2[Literal(cube, literals[i])] = LiteralTable(cube, literals[i])
    BY <2>1, <2>3, <2>4, <2>5 DEF Extends
  <2>8. LiteralsRight(V, W, done, gates, f[n], cube, literals, n)
    BY <2>4, <2>6, <2>7 DEF LiteralsRight
  <2>9. n \in 0 .. N
    BY <1>1
  <2> QED
    BY <2>8, <2>9
<1>5. \A n \in 0 .. N : n \in Good
  <2> HIDE DEF Good
  <2> QED
    BY <1>1, <1>3, <1>4, Reaches
<1>6. LiteralsRight(V, W, done, gates, f[N], cube, literals, N)
  BY <1>1, <1>5
<1> QED
  BY <1>2, <1>6 DEF N

WellCube(cube) ==
    cube.value \subseteq cube.care /\ cube.care \subseteq Inputs /\ cube.care # {}

\* A cube's net is true where the cube covers.
LEMMA EmitCubeIsSound ==
    ASSUME NEW V, NewPairNames(V), NEW W, NEW done, done \subseteq DOMAIN V,
           NEW gates, Built(V, W, done, gates), NEW cube, WellCube(cube),
           NEW r, r = EmitCube(gates, cube)
    PROVE  Yields(V, W, done, gates, r, Covered(cube))
<1> DEFINE literals == SetToSeq(cube.care)
           more == Inverted(gates, cube, literals)
           nets == [i \in DOMAIN literals |-> Literal(cube, literals[i])]
           N    == Len(literals)
<1>1. r = Combine(more, "AND", nets)
  BY DEF EmitCube, Inverted
<1>2. IsFiniteSet(cube.care)
  BY InputsAssumption, FS_Subset DEF WellCube
<1>3. /\ IsSeq(literals) /\ ToSet(literals) = cube.care /\ N \in Nat
      /\ DOMAIN literals = 1 .. N /\ N = Cardinality(cube.care)
  BY <1>2, Enumerated
<1>4. N # 0
  BY <1>2, <1>3, FS_EmptySet DEF WellCube
<1> HIDE DEF literals
<1>5. (\A i \in 1 .. N : literals[i] \in cube.care)
      /\ \A x \in cube.care : \E i \in 1 .. N : x = literals[i]
  BY <1>3, SeqElements
<1>6. LiteralsRight(V, W, done, gates, more, cube, literals, N)
  <2>1. ToSet(literals) \subseteq Inputs
    BY <1>3 DEF WellCube
  <2> QED
    BY <1>3, <2>1, LiteralsAreSound
<1> HIDE DEF more
<1>7. PICK W1 : /\ Built(V, W1, done, more) /\ Extends(W1, W)
                /\ Driven(gates) \subseteq Driven(more)
                /\ \A i \in 1 .. N :
                      /\ Literal(cube, literals[i]) \in Driven(more)
                      /\ W1[Literal(cube, literals[i])] = LiteralTable(cube, literals[i])
  BY <1>6 DEF LiteralsRight
<1>8. DOMAIN nets = 1 .. N /\ \A i \in 1 .. N : nets[i] = Literal(cube, literals[i])
  BY <1>3
<1>9. IsSeq(nets) /\ Len(nets) = N /\ ToSet(nets) \subseteq Driven(more)
  <2>1. nets = [i \in 1 .. N |-> nets[i]] /\ \A i \in 1 .. N : nets[i] \in ToSet(nets)
    BY <1>3, <1>8 DEF ToSet
  <2> HIDE DEF nets, N
  <2>2. IsSeq(nets) /\ Len(nets) = N
    BY <1>3, <2>1 DEF IsSeq
  <2>3. ToSet(nets) \subseteq Driven(more)
    BY <1>7, <1>8 DEF ToSet
  <2> QED
    BY <2>2, <2>3
<1>10. Folded("AND", W1, nets, N) = Covered(cube)
  <2>1. Folded("AND", W1, nets, N) =
          {v \in Assignments : \A i \in 1 .. N : v \in LiteralTable(cube, literals[i])}
    BY <1>7, <1>8 DEF Folded
  <2>2. ASSUME NEW v \in Assignments
        PROVE  (\A i \in 1 .. N : v \in LiteralTable(cube, literals[i]))
                 <=> v \cap cube.care = cube.value
    <3>1. (\A i \in 1 .. N : v \in LiteralTable(cube, literals[i]))
            <=> \A x \in cube.care : v \in LiteralTable(cube, x)
      BY <1>5
    <3>2. (\A x \in cube.care : v \in LiteralTable(cube, x))
            <=> \A x \in cube.care : (x \in v <=> x \in cube.value)
      BY DEF LiteralTable
    <3>3. (\A x \in cube.care : (x \in v <=> x \in cube.value))
            <=> v \cap cube.care = cube.value
      BY DEF WellCube
    <3> QED
      BY <3>1, <3>2, <3>3
  <2> QED
    BY <2>1, <2>2 DEF Covered
<1> HIDE DEF nets, N
<1>11. Yields(V, W1, done, more, r, Folded("AND", W1, nets, Len(nets)))
  <2>1. "AND" \in {"AND", "OR"} /\ Len(nets) # 0
    BY <1>4, <1>9
  <2> QED
    BY <1>1, <1>7, <1>9, <2>1, CombineIsSound
<1>12. PICK W2 : /\ Built(V, W2, done, r.gates) /\ Extends(W2, W1)
                 /\ Driven(more) \subseteq Driven(r.gates) /\ r.net \in Driven(r.gates)
                 /\ W2[r.net] = Covered(cube)
  BY <1>9, <1>10, <1>11 DEF Yields
<1>13. Extends(W2, W)
  BY <1>7, <1>12 DEF Extends
<1> QED
  BY <1>7, <1>12, <1>13 DEF Yields

(***************************************************************************)
(* The sums that minimisation may choose.                                  *)
(***************************************************************************)
WellSum(sum, table) ==
    /\ IsFiniteSet(sum.cover) /\ sum.cover # {} /\ \A q \in sum.cover : WellCube(q)
    /\ UNION {Covered(q) : q \in sum.cover} =
         IF sum.complement THEN Assignments \ table ELSE table

\* There are finitely many cubes, over inputs.
LEMMA CubesAreFinite == IsFiniteSet(Cubes)
<1> DEFINE P == SUBSET Inputs
           f == [q \in Cubes |-> <<q.care, q.value>>]
<1>1. IsFiniteSet(P)
  BY InputsAssumption, FS_SUBSET
<1>2. IsFiniteSet(P \X P)
  BY <1>1, FS_Product
<1>3. ASSUME NEW q \in Cubes
      PROVE  q = [care |-> q.care, value |-> q.value] /\ <<q.care, q.value>> \in P \X P
  BY DEF Cubes
<1>4. ASSUME NEW q \in Cubes, NEW r \in Cubes, <<q.care, q.value>> = <<r.care, r.value>>
      PROVE  q = r
  <2>1. q.care = r.care /\ q.value = r.value
    BY <1>4
  <2> QED
    BY <1>3, <2>1
<1>5. f \in Injection(Cubes, P \X P)
  BY <1>3, <1>4 DEF Injection, IsInjective
<1> QED
  BY <1>2, <1>5, FS_Injection

LEMMA CubesAreOfInputs ==
    ASSUME NEW q \in Cubes
    PROVE  q.care \subseteq Inputs /\ q.value \subseteq q.care
  BY DEF Cubes

\* A minimum cover covers the table, with cubes.
LEMMA CoverIsOfCubes ==
    ASSUME NEW table, NEW cover \in MinimumCovers(table)
    PROVE  cover \subseteq Cubes /\ UNION {Covered(q) : q \in cover} = table
<1>1. /\ cover \in SUBSET PrimeImplicants(table)
      /\ UNION {Covered(q) : q \in cover} = table
  BY DEF MinimumCovers
<1>2. PrimeImplicants(table) \subseteq Cubes
  BY DEF PrimeImplicants
<1> QED
  BY <1>1, <1>2

\* A minimised sum is not empty, has no cube without literals, and covers the table or
\* its complement.
LEMMA SumsAreRight ==
    ASSUME NEW table \in SUBSET Assignments, NEW sum \in MinimizedSums(table)
    PROVE  WellSum(sum, table)
<1> DEFINE Wanted(complement) == IF complement THEN Assignments \ table ELSE table
           Sums(complement) ==
             {[cover |-> S, complement |-> complement] : S \in MinimumCovers(Wanted(complement))}
<1>1. table # {} /\ table # Assignments /\ \E complement : sum \in Sums(complement)
  BY DEF MinimizedSums
<1>2. PICK complement : sum \in Sums(complement)
  BY <1>1
<1>3. PICK S \in MinimumCovers(Wanted(complement)) :
        sum = [cover |-> S, complement |-> complement]
  BY <1>2
<1>4. sum.cover = S /\ sum.complement = complement
  BY <1>3
<1> DEFINE wanted == Wanted(complement)
<1>5. wanted # {} /\ wanted # Assignments
  BY <1>1
<1>6. wanted = IF sum.complement THEN Assignments \ table ELSE table
  BY <1>4
<1>7. S \subseteq Cubes /\ UNION {Covered(q) : q \in S} = wanted
  <2>1. S \in MinimumCovers(wanted)
    BY <1>3
  <2> HIDE DEF wanted
  <2> QED
    BY <2>1, CoverIsOfCubes
<1> HIDE DEF wanted, Wanted, Sums
<1>8. IsFiniteSet(S)
  BY <1>7, CubesAreFinite, FS_Subset
<1>9. S # {}
  BY <1>5, <1>7
<1>10. ASSUME NEW q \in S PROVE WellCube(q)
  <2>1. q.care \subseteq Inputs /\ q.value \subseteq q.care
    BY <1>7, CubesAreOfInputs
  <2>2. q.care # {}
    <3> SUFFICES ASSUME q.care = {} PROVE FALSE
      OBVIOUS
    <3>1. Covered(q) = Assignments
      BY <2>1 DEF Covered
    <3>2. Covered(q) \subseteq wanted /\ wanted \subseteq Assignments
      BY <1>6, <1>7
    <3> QED
      BY <1>5, <3>1, <3>2
  <2> QED
    BY <2>1, <2>2 DEF WellCube
<1> QED
  BY <1>4, <1>6, <1>7, <1>8, <1>9, <1>10 DEF WellSum

TermsRight(V, W, done, gates, acc, cubes, n) ==
    \E W2 : /\ Built(V, W2, done, acc.gates) /\ Extends(W2, W)
            /\ Driven(gates) \subseteq Driven(acc.gates)
            /\ IsSeq(acc.nets) /\ Len(acc.nets) = n
            /\ \A i \in 1 .. n : /\ acc.nets[i] \in Driven(acc.gates)
                                 /\ W2[acc.nets[i]] = Covered(cubes[i])

\* The terms of a sum.
LEMMA TermsAreSound ==
    ASSUME NEW V, NewPairNames(V), NEW W, NEW done, done \subseteq DOMAIN V,
           NEW gates, Built(V, W, done, gates),
           NEW cubes, IsSeq(cubes), \A q \in ToSet(cubes) : WellCube(q),
           NEW end, end = TermsOf(gates, cubes)
    PROVE  TermsRight(V, W, done, gates, end, cubes, Len(cubes))
<1> DEFINE N == Len(cubes)
<1>1. N \in Nat /\ \A i \in 1 .. N : WellCube(cubes[i])
  BY SeqElements
<1>2. PICK f : /\ f[0] = [gates |-> gates, nets |-> << >>]
               /\ \A n \in 1 .. N : f[n] = EmitTerm(f[n - 1], cubes[n])
               /\ end = f[N]
  <2>1. \E f : /\ f[0] = [gates |-> gates, nets |-> << >>]
               /\ \A n \in 1 .. Len(cubes) : f[n] = EmitTerm(f[n - 1], cubes[n])
               /\ TermsOf(gates, cubes) = f[Len(cubes)]
    BY <1>1, TermsRun
  <2> QED
    BY <2>1
<1> HIDE DEF N
<1> DEFINE Good == {n \in 0 .. N : TermsRight(V, W, done, gates, f[n], cubes, n)}
<1>3. 0 \in Good
  <2>1. Extends(W, W) /\ f[0].gates = gates /\ f[0].nets = << >>
    BY <1>2 DEF Extends
  <2>2. TermsRight(V, W, done, gates, f[0], cubes, 0)
    BY <2>1, NoElements DEF TermsRight
  <2> QED
    BY <1>1, <2>2
<1>4. ASSUME NEW n \in 1 .. N, n - 1 \in Good PROVE n \in Good
  <2> DEFINE acc  == f[n - 1]
             cube == cubes[n]
             term == EmitCube(acc.gates, cube)
             nets == Append(acc.nets, term.net)
  <2>1. PICK W1 : /\ Built(V, W1, done, acc.gates) /\ Extends(W1, W)
                  /\ Driven(gates) \subseteq Driven(acc.gates)
                  /\ IsSeq(acc.nets) /\ Len(acc.nets) = n - 1
                  /\ \A i \in 1 .. n - 1 : /\ acc.nets[i] \in Driven(acc.gates)
                                           /\ W1[acc.nets[i]] = Covered(cubes[i])
    BY <1>4 DEF TermsRight
  <2>2. f[n].gates = term.gates /\ f[n].nets = nets
    <3>1. f[n] = EmitTerm(acc, cube)
      BY <1>2
    <3> HIDE DEF acc, cube
    <3> QED
      BY <3>1 DEF EmitTerm
  <2>3. WellCube(cube) /\ n \in 0 .. N
    BY <1>1
  <2>4. term = EmitCube(acc.gates, cube)
    OBVIOUS
  <2>5. cubes[n] = cube /\ \A i \in 1 .. n : i \in 1 .. n - 1 \/ i = n
    BY <1>1
  <2>6. n - 1 + 1 = n
    BY <1>1
  <2> HIDE DEF acc, cube, term
  <2>7. Yields(V, W1, done, acc.gates, term, Covered(cube))
    BY <2>1, <2>3, <2>4, EmitCubeIsSound
  <2>8. PICK W2 : /\ Built(V, W2, done, term.gates) /\ Extends(W2, W1)
                  /\ Driven(acc.gates) \subseteq Driven(term.gates)
                  /\ term.net \in Driven(term.gates) /\ W2[term.net] = Covered(cube)
    BY <2>7 DEF Yields
  <2>9. /\ IsSeq(nets) /\ Len(nets) = n /\ nets[n] = term.net
        /\ \A i \in 1 .. n - 1 : nets[i] = acc.nets[i]
    <3> DEFINE t == term.net
               s == acc.nets
    <3> HIDE DEF t, s
    <3>1. /\ IsSeq(Append(s, t)) /\ Len(Append(s, t)) = Len(s) + 1
          /\ Append(s, t)[Len(s) + 1] = t
          /\ \A i \in 1 .. Len(s) : Append(s, t)[i] = s[i]
      BY <2>1, AppendElements DEF s
    <3>2. Len(s) = n - 1 /\ nets = Append(s, t)
      BY <2>1 DEF s, t
    <3> QED
      BY <2>6, <3>1, <3>2 DEF s, t
  <2> HIDE DEF nets
  <2>10. Driven(acc.gates) \subseteq DOMAIN W1
    BY <2>1, DrivenKnown
  <2>11. Extends(W2, W) /\ Driven(gates) \subseteq Driven(term.gates)
    BY <2>1, <2>8 DEF Extends
  <2>12. \A i \in 1 .. n : nets[i] \in Driven(term.gates) /\ W2[nets[i]] = Covered(cubes[i])
    BY <2>1, <2>5, <2>8, <2>9, <2>10 DEF Extends
  <2>13. TermsRight(V, W, done, gates, f[n], cubes, n)
    BY <2>2, <2>8, <2>9, <2>11, <2>12 DEF TermsRight
  <2> QED
    BY <2>3, <2>13
<1>5. \A n \in 0 .. N : n \in Good
  <2> HIDE DEF Good
  <2> QED
    BY <1>1, <1>3, <1>4, Reaches
<1>6. TermsRight(V, W, done, gates, f[N], cubes, N)
  BY <1>1, <1>5
<1> QED
  BY <1>2, <1>6 DEF N

\* A sum's net computes the table it was minimised from.
LEMMA EmitSumIsSound ==
    ASSUME NEW V, NewPairNames(V), NEW W, NEW done, done \subseteq DOMAIN V,
           NEW gates, Built(V, W, done, gates),
           NEW table \in SUBSET Assignments, NEW sum, WellSum(sum, table),
           NEW r, r = EmitSum(gates, sum)
    PROVE  Yields(V, W, done, gates, r, table)
<1> DEFINE cubes  == SetToSeq(sum.cover)
           terms  == TermsOf(gates, cubes)
           N      == Len(cubes)
           wanted == IF sum.complement THEN Assignments \ table ELSE table
           result == Combine(terms.gates, "OR", terms.nets)
<1>1. r = IF sum.complement THEN EmitOnce(result.gates, "NOT", {result.net}) ELSE result
  BY DEF EmitSum, TermsOf
<1>2. /\ IsSeq(cubes) /\ ToSet(cubes) = sum.cover /\ N \in Nat
      /\ DOMAIN cubes = 1 .. N /\ N = Cardinality(sum.cover)
  BY Enumerated DEF WellSum
<1>3. N # 0
  BY <1>2, FS_EmptySet DEF WellSum
<1>4. UNION {Covered(q) : q \in sum.cover} = wanted
  BY DEF WellSum
<1> HIDE DEF cubes
<1>5. /\ \A i \in 1 .. N : cubes[i] \in sum.cover
      /\ \A q \in sum.cover : \E i \in 1 .. N : q = cubes[i]
  BY <1>2, SeqElements
<1>6. TermsRight(V, W, done, gates, terms, cubes, N)
  <2>1. \A q \in ToSet(cubes) : WellCube(q)
    BY <1>2 DEF WellSum
  <2> QED
    BY <1>2, <2>1, TermsAreSound
<1> HIDE DEF terms, N
<1>7. PICK W1 : /\ Built(V, W1, done, terms.gates) /\ Extends(W1, W)
                /\ Driven(gates) \subseteq Driven(terms.gates)
                /\ IsSeq(terms.nets) /\ Len(terms.nets) = N
                /\ \A i \in 1 .. N : /\ terms.nets[i] \in Driven(terms.gates)
                                     /\ W1[terms.nets[i]] = Covered(cubes[i])
  BY <1>6 DEF TermsRight
<1>8. ToSet(terms.nets) \subseteq Driven(terms.gates)
  BY <1>7, SeqElements
<1>9. Folded("OR", W1, terms.nets, N) = wanted
  <2>1. Folded("OR", W1, terms.nets, N) =
          {v \in Assignments : \E i \in 1 .. N : v \in Covered(cubes[i])}
    BY <1>7 DEF Folded
  <2>2. \A q : Covered(q) \subseteq Assignments
    BY DEF Covered
  <2>3. UNION {Covered(q) : q \in sum.cover} =
          {v \in Assignments : \E q \in sum.cover : v \in Covered(q)}
    BY <2>2
  <2>4. \A v : (\E q \in sum.cover : v \in Covered(q)) <=> \E i \in 1 .. N : v \in Covered(cubes[i])
    BY <1>5
  <2> HIDE DEF wanted
  <2> QED
    BY <1>4, <2>1, <2>3, <2>4
<1>10. Yields(V, W1, done, terms.gates, result, Folded("OR", W1, terms.nets, Len(terms.nets)))
  <2> DEFINE kind == "OR"
  <2>1. kind \in {"AND", "OR"} /\ Len(terms.nets) # 0
    BY <1>3, <1>7
  <2>2. result = Combine(terms.gates, kind, terms.nets)
    OBVIOUS
  <2> HIDE DEF kind, result
  <2>3. Yields(V, W1, done, terms.gates, result, Folded(kind, W1, terms.nets, Len(terms.nets)))
    BY <1>7, <1>8, <2>1, <2>2, CombineIsSound
  <2> QED
    BY <2>3 DEF kind
<1> HIDE DEF result, wanted
<1>11. PICK W2 : /\ Built(V, W2, done, result.gates) /\ Extends(W2, W1)
                 /\ Driven(terms.gates) \subseteq Driven(result.gates)
                 /\ result.net \in Driven(result.gates) /\ W2[result.net] = wanted
  BY <1>7, <1>9, <1>10 DEF Yields
<1>12. Extends(W2, W) /\ Driven(gates) \subseteq Driven(result.gates)
  BY <1>7, <1>11 DEF Extends
<1>13. CASE ~sum.complement
  BY <1>1, <1>11, <1>12, <1>13 DEF Yields, wanted
<1>14. CASE sum.complement
  <2> DEFINE S == {result.net}
             kind == "NOT"
  <2>1. r = EmitOnce(result.gates, kind, S)
    BY <1>1, <1>14
  <2>2. S \subseteq Driven(result.gates) /\ IsPair(S) /\ IsSingle(S)
    BY <1>11, TheOnly DEF IsPair
  <2>3. TablesOf(W2, S) = {wanted}
    BY <1>11 DEF TablesOf
  <2>4. Computes(kind, {wanted}) = table
    <3>1. wanted = Assignments \ table /\ wanted \in SUBSET Assignments
      BY <1>14 DEF wanted
    <3>2. Computes("NOT", {wanted}) = Assignments \ wanted
      BY <3>1, OneInput
    <3> QED
      BY <3>1, <3>2
  <2>5. kind \in Simple
    BY DEF Simple
  <2> HIDE DEF S, kind
  <2>6. EmitsRight(V, W2, done, result.gates, kind, S, EmitOnce(result.gates, kind, S))
    BY <1>11, <2>2, <2>5, EmitOnceIsSound
  <2>7. PICK W3 : /\ Built(V, W3, done, r.gates) /\ Extends(W3, W2)
                  /\ Driven(result.gates) \subseteq Driven(r.gates)
                  /\ r.net \in Driven(r.gates)
                  /\ W3[r.net] = Computes(kind, TablesOf(W2, S))
    BY <2>1, <2>6 DEF EmitsRight
  <2>8. W3[r.net] = table
    BY <2>3, <2>4, <2>7
  <2>9. Extends(W3, W) /\ Driven(gates) \subseteq Driven(r.gates)
    BY <1>12, <2>7 DEF Extends
  <2> QED
    BY <2>7, <2>8, <2>9 DEF Yields
<1> QED
  BY <1>13, <1>14

\* An output is a buffer of its sum.
LEMMA EmitOutputIsSound ==
    ASSUME NEW V, NewPairNames(V), NEW W, NEW done, done \subseteq DOMAIN V,
           NEW gates, Built(V, W, done, gates),
           NEW o \in DOMAIN V, o \notin Inputs, o \notin done,
           NEW sum, WellSum(sum, V[o]),
           NEW more, more = EmitOutput(gates, o, sum)
    PROVE  /\ \E W2 : Built(V, W2, done \cup {o}, more)
           /\ Driven(gates) \cup {o} \subseteq Driven(more)
<1> DEFINE r == EmitSum(gates, sum)
           net == r.net
           g == Gate("BUFFER", {net}, o)
<1>1. more = Append(r.gates, g)
  BY DEF EmitOutput
<1>2. g.kind = "BUFFER" /\ g.inputs = {net} /\ g.output = o
  BY KeptFields
<1> HIDE DEF g
<1>3. V[o] \in SUBSET Assignments
  BY DEF Built, Extends, Valuation
<1>4. Yields(V, W, done, gates, r, V[o])
  BY <1>3, EmitSumIsSound
<1> HIDE DEF r
<1>5. PICK W2 : /\ Built(V, W2, done, r.gates) /\ Extends(W2, W)
                /\ Driven(gates) \subseteq Driven(r.gates) /\ net \in Driven(r.gates)
                /\ W2[net] = V[o]
  BY <1>4 DEF Yields
<1> HIDE DEF net
<1>6. o \in DOMAIN W2 /\ W2[o] = V[o] /\ net \in DOMAIN W2
  BY <1>5, DrivenKnown DEF Built, Extends
<1>7. Holds(W2, g)
  <2>1. TablesOf(W2, {net}) = {V[o]}
    BY <1>5 DEF TablesOf
  <2>2. Computes("BUFFER", {V[o]}) = V[o]
    BY <1>3, OneInput
  <2> QED
    BY <1>2, <1>6, <2>1, <2>2 DEF Holds
<1>8. WellMade(g)
  <2>1. IsSingle({net}) /\ \E s, t \in {net} : {net} = {s, t}
    BY TheOnly
  <2>2. IsSingle(g.inputs) /\ \E s, t \in g.inputs : g.inputs = {s, t}
    BY <1>2, <2>1
  <2> QED
    BY <1>2, <2>2 DEF WellMade, Kinds
<1>9. \A h \in ToSet(r.gates) : h.output # o
  BY <1>5 DEF Built, NewPairNames
<1>10. /\ IsSeq(more) /\ ToSet(more) = ToSet(r.gates) \cup {g}
       /\ Outputs(more) = Outputs(r.gates) \cup {o} /\ InDependencyOrder(more)
  <2>1. /\ IsSeq(r.gates) /\ InDependencyOrder(r.gates)
        /\ g.inputs \subseteq Inputs \cup Outputs(r.gates)
    BY <1>2, <1>5 DEF Built, Driven
  <2>2. /\ IsSeq(Append(r.gates, g)) /\ ToSet(Append(r.gates, g)) = ToSet(r.gates) \cup {g}
    BY <2>1, AppendElements
  <2>3. /\ InDependencyOrder(Append(r.gates, g))
        /\ Outputs(Append(r.gates, g)) = Outputs(r.gates) \cup {g.output}
    BY <2>1, OrderedAppend, OutputsGrow
  <2> QED
    BY <1>1, <1>2, <2>2, <2>3
<1>11. UniqueDrivers(more)
  BY <1>2, <1>5, <1>9, <1>10 DEF Built, UniqueDrivers
<1>12. \A h \in ToSet(more) :
         /\ Holds(W2, h) /\ WellMade(h)
         /\ \/ h.kind = "BUFFER" /\ h.output \in done \cup {o}
            \/ h.kind # "BUFFER" /\ h.output = <<h.kind, h.inputs>>
  BY <1>2, <1>5, <1>7, <1>8, <1>10 DEF Built
<1>13. \A s \in DOMAIN W2 : s \in DOMAIN V \/ \E h \in ToSet(more) : s = h.output
  BY <1>5, <1>10 DEF Built
<1>14. Built(V, W2, done \cup {o}, more)
  BY <1>5, <1>10, <1>11, <1>12, <1>13 DEF Built
<1>15. Driven(gates) \cup {o} \subseteq Driven(more)
  BY <1>5, <1>10 DEF Driven
<1> QED
  BY <1>14, <1>15

\* BuildTruthTableCandidate (LogicOptimization.py): it is in order, and every
\* output of it computes the table that its sum was minimised from.
THEOREM CandidateIsSound ==
    ASSUME NEW V, Valuation(V), NewPairNames(V),
           NEW outputs, IsFiniteSet(outputs), outputs \subseteq DOMAIN V,
           outputs \cap Inputs = {},
           NEW sums, \A o \in outputs : sums[o] \in MinimizedSums(V[o]),
           NEW candidate, candidate = BuildTruthTableCandidate(outputs, sums)
    PROVE  /\ \E W : Built(V, W, outputs, candidate.gates)
           /\ outputs \subseteq Driven(candidate.gates)
<1> DEFINE order == SetToSeq(outputs)
           N == Len(order)
<1>1. candidate.gates = OutputsOf(sums, order)
  BY DEF BuildTruthTableCandidate, OutputsOf
<1>2. /\ IsSeq(order) /\ ToSet(order) = outputs /\ N \in Nat /\ DOMAIN order = 1 .. N
      /\ \A i, j \in 1 .. N : order[i] = order[j] => i = j
  BY Enumerated
<1> HIDE DEF order
<1>3. PICK f : /\ f[0] = << >>
               /\ \A n \in 1 .. N : f[n] = EmitOutput(f[n - 1], order[n], sums[order[n]])
               /\ candidate.gates = f[N]
  <2>1. \E f : /\ f[0] = << >>
               /\ \A n \in 1 .. Len(order) :
                     f[n] = EmitOutput(f[n - 1], order[n], sums[order[n]])
               /\ OutputsOf(sums, order) = f[Len(order)]
    BY <1>2, OutputsRun
  <2> QED
    BY <1>1, <2>1
<1>4. \A i \in 1 .. N : order[i] \in outputs
  BY <1>2, SeqElements
<1> HIDE DEF N
<1> DEFINE Done(n) == {order[i] : i \in 1 .. n}
           Good == {n \in 0 .. N : /\ \E W : Built(V, W, Done(n), f[n])
                                   /\ Done(n) \subseteq Driven(f[n])}
<1>5. 0 \in Good
  <2>1. Done(0) = {}
    OBVIOUS
  <2>2. Built(V, V, {}, << >>)
    BY NoElements DEF Built, Extends, UniqueDrivers, InDependencyOrder
  <2>3. (\E W : Built(V, W, Done(0), f[0])) /\ Done(0) \subseteq Driven(f[0])
    <3> HIDE DEF Done
    <3> QED
      BY <1>3, <2>1, <2>2
  <2>4. 0 \in 0 .. N
    BY <1>2
  <2> HIDE DEF Done
  <2> QED
    BY <2>3, <2>4
<1>6. ASSUME NEW n \in 1 .. N, n - 1 \in Good PROVE n \in Good
  <2> DEFINE o    == order[n]
             old  == f[n - 1]
             done == Done(n - 1)
             sum  == sums[o]
  <2>1. PICK W : Built(V, W, done, old)
    BY <1>6
  <2>2. done \subseteq Driven(old)
    BY <1>6
  <2>3. o \in outputs /\ Done(n) = done \cup {o} /\ n \in 0 .. N
    BY <1>2, <1>4
  <2>4. o \notin done /\ done \subseteq outputs
    BY <1>2, <1>4
  <2>5. f[n] = EmitOutput(old, o, sum)
    BY <1>3
  <2>6. sum \in MinimizedSums(V[o])
    BY <2>3
  <2> HIDE DEF o, old, done, Done, sum
  <2>7. V[o] \in SUBSET Assignments /\ o \in DOMAIN V /\ o \notin Inputs /\ done \subseteq DOMAIN V
    BY <2>3, <2>4 DEF Valuation
  <2>8. WellSum(sum, V[o])
    <3> DEFINE table == V[o]
    <3> HIDE DEF table
    <3>1. WellSum(sum, table)
      BY <2>6, <2>7, SumsAreRight DEF table
    <3> QED
      BY <3>1 DEF table
  <2>9. /\ \E W2 : Built(V, W2, done \cup {o}, f[n])
        /\ Driven(old) \cup {o} \subseteq Driven(f[n])
    BY <2>1, <2>4, <2>5, <2>7, <2>8, EmitOutputIsSound
  <2>10. (\E W2 : Built(V, W2, Done(n), f[n])) /\ Done(n) \subseteq Driven(f[n])
    BY <2>2, <2>3, <2>9
  <2> QED
    BY <2>3, <2>10
<1>7. \A n \in 0 .. N : n \in Good
  <2> HIDE DEF Good
  <2> QED
    BY <1>2, <1>5, <1>6, Reaches
<1>8. Done(N) = outputs
  BY <1>2, <1>4, SeqElements DEF N
<1>9. N \in Good
  <2> HIDE DEF Good
  <2> QED
    BY <1>2, <1>7
<1> QED
  BY <1>3, <1>8, <1>9

(***************************************************************************)
(* OptimizeLogic as a whole.                                               *)
(***************************************************************************)
\* No signal of a source has the name of a net that synthesis adds.
NewNames(signals) ==
    Unnamed \notin signals /\ (\A S : <<S>> \notin signals) /\ \A k, S : <<k, S>> \notin signals

\* Nothing but inputs and outputs of gates is evaluated.
LEMMA EvaluationIsOfSignals ==
    ASSUME NEW gates, IsSeq(gates)
    PROVE  DOMAIN EvaluateLogicModule(gates) \subseteq Inputs \cup Outputs(gates)
<1> DEFINE visits == Len(gates) * Len(gates)
           signals == Inputs \cup Outputs(gates)
<1>1. visits \in Nat
  BY Visits
<1>2. PICK f : /\ f[0] = InputTables
               /\ \A n \in 1 .. visits :
                    f[n] = Evaluate(f[n - 1], gates[((n - 1) % Len(gates)) + 1])
               /\ EvaluateLogicModule(gates) = f[visits]
  BY <1>1, EvaluateRun
<1> DEFINE Good == {n \in 0 .. visits : DOMAIN f[n] \subseteq signals}
<1>3. 0 \in Good
  BY <1>1, <1>2 DEF InputTables
<1>4. ASSUME NEW n \in 1 .. visits, n - 1 \in Good PROVE n \in Good
  <2> DEFINE g == gates[((n - 1) % Len(gates)) + 1]
             known == f[n - 1]
  <2>1. g.output \in signals
    BY Visited, SeqElements DEF Outputs
  <2>2. f[n] = Evaluate(known, g) /\ DOMAIN known \subseteq signals
    BY <1>2, <1>4
  <2>3. n \in 0 .. visits
    BY <1>1
  <2> HIDE DEF g, known, signals, visits
  <2>4. CASE g.inputs \subseteq DOMAIN known
    <3>1. DOMAIN Evaluate(known, g) = DOMAIN known \cup {g.output}
      BY <2>4, EvaluateKnown
    <3> QED
      BY <2>1, <2>2, <2>3, <3>1
  <2>5. CASE ~(g.inputs \subseteq DOMAIN known)
    BY <2>2, <2>3, <2>5, EvaluatePending
  <2> QED
    BY <2>4, <2>5
<1>5. \A n \in 0 .. visits : n \in Good
  <2> HIDE DEF Good, visits
  <2> QED
    BY <1>1, <1>3, <1>4, Reaches
<1>6. visits \in Good
  BY <1>1, <1>5
<1> QED
  BY <1>2, <1>6

\* The evaluation of a combinational source is its meaning.
LEMMA SourceHasMeaning ==
    ASSUME NEW source, IsCombinational(source), NEW V, V = EvaluateLogicModule(source.gates)
    PROVE  /\ Meaning(V, source.gates) /\ Drivers(source.gates)
           /\ DOMAIN V \subseteq Inputs \cup Outputs(source.gates)
           /\ source.outputs \subseteq DOMAIN V
           /\ source.outputs \cap Inputs = {}
           /\ IsFiniteSet(source.outputs) /\ source.outputs \subseteq Outputs(source.gates)
<1>1. /\ IsSeq(source.gates) /\ Drivers(source.gates)
      /\ source.outputs \subseteq Outputs(source.gates) /\ IsFiniteSet(source.outputs)
      /\ Outputs(source.gates) \subseteq DOMAIN V
  BY DEF IsCombinational, IsSeq, Drivers
<1>2. WellFormed(source.gates)
  <2> SUFFICES ASSUME NEW g \in ToSet(source.gates)
               PROVE  /\ g.kind \in Kinds /\ g.output \notin Inputs
                      /\ g.kind \in {"NOT", "BUFFER"} => IsSingle(g.inputs)
                      /\ \E s, t \in g.inputs : g.inputs = {s, t}
    BY DEF WellFormed
  <2>1. /\ \/ IsBinary(g.kind)
           \/ g.kind \in {"NOT", "BUFFER"} /\ IsSingle(g.inputs)
        /\ \E s, t \in g.inputs : g.inputs = {s, t}
        /\ g.output \notin Inputs
    BY DEF IsCombinational
  <2>2. IsBinary(g.kind) => g.kind \in Kinds /\ g.kind \notin {"NOT", "BUFFER"}
    BY DEF IsBinary, Kinds
  <2>3. g.kind \in {"NOT", "BUFFER"} => g.kind \in Kinds
    BY DEF Kinds
  <2> QED
    BY <2>1, <2>2, <2>3
<1>3. UniqueDrivers(source.gates)
  BY <1>1, DriversAreUnique
<1>4. Valuation(V) /\ \A g \in ToSet(source.gates) : Holds(V, g)
  BY <1>1, <1>2, <1>3, EvaluationHolds
<1>5. Meaning(V, source.gates)
  BY <1>1, <1>2, <1>3, <1>4 DEF Meaning
<1>6. source.outputs \cap Inputs = {}
  BY <1>1, <1>2, OutputsAre DEF WellFormed
<1> QED
  BY <1>1, <1>5, <1>6, EvaluationIsOfSignals

\* What a netlist made from a source has to keep: a valuation that holds for its
\* gates, says the same of every signal of the source, and leaves free the
\* names of the nets that ToNandOnly adds.
Preserves(V, W, source, netlist) ==
    /\ Meaning(W, netlist.gates) /\ Extends(W, V) /\ NewNetNames(W)
    /\ netlist.outputs = source.outputs
    /\ InDependencyOrder(source.gates) =>
         /\ InDependencyOrder(netlist.gates)
         /\ source.outputs \subseteq Inputs \cup Outputs(netlist.gates)

\* A netlist rebuilt from the tables of the outputs keeps the meaning.
LEMMA RebuiltIsSound ==
    ASSUME NEW V, NEW source, Valuation(V), NewNames(DOMAIN V),
           IsFiniteSet(source.outputs), source.outputs \subseteq DOMAIN V,
           source.outputs \cap Inputs = {},
           NEW sums, \A o \in source.outputs : sums[o] \in MinimizedSums(V[o]),
           NEW candidate, candidate = BuildTruthTableCandidate(source.outputs, sums)
    PROVE  \E W : Preserves(V, W, source, candidate)
<1>1. NewPairNames(V) /\ NewNetNames(V)
  BY DEF NewNames, NewPairNames, NewNetNames
<1>2. PICK W : Built(V, W, source.outputs, candidate.gates)
  BY <1>1, CandidateIsSound
<1>3. source.outputs \subseteq Driven(candidate.gates)
  BY <1>1, CandidateIsSound
<1>4. candidate.outputs = source.outputs
  BY DEF BuildTruthTableCandidate
<1>5. Meaning(W, candidate.gates)
  <2>1. WellFormed(candidate.gates)
    BY <1>2 DEF Built, WellMade, WellFormed
  <2> QED
    BY <1>2, <2>1 DEF Built, Meaning
<1>6. NewNetNames(W)
  <2>1. ASSUME NEW x, x = Unnamed \/ \E S : x = <<S>> PROVE x \notin DOMAIN W
    <3>1. x \notin DOMAIN V
      BY <1>1, <2>1 DEF NewNetNames
    <3>2. ASSUME NEW g \in ToSet(candidate.gates) PROVE x # g.output
      <4>1. \/ g.output \in source.outputs
            \/ g.output = <<g.kind, g.inputs>>
        BY <1>2 DEF Built
      <4>2. x # <<g.kind, g.inputs>>
        BY <2>1 DEF Unnamed
      <4> QED
        BY <3>1, <4>1, <4>2
    <3> QED
      BY <1>2, <3>1, <3>2 DEF Built
  <2> QED
    BY <2>1 DEF NewNetNames
<1>7. Extends(W, V) /\ InDependencyOrder(candidate.gates)
  BY <1>2 DEF Built
<1> QED
  BY <1>3, <1>4, <1>5, <1>6, <1>7 DEF Preserves, Driven

\* OptimizeLogic: whichever netlist it returns, and whatever minimum cover it
\* met first, every signal of the source means in it what it meant before.
THEOREM OptimizationIsSound ==
    ASSUME NEW source, IsCombinational(source),
           NewNames(Inputs \cup Outputs(source.gates)),
           NEW limit, Optimizable(source, limit),
           NEW netlist \in OptimizeLogic(source, limit),
           NEW V, V = EvaluateLogicModule(source.gates)
    PROVE  \E W : Preserves(V, W, source, netlist)
<1> DEFINE structural == StructurallySimplifyLogic(source)
           tables  == EvaluateLogicModule(structural.gates)
           outputs == source.outputs
<1>1. /\ Meaning(V, source.gates) /\ Drivers(source.gates)
      /\ DOMAIN V \subseteq Inputs \cup Outputs(source.gates)
      /\ outputs \subseteq DOMAIN V /\ outputs \cap Inputs = {}
      /\ IsFiniteSet(outputs) /\ outputs \subseteq Outputs(source.gates)
  BY SourceHasMeaning
<1>2. NewNames(DOMAIN V)
  BY <1>1 DEF NewNames
<1>3. NewNetNames(V)
  BY <1>2 DEF NewNames, NewNetNames
<1>4. /\ Meaning(V, structural.gates) /\ structural.outputs = outputs
      /\ InDependencyOrder(source.gates) =>
           /\ InDependencyOrder(structural.gates)
           /\ outputs \subseteq Inputs \cup Outputs(structural.gates)
  BY <1>1, SimplificationIsSound
<1>5. Preserves(V, V, source, structural)
  BY <1>3, <1>4 DEF Preserves, Extends
<1>6. CASE netlist = structural
  BY <1>5, <1>6
<1>7. CASE netlist # structural
  <2>1. ~(Cardinality(Inputs) > limit)
        /\ \E f : /\ \A o \in outputs : f[o] \in MinimizedSums(tables[o])
                  /\ netlist = BuildTruthTableCandidate(outputs, f)
    BY <1>7 DEF OptimizeLogic
  <2>2. PICK f : /\ \A o \in outputs : f[o] \in MinimizedSums(tables[o])
                 /\ netlist = BuildTruthTableCandidate(outputs, f)
    BY <2>1
  <2>3. /\ InDependencyOrder(structural.gates)
        /\ outputs \subseteq Inputs \cup Outputs(structural.gates)
    BY <2>1 DEF Optimizable
  <2>4. IsSeq(structural.gates) /\ Valuation(V)
        /\ \A g \in ToSet(structural.gates) : Holds(V, g)
    BY <1>4 DEF Meaning
  <2>5. outputs \subseteq DOMAIN tables
    BY <2>3, <2>4, EvaluationIsComplete
  <2>6. \A s \in DOMAIN tables : tables[s] = V[s]
    BY <2>4, EvaluationIsSound
  <2>7. \A o \in outputs : f[o] \in MinimizedSums(V[o])
    BY <2>2, <2>5, <2>6
  <2> QED
    BY <1>1, <1>2, <2>2, <2>4, <2>7, RebuiltIsSound
<1> QED
  BY <1>6, <1>7

\* Synthesis from parsed gates to the NAND module: what a lamp shows is what its
\* output computes in the source; and a source that is in order has a lamp for
\* every output that is not an AND merged into an OR.
THEOREM SynthesisIsSound ==
    ASSUME NEW source, IsCombinational(source),
           NewNames(Inputs \cup Outputs(source.gates)),
           NEW limit, Optimizable(source, limit),
           NEW netlist \in OptimizeLogic(source, limit),
           NEW asked, asked = EvaluateLogicModule(source.gates),
           NEW nand, nand = ToNandOnly(netlist),
           NEW made, made = EvaluateLogicModule(nand.gates),
           NEW o \in source.outputs
    PROVE  /\ nand.lamps[o] \in DOMAIN made => made[nand.lamps[o]] = asked[o]
           /\ InDependencyOrder(source.gates) /\ o \notin FusedAndOutputs(netlist.gates) =>
                nand.lamps[o] \in DOMAIN made
<1>1. PICK W : Preserves(asked, W, source, netlist)
  BY OptimizationIsSound
<1>2. o \in DOMAIN asked
  BY SourceHasMeaning
<1>3. /\ Meaning(W, netlist.gates) /\ NewNetNames(W) /\ netlist.outputs = source.outputs
      /\ o \in DOMAIN W /\ W[o] = asked[o]
  BY <1>1, <1>2 DEF Preserves, Extends
<1>4. ASSUME nand.lamps[o] \in DOMAIN made PROVE made[nand.lamps[o]] = asked[o]
  <2>1. o \in netlist.outputs
    BY <1>3
  <2>2. made[nand.lamps[o]] = W[o]
    BY <1>3, <1>4, <2>1, NandModuleIsSound
  <2> QED
    BY <1>3, <2>2
<1>5. ASSUME InDependencyOrder(source.gates), o \notin FusedAndOutputs(netlist.gates)
      PROVE  nand.lamps[o] \in DOMAIN made
  <2>1. /\ InDependencyOrder(netlist.gates)
        /\ o \in Inputs \cup Outputs(netlist.gates)
    BY <1>1, <1>5 DEF Preserves
  <2>2. IsSeq(netlist.gates) /\ UniqueDrivers(netlist.gates) /\ WellFormed(netlist.gates)
    BY <1>3 DEF Meaning
  <2>3. Unnamed \notin Outputs(netlist.gates)
    <3>1. \A g \in ToSet(netlist.gates) : g.output \in DOMAIN W
      BY <1>3 DEF Meaning, Holds
    <3> QED
      BY <1>3, <2>2, <3>1, OutputsAre DEF NewNetNames
  <2>4. o \in netlist.outputs
    BY <1>3
  <2> QED
    BY <1>5, <2>1, <2>2, <2>3, <2>4, LampsAreDriven
<1> QED
  BY <1>4, <1>5

(***************************************************************************)
(* The files.                                                              *)
(***************************************************************************)

SuccessNames == {"Schematic", "PhysicalDesign", "PhysicalFixture"}

Clean(place)       == \A name \in SuccessNames : files[place][name] = Absent
Complete(place, c) == \A name \in SuccessNames : files[place][name] = c
NoFailure(place)   == files[place]["RoutingFailure"] = Absent

Indices(c) ==
    pc[c] \in {"clearStale", "clearBeforePublish", "publish", "clearAfterError"} =>
        index[c] \in 1 .. 3

Outcomes(c) ==
    /\ pc[c] \notin {"promote", "ended"} => outcome[c] = "none"
    /\ pc[c] = "promote" => outcome[c] = "compiled"

\* The compile that works in a directory is the last to begin there.
Owned(c) ==
    /\ pc[c] \notin {"idle", "ended"} => last[directoryOf[c]] = c
    /\ pc[c] = "idle" => last[directoryOf[c]] # c

Unlinked(c) ==
    \A k \in 1 .. 3 : k < index[c] => files[directoryOf[c]][SuccessArtifacts[k]] = Absent

Moved(c) ==
    \A k \in 1 .. 3 : files[directoryOf[c]][PublishOrder[k]] = IF k < index[c] THEN c ELSE Absent

Progress(c) ==
    LET d == directoryOf[c] IN
    /\ pc[c] \in {"clearStale", "clearAfterError"} => Unlinked(c)
    /\ pc[c] = "clearAfterError" => files[d]["PhysicalDesign"] = Absent
    /\ pc[c] \in {"clearFailure", "frontend", "routing", "validation",
                  "clearBeforePublish", "stage"} => Clean(d)
    /\ pc[c] \in {"frontend", "routing", "validation", "clearBeforePublish", "stage",
                  "publish", "clearAfterError", "promote"} => NoFailure(d)
    /\ pc[c] = "publish" => Moved(c)
    /\ pc[c] = "promote" => Complete(d, c)
    /\ pc[c] = "ended" /\ last[d] = c =>
         /\ outcome[c] = "compiled" => Complete(d, c) /\ NoFailure(d)
         /\ outcome[c] = "failed" =>
              Clean(d) /\ files[d]["RoutingFailure"] \in {c, Absent}

\* In a directory of its own.
Sealed(c) ==
    LET d == directoryOf[c] IN
    HasOwnDirectory(c) =>
        /\ pc[c] \in {"idle", "clearStale"} => Clean(d)
        /\ files[d]["PhysicalDesign"] # Absent => Complete(d, c)

OfCompile(c) == Indices(c) /\ Outcomes(c) /\ Owned(c) /\ Progress(c) /\ Sealed(c)

Verdict(d) == files[d]["RoutingFailure"] # Absent => Clean(d)

Beginners ==
    \A d \in Directories : last[d] # Absent => directoryOf[last[d]] = d

FilesInv ==
    /\ TypeOK
    /\ Beginners
    /\ \A c \in Compiles : OfCompile(c)
    /\ \A d \in Directories : Verdict(d)

\* What a step of c leaves alone, and that its directory is its own by now.
Apart(c) ==
    /\ directoryOf' = directoryOf
    /\ \A x \in Compiles \ {c} :
         pc'[x] = pc[x] /\ index'[x] = index[x] /\ outcome'[x] = outcome[x]
    /\ \A d \in Directories \ {directoryOf[c]} : files'[d] = files[d] /\ last'[d] = last[d]
    /\ last'[directoryOf[c]] = c
    /\ \A x \in Compiles \ {c} :
         directoryOf[x] = directoryOf[c] => pc[x] \in {"idle", "ended"}

FilesStep(c) ==
    PublicationStep(c) \/ Frontend(c) \/ Validate(c) \/ Stage(c)

-----------------------------------------------------------------------------
(* The files.                                                              *)

LEMMA SuccessSequence ==
    /\ Len(SuccessArtifacts) = 3
    /\ SuccessArtifacts[1] = "Schematic"
    /\ SuccessArtifacts[2] = "PhysicalDesign"
    /\ SuccessArtifacts[3] = "PhysicalFixture"
BY DEF SuccessArtifacts

LEMMA PublishSequence ==
    /\ Len(PublishOrder) = 3
    /\ PublishOrder[1] = "Schematic"
    /\ PublishOrder[2] = "PhysicalFixture"
    /\ PublishOrder[3] = "PhysicalDesign"
BY DEF PublishOrder

LEMMA PromoteSequence ==
    /\ Len(PromoteOrder) = 4
    /\ \A k \in 1 .. 4 : PromoteOrder[k] \in Names
BY DEF PromoteOrder, Names

\* One compile at a time in a directory.
LEMMA NobodyElse ==
    ASSUME FilesInv, NEW c \in Compiles, pc[c] \notin {"idle", "ended"},
           NEW x \in Compiles \ {c}, directoryOf[x] = directoryOf[c]
    PROVE  pc[x] \in {"idle", "ended"}
BY DEF FilesInv, OfCompile, Owned

\* Steps on files keep the types.
LEMMA StepType ==
    ASSUME FilesInv, NEW c \in Compiles, FilesStep(c), directoryOf' = directoryOf
    PROVE  TypeOK'
<1> DEFINE d == directoryOf[c]
<1>1. d \in Places /\ d \in Directories /\ Stable \in Places
  BY DEF FilesInv, TypeOK, Places
<1>2. ASSUME NEW place \in Places, NEW name \in Names, NEW x \in Compiles \cup {Absent},
             Put(place, name, x)
      PROVE  files' \in [Places -> [Names -> Compiles \cup {Absent}]]
  BY <1>2 DEF FilesInv, TypeOK, Put
<1>3. ASSUME NEW location \in Locations, Go(c, location)
      PROVE  pc' \in [Compiles -> Locations] /\ index' \in [Compiles -> 1 .. 4]
  BY <1>3 DEF FilesInv, TypeOK, Go
<1>4. ASSUME Fail(c)
      PROVE  /\ pc' \in [Compiles -> Locations] /\ index' \in [Compiles -> 1 .. 4]
             /\ outcome' \in [Compiles -> {"none", "compiled", "failed", "cancelled"}]
  BY <1>4, <1>3 DEF FilesInv, TypeOK, Fail, Locations
<1>5. ASSUME NEW location \in {"clearStale", "clearBeforePublish", "clearAfterError"},
             pc[c] = location, Put(d, SuccessArtifacts[index[c]], Absent), UNCHANGED last,
             \/ index' = [index EXCEPT ![c] = @ + 1] /\ UNCHANGED <<pc, outcome>>
                /\ index[c] < 3
             \/ \E next \in Locations : Go(c, next) /\ UNCHANGED outcome
             \/ Fail(c)
      PROVE  TypeOK'
  <2>1. index[c] \in 1 .. 3
    BY <1>5 DEF FilesInv, OfCompile, Indices
  <2>2. SuccessArtifacts[index[c]] \in Names
    BY <2>1, SuccessSequence DEF Names
  <2>3. files' \in [Places -> [Names -> Compiles \cup {Absent}]]
    BY <1>1, <1>2, <1>5, <2>2
  <2> QED BY <1>3, <1>4, <1>5, <2>1, <2>3 DEF FilesInv, TypeOK
<1>6. CASE ClearStale(c)
  BY <1>5, <1>6, SuccessSequence DEF ClearStale, Unlink, Locations
<1>7. CASE ClearBeforePublish(c)
  BY <1>5, <1>7, SuccessSequence DEF ClearBeforePublish, Unlink, Locations
<1>8. CASE ClearAfterError(c)
  BY <1>5, <1>8, SuccessSequence DEF ClearAfterError, Unlink, Locations
<1>9. CASE Begin(c)
  BY <1>3, <1>9 DEF Begin, FilesInv, TypeOK, Locations
<1>10. CASE ClearFailure(c)
  BY <1>1, <1>2, <1>3, <1>10 DEF ClearFailure, FilesInv, TypeOK, Locations, Names
<1>11. CASE Frontend(c)
  BY <1>1, <1>2, <1>3, <1>11 DEF Frontend, FilesInv, TypeOK, Locations, Names
<1>12. CASE Route(c) \/ Validate(c) \/ Stage(c) \/ PublishError(c)
  BY <1>3, <1>12 DEF Route, Validate, Stage, PublishError, FilesInv, TypeOK, Locations
<1>13. CASE Raise(c)
  BY <1>4, <1>13 DEF Raise, FilesInv, TypeOK
<1>14. CASE TypedFailure(c)
  <2>1. files' \in [Places -> [Names -> Compiles \cup {Absent}]]
    BY <1>1, <1>2, <1>14 DEF TypedFailure, FilesInv, TypeOK, Names
  <2> QED BY <1>4, <1>14, <2>1 DEF TypedFailure, FilesInv, TypeOK
<1>15. CASE Publish(c)
  <2>1. index[c] \in 1 .. 3
    BY <1>15 DEF Publish, FilesInv, OfCompile, Indices
  <2>2. PublishOrder[index[c]] \in Names
    BY <2>1, PublishSequence DEF Names
  <2>3. files' \in [Places -> [Names -> Compiles \cup {Absent}]]
    BY <1>1, <1>2, <1>15, <2>2 DEF Publish
  <2>4. CASE index[c] < 3
    BY <1>15, <2>1, <2>3, <2>4, PublishSequence DEF Publish, FilesInv, TypeOK
  <2>5. CASE ~(index[c] < 3)
    BY <1>3, <1>15, <2>3, <2>5, PublishSequence DEF Publish, FilesInv, TypeOK, Locations
  <2> QED BY <2>4, <2>5
<1>16. CASE Promote(c)
  <2> DEFINE name == PromoteOrder[index[c]]
  <2>1. index[c] \in 1 .. 4 /\ name \in Names
    BY PromoteSequence DEF FilesInv, TypeOK
  <2>2. files[d][name] \in Compiles \cup {Absent}
    BY <1>1, <2>1 DEF FilesInv, TypeOK
  <2>3. files' \in [Places -> [Names -> Compiles \cup {Absent}]]
    BY <1>1, <1>2, <1>16, <2>1, <2>2 DEF Promote, FilesInv, TypeOK
  <2>4. CASE index[c] < 4
    BY <1>16, <2>1, <2>3, <2>4, PromoteSequence DEF Promote, FilesInv, TypeOK
  <2>5. CASE ~(index[c] < 4)
    BY <1>3, <1>16, <2>3, <2>5, PromoteSequence DEF Promote, FilesInv, TypeOK, Locations
  <2> QED BY <2>4, <2>5
<1>17. CASE Cancel(c)
  BY <1>3, <1>17 DEF Cancel, FilesInv, TypeOK, Locations
<1> QED
  BY <1>6, <1>7, <1>8, <1>9, <1>10, <1>11, <1>12, <1>13, <1>14, <1>15, <1>16, <1>17
     DEF FilesStep, PublicationStep

\* A step of a compile touches its own directory and the stable paths only.
LEMMA StepApart ==
    ASSUME FilesInv, NEW c \in Compiles, FilesStep(c), directoryOf' = directoryOf
    PROVE  Apart(c)
<1> DEFINE d == directoryOf[c]
<1>1. d \in Directories /\ d # Stable
  BY PublicationAssumption DEF FilesInv, TypeOK
<1>2. ASSUME NEW name \in Names, NEW x, Put(d, name, x) \/ UNCHANGED files \/ Put(Stable, name, x)
      PROVE  \A e \in Directories \ {d} : files'[e] = files[e]
  BY <1>1, <1>2, PublicationAssumption DEF FilesInv, TypeOK, Put, Places
<1>3. \A k \in 1 .. 3 : SuccessArtifacts[k] \in Names /\ PublishOrder[k] \in Names
  BY SuccessSequence, PublishSequence DEF Names
<1>4. CASE Begin(c)
  BY <1>4 DEF Begin, Go, Apart, FilesInv, TypeOK
<1>5. ASSUME pc[c] \notin {"idle", "ended"}, UNCHANGED last,
             \A x \in Compiles \ {c} :
               pc'[x] = pc[x] /\ index'[x] = index[x] /\ outcome'[x] = outcome[x],
             \A e \in Directories \ {d} : files'[e] = files[e]
      PROVE  Apart(c)
  BY <1>5, NobodyElse DEF Apart, FilesInv, OfCompile, Owned
<1>6. CASE ClearStale(c) \/ ClearBeforePublish(c) \/ ClearAfterError(c)
  <2>1. pc[c] \in {"clearStale", "clearBeforePublish", "clearAfterError"}
    BY <1>6 DEF ClearStale, ClearBeforePublish, ClearAfterError, Unlink
  <2>2. index[c] \in 1 .. 3
    BY <2>1 DEF FilesInv, OfCompile, Indices
  <2>3. \A e \in Directories \ {d} : files'[e] = files[e]
    BY <1>2, <1>3, <1>6, <2>2 DEF ClearStale, ClearBeforePublish, ClearAfterError, Unlink
  <2> QED
    BY <1>5, <1>6, <2>1, <2>3
       DEF ClearStale, ClearBeforePublish, ClearAfterError, Unlink, Go, Fail, FilesInv, TypeOK
<1>7. CASE ClearFailure(c) \/ Frontend(c) \/ TypedFailure(c)
  <2>1. \A e \in Directories \ {d} : files'[e] = files[e]
    BY <1>2, <1>7 DEF ClearFailure, Frontend, TypedFailure, Names
  <2> QED BY <1>5, <1>7, <2>1 DEF ClearFailure, Frontend, TypedFailure, Go, Fail, FilesInv, TypeOK
<1>8. CASE Route(c) \/ Validate(c) \/ Stage(c) \/ PublishError(c) \/ Raise(c) \/ Cancel(c)
  BY <1>5, <1>8
     DEF Route, Validate, Stage, PublishError, Raise, Cancel, Go, Fail, FilesInv, TypeOK
<1>9. CASE Publish(c)
  <2>1. index[c] \in 1 .. 3
    BY <1>9 DEF Publish, FilesInv, OfCompile, Indices
  <2>2. \A e \in Directories \ {d} : files'[e] = files[e]
    BY <1>2, <1>3, <1>9, <2>1 DEF Publish
  <2> QED BY <1>5, <1>9, <2>2 DEF Publish, Go, FilesInv, TypeOK
<1>10. CASE Promote(c)
  <2>1. PromoteOrder[index[c]] \in Names
    BY PromoteSequence DEF FilesInv, TypeOK
  <2>2. \A e \in Directories \ {d} : files'[e] = files[e]
    BY <1>2, <1>10, <2>1 DEF Promote
  <2> QED BY <1>5, <1>10, <2>2 DEF Promote, Go, FilesInv, TypeOK
<1> QED
  BY <1>4, <1>6, <1>7, <1>8, <1>9, <1>10 DEF FilesStep, PublicationStep

\* What is said of another compile stays true.
LEMMA OthersStay ==
    ASSUME FilesInv, NEW c \in Compiles, Apart(c), NEW x \in Compiles \ {c}
    PROVE  OfCompile(x)'
<1>1. directoryOf[x] \in Directories /\ directoryOf'[x] = directoryOf[x]
  BY DEF Apart, FilesInv, TypeOK
<1>2. pc'[x] = pc[x] /\ index'[x] = index[x] /\ outcome'[x] = outcome[x]
  BY DEF Apart
<1>3. OfCompile(x)
  BY DEF FilesInv
<1>4. CASE directoryOf[x] = directoryOf[c]
  <2>1. pc[x] \in {"idle", "ended"} /\ last'[directoryOf[x]] = c
    BY <1>4 DEF Apart
  <2>2. ~HasOwnDirectory(x)'
    BY <1>4 DEF HasOwnDirectory, Apart
  <2>3. Indices(x)' /\ Outcomes(x)' /\ Owned(x)'
    BY <1>1, <1>2, <1>3, <2>1 DEF OfCompile, Indices, Outcomes, Owned
  <2>4. Progress(x)'
    BY <1>1, <1>2, <2>1 DEF Progress
  <2>5. Sealed(x)'
    BY <2>2 DEF Sealed
  <2> QED BY <2>3, <2>4, <2>5 DEF OfCompile
<1>5. CASE directoryOf[x] # directoryOf[c]
  <2>1. /\ files'[directoryOf'[x]] = files[directoryOf[x]]
        /\ last'[directoryOf'[x]] = last[directoryOf[x]]
    BY <1>1, <1>5 DEF Apart
  <2>2. HasOwnDirectory(x)' <=> HasOwnDirectory(x)
    BY DEF Apart, HasOwnDirectory
  <2>3. Indices(x)' /\ Outcomes(x)' /\ Owned(x)'
    BY <1>1, <1>2, <1>3, <2>1 DEF OfCompile, Indices, Outcomes, Owned
  <2>4. Progress(x)'
    BY <1>1, <1>2, <1>3, <2>1 DEF OfCompile, Progress, Clean, Complete, NoFailure, Unlinked, Moved
  <2>5. Sealed(x)'
    BY <1>1, <1>2, <1>3, <2>1, <2>2 DEF OfCompile, Sealed, Clean, Complete
  <2> QED BY <2>3, <2>4, <2>5 DEF OfCompile
<1> QED BY <1>4, <1>5

LEMMA PutHere ==
    ASSUME TypeOK, NEW c \in Compiles, NEW name \in Names, NEW x, Put(directoryOf[c], name, x)
    PROVE  \A n \in Names :
             files'[directoryOf[c]][n] = IF n = name THEN x ELSE files[directoryOf[c]][n]
BY DEF TypeOK, Put, Places

LEMMA PutStable ==
    ASSUME TypeOK, NEW c \in Compiles, NEW name, NEW x, Put(Stable, name, x)
    PROVE  files'[directoryOf[c]] = files[directoryOf[c]]
BY PublicationAssumption DEF TypeOK, Put, Places

LEMMA GoHere ==
    ASSUME TypeOK, NEW c \in Compiles, NEW location, Go(c, location)
    PROVE  pc'[c] = location /\ index'[c] = 1
BY DEF TypeOK, Go

LEMMA FailHere ==
    ASSUME TypeOK, NEW c \in Compiles, Fail(c)
    PROVE  pc'[c] = "ended" /\ index'[c] = 1 /\ outcome'[c] = "failed"
BY GoHere DEF TypeOK, Fail

\* One unlink, the last one or an earlier one.
LEMMA UnlinkStep ==
    ASSUME FilesInv, NEW c \in Compiles, NEW afterwards, NEW location, 
           location \in {"clearStale", "clearBeforePublish", "clearAfterError"},
           Unlink(c, location, afterwards)
    PROVE  LET d == directoryOf[c] IN
           /\ pc[c] = location /\ index[c] \in 1 .. 3 /\ last' = last
           /\ files'[d][SuccessArtifacts[index[c]]] = Absent
           /\ \A n \in Names : files'[d][n] \in {files[d][n], Absent}
           /\ files'[d]["RoutingFailure"] = files[d]["RoutingFailure"]
           /\ \/ index[c] < 3 /\ index'[c] = index[c] + 1 /\ UNCHANGED <<pc, outcome>>
              \/ index[c] = 3 /\ afterwards
<1>1. pc[c] = location /\ index[c] \in 1 .. 3
  BY DEF Unlink, FilesInv, OfCompile, Indices
<1>2. SuccessArtifacts[index[c]] \in Names /\ SuccessArtifacts[index[c]] # "RoutingFailure"
  BY <1>1, SuccessSequence DEF Names
<1>3. "RoutingFailure" \in Names
  BY DEF Names
<1>4. \/ index[c] < 3 /\ index'[c] = index[c] + 1 /\ UNCHANGED <<pc, outcome>>
      \/ index[c] = 3 /\ afterwards
  BY <1>1, SuccessSequence DEF Unlink, FilesInv, TypeOK
<1>5. Put(directoryOf[c], SuccessArtifacts[index[c]], Absent) /\ last' = last /\ TypeOK
  BY DEF Unlink, FilesInv
<1>6. \A n \in Names : files'[directoryOf[c]][n] =
        IF n = SuccessArtifacts[index[c]] THEN Absent ELSE files[directoryOf[c]][n]
  <2> DEFINE name == SuccessArtifacts[index[c]]
  <2>1. name \in Names /\ Put(directoryOf[c], name, Absent)
    BY <1>2, <1>5
  <2>2. \A n \in Names :
          files'[directoryOf[c]][n] = IF n = name THEN Absent ELSE files[directoryOf[c]][n]
    <3> HIDE DEF name
    <3> QED BY <1>5, <2>1, PutHere
  <2> QED BY <2>2
<1> QED BY <1>1, <1>2, <1>3, <1>4, <1>5, <1>6

\* A step of a compile keeps what is said of it.
LEMMA StepOwn ==
    ASSUME FilesInv, NEW c \in Compiles, FilesStep(c), directoryOf' = directoryOf
    PROVE  OfCompile(c)' /\ Verdict(directoryOf[c])'
<1> DEFINE d == directoryOf[c]
<1>1. TypeOK /\ OfCompile(c) /\ Verdict(d) /\ d \in Directories /\ c # Absent
  BY PublicationAssumption DEF FilesInv, TypeOK
<1>2. Apart(c) /\ TypeOK'
  BY StepApart, StepType
<1>3. directoryOf'[c] = d /\ last'[d] = c /\ d' = d
  BY <1>2 DEF Apart
<1>4. HasOwnDirectory(c)' <=> HasOwnDirectory(c)
  BY <1>2 DEF Apart, HasOwnDirectory
<1>5. SuccessNames \subseteq Names /\ "RoutingFailure" \in Names
  BY DEF SuccessNames, Names
<1> USE <1>3
<1>6. CASE Begin(c)
  <2>1. pc[c] = "idle" /\ pc'[c] = "clearStale" /\ index'[c] = 1 /\ UNCHANGED <<files, outcome>>
    BY <1>1, <1>6, GoHere DEF Begin
  <2>2. Unlinked(c)'
    BY <2>1 DEF Unlinked
  <2>3. Verdict(d)'
    BY <1>1, <2>1 DEF Verdict, Clean
  <2>4. Sealed(c)'
    BY <1>1, <1>4, <2>1 DEF OfCompile, Sealed, Clean, Complete
  <2> QED BY <1>1, <2>1, <2>2, <2>3, <2>4 DEF OfCompile, Indices, Outcomes, Owned, Progress
<1>7. CASE ClearStale(c)
  <2>1. /\ pc[c] = "clearStale" /\ index[c] \in 1 .. 3
        /\ files'[d][SuccessArtifacts[index[c]]] = Absent
        /\ \A n \in Names : files'[d][n] \in {files[d][n], Absent}
        /\ files'[d]["RoutingFailure"] = files[d]["RoutingFailure"]
        /\ \/ index[c] < 3 /\ index'[c] = index[c] + 1 /\ UNCHANGED <<pc, outcome>>
           \/ index[c] = 3 /\ Go(c, "clearFailure") /\ UNCHANGED outcome
    BY <1>7, UnlinkStep DEF ClearStale
  <2>2. outcome'[c] = "none"
    BY <1>1, <2>1 DEF OfCompile, Outcomes
  <2>3. \A k \in 1 .. 3 : k <= index[c] => files'[d][SuccessArtifacts[k]] = Absent
    <3>1. Unlinked(c)
      BY <1>1, <2>1 DEF OfCompile, Progress
    <3> QED BY <2>1, <3>1, SuccessSequence DEF Unlinked, Names
  <2>4. Verdict(d)'
    BY <1>1, <1>5, <2>1 DEF Verdict, Clean
  <2>5. Sealed(c)'
    BY <1>1, <1>4, <1>5, <2>1 DEF OfCompile, Sealed, Clean, SuccessNames
  <2>6. CASE index[c] < 3
    <3>1. Unlinked(c)' /\ pc'[c] = "clearStale" /\ index'[c] \in 1 .. 3
      BY <2>1, <2>3, <2>6 DEF Unlinked
    <3> QED BY <2>2, <2>4, <2>5, <3>1 DEF OfCompile, Indices, Outcomes, Owned, Progress
  <2>7. CASE index[c] = 3
    <3>1. Clean(d)'
      BY <2>3, <2>7, SuccessSequence DEF Clean, SuccessNames
    <3>2. pc'[c] = "clearFailure"
      BY <1>1, <2>1, <2>7, GoHere
    <3> QED BY <2>2, <2>4, <2>5, <3>1, <3>2 DEF OfCompile, Indices, Outcomes, Owned, Progress
  <2> QED BY <2>1, <2>6, <2>7
<1>8. CASE ClearBeforePublish(c)
  <2>1. /\ pc[c] = "clearBeforePublish" /\ index[c] \in 1 .. 3
        /\ \A n \in Names : files'[d][n] \in {files[d][n], Absent}
        /\ files'[d]["RoutingFailure"] = files[d]["RoutingFailure"]
        /\ \/ index[c] < 3 /\ index'[c] = index[c] + 1 /\ UNCHANGED <<pc, outcome>>
           \/ index[c] = 3 /\ Go(c, "stage") /\ UNCHANGED outcome
    BY <1>8, UnlinkStep DEF ClearBeforePublish
  <2>2. Clean(d)' /\ NoFailure(d)'
    BY <1>1, <1>5, <2>1 DEF OfCompile, Progress, Clean, NoFailure
  <2>3. pc'[c] \in {"clearBeforePublish", "stage"}
        /\ (pc'[c] = "clearBeforePublish" => index'[c] \in 1 .. 3)
    BY <1>1, <2>1, GoHere
  <2>4. outcome'[c] = "none"
    BY <1>1, <2>1 DEF OfCompile, Outcomes
  <2> QED
    BY <2>2, <2>3, <2>4
       DEF OfCompile, Indices, Outcomes, Owned, Progress, Sealed, Verdict, Clean, SuccessNames
<1>9. CASE ClearAfterError(c)
  <2>1. /\ pc[c] = "clearAfterError" /\ index[c] \in 1 .. 3
        /\ files'[d][SuccessArtifacts[index[c]]] = Absent
        /\ \A n \in Names : files'[d][n] \in {files[d][n], Absent}
        /\ files'[d]["RoutingFailure"] = files[d]["RoutingFailure"]
        /\ \/ index[c] < 3 /\ index'[c] = index[c] + 1 /\ UNCHANGED <<pc, outcome>>
           \/ index[c] = 3 /\ Fail(c)
    BY <1>9, UnlinkStep DEF ClearAfterError
  <2>2. \A k \in 1 .. 3 : k <= index[c] => files'[d][SuccessArtifacts[k]] = Absent
    <3>1. Unlinked(c)
      BY <1>1, <2>1 DEF OfCompile, Progress
    <3> QED BY <2>1, <3>1, SuccessSequence DEF Unlinked, Names
  <2>3. NoFailure(d)' /\ files'[d]["PhysicalDesign"] = Absent
    BY <1>1, <2>1 DEF OfCompile, Progress, NoFailure, Names
  <2>4. CASE index[c] < 3
    <3>1. Unlinked(c)' /\ pc'[c] = "clearAfterError" /\ index'[c] \in 1 .. 3
      BY <2>1, <2>2, <2>4 DEF Unlinked
    <3>2. outcome'[c] = "none"
      BY <1>1, <2>1, <2>4 DEF OfCompile, Outcomes
    <3> QED
      BY <2>3, <3>1, <3>2
         DEF OfCompile, Indices, Outcomes, Owned, Progress, Sealed, Verdict, NoFailure
  <2>5. CASE index[c] = 3
    <3>1. Clean(d)'
      BY <2>2, <2>5, SuccessSequence DEF Clean, SuccessNames
    <3>2. pc'[c] = "ended" /\ outcome'[c] = "failed"
      BY <1>1, <2>1, <2>5, FailHere
    <3> QED
      BY <2>3, <3>1, <3>2
         DEF OfCompile, Indices, Outcomes, Owned, Progress, Sealed, Verdict, NoFailure
  <2> QED BY <2>1, <2>4, <2>5
<1>10. CASE ClearFailure(c)
  <2>1. \A n \in SuccessNames : files'[d][n] = files[d][n]
    BY <1>1, <1>5, <1>10, PutHere DEF ClearFailure, SuccessNames
  <2>2. Clean(d)' /\ NoFailure(d)'
    BY <1>1, <1>5, <1>10, <2>1, PutHere DEF ClearFailure, OfCompile, Progress, Clean, NoFailure
  <2>3. pc'[c] = "frontend" /\ outcome'[c] = "none"
    BY <1>1, <1>10, GoHere DEF ClearFailure, OfCompile, Outcomes
  <2> QED
    BY <2>2, <2>3
       DEF OfCompile, Indices, Outcomes, Owned, Progress, Sealed, Verdict, Clean, SuccessNames
<1>11. CASE Frontend(c)
  <2>1. \A n \in SuccessNames \cup {"RoutingFailure"} : files'[d][n] = files[d][n]
    BY <1>1, <1>5, <1>11, PutHere DEF Frontend, SuccessNames, Names
  <2>2. Clean(d)' /\ NoFailure(d)'
    BY <1>1, <1>11, <2>1 DEF Frontend, OfCompile, Progress, Clean, NoFailure
  <2>3. pc'[c] = "routing" /\ outcome'[c] = "none"
    BY <1>1, <1>11, GoHere DEF Frontend, OfCompile, Outcomes
  <2> QED
    BY <2>2, <2>3
       DEF OfCompile, Indices, Outcomes, Owned, Progress, Sealed, Verdict, Clean, SuccessNames
<1>12. CASE Route(c) \/ Validate(c)
  <2>1. Clean(d)' /\ NoFailure(d)'
    BY <1>1, <1>12 DEF Route, Validate, OfCompile, Progress, Clean, NoFailure
  <2>2. pc'[c] \in {"validation", "clearBeforePublish"} /\ index'[c] = 1 /\ outcome'[c] = "none"
    BY <1>1, <1>12, GoHere DEF Route, Validate, OfCompile, Outcomes
  <2> QED
    BY <2>1, <2>2
       DEF OfCompile, Indices, Outcomes, Owned, Progress, Sealed, Verdict, Clean, SuccessNames
<1>13. CASE Raise(c) \/ TypedFailure(c)
  <2>1. Clean(d)
    BY <1>1, <1>13 DEF Raise, TypedFailure, OfCompile, Progress
  <2>2. files[d]["RoutingFailure"] = Absent
    BY <1>1, <1>13 DEF Raise, TypedFailure, OfCompile, Progress, NoFailure
  <2>3. Clean(d)' /\ files'[d]["RoutingFailure"] \in {c, Absent}
    BY <1>1, <1>5, <1>13, <2>1, <2>2, PutHere
       DEF Raise, TypedFailure, Clean, SuccessNames
  <2>4. pc'[c] = "ended" /\ outcome'[c] = "failed"
    BY <1>1, <1>13, FailHere DEF Raise, TypedFailure
  <2> QED
    BY <2>3, <2>4
       DEF OfCompile, Indices, Outcomes, Owned, Progress, Sealed, Verdict, Clean, SuccessNames
<1>14. CASE Stage(c)
  <2>1. /\ pc'[c] = "publish" /\ index'[c] = 1 /\ outcome'[c] = "none" /\ files' = files
    BY <1>1, <1>14, GoHere DEF Stage, OfCompile, Outcomes
  <2>2. Clean(d)' /\ NoFailure(d)'
    BY <1>1, <1>14, <2>1 DEF Stage, OfCompile, Progress, Clean, NoFailure
  <2>3. Moved(c)'
    BY <2>1, <2>2, PublishSequence DEF Moved, Clean, SuccessNames
  <2> QED
    BY <2>1, <2>2, <2>3
       DEF OfCompile, Indices, Outcomes, Owned, Progress, Sealed, Verdict, Clean, SuccessNames
<1>15. CASE Publish(c)
  <2>1. pc[c] = "publish" /\ index[c] \in 1 .. 3 /\ Moved(c) /\ NoFailure(d)
    BY <1>1, <1>15 DEF Publish, OfCompile, Indices, Progress
  <2>2. \A n \in Names : files'[d][n] = IF n = PublishOrder[index[c]] THEN c ELSE files[d][n]
    <3>1. PublishOrder[index[c]] \in Names
      BY <2>1, PublishSequence DEF Names
    <3>2. Put(d, PublishOrder[index[c]], c)
      BY <1>15 DEF Publish
    <3> DEFINE name == PublishOrder[index[c]]
    <3>3. \A n \in Names : files'[d][n] = IF n = name THEN c ELSE files[d][n]
      <4>1. name \in Names /\ Put(directoryOf[c], name, c)
        BY <3>1, <3>2
      <4> HIDE DEF name
      <4> QED BY <1>1, <4>1, PutHere
    <3> QED BY <3>3
  <2>3. NoFailure(d)'
    BY <1>5, <2>1, <2>2, PublishSequence DEF NoFailure
  <2>4. \A k \in 1 .. 3 :
          files'[d][PublishOrder[k]] = IF k < index[c] + 1 THEN c ELSE Absent
    BY <2>1, <2>2, PublishSequence DEF Moved, Names
  <2>5. CASE index[c] < 3
    <3>1. pc'[c] = "publish" /\ index'[c] = index[c] + 1 /\ outcome'[c] = "none"
      BY <1>1, <1>15, <2>1, <2>5, PublishSequence DEF Publish, OfCompile, Outcomes, TypeOK
    <3>2. Moved(c)'
      BY <2>4, <3>1 DEF Moved
    <3>3. files'[d]["PhysicalDesign"] = Absent
      BY <2>1, <2>4, <2>5, PublishSequence
    <3> QED
      BY <2>1, <2>3, <2>5, <3>1, <3>2, <3>3
         DEF OfCompile, Indices, Outcomes, Owned, Progress, Sealed, Verdict, NoFailure
  <2>6. CASE index[c] = 3
    <3>1. pc'[c] = "promote" /\ outcome'[c] = "compiled"
      BY <1>1, <1>15, <2>1, <2>6, PublishSequence, GoHere DEF Publish, TypeOK
    <3>2. Complete(d, c)'
      BY <2>4, <2>6, PublishSequence DEF Complete, SuccessNames
    <3> QED
      BY <2>3, <3>1, <3>2
         DEF OfCompile, Indices, Outcomes, Owned, Progress, Sealed, Verdict, NoFailure
  <2> QED BY <2>1, <2>5, <2>6
<1>16. CASE PublishError(c)
  <2>1. /\ pc'[c] = "clearAfterError" /\ index'[c] = 1 /\ outcome'[c] = "none" /\ files' = files
    BY <1>1, <1>16, GoHere DEF PublishError, OfCompile, Outcomes
  <2>2. files[d]["PhysicalDesign"] = Absent /\ NoFailure(d)
    BY <1>1, <1>16, PublishSequence
       DEF PublishError, OfCompile, Progress, Indices, Moved, Clean, SuccessNames
  <2>3. Unlinked(c)'
    BY <2>1 DEF Unlinked
  <2> QED
    BY <2>1, <2>2, <2>3
       DEF OfCompile, Indices, Outcomes, Owned, Progress, Sealed, Verdict, NoFailure
<1>17. CASE Promote(c)
  <2>1. files'[d] = files[d] /\ pc[c] = "promote" /\ outcome' = outcome
    BY <1>1, <1>17, PutStable DEF Promote
  <2>2. pc'[c] \in {"promote", "ended"}
    BY <1>1, <1>17, <2>1, GoHere, PromoteSequence DEF Promote, TypeOK
  <2>3. outcome'[c] = "compiled" /\ Complete(d, c)' /\ NoFailure(d)'
    BY <1>1, <2>1 DEF OfCompile, Outcomes, Progress, Complete, NoFailure
  <2> QED
    BY <2>2, <2>3
       DEF OfCompile, Indices, Outcomes, Owned, Progress, Sealed, Verdict, NoFailure
<1>18. CASE Cancel(c)
  <2>1. pc'[c] = "ended" /\ files' = files /\ pc[c] \notin {"idle", "ended"}
    BY <1>1, <1>18, GoHere DEF Cancel
  <2>2. Verdict(d)' /\ Sealed(c)'
    BY <1>1, <1>4, <2>1 DEF Verdict, OfCompile, Sealed, Clean, Complete
  <2>3. CASE pc[c] = "promote"
    <3>1. outcome'[c] = "compiled" /\ Complete(d, c)' /\ NoFailure(d)'
      BY <1>1, <1>18, <2>1, <2>3 DEF Cancel, OfCompile, Outcomes, Progress, Complete, NoFailure, TypeOK
    <3> QED BY <2>1, <2>2, <3>1 DEF OfCompile, Indices, Outcomes, Owned, Progress
  <2>4. CASE pc[c] # "promote"
    <3>1. outcome'[c] = "cancelled"
      BY <1>1, <1>18, <2>1, <2>4 DEF Cancel, OfCompile, Outcomes, TypeOK
    <3> QED BY <2>1, <2>2, <3>1 DEF OfCompile, Indices, Outcomes, Owned, Progress
  <2> QED BY <2>3, <2>4
<1> QED
  BY <1>6, <1>7, <1>8, <1>9, <1>10, <1>11, <1>12, <1>13, <1>14, <1>15, <1>16, <1>17, <1>18
     DEF FilesStep, PublicationStep

LEMMA FilesInit == PipelineInit => FilesInv
<1> SUFFICES ASSUME PipelineInit PROVE FilesInv
  OBVIOUS
<1>1. TypeOK
  BY PublicationAssumption DEF PipelineInit, Init, TypeOK, Locations
<1>2. \A place \in Places, name \in Names : files[place][name] = Absent
  BY DEF PipelineInit, Init
<1>3. SuccessNames \cup {"RoutingFailure"} \subseteq Names /\ Directories \subseteq Places
  BY DEF SuccessNames, Names, Places
<1>4. \A d \in Directories : Clean(d) /\ NoFailure(d)
  BY <1>2, <1>3 DEF Clean, NoFailure
<1>5. \A d \in Directories : last[d] = Absent
  BY DEF PipelineInit, Init
<1>6. ASSUME NEW c \in Compiles PROVE OfCompile(c)
  <2>1. pc[c] = "idle" /\ outcome[c] = "none" /\ directoryOf[c] \in Directories /\ c # Absent
    BY <1>1, PublicationAssumption DEF PipelineInit, Init, TypeOK
  <2>2. files[directoryOf[c]]["PhysicalDesign"] = Absent
    BY <1>4, <2>1 DEF Clean, SuccessNames
  <2> QED
    BY <1>4, <1>5, <2>1, <2>2 DEF OfCompile, Indices, Outcomes, Owned, Progress, Sealed
<1> QED BY <1>1, <1>4, <1>5, <1>6 DEF FilesInv, Beginners, Verdict, NoFailure

LEMMA StepsOnFiles ==
    ASSUME [PipelineNext]_pipelineVars
    PROVE  \/ \E c \in Compiles : FilesStep(c) /\ directoryOf' = directoryOf
           \/ UNCHANGED vars
<1>1. CASE UNCHANGED pipelineVars
  BY <1>1 DEF pipelineVars
<1>2. CASE Tick \/ Advance \/ GiveUp
  BY <1>2 DEF Tick, Advance, GiveUp, CaptureStep
<1>3. ASSUME NEW c \in Compiles, directoryOf' = directoryOf,
             \/ ParseSvToNetlist(c) \/ Synthesize(c) \/ ValidateDiagram(c)
             \/ StageCapture(c) \/ CaptureFails(c) \/ FileStep(c)
      PROVE  FilesStep(c) \/ UNCHANGED vars
  BY <1>3 DEF ParseSvToNetlist, Synthesize, ValidateDiagram, StageCapture, CaptureFails, FileStep,
              FilesStep, PublicationStep, vars
<1> QED BY <1>1, <1>2, <1>3 DEF PipelineNext

LEMMA FilesInvStep == FilesInv /\ [PipelineNext]_pipelineVars => FilesInv'
<1> SUFFICES ASSUME FilesInv, [PipelineNext]_pipelineVars PROVE FilesInv'
  OBVIOUS
<1>1. CASE UNCHANGED vars
  BY <1>1 DEF vars, FilesInv, TypeOK, Beginners, OfCompile, Indices, Outcomes, Owned, Progress,
              Sealed, Verdict, Clean, Complete, NoFailure, Unlinked, Moved, HasOwnDirectory
<1>2. ASSUME NEW c \in Compiles, FilesStep(c), directoryOf' = directoryOf PROVE FilesInv'
  <2>1. TypeOK' /\ Apart(c) /\ OfCompile(c)' /\ Verdict(directoryOf[c])'
    BY <1>2, StepType, StepApart, StepOwn
  <2>2. \A x \in Compiles : OfCompile(x)'
    BY <2>1, OthersStay
  <2>3. \A d \in Directories : Verdict(d)'
    BY <2>1 DEF Apart, FilesInv, Verdict, Clean
  <2>4. Beginners'
    BY <2>1 DEF Apart, FilesInv, Beginners, TypeOK
  <2> QED BY <2>1, <2>2, <2>3, <2>4 DEF FilesInv
<1> QED BY <1>1, <1>2, StepsOnFiles

LEMMA FilesInvariant == PipelineSpec => []FilesInv
BY FilesInit, FilesInvStep, PTL DEF PipelineSpec

LEMMA WholeSets ==
    ASSUME NEW place, NEW x
    PROVE  (Clean(place) => Success(place) = {Absent}) /\ (Complete(place, x) => Success(place) = {x})
BY DEF Clean, Complete, Success, SuccessNames

\* A compile that is over left its own three artifacts or none, beside no
\* contrary verdict, whatever earlier compiles had left and wherever they were
\* cut short; one cut short in its own directory left no design without the
\* rest.  Any number of compiles over any directories.
THEOREM FailureIsTransactional == PipelineSpec => []DirectoryIsTransactional
<1>1. ASSUME FilesInv PROVE DirectoryIsTransactional
  <2>1. TypeOK
    BY <1>1 DEF FilesInv
  <2>2. VerdictsExclude
    BY <1>1, WholeSets DEF FilesInv, Verdict, VerdictsExclude
  <2>3. DesignSealsTheSet
    BY <1>1, WholeSets DEF FilesInv, OfCompile, Sealed, DesignSealsTheSet
  <2>4. ASSUME NEW d \in Directories, last[d] # Absent, outcome[last[d]] \in {"compiled", "failed"}
        PROVE  IF outcome[last[d]] = "compiled"
                 THEN Success(d) = {last[d]} /\ files[d]["RoutingFailure"] = Absent
                 ELSE Success(d) = {Absent} /\ files[d]["RoutingFailure"] \in {last[d], Absent}
    <3> DEFINE c == last[d]
    <3>1. c \in Compiles /\ directoryOf[c] = d /\ OfCompile(c)
      BY <1>1, <2>4 DEF FilesInv, TypeOK, Beginners
    <3>2. CASE pc[c] = "ended"
      BY <2>4, <3>1, <3>2, WholeSets DEF OfCompile, Progress, NoFailure
    <3>3. CASE pc[c] = "promote"
      BY <2>4, <3>1, <3>3, WholeSets DEF OfCompile, Outcomes, Progress, NoFailure
    <3>4. pc[c] \in {"promote", "ended"}
      BY <2>4, <3>1 DEF OfCompile, Outcomes
    <3> QED BY <3>2, <3>3, <3>4
  <2> QED BY <2>1, <2>2, <2>3, <2>4 DEF DirectoryIsTransactional
<1> QED BY <1>1, FilesInvariant, PTL

-----------------------------------------------------------------------------
(* The capture.  A pass that counts as stable was judged past the budget,  *)
(* so the pass after it reads a settled circuit only.                      *)

ReadSoFar(n) == \A b \in 1 .. Batches : b <= n => current[b] = 0

SnapshotInv ==
    /\ Capture!TypeOK
    /\ capturing \notin {"captured", "failed"} => stable < StablePasses
    /\ capturing \in {"reset", "stamp"} => stable = 0 /\ lastTime = 0
    /\ capturing \notin {"read", "time", "failed"} => batch = 1
    /\ capturing \in {"read", "time", "judge"} =>
         /\ unsettled > 0 => unsettled + clock <= MaxDelay
         /\ lastTime <= clock
         /\ stable > 0 => clock = SettleTicks
    /\ stable > 0 =>
         /\ capturing = "read" => ReadSoFar(batch - 1)
         /\ capturing = "time" => ReadSoFar(batch)
         /\ capturing = "judge" => ReadSoFar(Batches)
    /\ capturing = "captured" => ReadSoFar(Batches)

LEMMA PhaseIsSmall ==
    ASSUME unsettled \in 0 .. MaxDelay
    PROVE  Capture!Phase \in 0 .. MaxDelay /\ (unsettled = 0 => Capture!Phase = 0)
<1> DEFINE v == VisibleStride
           q == (unsettled + v - 1) \div v
<1>1. v \in Nat /\ v > 0 /\ unsettled \in Nat /\ MaxDelay \in Nat
  BY CaptureAssumption
<1>2. q \in Int /\ v * q <= unsettled + v - 1 /\ unsettled + v - 1 < v * q + v
  BY <1>1
<1>3. q >= 0
  BY <1>1, <1>2
<1>4. q <= unsettled
  BY <1>1, <1>2
<1> QED BY <1>1, <1>2, <1>3, <1>4 DEF Capture!Phase

LEMMA SnapshotInit == PipelineInit => SnapshotInv
BY CaptureAssumption
   DEF PipelineInit, Capture!Init, SnapshotInv, Capture!TypeOK, Capture!NothingRead, ReadSoFar

LEMMA SnapshotStep == SnapshotInv /\ [PipelineNext]_pipelineVars => SnapshotInv'
<1> SUFFICES ASSUME SnapshotInv, [PipelineNext]_pipelineVars PROVE SnapshotInv'
  OBVIOUS
<1> USE CaptureAssumption
<1>1. CASE UNCHANGED captureVars
  BY <1>1 DEF captureVars, SnapshotInv, Capture!TypeOK, ReadSoFar
<1>2. CASE Capture!Tick
  BY <1>2 DEF Capture!Tick, Capture!reader, SnapshotInv, Capture!TypeOK, ReadSoFar
<1>3. CASE Capture!ResetInputs
  BY <1>3 DEF Capture!ResetInputs, SnapshotInv, Capture!TypeOK, ReadSoFar
<1>4. CASE Capture!StampInputZero
  BY <1>4 DEF Capture!StampInputZero, SnapshotInv, Capture!TypeOK, ReadSoFar
<1>5. CASE Capture!ReadBatch
  <2>1. /\ capturing = "read" /\ capturing' = "time" /\ batch \in 1 .. Batches
        /\ current' = [current EXCEPT ![batch] = Capture!Phase]
        /\ UNCHANGED <<unsettled, clock, batch, previous, stable, lastTime>>
    BY <1>5 DEF Capture!ReadBatch, SnapshotInv, Capture!TypeOK
  <2>2. Capture!Phase \in 0 .. MaxDelay /\ (unsettled = 0 => Capture!Phase = 0)
    BY PhaseIsSmall DEF SnapshotInv, Capture!TypeOK
  <2>3. Capture!TypeOK'
    BY <2>1, <2>2 DEF SnapshotInv, Capture!TypeOK
  <2>4. stable > 0 => ReadSoFar(batch)'
    BY <2>1, <2>2 DEF SnapshotInv, Capture!TypeOK, ReadSoFar
  <2> QED BY <2>1, <2>3, <2>4 DEF SnapshotInv, Capture!TypeOK
<1>6. CASE Capture!ReadGameTime
  BY <1>6 DEF Capture!ReadGameTime, SnapshotInv, Capture!TypeOK, ReadSoFar
<1>7. /\ lastTime < SettleTicks => Capture!StableAfterPass = 0
      /\ lastTime >= SettleTicks => Capture!StableAfterPass \in {stable + 1, 1}
  <2>1. lastTime >= SettleTicks <=> ~(lastTime < SettleTicks)
    BY DEF SnapshotInv, Capture!TypeOK
  <2> QED BY <2>1 DEF Capture!StableAfterPass, Capture!ReachedTickBudget
<1>8. CASE Capture!Accept
  BY <1>7, <1>8 DEF Capture!Accept, SnapshotInv, Capture!TypeOK, ReadSoFar
<1>9. CASE Capture!ReadAgain
  BY <1>7, <1>9 DEF Capture!ReadAgain, SnapshotInv, Capture!TypeOK, ReadSoFar
<1>10. CASE Capture!SettleTimeout
  BY <1>7, <1>10 DEF Capture!SettleTimeout, SnapshotInv, Capture!TypeOK, ReadSoFar
<1>11. CASE Capture!RequestFails
  BY <1>11 DEF Capture!RequestFails, SnapshotInv, Capture!TypeOK, ReadSoFar
<1> QED
  BY <1>1, <1>2, <1>3, <1>4, <1>5, <1>6, <1>8, <1>9, <1>10, <1>11
     DEF PipelineNext, pipelineVars, ParseSvToNetlist, Synthesize, ValidateDiagram, StageCapture,
         CaptureFails, FileStep, Tick, Advance, GiveUp, CaptureStep, Capture!Advance

-----------------------------------------------------------------------------
(* From the capture to the schematic.                                      *)

\* A schematic of Lead is under way or on disk.
HasSchematic ==
    pc[Lead] \in {"publish", "promote"} \/ \E place \in Places : files[place]["Schematic"] = Lead

IsCaptured == focus = "capture" /\ HasSchematic => capturing = "captured"

\* A schematic is put where it is by the compile it is of, or copied.
LEMMA SchematicsOf ==
    ASSUME FilesInv, NEW c \in Compiles, FilesStep(c), directoryOf' = directoryOf,
           NEW place \in Places
    PROVE  \/ \E p \in Places : files'[place]["Schematic"] = files[p]["Schematic"]
           \/ files'[place]["Schematic"] = Absent
           \/ pc[c] = "publish" /\ files'[place]["Schematic"] = c
<1> DEFINE d == directoryOf[c]
<1>1. TypeOK /\ d \in Places /\ Stable \in Places /\ "Schematic" \in Names
  BY DEF FilesInv, TypeOK, Places, Names
<1>2. CASE UNCHANGED files
  BY <1>2
<1>3. ASSUME NEW p \in Places, NEW name \in Names, NEW x, Put(p, name, x)
      PROVE  files'[place]["Schematic"] \in {files[place]["Schematic"], x}
             /\ (name # "Schematic" => files'[place]["Schematic"] = files[place]["Schematic"])
  BY <1>1, <1>3 DEF TypeOK, Put
<1>4. CASE ClearStale(c) \/ ClearBeforePublish(c) \/ ClearAfterError(c)
  <2> DEFINE name == SuccessArtifacts[index[c]]
  <2>1. name \in Names /\ Put(d, name, Absent)
    <3>1. index[c] \in 1 .. 3
      BY <1>4 DEF ClearStale, ClearBeforePublish, ClearAfterError, Unlink, FilesInv, OfCompile, Indices
    <3> QED
      BY <1>4, <3>1, SuccessSequence
         DEF ClearStale, ClearBeforePublish, ClearAfterError, Unlink, Names
  <2>2. files'[place]["Schematic"] \in {files[place]["Schematic"], Absent}
    <3> HIDE DEF name
    <3> QED BY <1>1, <1>3, <2>1
  <2> QED BY <2>2
<1>5. CASE ClearFailure(c) \/ Frontend(c) \/ TypedFailure(c)
  <2>1. "RoutingFailure" \in Names /\ "Nand" \in Names
    BY DEF Names
  <2> QED BY <1>1, <1>2, <1>3, <1>5, <2>1 DEF ClearFailure, Frontend, TypedFailure
<1>6. CASE Publish(c)
  <2> DEFINE name == PublishOrder[index[c]]
  <2>1. name \in Names /\ Put(d, name, c) /\ pc[c] = "publish"
    <3>1. index[c] \in 1 .. 3
      BY <1>6 DEF Publish, FilesInv, OfCompile, Indices
    <3> QED BY <1>6, <3>1, PublishSequence DEF Publish, Names
  <2>2. files'[place]["Schematic"] \in {files[place]["Schematic"], c}
    <3> HIDE DEF name
    <3> QED BY <1>1, <1>3, <2>1
  <2> QED BY <2>1, <2>2
<1>7. CASE Promote(c)
  <2> DEFINE name == PromoteOrder[index[c]]
  <2>1. name \in Names /\ (UNCHANGED files \/ Put(Stable, name, files[d][name]))
    BY <1>1, <1>7, PromoteSequence DEF Promote, TypeOK
  <2>2. \/ files'[place]["Schematic"] = files[place]["Schematic"]
        \/ name = "Schematic" /\ files'[place]["Schematic"] = files[d][name]
    <3> HIDE DEF name
    <3> QED BY <1>1, <1>3, <2>1
  <2> QED BY <1>1, <2>2
<1>8. CASE Begin(c) \/ Route(c) \/ Validate(c) \/ Stage(c) \/ PublishError(c) \/ Raise(c) \/ Cancel(c)
  BY <1>2, <1>8 DEF Begin, Route, Validate, Stage, PublishError, Raise, Cancel
<1> QED BY <1>4, <1>5, <1>6, <1>7, <1>8 DEF FilesStep, PublicationStep

LEMMA CapturedInit == PipelineInit => IsCaptured
BY PipelineAssumption, PublicationAssumption
   DEF PipelineInit, Init, IsCaptured, HasSchematic, Names

\* A captured snapshot stays, and nothing but it lets Lead publish.
LEMMA CapturedStep ==
    FilesInv /\ SnapshotInv /\ IsCaptured /\ [PipelineNext]_pipelineVars => IsCaptured'
<1> SUFFICES ASSUME FilesInv, SnapshotInv, IsCaptured, [PipelineNext]_pipelineVars,
                    focus' = "capture", HasSchematic'
             PROVE  capturing' = "captured"
  BY DEF IsCaptured
<1>1. focus = "capture" /\ Lead \in Compiles /\ Lead # Absent
  BY PipelineAssumption, PublicationAssumption DEF PipelineNext, pipelineVars
<1>2. capturing = "captured" => capturing' = "captured"
  BY DEF PipelineNext, pipelineVars, captureVars, ParseSvToNetlist, Synthesize, ValidateDiagram,
         StageCapture, CaptureFails, FileStep, Tick, Advance, GiveUp, CaptureStep,
         Capture!Tick, Capture!reader, Capture!Advance, Capture!ResetInputs,
         Capture!StampInputZero, Capture!ReadBatch, Capture!ReadGameTime, Capture!Accept,
         Capture!ReadAgain, Capture!SettleTimeout, Capture!RequestFails
<1>3. CASE UNCHANGED vars
  BY <1>1, <1>2, <1>3 DEF vars, IsCaptured, HasSchematic
<1>4. ASSUME NEW c \in Compiles, directoryOf' = directoryOf,
             \/ ParseSvToNetlist(c) \/ Synthesize(c) \/ ValidateDiagram(c)
             \/ StageCapture(c) \/ CaptureFails(c) \/ FileStep(c)
      PROVE  HasSchematic \/ capturing = "captured" \/ UNCHANGED vars
  <2>1. CASE StageCapture(c)
    BY <1>1, <2>1 DEF StageCapture
  <2>2. CASE ParseSvToNetlist(c)
    BY <1>4, <2>2 DEF ParseSvToNetlist, vars
  <2>3. ASSUME PublicationStep(c) \/ Frontend(c) \/ Validate(c) PROVE HasSchematic
    <3>1. CASE \E place \in Places : files'[place]["Schematic"] = Lead
      BY <1>1, <1>4, <2>3, <3>1, SchematicsOf DEF HasSchematic, FilesStep
    <3>2. CASE pc'[Lead] \in {"publish", "promote"}
      BY <1>1, <2>3, <3>2
         DEF HasSchematic, PublicationStep, Begin, ClearStale, ClearFailure, Frontend, Route, Raise,
             TypedFailure, Validate, ClearBeforePublish, Publish, PublishError, ClearAfterError,
             Promote, Cancel, Unlink, Go, Fail, FilesInv, TypeOK
    <3> QED BY <3>1, <3>2 DEF HasSchematic
  <2> QED BY <1>4, <2>1, <2>2, <2>3 DEF Synthesize, ValidateDiagram, CaptureFails, FileStep, PublicationStep
<1>5. HasSchematic \/ capturing = "captured" \/ UNCHANGED vars
  BY <1>4 DEF PipelineNext, pipelineVars, Tick, Advance, GiveUp, CaptureStep
<1> QED BY <1>1, <1>2, <1>3, <1>5 DEF IsCaptured

LEMMA CaptureInvariant == PipelineSpec => [](SnapshotInv /\ IsCaptured)
<1>1. PipelineInit => SnapshotInv /\ IsCaptured
  BY SnapshotInit, CapturedInit
<1>2. FilesInv /\ SnapshotInv /\ IsCaptured /\ [PipelineNext]_pipelineVars => (SnapshotInv /\ IsCaptured)'
  BY SnapshotStep, CapturedStep
<1> QED BY <1>1, <1>2, FilesInvariant, PTL DEF PipelineSpec

\* A capture that is accepted shows the settled circuit in every batch,
\* whatever ticks ran between its reads, and without one nothing is published:
\* for any number of batches, any budget and any delay within it.
THEOREM CapturesAreSettled == PipelineSpec => []SchematicIsSettled
<1>1. ASSUME SnapshotInv, IsCaptured PROVE SchematicIsSettled
  <2>1. Capture!SnapshotIsSettled
    BY <1>1, CaptureAssumption DEF SnapshotInv, ReadSoFar, Capture!SnapshotIsSettled
  <2> QED BY <1>1, <2>1 DEF IsCaptured, HasSchematic, SchematicIsSettled
<1> QED BY <1>1, CaptureInvariant, PTL

-----------------------------------------------------------------------------
(* From the source to the stable files.                                    *)

HasDiagram(c) ==
    outcome[c] = "compiled" \/
    pc[c] \in {"routing", "validation", "clearBeforePublish", "stage", "publish", "promote"}

IsValidated(c) ==
    outcome[c] = "compiled" \/ pc[c] \in {"clearBeforePublish", "stage", "publish", "promote"}

Lowered(c) ==
    /\ HasDiagram(c) => \E source, netlist : circuit[c] = Compared(source, netlist)
    /\ IsValidated(c) => Vectorizable(c)

\* While a compile works on its diagram the file is its own.
HasNand(c) ==
    pc[c] \in {"routing", "validation", "clearBeforePublish", "stage", "publish", "promote"} =>
        files[directoryOf[c]]["Nand"] = c

StableInv ==
    /\ DOMAIN circuit = Compiles
    /\ \A c \in Compiles : Lowered(c) /\ HasNand(c)
    /\ \A name \in Names :
         files[Stable][name] # Absent => outcome[files[Stable][name]] = "compiled"

LEMMA StableInit == PipelineInit => StableInv
BY PublicationAssumption
   DEF PipelineInit, Init, StableInv, Lowered, HasDiagram, IsValidated, HasNand, Places

\* A compile that succeeded stays so.
LEMMA CompiledStays ==
    ASSUME FilesInv, NEW c \in Compiles, FilesStep(c), NEW x \in Compiles, outcome[x] = "compiled"
    PROVE  outcome'[x] = "compiled"
BY DEF FilesInv, OfCompile, Outcomes, TypeOK, FilesStep, PublicationStep, Begin, ClearStale,
       ClearFailure, Frontend, Route, Raise, TypedFailure, Validate, ClearBeforePublish, Stage,
       Publish, PublishError, ClearAfterError, Promote, Cancel, Unlink, Go, Fail

\* What a step does to the stage a compile has reached.
LEMMA StagesOf ==
    ASSUME FilesInv, NEW c \in Compiles, FilesStep(c), NEW x \in Compiles
    PROVE  /\ HasDiagram(x)' => HasDiagram(x) \/ (x = c /\ Frontend(c))
           /\ IsValidated(x)' => IsValidated(x) \/ (x = c /\ Validate(c))
BY DEF FilesInv, OfCompile, Outcomes, TypeOK, FilesStep, PublicationStep, Begin, ClearStale,
       ClearFailure, Frontend, Route, Raise, TypedFailure, Validate, ClearBeforePublish, Stage,
       Publish, PublishError, ClearAfterError, Promote, Cancel, Unlink, Go, Fail,
       HasDiagram, IsValidated

\* A compile's diagram stays in place while it works.
LEMMA NandStep ==
    ASSUME FilesInv, NEW c \in Compiles, FilesStep(c), directoryOf' = directoryOf,
           \A x \in Compiles : HasNand(x), NEW x \in Compiles
    PROVE  HasNand(x)'
<1> DEFINE d == directoryOf[c]
<1>1. Apart(c) /\ TypeOK /\ d \in Directories /\ d \in Places /\ d # Stable /\ "Nand" \in Names
  BY StepApart, PublicationAssumption DEF FilesInv, TypeOK, Places, Names
<1>2. CASE x # c
  <2>1. pc'[x] = pc[x] /\ directoryOf[x] \in Directories
    BY <1>1, <1>2 DEF Apart, TypeOK
  <2>2. CASE directoryOf[x] = d
    BY <1>1, <1>2, <2>1, <2>2 DEF Apart, HasNand
  <2>3. CASE directoryOf[x] # d
    BY <1>1, <1>2, <2>1, <2>3 DEF Apart, HasNand
  <2> QED BY <2>2, <2>3
<1>3. CASE x = c
  <2>1. CASE Frontend(c)
    BY <1>1, <1>3, <2>1, PutHere DEF Frontend, HasNand
  <2>2. CASE ClearBeforePublish(c)
    <3>1. SuccessArtifacts[index[c]] # "Nand" /\ SuccessArtifacts[index[c]] \in Names
      BY <2>2, SuccessSequence
         DEF ClearBeforePublish, Unlink, FilesInv, OfCompile, Indices, Names
    <3>2. files'[d]["Nand"] = files[d]["Nand"]
      BY <1>1, <2>2, <3>1 DEF ClearBeforePublish, Unlink, Put, TypeOK
    <3> QED BY <1>1, <1>3, <2>2, <3>2 DEF ClearBeforePublish, Unlink, HasNand, Apart
  <2>3. CASE Publish(c)
    <3>1. PublishOrder[index[c]] # "Nand" /\ PublishOrder[index[c]] \in Names
      BY <2>3, PublishSequence DEF Publish, FilesInv, OfCompile, Indices, Names
    <3>2. files'[d]["Nand"] = files[d]["Nand"]
      BY <1>1, <2>3, <3>1 DEF Publish, Put, TypeOK
    <3> QED BY <1>1, <1>3, <2>3, <3>2 DEF Publish, HasNand, Apart
  <2>4. CASE Promote(c)
    <3>1. files'[d] = files[d]
      BY <1>1, <2>4, PutStable DEF Promote
    <3> QED BY <1>1, <1>3, <2>4, <3>1 DEF Promote, HasNand, Apart
  <2>5. CASE Route(c) \/ Validate(c) \/ Stage(c)
    BY <1>1, <1>3, <2>5 DEF Route, Validate, Stage, HasNand, Apart
  <2>6. CASE \/ Begin(c) \/ ClearStale(c) \/ ClearFailure(c) \/ Raise(c) \/ TypedFailure(c)
             \/ PublishError(c) \/ ClearAfterError(c) \/ Cancel(c)
    BY <1>1, <1>3, <2>6
       DEF Begin, ClearStale, ClearFailure, Raise, TypedFailure, PublishError, ClearAfterError,
           Cancel, Unlink, Go, Fail, HasNand, TypeOK
  <2> QED BY <2>1, <2>2, <2>3, <2>4, <2>5, <2>6 DEF FilesStep, PublicationStep
<1> QED BY <1>2, <1>3

\* Only a promotion changes the stable files, and it copies the compile's own.
LEMMA StableStep ==
    ASSUME FilesInv, StableInv, NEW c \in Compiles, FilesStep(c), directoryOf' = directoryOf,
           NEW name \in Names, files'[Stable][name] # Absent
    PROVE  outcome'[files'[Stable][name]] = "compiled"
<1> DEFINE d == directoryOf[c]
<1>1. TypeOK /\ d \in Directories /\ d \in Places /\ d # Stable /\ Stable \in Places
  BY PublicationAssumption DEF FilesInv, TypeOK, Places
<1>2. CASE files'[Stable][name] = files[Stable][name]
  <2>1. files[Stable][name] \in Compiles /\ outcome[files[Stable][name]] = "compiled"
    BY <1>1, <1>2 DEF StableInv, TypeOK
  <2> QED BY <1>2, <2>1, CompiledStays
<1>3. CASE files'[Stable][name] # files[Stable][name]
  <2>1. Promote(c)
    BY <1>1, <1>3
       DEF FilesStep, PublicationStep, Begin, ClearStale, ClearFailure, Frontend, Route, Raise,
           TypedFailure, Validate, ClearBeforePublish, Stage, Publish, PublishError,
           ClearAfterError, Cancel, Unlink, Put, TypeOK
  <2> DEFINE own == PromoteOrder[index[c]]
  <2>2. own \in {"Schematic", "Nand", "PhysicalDesign", "PhysicalFixture"} /\ own \in Names
    BY <1>1, PromoteSequence DEF TypeOK, PromoteOrder, Names
  <2>3. UNCHANGED files \/ Put(Stable, own, files[d][own])
    BY <2>1 DEF Promote
  <2>4. files'[Stable][name] = files[d][own]
    <3> HIDE DEF own
    <3> QED BY <1>1, <1>3, <2>2, <2>3 DEF Put, TypeOK
  <2>5. files[d][own] = c /\ outcome[c] = "compiled"
    <3>1. OfCompile(c) /\ HasNand(c) /\ pc[c] = "promote"
      BY <2>1 DEF FilesInv, StableInv, Promote
    <3> HIDE DEF own
    <3> QED BY <2>2, <3>1 DEF OfCompile, Outcomes, Progress, Complete, HasNand, SuccessNames
  <2> QED BY <2>1, <2>4, <2>5 DEF Promote
<1> QED BY <1>2, <1>3

LEMMA StableInvStep == FilesInv /\ StableInv /\ [PipelineNext]_pipelineVars => StableInv'
<1> SUFFICES ASSUME FilesInv, StableInv, [PipelineNext]_pipelineVars PROVE StableInv'
  OBVIOUS
<1>1. CASE UNCHANGED <<vars, circuit>>
  BY <1>1 DEF vars, StableInv, Lowered, HasDiagram, IsValidated, Vectorizable, HasNand
<1>2. ASSUME NEW c \in Compiles, ParseSvToNetlist(c), directoryOf' = directoryOf PROVE StableInv'
  <2>1. pc[c] = "frontend" /\ outcome[c] = "none"
    BY <1>2 DEF ParseSvToNetlist, FilesInv, OfCompile, Outcomes
  <2>2. DOMAIN circuit' = Compiles /\ \A x \in Compiles \ {c} : circuit'[x] = circuit[x]
    BY <1>2 DEF ParseSvToNetlist, StableInv
  <2>3. ASSUME NEW x \in Compiles PROVE Lowered(x)' /\ HasNand(x)'
    BY <1>2, <2>1, <2>2
       DEF ParseSvToNetlist, StableInv, Lowered, HasDiagram, IsValidated, Vectorizable, HasNand
  <2> QED BY <1>2, <2>2, <2>3 DEF ParseSvToNetlist, StableInv
<1>3. ASSUME NEW c \in Compiles, directoryOf' = directoryOf,
             \/ Synthesize(c) \/ ValidateDiagram(c)
             \/ StageCapture(c) \/ CaptureFails(c) \/ FileStep(c)
      PROVE  StableInv'
  <2>1. FilesStep(c)
    BY <1>3 DEF Synthesize, ValidateDiagram, StageCapture, CaptureFails, FileStep, FilesStep,
                PublicationStep
  <2>2. \A x \in Compiles : HasNand(x)'
    BY <1>3, <2>1, NandStep DEF StableInv
  <2>3. \A name \in Names : files'[Stable][name] # Absent => outcome'[files'[Stable][name]] = "compiled"
    BY <1>3, <2>1, StableStep
  <2>4. CASE Synthesize(c)
    <3>1. /\ DOMAIN circuit' = Compiles
          /\ \A x \in Compiles \ {c} : circuit'[x] = circuit[x]
          /\ \E source, netlist : circuit'[c] = Compared(source, netlist)
      BY <2>4 DEF Synthesize, StableInv
    <3>2. pc[c] = "frontend" /\ pc'[c] = "routing" /\ outcome[c] = "none" /\ outcome' = outcome
      BY <2>4, GoHere DEF Synthesize, Frontend, FilesInv, OfCompile, Outcomes
    <3>3. ASSUME NEW x \in Compiles PROVE Lowered(x)'
      <4>1. CASE x = c
        BY <3>1, <3>2, <4>1 DEF Lowered, IsValidated
      <4>2. CASE x # c
        <5>1. HasDiagram(x)' => HasDiagram(x)
          BY <2>1, <4>2, StagesOf
        <5>2. IsValidated(x)' => IsValidated(x)
          BY <2>1, <4>2, StagesOf
        <5>3. circuit'[x] = circuit[x] /\ Lowered(x)
          BY <3>1, <4>2 DEF StableInv
        <5> QED BY <5>1, <5>2, <5>3 DEF Lowered, Vectorizable
      <4> QED BY <4>1, <4>2
    <3> QED BY <2>2, <2>3, <3>1, <3>3 DEF StableInv
  <2>5. CASE ~Synthesize(c)
    <3>1. circuit' = circuit /\ (ValidateDiagram(c) \/ StageCapture(c) \/ CaptureFails(c) \/ FileStep(c))
      BY <1>3, <2>5 DEF ValidateDiagram, StageCapture, CaptureFails, FileStep
    <3>2. ~Frontend(c)
      BY <3>1
         DEF ValidateDiagram, StageCapture, CaptureFails, FileStep, Validate, Stage, PublishError,
             Frontend, PublicationStep, Begin, ClearStale, ClearFailure, Route, Raise, TypedFailure,
             ClearBeforePublish, Publish, ClearAfterError, Promote, Cancel, Unlink, Go, Fail,
             FilesInv, TypeOK
    <3>3. Validate(c) => Vectorizable(c)
      BY <3>1
         DEF ValidateDiagram, StageCapture, CaptureFails, FileStep, Validate, Stage, PublishError,
             PublicationStep, Begin, ClearStale, ClearFailure, Route, Raise, TypedFailure,
             ClearBeforePublish, Publish, ClearAfterError, Promote, Cancel, Unlink, Go, Fail,
             FilesInv, TypeOK
    <3>4. ASSUME NEW x \in Compiles PROVE Lowered(x)'
      <4>1. HasDiagram(x)' => HasDiagram(x)
        BY <2>1, <3>2, StagesOf
      <4>2. IsValidated(x)' => IsValidated(x) \/ Vectorizable(x)
        BY <2>1, <3>3, StagesOf
      <4> QED BY <3>1, <4>1, <4>2 DEF StableInv, Lowered, Vectorizable
    <3> QED BY <2>2, <2>3, <3>1, <3>4 DEF StableInv
  <2> QED BY <2>4, <2>5
<1> QED
  BY <1>1, <1>2, <1>3
     DEF PipelineNext, pipelineVars, Tick, Advance, GiveUp, CaptureStep

LEMMA StableInvariant == PipelineSpec => []StableInv
BY StableInit, StableInvStep, FilesInvariant, PTL DEF PipelineSpec

-----------------------------------------------------------------------------
(* The diagram of a compile.                                               *)

\* The nets that synthesis adds have names of their own.  The code numbers them
\* (NandNet0, MinimizedNet0) and does not look whether a wire of the source is
\* called that.
NamesAreNew == \A source \in Sources : NewNames(Inputs \cup Outputs(source.gates))

Lowers(source, netlist) ==
    /\ source \in Sources
    /\ \E limit \in TableLimits : Optimizable(source, limit) /\ netlist \in OptimizeLogic(source, limit)

\* What is kept of a compile is nothing, its source, or the comparison of its
\* source with a netlist that OptimizeLogic made of it.
Traced(c) ==
    \/ circuit[c] = << >>
    \/ circuit[c] \in Sources
    \/ \E source, netlist : Lowers(source, netlist) /\ circuit[c] = Compared(source, netlist)

CircuitInv == DOMAIN circuit = Compiles /\ \A c \in Compiles : Traced(c)

LEMMA CircuitInit == PipelineInit => CircuitInv
BY DEF PipelineInit, CircuitInv, Traced

\* Parsing keeps a source and synthesis what was made of the source that was kept.
LEMMA CircuitStep == CircuitInv /\ [PipelineNext]_pipelineVars => CircuitInv'
<1> SUFFICES ASSUME CircuitInv, [PipelineNext]_pipelineVars PROVE CircuitInv'
  OBVIOUS
<1>1. CASE circuit' = circuit
  BY <1>1 DEF CircuitInv, Traced
<1>2. ASSUME NEW c \in Compiles, ParseSvToNetlist(c) PROVE CircuitInv'
  <2>1. PICK family \in (IF focus = "source" THEN SourceFamilies ELSE {{PlainSource}}) :
          \E source \in family : circuit' = [circuit EXCEPT ![c] = source]
    BY <1>2 DEF ParseSvToNetlist
  <2>2. PICK source \in family : circuit' = [circuit EXCEPT ![c] = source]
    BY <2>1
  <2>3. family \in SourceFamilies \/ family = {PlainSource}
    OBVIOUS
  <2>4. source \in Sources
    BY <2>3 DEF Sources
  <2> QED BY <2>2, <2>4 DEF CircuitInv, Traced
<1>3. ASSUME NEW c \in Compiles, Synthesize(c) PROVE CircuitInv'
  <2>1. PICK limit, netlist :
          /\ limit \in TableLimits
          /\ Optimizable(circuit[c], limit) /\ netlist \in OptimizeLogic(circuit[c], limit)
          /\ circuit' = [circuit EXCEPT ![c] = Compared(circuit[c], netlist)]
    BY <1>3 DEF Synthesize
  <2>2. "gates" \in DOMAIN circuit[c]
    BY <1>3 DEF Synthesize, IsParsed
  <2>3. \A source, made : "gates" \notin DOMAIN Compared(source, made)
    BY DEF Compared
  <2>4. circuit[c] \in Sources
    BY <2>2, <2>3 DEF CircuitInv, Traced
  <2>5. Lowers(circuit[c], netlist)
    BY <2>1, <2>4 DEF Lowers
  <2>6. ASSUME NEW x \in Compiles PROVE Traced(x)'
    <3>1. CASE x = c
      <4>1. circuit'[x] = Compared(circuit[c], netlist)
        BY <2>1, <3>1 DEF CircuitInv
      <4> QED BY <2>5, <4>1 DEF Traced, Lowers
    <3>2. CASE x # c
      <4>1. circuit'[x] = circuit[x] /\ Traced(x)
        BY <2>1, <3>2 DEF CircuitInv
      <4> QED BY <4>1 DEF Traced
    <3> QED BY <3>1, <3>2
  <2>7. DOMAIN circuit' = Compiles
    BY <2>1 DEF CircuitInv
  <2> QED BY <2>6, <2>7 DEF CircuitInv
<1> QED
  BY <1>1, <1>2, <1>3
     DEF PipelineNext, pipelineVars, Tick, Advance, GiveUp, CaptureStep, ValidateDiagram,
         StageCapture, CaptureFails, FileStep

LEMMA CircuitInvariant == PipelineSpec => []CircuitInv
BY CircuitInit, CircuitStep, PTL DEF PipelineSpec

\* Every comparison is one of equals, and complete where the source is in order
\* and no output of the netlist is an AND that is merged into an OR.
LEMMA ComparedAgree ==
    ASSUME NamesAreNew, NEW source, NEW netlist, Lowers(source, netlist)
    PROVE  LET made == Compared(source, netlist) IN
           /\ \A o \in DOMAIN made.built : made.built[o] = made.wanted[o]
           /\ made.orderly => DOMAIN made.built = DOMAIN made.wanted
<1> DEFINE nand  == ToNandOnly(netlist)
           asked == EvaluateLogicModule(source.gates)
           made  == EvaluateLogicModule(nand.gates)
           lit   == {o \in source.outputs : nand.lamps[o] \in DOMAIN made}
           compared == Compared(source, netlist)
<1>1. IsCombinational(source) /\ NewNames(Inputs \cup Outputs(source.gates))
  BY SourceAssumption DEF NamesAreNew, Lowers
<1>2. PICK limit \in TableLimits : Optimizable(source, limit) /\ netlist \in OptimizeLogic(source, limit)
  BY DEF Lowers
<1>3. \A o \in source.outputs :
        /\ nand.lamps[o] \in DOMAIN made => made[nand.lamps[o]] = asked[o]
        /\ InDependencyOrder(source.gates) /\ o \notin FusedAndOutputs(netlist.gates) =>
             nand.lamps[o] \in DOMAIN made
  BY <1>1, <1>2, SynthesisIsSound
<1>4. netlist.outputs = source.outputs
  <2>1. \E W : Preserves(asked, W, source, netlist)
    BY <1>1, <1>2, OptimizationIsSound
  <2> QED BY <2>1 DEF Preserves
<1>5. /\ compared.built = [o \in lit |-> made[nand.lamps[o]]]
      /\ compared.wanted = [o \in source.outputs |-> asked[o]]
      /\ compared.orderly <=> InDependencyOrder(source.gates) /\ ~ReadsFusedAnd(netlist)
  BY DEF Compared
<1> HIDE DEF nand, asked, made, compared
<1>6. \A o \in DOMAIN compared.built : compared.built[o] = compared.wanted[o]
  BY <1>3, <1>5
<1>7. ASSUME compared.orderly PROVE DOMAIN compared.built = DOMAIN compared.wanted
  <2>1. \A o \in source.outputs : o \notin FusedAndOutputs(netlist.gates)
    BY <1>4, <1>5, <1>7 DEF ReadsFusedAnd
  <2> QED BY <1>3, <1>5, <1>7, <2>1
<1> QED BY <1>6, <1>7 DEF compared

\* No lamp of a diagram computes anything but what its output does in the
\* source, and none is missing unless the gates are out of order or an AND that
\* is an output has been merged into an OR; for any inputs, sources and limits.
THEOREM DiagramsAreRight ==
    ASSUME NamesAreNew
    PROVE  PipelineSpec => []DiagramComputesTheSource
<1>1. CircuitInv => DiagramComputesTheSource
  <2> SUFFICES ASSUME CircuitInv, NEW c \in Compiles, IsLowered(c)
               PROVE  /\ \A o \in DOMAIN circuit[c].built : circuit[c].built[o] = circuit[c].wanted[o]
                      /\ circuit[c].orderly => Vectorizable(c)
    BY DEF DiagramComputesTheSource
  <2>1. \A source \in Sources : "wanted" \notin DOMAIN source
    <3> SUFFICES ASSUME NEW source \in Sources PROVE "wanted" \notin DOMAIN source
      OBVIOUS
    <3>1. source = [gates |-> source.gates, outputs |-> source.outputs]
      BY SourceAssumption DEF IsCombinational
    <3> QED BY <3>1
  <2>2. PICK source, netlist : Lowers(source, netlist) /\ circuit[c] = Compared(source, netlist)
    BY <2>1 DEF CircuitInv, Traced, IsLowered
  <2> QED BY <2>2, ComparedAgree DEF Vectorizable
<1> QED BY <1>1, CircuitInvariant, PTL

\* What reaches the stable paths was validated and computes what its source
\* says, for any number of compiles, directories and sources.
THEOREM StableFilesAreRight ==
    ASSUME NamesAreNew
    PROVE  PipelineSpec => []StableIsWhatWasAsked
<1>1. ASSUME FilesInv, StableInv, DiagramComputesTheSource PROVE StableIsWhatWasAsked
  <2> SUFFICES ASSUME NEW name \in Names, files[Stable][name] # Absent
               PROVE  LET c == files[Stable][name] IN
                      outcome[c] = "compiled" /\ IsLowered(c) /\ circuit[c].built = circuit[c].wanted
    BY DEF StableIsWhatWasAsked
  <2> DEFINE c == files[Stable][name]
  <2>1. c \in Compiles /\ outcome[c] = "compiled"
    BY <1>1 DEF FilesInv, TypeOK, Places, StableInv
  <2>2. PICK source, netlist : circuit[c] = Compared(source, netlist)
    BY <1>1, <2>1 DEF StableInv, Lowered, HasDiagram
  <2>3. DOMAIN circuit[c].built = DOMAIN circuit[c].wanted
    BY <1>1, <2>1 DEF StableInv, Lowered, IsValidated, Vectorizable
  <2>4. IsLowered(c)
    BY <2>2 DEF Compared, IsLowered
  <2>5. \A o \in DOMAIN circuit[c].built : circuit[c].built[o] = circuit[c].wanted[o]
    BY <1>1, <2>1, <2>4 DEF DiagramComputesTheSource
  <2>6. /\ circuit[c].built = [o \in DOMAIN circuit[c].built |-> circuit[c].built[o]]
        /\ circuit[c].wanted = [o \in DOMAIN circuit[c].wanted |-> circuit[c].wanted[o]]
    BY <2>2 DEF Compared
  <2> QED BY <2>1, <2>3, <2>4, <2>5, <2>6
<1> QED BY <1>1, FilesInvariant, StableInvariant, DiagramsAreRight, PTL
=============================================================================
