---------------------------- MODULE LogicSynthesis ----------------------------
(***************************************************************************)
(* From parsed gates to a NAND module: StructurallySimplifyLogic,          *)
(* OptimizeLogic (LogicOptimization.py) and ToNandOnly (NandTransform.py), *)
(* with the evaluators both sides are compared by.                         *)
(*                                                                         *)
(* A gate reads a set of one or two signals: every kind is commutative,    *)
(* and a binary gate with one signal reads it twice.  A netlist is a       *)
(* sequence of gates and its outputs.  What a signal computes is the set   *)
(* of assignments that make it true, an assignment the set of inputs that  *)
(* are true.  A net that synthesis adds is named by what drives it, which  *)
(* stands for its number and for the tables of nets to be shared.          *)
(***************************************************************************)
EXTENDS Naturals, SequencesExt

CONSTANT Inputs   \* the primary inputs

ASSUME InputsAssumption == IsFiniteSet(Inputs)

Assignments == SUBSET Inputs

The(S) == CHOOSE s \in S : TRUE
IsSingle(S) == \E s \in S : S = {s}

\* FoldLeft, recursive in the length only, and a function with one more value.
Accumulate(Op(_, _), base, seq) ==
    LET After[n \in 0 .. Len(seq)] ==
          IF n = 0 THEN base ELSE Op(After[n - 1], seq[n])
    IN After[Len(seq)]
With(f, x, value) == [s \in DOMAIN f \cup {x} |-> IF s = x THEN value ELSE f[s]]

Gate(kind, inputs, output) == [kind |-> kind, inputs |-> inputs, output |-> output]
IsBinary(kind) == kind \in {"AND", "NAND", "OR", "XOR"}

-----------------------------------------------------------------------------
(* Evaluation.                                                             *)

Computes(kind, tables) ==
    CASE kind \in {"BUFFER", "OR"} -> UNION tables
      [] kind = "NOT"  -> Assignments \ UNION tables
      [] kind = "AND"  -> {v \in Assignments : \A t \in tables : v \in t}
      [] kind = "NAND" -> {v \in Assignments : \E t \in tables : v \notin t}
      [] kind = "XOR"  -> {v \in Assignments : \E s, t \in tables : v \in s \ t}

InputTables == [x \in Inputs |-> {v \in Assignments : x \in v}]

\* A gate is visited; one that reads an unknown signal is left pending.
Evaluate(known, g) ==
    IF g.inputs \subseteq DOMAIN known
      THEN With(known, g.output, Computes(g.kind, {known[s] : s \in g.inputs}))
      ELSE known

\* EvaluateLogicModule: as many passes over the gates as can make progress.
EvaluateLogicModule(gates) ==
    LET visits == Len(gates) * Len(gates)
        Known[n \in 0 .. visits] ==
          IF n = 0 THEN InputTables
          ELSE Evaluate(Known[n - 1], gates[((n - 1) % Len(gates)) + 1])
    IN Known[visits]

\* What has a value for every signal: gates of the parser's kinds, one driver for
\* each signal and one for every output, all of which ParseSvToNetlist sees to; and
\* no loop, no wire left open and no input assigned, which it does not look for.
Outputs(gates) == {gates[i].output : i \in DOMAIN gates}

IsCombinational(netlist) ==
    LET gates == netlist.gates
    IN /\ netlist = [gates |-> gates, outputs |-> netlist.outputs]
       /\ gates \in Seq(ToSet(gates))
       /\ \A g \in ToSet(gates) :
             /\ \/ IsBinary(g.kind)
                \/ g.kind \in {"NOT", "BUFFER"} /\ IsSingle(g.inputs)
             /\ \E s, t \in g.inputs : g.inputs = {s, t}
             /\ g.output \notin Inputs
       /\ \A i, j \in DOMAIN gates : gates[i].output = gates[j].output => i = j
       /\ IsFiniteSet(netlist.outputs) /\ netlist.outputs \subseteq Outputs(gates)
       /\ Outputs(gates) \subseteq DOMAIN EvaluateLogicModule(gates)

\* EvaluateModuleOutputs has one pass, and fails on a signal not yet known.
InDependencyOrder(gates) ==
    \A i \in DOMAIN gates :
        gates[i].inputs \subseteq Inputs \cup {gates[j].output : j \in 1 .. i - 1}

-----------------------------------------------------------------------------
(* The tables of a pass over the gates: what has been emitted, what is     *)
(* another name for what, and which signals invert one another.            *)

NothingEmitted == [gates |-> << >>, aliases |-> << >>, inversions |-> << >>]

Resolve(st, s) == IF s \in DOMAIN st.aliases THEN st.aliases[s] ELSE s

\* Chains of aliases are followed to their end; here they are kept shut.
Alias(st, name, target) ==
    [st EXCEPT !.aliases =
        [s \in DOMAIN @ \cup {name} |->
            IF s = name THEN target ELSE IF @[s] = name THEN target ELSE @[s]]]

Emit(st, g) == [st EXCEPT !.gates = Append(@, g)]

\* The gates that already compute this: at most one.
Same(gates, kind, inputs) ==
    {g \in ToSet(gates) : g.kind = kind /\ g.inputs = inputs}

NoteInversion(st, s, t) == [st EXCEPT !.inversions = With(With(@, t, s), s, t)]

-----------------------------------------------------------------------------
(* StructurallySimplifyLogic.                                              *)

\* A gate that passes its input on; XOR does not, even of two equal ones.
IsWire(kind, inputs) ==
    \/ kind = "BUFFER"
    \/ kind \in {"AND", "OR"} /\ IsSingle(inputs)

SimplifyGate(st, g) ==
    LET inputs == {Resolve(st, s) : s \in g.inputs}
        input  == The(inputs)
        same   == Same(st.gates, g.kind, inputs)
        kept   == Emit(st, Gate(g.kind, inputs, g.output))
    IN IF IsWire(g.kind, inputs) THEN Alias(st, g.output, input)
       ELSE IF g.kind = "NOT" /\ input \in DOMAIN st.inversions
         THEN Alias(st, g.output, Resolve(st, st.inversions[input]))
       ELSE IF same # {} THEN Alias(st, g.output, Resolve(st, The(same).output))
       ELSE IF g.kind = "NOT" THEN NoteInversion(kept, input, g.output)
       ELSE kept

\* Dead code: the signals the outputs depend on.
Required(gates, outputs) ==
    LET Level[n \in 0 .. Len(gates)] ==
          IF n = 0 THEN outputs
          ELSE Level[n - 1] \cup
               UNION {g.inputs : g \in {h \in ToSet(gates) : h.output \in Level[n - 1]}}
    IN Level[Len(gates)]

SelectGates(gates, signals) ==
    Accumulate(LAMBDA kept, g : IF g.output \in signals THEN Append(kept, g) ELSE kept,
               << >>, gates)

\* An output that has become another name is buffered.
BufferOutputs(st, outputs) ==
    LET aliased == SetToSeq({o \in outputs : Resolve(st, o) # o})
    IN [i \in DOMAIN aliased |-> Gate("BUFFER", {Resolve(st, aliased[i])}, aliased[i])]

StructurallySimplifyLogic(netlist) ==
    LET st == Accumulate(SimplifyGate, NothingEmitted, netlist.gates)
        gates == st.gates \o BufferOutputs(st, netlist.outputs)
    IN [gates |-> SelectGates(gates, Required(gates, netlist.outputs)),
        outputs |-> netlist.outputs]

-----------------------------------------------------------------------------
(* ToNandOnly.                                                             *)

\* Mutant: how often the AND is read does not matter.
FusedAnyAnd(gates) ==
    {g.output : g \in {h \in ToSet(gates) :
        /\ h.kind = "AND"
        /\ \E r \in ToSet(gates) : r.kind = "OR" /\ h.output \in r.inputs}}

\* An AND that one OR reads, and no other gate: it is merged into that OR.
FusedAndOutputs(gates) ==
    {g.output : g \in {h \in ToSet(gates) :
        /\ h.kind = "AND"
        /\ \E r \in ToSet(gates) :
             /\ r.kind = "OR" /\ h.output \in r.inputs /\ Cardinality(r.inputs) = 2
             /\ \A q \in ToSet(gates) \ {r} : h.output \notin q.inputs}}

Unnamed == << >>   \* no output of its own

\* The net that computes the NAND of signals, found or added.
AddNand(st, signals, output) ==
    LET inputs == {Resolve(st, s) : s \in signals}
        input  == The(inputs)
        same   == Same(st.gates, "NAND", inputs)
        Found(net) ==
            [st |-> IF output = Unnamed THEN st ELSE Alias(st, output, net), net |-> net]
        new   == IF output = Unnamed THEN <<inputs>> ELSE output
        added == Emit(st, Gate("NAND", inputs, new))
    IN IF IsSingle(inputs) /\ input \in DOMAIN st.inversions
         THEN Found(Resolve(st, st.inversions[input]))
       ELSE IF same # {} THEN Found(Resolve(st, The(same).output))
       ELSE IF IsSingle(inputs)
         THEN [st |-> NoteInversion(added, input, new), net |-> new]
       ELSE [st |-> added, net |-> new]

\* An unnamed NAND for each of one or two sets of signals.
AddNands(st, family) ==
    LET first == The(family)
        rest  == family \ {first}
        one   == AddNand(st, first, Unnamed)
        two   == AddNand(one.st, The(rest), Unnamed)
    IN IF rest = {} THEN [st |-> one.st, nets |-> {one.net}]
                    ELSE [st |-> two.st, nets |-> {one.net, two.net}]

MapGate(source, st, g) ==
    LET fused == FusedAndOutputs(source)
        ReadBy(s) == IF s \in fused
                       THEN The({h \in ToSet(source) : h.output = s}).inputs
                       ELSE {s}
        shared == AddNand(st, g.inputs, Unnamed)
        halves == CASE g.kind = "OR"  -> AddNands(st, {ReadBy(s) : s \in g.inputs})
                    [] g.kind = "XOR" -> AddNands(shared.st, {{s, shared.net} : s \in g.inputs})
                    [] g.kind = "AND" -> [st |-> shared.st, nets |-> {shared.net}]
                    [] OTHER -> [st |-> st, nets |-> g.inputs]
    IN IF g.kind = "AND" /\ g.output \in fused THEN st
       ELSE IF g.kind = "BUFFER" THEN Alias(st, g.output, Resolve(st, The(g.inputs)))
       ELSE AddNand(halves.st, halves.nets, g.output).st

\* The NAND module, and for every output the signal its lamp reads.
ToNandOnly(netlist) ==
    LET st == Accumulate(LAMBDA acc, g : MapGate(netlist.gates, acc, g),
                         NothingEmitted, netlist.gates)
    IN [gates |-> st.gates, lamps |-> [o \in netlist.outputs |-> Resolve(st, o)]]

CountNands(netlist) == Len(ToNandOnly(netlist).gates)

-----------------------------------------------------------------------------
(* The candidate from the truth table.  A cube fixes some inputs.          *)

Cubes == UNION {[care : {C}, value : SUBSET C] : C \in SUBSET Inputs}
Covered(cube) == {v \in Assignments : v \cap cube.care = cube.value}

\* Quine-McCluskey: the cubes within a table that no wider one contains.
PrimeImplicants(table) ==
    LET implicants == {q \in Cubes : Covered(q) \subseteq table}
    IN {p \in implicants :
          \A q \in implicants : Covered(p) \subseteq Covered(q) => q = p}

LiteralCount(cover) == MapThenSumSet(LAMBDA q : Cardinality(q.care), cover)

\* SelectMinimumCover: fewest literals, then fewest terms; which of several
\* such covers the search meets first is left open.
MinimumCovers(table) ==
    LET covers == {S \in SUBSET PrimeImplicants(table) : UNION {Covered(q) : q \in S} = table}
        Cheaper(S, T) ==
            \/ LiteralCount(S) < LiteralCount(T)
            \/ LiteralCount(S) = LiteralCount(T) /\ Cardinality(S) < Cardinality(T)
    IN {S \in covers : \A T \in covers : ~Cheaper(T, S)}

\* MinimizeOutputTruthTable: a sum for the output, or for its complement where
\* that is cheaper with the inverter counted; none for a constant.
MinimizedSums(table) ==
    LET Sums(complement) ==
          {[cover |-> S, complement |-> complement] :
             S \in MinimumCovers(IF complement THEN Assignments \ table ELSE table)}
        Cost(sum) == LiteralCount(sum.cover) + Cardinality(sum.cover) - 1
                     + (IF sum.complement THEN 1 ELSE 0)
        straight == The(Sums(FALSE))
        inverted == The(Sums(TRUE))
        dearer == \/ Cost(straight) > Cost(inverted)
                  \/ /\ Cost(straight) = Cost(inverted)
                     /\ Cardinality(straight.cover) > Cardinality(inverted.cover)
    IN IF table \in {{}, Assignments} THEN {} ELSE Sums(dearer)

\* One gate, unless it is there, and a left fold of binary gates.
EmitOnce(gates, kind, inputs) ==
    LET net == <<kind, inputs>>
    IN [gates |-> IF Same(gates, kind, inputs) # {} THEN gates
                  ELSE Append(gates, Gate(kind, inputs, net)),
        net |-> net]

Combine(gates, kind, nets) ==
    Accumulate(LAMBDA acc, net : EmitOnce(acc.gates, kind, {acc.net, net}),
               [gates |-> gates, net |-> Head(nets)], Tail(nets))

\* The gates of one cube, of one sum and of one output.
EmitLiteral(gates, cube, x) ==
    IF x \in cube.value THEN gates ELSE EmitOnce(gates, "NOT", {x}).gates
Literal(cube, x) == IF x \in cube.value THEN x ELSE <<"NOT", {x}>>

EmitCube(gates, cube) ==
    LET literals == SetToSeq(cube.care)
        inverted == Accumulate(LAMBDA acc, x : EmitLiteral(acc, cube, x), gates, literals)
    IN Combine(inverted, "AND", [i \in DOMAIN literals |-> Literal(cube, literals[i])])

EmitTerm(acc, cube) ==
    LET term == EmitCube(acc.gates, cube)
    IN [gates |-> term.gates, nets |-> Append(acc.nets, term.net)]

EmitSum(gates, sum) ==
    LET terms  == Accumulate(EmitTerm, [gates |-> gates, nets |-> << >>],
                             SetToSeq(sum.cover))
        result == Combine(terms.gates, "OR", terms.nets)
    IN IF sum.complement THEN EmitOnce(result.gates, "NOT", {result.net}) ELSE result

EmitOutput(gates, o, sum) ==
    LET result == EmitSum(gates, sum)
    IN Append(result.gates, Gate("BUFFER", {result.net}, o))

BuildTruthTableCandidate(outputs, sums) ==
    [gates |-> Accumulate(LAMBDA gates, o : EmitOutput(gates, o, sums[o]),
                          << >>, SetToSeq(outputs)),
     outputs |-> outputs]

-----------------------------------------------------------------------------
(* OptimizeLogic.                                                          *)

\* A circuit with few enough inputs has its truth table computed, which fails
\* on gates out of order and on outputs without a driver.
Optimizable(netlist, limit) ==
    LET structural == StructurallySimplifyLogic(netlist).gates
    IN \/ Cardinality(Inputs) > limit
       \/ /\ InDependencyOrder(structural)
          /\ netlist.outputs \subseteq Inputs \cup Outputs(structural)

\* The netlists it may return.
OptimizeLogic(netlist, limit) ==
    LET structural == StructurallySimplifyLogic(netlist)
        tables == EvaluateLogicModule(structural.gates)
        choices == [o \in netlist.outputs |-> MinimizedSums(tables[o])]
        sums == {f \in [netlist.outputs -> UNION {choices[o] : o \in netlist.outputs}] :
                   \A o \in netlist.outputs : f[o] \in choices[o]}
        Kept(candidate) == IF CountNands(candidate) < CountNands(structural)
                             THEN candidate ELSE structural
    IN IF Cardinality(Inputs) > limit \/ \E o \in netlist.outputs : choices[o] = {}
         THEN {structural}
         ELSE {Kept(BuildTruthTableCandidate(netlist.outputs, f)) : f \in sums}
===============================================================================
