-------------------------- MODULE ValidationVerdict --------------------------
(***************************************************************************)
(* What one validation request promises, with no server, ticks or levers:  *)
(* the vectors are judged in order against what the circuit really does,   *)
(* and the verdict is a fact about the first vector that is not right, or  *)
(* an admission that nothing was decided.  FabricHarness implements it.    *)
(***************************************************************************)
EXTENDS Naturals, Sequences

CONSTANTS Settings, Outputs, Expected, Vectors, Oscillates, Undecided

VARIABLES circuit,  \* what each setting settles to, if it does
          tested,   \* vectors found right so far
          verdict   \* Undecided until it is given, then final

vars == <<circuit, tested, verdict>>

Init ==
    /\ circuit \in [Settings -> Outputs \cup {Oscillates}]
    /\ tested = 0
    /\ verdict = Undecided

Undone == verdict = Undecided /\ tested < Len(Vectors)

NextVector == Vectors[tested + 1]

TestVector ==
    /\ Undone
    /\ circuit[NextVector] = Expected[NextVector]
    /\ tested' = tested + 1
    /\ UNCHANGED <<circuit, verdict>>

Pass ==
    /\ verdict = Undecided
    /\ tested = Len(Vectors)
    /\ verdict' = "passed"
    /\ UNCHANGED <<circuit, tested>>

FindMismatch ==
    /\ Undone
    /\ circuit[NextVector] \notin {Expected[NextVector], Oscillates}
    /\ verdict' = "mismatch"
    /\ UNCHANGED <<circuit, tested>>

FindUnsettled ==
    /\ Undone
    /\ circuit[NextVector] = Oscillates
    /\ verdict' = "timeout"
    /\ UNCHANGED <<circuit, tested>>

\* A load makes no claim about the circuit, a failure of the means none either.
DecideNothing ==
    /\ verdict = Undecided
    /\ verdict' \in {"loaded", "infrastructure-failure"}
    /\ UNCHANGED <<circuit, tested>>

Next == TestVector \/ Pass \/ FindMismatch \/ FindUnsettled \/ DecideNothing

Spec == Init /\ [][Next]_vars
==============================================================================
