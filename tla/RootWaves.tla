------------------------------ MODULE RootWaves ------------------------------
(***************************************************************************)
(* The parallel root of the native assignment search (RustRouting          *)
(* Assignment/Search.rs, TryAssignIndexedCandidates and                    *)
(* SearchIndexedGuideBranchFromState): the candidates of one guide signal  *)
(* are the branches, searched in waves on the routing thread pool.  All    *)
(* branches spend one shared atomic counter and each has a share of its    *)
(* own; their outcomes are consumed in candidate order.                    *)
(*                                                                         *)
(* What a branch searches is reduced to its plan: the expansions it will   *)
(* ask for, one by one or as a bundle of access candidates at once, and    *)
(* whether it then has a witness.                                          *)
(***************************************************************************)
EXTENDS Integers, Sequences

CONSTANTS Branches,               \* number of root candidates, in their order
          Threads,                \* RoutingThreadPool().current_num_threads()
          MaximumExpansionCount,
          Plans                   \* the plans a branch may have

ASSUME WavesAssumption ==
    /\ Branches \in Nat \ {0} /\ Threads \in Nat \ {0}
    /\ MaximumExpansionCount \in Nat \ {0}
    /\ Plans \subseteq Seq(Nat \ {0})

VARIABLES plan, feasible,   \* of each branch
          phase,            \* "start", "run", "consume", "done"
          offset, waveEnd,  \* the wave is offset + 1 .. waveEnd
          running,          \* of each branch: "idle", "entering", "working", "ended"
          spent,            \* expansions a branch made (its ExpansionCount)
          step,             \* how many requests of its plan were granted
          outcome,          \* Success, BudgetExhausted, DeadlineExceeded of a branch
          shared,           \* SharedExpansionCount
          expired,          \* Deadline.WasExceeded()
          consumed,         \* outcomes consumed so far
          anyLocal,         \* AnyLocalBudgetExhausted
          exhausted,        \* BudgetExhausted
          chosen            \* the branch whose selection is taken, 0 for none

roots == <<plan, feasible>>
branch == <<running, spent, step, outcome>>
result == <<consumed, anyLocal, exhausted, chosen>>
wavesVars == <<roots, phase, offset, waveEnd, branch, shared, expired, result>>

Index == 1 .. Branches
Lesser(a, b) == IF a < b THEN a ELSE b

(* MaximumExpansionCount.div_ceil(min(candidates, threads))                *)
Share ==
    LET ways == Lesser(Branches, Threads)
    IN (MaximumExpansionCount + ways - 1) \div ways

NoOutcome == [success |-> FALSE, budget |-> FALSE, deadline |-> FALSE]

-----------------------------------------------------------------------------
WavesInit ==
    /\ plan \in [Index -> Plans] /\ feasible \in [Index -> BOOLEAN]
    /\ phase = "start" /\ offset = 0 /\ waveEnd = 0
    /\ running = [b \in Index |-> "idle"]
    /\ spent = [b \in Index |-> 0] /\ step = [b \in Index |-> 0]
    /\ outcome = [b \in Index |-> NoOutcome]
    /\ shared = 0 /\ expired = FALSE
    /\ consumed = 0 /\ anyLocal = FALSE /\ exhausted = FALSE /\ chosen = 0

(* The first candidate is probed alone, the others in waves.               *)
StartWave ==
    /\ phase = "start" /\ offset < Branches
    /\ waveEnd' = Lesser(offset + (IF offset = 0 THEN 1 ELSE Threads), Branches)
    /\ running' = [b \in Index |-> IF b \in offset + 1 .. waveEnd'
                                     THEN "entering" ELSE running[b]]
    /\ phase' = "run"
    /\ UNCHANGED <<roots, offset, spent, step, outcome, shared, expired, result>>

End(b, success, budget, deadline) ==
    /\ running' = [running EXCEPT ![b] = "ended"]
    /\ outcome' = [outcome EXCEPT ![b] =
                     [success |-> success, budget |-> budget, deadline |-> deadline]]

(* A branch is entered: it needs one expansion of the shared counter.      *)
Enter(b) ==
    /\ phase = "run" /\ running[b] = "entering"
    /\ IF expired
         THEN End(b, FALSE, FALSE, TRUE) /\ UNCHANGED <<spent, shared>>
       ELSE IF shared < MaximumExpansionCount
         THEN /\ running' = [running EXCEPT ![b] = "working"]
              /\ spent' = [spent EXCEPT ![b] = 1] /\ shared' = shared + 1
              /\ UNCHANGED outcome
         ELSE End(b, FALSE, TRUE, FALSE) /\ UNCHANGED <<spent, shared>>
    /\ UNCHANGED <<roots, phase, offset, waveEnd, step, expired, result>>

WorkChargedOnce(b) ==          \* mutation: a bundle is charged as one expansion
    /\ phase = "run" /\ running[b] = "working" /\ ~expired
    /\ step[b] < Len(plan[b])
    /\ LET n == plan[b][step[b] + 1] IN
       IF spent[b] + n <= Share /\ shared < MaximumExpansionCount
         THEN /\ shared' = shared + 1
              /\ spent' = [spent EXCEPT ![b] = @ + n]
              /\ step' = [step EXCEPT ![b] = @ + 1]
              /\ UNCHANGED <<running, outcome>>
         ELSE End(b, FALSE, TRUE, FALSE) /\ UNCHANGED <<shared, spent, step>>
    /\ UNCHANGED <<roots, phase, offset, waveEnd, expired, result>>

(* The next request of its plan.  A single expansion asks its own share    *)
(* first; a bundle asks both, and the shared counter is charged even when  *)
(* the share refuses.                                                      *)
Work(b) ==
    /\ phase = "run" /\ running[b] = "working" /\ ~expired
    /\ step[b] < Len(plan[b])
    /\ LET n == plan[b][step[b] + 1]
           local == spent[b] + n <= Share
           global == shared + n <= MaximumExpansionCount
           charged == global /\ (local \/ n > 1)
       IN /\ shared' = IF charged THEN shared + n ELSE shared
          /\ IF local /\ global
               THEN /\ spent' = [spent EXCEPT ![b] = @ + n]
                    /\ step' = [step EXCEPT ![b] = @ + 1]
                    /\ UNCHANGED <<running, outcome>>
               ELSE End(b, FALSE, TRUE, FALSE) /\ UNCHANGED <<spent, step>>
    /\ UNCHANGED <<roots, phase, offset, waveEnd, expired, result>>

(* The branch has searched all it had, or stops at a deadline check; its   *)
(* outcome tells whether the deadline has passed by then.                  *)
Return(b) ==
    /\ phase = "run" /\ running[b] = "working"
    /\ \/ step[b] = Len(plan[b]) /\ End(b, feasible[b], FALSE, expired)
       \/ expired /\ End(b, FALSE, FALSE, TRUE)
    /\ UNCHANGED <<roots, phase, offset, waveEnd, spent, step, shared, expired, result>>

JoinOnFirst ==                 \* mutation: the wave ends with its first outcome
    /\ phase = "run" /\ \E b \in offset + 1 .. waveEnd : running[b] = "ended"
    /\ phase' = "consume"
    /\ UNCHANGED <<roots, offset, waveEnd, branch, shared, expired, result>>

Join ==
    /\ phase = "run" /\ \A b \in offset + 1 .. waveEnd : running[b] = "ended"
    /\ phase' = "consume"
    /\ UNCHANGED <<roots, offset, waveEnd, branch, shared, expired, result>>

(* The outcomes of the wave, in candidate order.                           *)
Consume ==
    /\ phase = "consume" /\ consumed < waveEnd
    /\ consumed' = consumed + 1
    /\ LET o == outcome[consumed + 1]
           full == shared >= MaximumExpansionCount
       IN \/ /\ o.deadline
             /\ phase' = "done" /\ UNCHANGED <<anyLocal, exhausted, chosen>>
          \/ /\ ~o.deadline /\ o.budget /\ full
             /\ phase' = "done" /\ exhausted' = TRUE /\ UNCHANGED <<anyLocal, chosen>>
          \/ /\ ~o.deadline /\ ~(o.budget /\ full)
             /\ anyLocal' = (anyLocal \/ o.budget)
             /\ chosen' = IF o.success THEN consumed + 1 ELSE 0
             /\ phase' = IF o.success THEN "done" ELSE phase
             /\ UNCHANGED exhausted
    /\ UNCHANGED <<roots, offset, waveEnd, branch, shared, expired>>

NextWave ==
    /\ phase = "consume" /\ consumed = waveEnd
    /\ offset' = waveEnd /\ phase' = "start"
    /\ UNCHANGED <<roots, waveEnd, branch, shared, expired, result>>

NoWaveLeft ==
    /\ phase = "start" /\ offset = Branches
    /\ phase' = "done"
    /\ UNCHANGED <<roots, offset, waveEnd, branch, shared, expired, result>>

RootDeadlinePasses ==
    /\ ~expired /\ phase # "done" /\ expired' = TRUE
    /\ UNCHANGED <<roots, phase, offset, waveEnd, branch, shared, result>>

Finished == phase = "done" /\ UNCHANGED wavesVars

WorkerStep == \E b \in Index : Enter(b) \/ Work(b) \/ Return(b)
Control == StartWave \/ Join \/ Consume \/ NextWave \/ NoWaveLeft

WavesNext == WorkerStep \/ Control \/ RootDeadlinePasses \/ Finished

WavesSpec == WavesInit /\ [][WavesNext]_wavesVars /\ WF_wavesVars(WorkerStep \/ Control)

-----------------------------------------------------------------------------
Success == chosen # 0
BudgetExhaustedShared == exhausted    \* mutation: a branch's own budget is forgotten
BudgetExhausted == exhausted \/ (~Success /\ anyLocal)

WavesTypeOK ==
    /\ phase \in {"start", "run", "consume", "done"}
    /\ offset \in 0 .. Branches /\ waveEnd \in offset .. Branches
    /\ consumed \in offset .. waveEnd
    /\ running \in [Index -> {"idle", "entering", "working", "ended"}]
    /\ \A b \in Index : spent[b] \in 0 .. Share /\ step[b] \in 0 .. Len(plan[b])
    /\ shared \in Nat /\ chosen \in 0 .. Branches
    /\ {expired, anyLocal, exhausted} \subseteq BOOLEAN

\* The expansions that all branches have made.
Spent == LET upTo[b \in 0 .. Branches] == IF b = 0 THEN 0 ELSE upTo[b - 1] + spent[b]
         IN  upTo[Branches]

(* However the branches interleave, the expansions they really make never  *)
(* exceed what the shared counter was charged, and that never exceeds the  *)
(* budget: two workers cannot both take the last expansion.  (The type     *)
(* invariant, which bounds each by its share, is part.)                    *)
WorkIsCharged ==
    /\ WavesTypeOK
    /\ Spent <= shared
    /\ shared <= MaximumExpansionCount

(* When a witness is taken, every branch before it in candidate order was  *)
(* searched to its end without a witness, or was cut by a budget: a branch *)
(* that merely took longer than a later one is never passed over.          *)
PassedOverOnlyWhenCut ==
    Success =>
        /\ feasible[chosen]
        /\ \A b \in 1 .. chosen - 1 :
              running[b] = "ended" /\ (feasible[b] => outcome[b].budget)

Answer ==
    CASE phase # "done" -> "none"
      [] phase = "done" /\ expired -> "incomplete"
      [] phase = "done" /\ ~expired /\ Success -> "witness"
      [] phase = "done" /\ ~expired /\ ~Success /\ BudgetExhausted -> "incomplete"
      [] OTHER -> "unsatisfiable"

(* The waves implement the promise of an assignment search: an answer      *)
(* comes, and "unsatisfiable" is said only when no branch has a witness.   *)
Promise == INSTANCE AssignmentAnswer
    WITH solvable <- \E b \in Index : feasible[b], answer <- Answer
KeepsPromise == Promise!Spec
=============================================================================
