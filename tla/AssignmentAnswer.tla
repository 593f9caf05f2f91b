--------------------------- MODULE AssignmentAnswer ---------------------------
(***************************************************************************)
(* What an assignment search promises the router that asked: one answer,   *)
(* which is a witness only if some legal assignment exists, which claims   *)
(* unsatisfiability only if none does, and which otherwise says that the   *)
(* search was cut short (RoutingAssignmentResult: Success, BudgetExhausted *)
(* and DeadlineExceeded in RustRouting Core/Models.rs).  The abstract      *)
(* specification of CandidateAssignment and of RootWaves.                  *)
(***************************************************************************)
VARIABLES solvable,  \* whether a legal assignment of every signal exists
          answer     \* "none", "witness", "unsatisfiable", "incomplete"

Init == solvable \in BOOLEAN /\ answer = "none"

Answer ==
    /\ answer = "none"
    /\ \/ answer' = "witness" /\ solvable
       \/ answer' = "unsatisfiable" /\ ~solvable
       \/ answer' = "incomplete"
    /\ UNCHANGED solvable

Next == Answer

Spec == Init /\ [][Next]_<<solvable, answer>> /\ WF_<<solvable, answer>>(Next)
=============================================================================
