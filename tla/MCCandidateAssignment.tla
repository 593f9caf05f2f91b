------------------------ MODULE MCCandidateAssignment ------------------------
(* Three signals with two candidates each: every compatibility relation    *)
(* between every choice of initial domains is an initial state, with five  *)
(* expansions of its own or two shared ones.                               *)
EXTENDS CandidateAssignment

MCSignals == 1 .. 3
MCCandidates == 1 .. 2
MCDeferred == {1}
MCBudgets == {[limit |-> 5, shared |-> FALSE], [limit |-> 2, shared |-> TRUE]}
=============================================================================
