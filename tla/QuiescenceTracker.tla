-------------------------- MODULE QuiescenceTracker --------------------------
(***************************************************************************)
(* The arithmetic of one TraceQuiescenceTracker: what its constructor      *)
(* builds and how one accepted observation moves it.  The tracker decides  *)
(* when a redstone network under test counts as settled: after a run of    *)
(* RequiredUnchangedTicks consecutive game ticks, none of them skipped,    *)
(* over which every trace probe kept its state.                            *)
(***************************************************************************)
EXTENDS Integers

CONSTANTS RequiredUnchangedTicks,  \* length of the quiet window, in ticks
          TimeoutTicks             \* ticks after which the vector has timed out

\* The two arguments the constructor refuses to go on without.
ASSUME TrackerAssumption ==
    /\ RequiredUnchangedTicks \in Nat \ {0}
    /\ TimeoutTicks \in Nat
    /\ TimeoutTicks >= RequiredUnchangedTicks

\* Every tracker over the given game times and probe states.
TrackerOf(times, states) ==
    [StartGameTime          : times,
     PreviousGameTime       : times,
     PreviousTraceState     : states,
     UnchangedTicks         : Nat,
     LastObservedChangeTick : Nat,
     UnobservedTickGapCount : Nat,
     Settled                : BOOLEAN]

NewTracker(start, state) ==
    [StartGameTime          |-> start,
     PreviousGameTime       |-> start,
     PreviousTraceState     |-> state,
     UnchangedTicks         |-> 0,
     LastObservedChangeTick |-> 0,
     UnobservedTickGapCount |-> 0,
     Settled                |-> FALSE]

ElapsedTicks(tracker) == tracker.PreviousGameTime - tracker.StartGameTime

\* Mutant: the deadline is given the length of the window.
TimedOutAtWindow(tracker) ==
    ~tracker.Settled /\ ElapsedTicks(tracker) >= RequiredUnchangedTicks

\* The status says timed out only of a network that has not settled, so the
\* window that completes on the deadline tick wins over the deadline.
TimedOut(tracker) == ~tracker.Settled /\ ElapsedTicks(tracker) >= TimeoutTicks

IsNextTick(tracker, time) == time = tracker.PreviousGameTime + 1

\* Mutant: a run goes on across skipped ticks.
UnchangedAcrossGap(tracker, time, state) ==
    IF state = tracker.PreviousTraceState THEN tracker.UnchangedTicks + 1 ELSE 0

\* The length of the unchanged run once `state` has been seen at `time`.
UnchangedAfter(tracker, time, state) ==
    IF IsNextTick(tracker, time) /\ state = tracker.PreviousTraceState
      THEN tracker.UnchangedTicks + 1
      ELSE 0

\* Mutants: the change is dated one tick early; the subtraction is swapped.
ChangeTickEarly(tracker, time, state) ==
    IF IsNextTick(tracker, time) /\ state # tracker.PreviousTraceState
      THEN ElapsedTicks(tracker)
      ELSE tracker.LastObservedChangeTick

\* The tick of the last change once `state` has been seen at `time`.  Across
\* a gap it stays: nobody saw when the change happened.
ChangeTickAfter(tracker, time, state) ==
    IF IsNextTick(tracker, time) /\ state # tracker.PreviousTraceState
      THEN time - tracker.StartGameTime
      ELSE tracker.LastObservedChangeTick

\* The tracker after it accepts an observation later than the previous one.
Observed(tracker, time, state) ==
    [StartGameTime          |-> tracker.StartGameTime,
     PreviousGameTime       |-> time,
     PreviousTraceState     |-> state,
     UnchangedTicks         |-> UnchangedAfter(tracker, time, state),
     LastObservedChangeTick |-> ChangeTickAfter(tracker, time, state),
     UnobservedTickGapCount |->
        IF IsNextTick(tracker, time) THEN tracker.UnobservedTickGapCount
                                     ELSE tracker.UnobservedTickGapCount + 1,
     Settled                |->
        UnchangedAfter(tracker, time, state) >= RequiredUnchangedTicks]
==============================================================================
