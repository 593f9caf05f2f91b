--------------------------- MODULE TraceQuiescence ---------------------------
(***************************************************************************)
(* One TraceQuiescenceTracker driven by calls of Observe with any game     *)
(* time and any probe state: in order, repeated, after skipped ticks,      *)
(* backward, and after the window has completed.                           *)
(*                                                                         *)
(* `seen` is a history variable: the probe state recorded at each game     *)
(* time, so that what the tracker says can be compared with what it saw.   *)
(***************************************************************************)
EXTENDS QuiescenceTracker, FiniteSets

CONSTANTS MaxGameTime,   \* bound on the game times a call may carry
          TraceStates,   \* the states the probes can be in
          Unobserved     \* not a trace state: no call recorded this tick

ASSUME ObservationAssumption ==
    /\ MaxGameTime \in Nat
    /\ Unobserved \notin TraceStates

VARIABLES tracker,       \* the fields of the tracker object
          answer,        \* how the last call of Observe ended
          seen           \* history: game time -> recorded probe state

trackerVars == <<tracker, answer, seen>>

GameTimes == 0 .. MaxGameTime

Answers == {"none", "status", "quiescence-already-settled",
            "game-time-moved-backward"}

TrackerTypeOK ==
    /\ tracker \in TrackerOf(GameTimes, TraceStates)
    /\ answer \in Answers
    /\ seen \in [GameTimes -> TraceStates \cup {Unobserved}]

TrackerInit ==
    \E start \in GameTimes, state \in TraceStates :
        /\ tracker = NewTracker(start, state)
        /\ answer = "none"
        /\ seen = [time \in GameTimes |->
                     IF time = start THEN state ELSE Unobserved]

-----------------------------------------------------------------------------
(* Observe(GameTime, TraceState), one action per way the call can end.     *)

\* The object is spent once it has settled.
ObserveAfterSettled ==
    /\ tracker.Settled
    /\ answer' = "quiescence-already-settled"
    /\ UNCHANGED <<tracker, seen>>

ObserveBackward(time) ==
    /\ ~tracker.Settled
    /\ time < tracker.PreviousGameTime
    /\ answer' = "game-time-moved-backward"
    /\ UNCHANGED <<tracker, seen>>

\* A second callback within one game tick is answered from the old status.
ObserveSameTick(time) ==
    /\ ~tracker.Settled
    /\ time = tracker.PreviousGameTime
    /\ answer' = "status"
    /\ UNCHANGED <<tracker, seen>>

ObserveLaterTick(time, state) ==
    /\ ~tracker.Settled
    /\ time > tracker.PreviousGameTime
    /\ tracker' = Observed(tracker, time, state)
    /\ answer' = "status"
    /\ seen' = [seen EXCEPT ![time] = state]

TrackerNext ==
    \/ ObserveAfterSettled
    \/ \E time \in GameTimes :
         \/ ObserveBackward(time)
         \/ ObserveSameTick(time)
         \/ \E state \in TraceStates : ObserveLaterTick(time, state)

TrackerSpec == TrackerInit /\ [][TrackerNext]_trackerVars

-----------------------------------------------------------------------------
(* What the tracker promises about what it saw.                            *)

\* A full quiet window ends at `end`: it and the RequiredUnchangedTicks ticks
\* before it were all recorded, and all with one state.
QuietWindow(end) ==
    /\ end - RequiredUnchangedTicks >= tracker.StartGameTime
    /\ seen[end] # Unobserved
    /\ \A time \in (end - RequiredUnchangedTicks) .. end : seen[time] = seen[end]

\* The tracker reports settled exactly at the first quiet window: it never
\* settles across a skipped tick or on too short a run, and never lets a
\* complete window pass (TraceQuiescenceTracker.Observe).  (The type invariant
\* is part.)
SettledAtFirstQuietWindow ==
    /\ TrackerTypeOK
    /\ tracker.Settled => QuietWindow(tracker.PreviousGameTime)
    /\ \A end \in GameTimes :
         QuietWindow(end) => tracker.Settled /\ end = tracker.PreviousGameTime

\* The change tick of a verdict's evidence: while no tick was skipped, the
\* probes have kept one state since that tick and differed just before it.
ChangeTickIsTheLastChange ==
    LET changed == tracker.StartGameTime + tracker.LastObservedChangeTick IN
    tracker.UnobservedTickGapCount = 0 =>
        /\ \A time \in changed .. tracker.PreviousGameTime :
              seen[time] = tracker.PreviousTraceState
        /\ tracker.LastObservedChangeTick > 0 =>
              seen[changed - 1] # seen[changed]

\* The game times at which recording resumed after skipped ticks.
GapEnds ==
    {time \in (tracker.StartGameTime + 1) .. tracker.PreviousGameTime :
        seen[time] # Unobserved /\ seen[time - 1] = Unobserved}

\* Every stretch of skipped ticks is counted exactly once, so a verdict with a
\* zero count rests on every tick.
GapCountIsExact == tracker.UnobservedTickGapCount = Cardinality(GapEnds)

\* The settlement evidence a verdict is reported with is what the probes did:
\* LastObservedChangeTick and UnobservedTickGapCount of Observe.
EvidenceIsExact == ChangeTickIsTheLastChange /\ GapCountIsExact
=============================================================================
