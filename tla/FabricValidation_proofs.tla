---------------------- MODULE FabricValidation_proofs ----------------------
(***************************************************************************)
(* Validation on the Fabric server: the quiescence tracker, and the        *)
(* harness with its client, for any number of connections, fixtures,       *)
(* settings, vectors and concurrent control requests, and for any window,  *)
(* timeout and delay of the circuit that PhysicalAssumption allows.        *)
(*                                                                         *)
(* First the tracker by itself, under any observations; then in four       *)
(* layers: the observer slot has one owner; what holds however             *)
(* sessions overlap (types, the state of the redstone, what each location  *)
(* of a session implies); what holds while at most one session is busy     *)
(* (the observer sees the settling circuit for what it is, and a judgement *)
(* is right); and what the client may conclude from it.                    *)
(***************************************************************************)
EXTENDS FabricClient, TraceQuiescence, FiniteSetTheorems, TLAPS

(***************************************************************************)
(* The tracker is right about settlement for every window length, every    *)
(* timeout, every set of trace states and every bound on game time.        *)
(*                                                                         *)
(* SettledAtFirstQuietWindow is not inductive: nothing in it ties          *)
(* UnchangedTicks to the history.  RunIsMaximal does: the last             *)
(* UnchangedTicks + 1 recordings exist and are equal, and the one before   *)
(* them differs or was skipped.                                            *)
(***************************************************************************)

\* Everything recorded lies between the start and the previous observation.
RecordedUpToPrevious ==
    /\ tracker.StartGameTime <= tracker.PreviousGameTime
    /\ seen[tracker.PreviousGameTime] = tracker.PreviousTraceState
    /\ \A time \in GameTimes :
         time > tracker.PreviousGameTime => seen[time] = Unobserved

RunIsMaximal ==
    /\ tracker.UnchangedTicks <= ElapsedTicks(tracker)
    /\ \A time \in (tracker.PreviousGameTime - tracker.UnchangedTicks)
                     .. tracker.PreviousGameTime :
         seen[time] = tracker.PreviousTraceState
    /\ tracker.UnchangedTicks < ElapsedTicks(tracker) =>
         seen[tracker.PreviousGameTime - tracker.UnchangedTicks - 1]
            # tracker.PreviousTraceState

\* The run never grows past the window: the tracker stops when it is full.
SettledWhenRunIsFull ==
    /\ tracker.UnchangedTicks <= RequiredUnchangedTicks
    /\ tracker.Settled <=> tracker.UnchangedTicks = RequiredUnchangedTicks

\* No window was complete before the previous observation.
NoEarlierWindow ==
    \A end \in GameTimes :
        end < tracker.PreviousGameTime => ~QuietWindow(end)

TrackerInv ==
    /\ TrackerTypeOK
    /\ RecordedUpToPrevious
    /\ RunIsMaximal
    /\ SettledWhenRunIsFull
    /\ NoEarlierWindow

-----------------------------------------------------------------------------
\* The constructor builds a tracker of the right type, with an empty run.
LEMMA NewTrackerType ==
    ASSUME NEW start \in GameTimes, NEW state \in TraceStates
    PROVE  NewTracker(start, state) \in TrackerOf(GameTimes, TraceStates)
BY DEF NewTracker, TrackerOf

\* An accepted observation keeps the tracker's type.
LEMMA ObservedType ==
    ASSUME NEW old \in TrackerOf(GameTimes, TraceStates),
           NEW time \in GameTimes, NEW state \in TraceStates,
           time > old.PreviousGameTime, old.StartGameTime <= old.PreviousGameTime
    PROVE  Observed(old, time, state) \in TrackerOf(GameTimes, TraceStates)
BY ObservationAssumption
   DEF Observed, TrackerOf, UnchangedAfter, ChangeTickAfter, IsNextTick, GameTimes

LEMMA InitTrackerInv == TrackerInit => TrackerInv
<1> SUFFICES ASSUME TrackerInit PROVE TrackerInv
  OBVIOUS
<1> USE TrackerAssumption, ObservationAssumption DEF TrackerAssumption, ObservationAssumption
<1>1. PICK start \in GameTimes, state \in TraceStates :
        /\ tracker = NewTracker(start, state)
        /\ answer = "none"
        /\ seen = [time \in GameTimes |->
                     IF time = start THEN state ELSE Unobserved]
  BY DEF TrackerInit
<1>2. TrackerTypeOK
  BY <1>1, NewTrackerType DEF TrackerTypeOK, Answers
<1>3. RecordedUpToPrevious /\ RunIsMaximal /\ SettledWhenRunIsFull
  BY <1>1 DEF RecordedUpToPrevious, RunIsMaximal, SettledWhenRunIsFull,
              NewTracker, ElapsedTicks, GameTimes
<1>4. NoEarlierWindow
  BY <1>1 DEF NoEarlierWindow, QuietWindow, NewTracker, GameTimes
<1> QED
  BY <1>2, <1>3, <1>4 DEF TrackerInv

\* The step that does the work: an observation at a later tick.
LEMMA ObserveLaterTickTrackerInv ==
    ASSUME TrackerInv, NEW time \in GameTimes, NEW state \in TraceStates,
           ObserveLaterTick(time, state)
    PROVE  TrackerInv'
<1> USE TrackerAssumption, ObservationAssumption DEF TrackerAssumption, ObservationAssumption
<1> DEFINE old == tracker
           new == Observed(tracker, time, state)
<1>1. /\ ~tracker.Settled
      /\ time > tracker.PreviousGameTime
      /\ tracker' = new
      /\ seen' = [seen EXCEPT ![time] = state]
  BY DEF ObserveLaterTick
<1>2. /\ tracker.StartGameTime \in Nat
      /\ tracker.PreviousGameTime \in Nat
      /\ tracker.PreviousGameTime <= MaxGameTime
      /\ tracker.UnchangedTicks \in Nat
      /\ tracker.StartGameTime <= tracker.PreviousGameTime
      /\ tracker.UnchangedTicks <= tracker.PreviousGameTime - tracker.StartGameTime
  BY DEF TrackerInv, TrackerTypeOK, TrackerOf, RecordedUpToPrevious, RunIsMaximal,
         ElapsedTicks, GameTimes
<1>0. /\ tracker \in TrackerOf(GameTimes, TraceStates)
      /\ seen \in [GameTimes -> TraceStates \cup {Unobserved}]
      /\ tracker.PreviousGameTime \in GameTimes
      /\ tracker.StartGameTime \in GameTimes
  BY DEF TrackerInv, TrackerTypeOK, TrackerOf
<1>3. /\ tracker'.StartGameTime = tracker.StartGameTime
      /\ tracker'.PreviousGameTime = time
      /\ tracker'.PreviousTraceState = state
      /\ tracker'.UnchangedTicks = UnchangedAfter(tracker, time, state)
  BY <1>1 DEF Observed, ChangeTickAfter
<1>9. tracker'.Settled <=>
         UnchangedAfter(tracker, time, state) >= RequiredUnchangedTicks
  BY <1>1 DEF Observed, ChangeTickAfter
<1>4. \A t \in GameTimes : seen'[t] = IF t = time THEN state ELSE seen[t]
  BY <1>0, <1>1
<1>5. TrackerTypeOK'
  <2>1. tracker' \in TrackerOf(GameTimes, TraceStates)
    BY <1>0, <1>1, <1>2, ObservedType
  <2>2. answer' \in Answers
    BY DEF ObserveLaterTick, Answers
  <2> QED
    BY <1>0, <1>1, <2>1, <2>2 DEF TrackerTypeOK
<1>6. RecordedUpToPrevious'
  BY <1>1, <1>2, <1>3, <1>4 DEF TrackerInv, RecordedUpToPrevious, GameTimes
<1>7. tracker.UnchangedTicks < RequiredUnchangedTicks
  BY <1>1, <1>2 DEF TrackerInv, SettledWhenRunIsFull
<1>8. RunIsMaximal' /\ SettledWhenRunIsFull'
  <2>1. CASE time = tracker.PreviousGameTime + 1 /\ state = tracker.PreviousTraceState
    <3>1. tracker'.UnchangedTicks = tracker.UnchangedTicks + 1
      BY <1>3, <2>1 DEF UnchangedAfter, IsNextTick
    <3>2. \A t \in (time - tracker'.UnchangedTicks) .. time :
             seen'[t] = state
      <4>1. \A t \in (time - tracker'.UnchangedTicks) .. time :
               /\ t \in GameTimes
               /\ t # time => t \in (tracker.PreviousGameTime - tracker.UnchangedTicks)
                                       .. tracker.PreviousGameTime
        BY <1>2, <2>1, <3>1 DEF GameTimes
      <4> QED
        BY <1>4, <2>1, <4>1 DEF TrackerInv, RunIsMaximal
    <3>4. tracker'.UnchangedTicks < time - tracker.StartGameTime =>
             seen'[time - tracker'.UnchangedTicks - 1] # state
      <4>1. time - tracker'.UnchangedTicks - 1
               = tracker.PreviousGameTime - tracker.UnchangedTicks - 1
        BY <1>2, <2>1, <3>1
      <4>2. ASSUME tracker'.UnchangedTicks < time - tracker.StartGameTime
            PROVE  /\ tracker.UnchangedTicks < ElapsedTicks(tracker)
                   /\ tracker.PreviousGameTime - tracker.UnchangedTicks - 1 \in GameTimes
                   /\ tracker.PreviousGameTime - tracker.UnchangedTicks - 1 # time
        BY <1>2, <2>1, <3>1, <4>2 DEF ElapsedTicks, GameTimes
      <4> QED
        BY <1>4, <2>1, <4>1, <4>2 DEF TrackerInv, RunIsMaximal
    <3>5. tracker'.UnchangedTicks <= time - tracker.StartGameTime
      BY <1>2, <2>1, <3>1
    <3>6. RunIsMaximal'
      BY <1>3, <3>2, <3>4, <3>5 DEF RunIsMaximal, ElapsedTicks
    <3>3. SettledWhenRunIsFull'
      <4>1. /\ tracker.UnchangedTicks + 1 <= RequiredUnchangedTicks
            /\ tracker.UnchangedTicks + 1 >= RequiredUnchangedTicks
                 <=> tracker.UnchangedTicks + 1 = RequiredUnchangedTicks
        BY <1>2, <1>7
      <4> QED
        BY <1>3, <1>9, <3>1, <4>1 DEF SettledWhenRunIsFull
    <3> QED
      BY <3>3, <3>6
  <2>2. CASE ~(time = tracker.PreviousGameTime + 1 /\ state = tracker.PreviousTraceState)
    <3>1. UnchangedAfter(tracker, time, state) = 0
      BY <2>2 DEF UnchangedAfter, IsNextTick
    <3>2. time - 1 \in GameTimes /\ seen'[time - 1] = seen[time - 1]
      BY <1>1, <1>2, <1>4 DEF GameTimes
    <3>3. seen'[time - 1] # state
      <4>1. CASE time = tracker.PreviousGameTime + 1
        BY <1>2, <2>2, <3>2, <4>1 DEF TrackerInv, RecordedUpToPrevious, GameTimes
      <4>2. CASE time # tracker.PreviousGameTime + 1
        <5>1. time - 1 > tracker.PreviousGameTime
          BY <1>1, <1>2, <4>2 DEF GameTimes
        <5> QED
          BY <3>2, <5>1 DEF TrackerInv, RecordedUpToPrevious
      <4> QED
        BY <4>1, <4>2
    <3>4. RunIsMaximal'
      BY <1>1, <1>2, <1>3, <1>4, <3>1, <3>3
         DEF RunIsMaximal, ElapsedTicks, GameTimes
    <3>5. SettledWhenRunIsFull'
      <4>1. 0 <= RequiredUnchangedTicks /\ ~(0 >= RequiredUnchangedTicks)
        OBVIOUS
      <4> QED
        BY <1>3, <1>9, <3>1, <4>1 DEF SettledWhenRunIsFull
    <3> QED
      BY <3>4, <3>5
  <2> QED
    BY <2>1, <2>2
<1>10. NoEarlierWindow'
  <2> SUFFICES ASSUME NEW end \in GameTimes, end < time, QuietWindow(end)'
               PROVE  FALSE
    BY <1>3 DEF NoEarlierWindow
  <2>0. end \in Nat /\ end - RequiredUnchangedTicks >= tracker.StartGameTime
    BY <1>3 DEF QuietWindow, GameTimes
  <2>1. /\ seen'[end] # Unobserved
        /\ \A t \in (end - RequiredUnchangedTicks) .. end : seen'[t] = seen'[end]
    BY <1>3 DEF QuietWindow
  <2>2. \A t \in (end - RequiredUnchangedTicks) .. end :
           t \in GameTimes /\ seen'[t] = seen[t]
    BY <1>2, <1>4, <2>0 DEF GameTimes
  <2>3. QuietWindow(end)
    BY <1>2, <2>0, <2>1, <2>2 DEF QuietWindow, GameTimes
  <2>4. end = tracker.PreviousGameTime
    <3>1. ~(end < tracker.PreviousGameTime)
      BY <2>3 DEF TrackerInv, NoEarlierWindow
    <3>2. ~(end > tracker.PreviousGameTime)
      BY <2>3 DEF TrackerInv, RecordedUpToPrevious, QuietWindow
    <3> QED
      BY <1>2, <3>1, <3>2 DEF GameTimes
  \* The run is shorter than the window, so the window holds the tick at
  \* which the run began, whose state differs.
  <2>5. /\ tracker.PreviousGameTime - tracker.UnchangedTicks - 1
             \in (end - RequiredUnchangedTicks) .. end
        /\ tracker.UnchangedTicks < ElapsedTicks(tracker)
    BY <1>2, <1>7, <2>0, <2>4 DEF ElapsedTicks
  <2>6. end \in (end - RequiredUnchangedTicks) .. end
    BY <2>0
  <2> QED
    BY <2>1, <2>2, <2>4, <2>5, <2>6 DEF TrackerInv, RunIsMaximal, RecordedUpToPrevious
<1> QED
  BY <1>5, <1>6, <1>8, <1>10 DEF TrackerInv

LEMMA NextTrackerInv == TrackerInv /\ [TrackerNext]_trackerVars => TrackerInv'
<1> SUFFICES ASSUME TrackerInv, [TrackerNext]_trackerVars PROVE TrackerInv'
  OBVIOUS
<1> USE DEF TrackerInv, RecordedUpToPrevious, RunIsMaximal, SettledWhenRunIsFull,
            NoEarlierWindow, QuietWindow, ElapsedTicks
<1>1. CASE ObserveAfterSettled
  BY <1>1 DEF ObserveAfterSettled, TrackerTypeOK, Answers
<1>2. ASSUME NEW time \in GameTimes, ObserveBackward(time)
      PROVE  TrackerInv'
  BY <1>2 DEF ObserveBackward, TrackerTypeOK, Answers
<1>3. ASSUME NEW time \in GameTimes, ObserveSameTick(time)
      PROVE  TrackerInv'
  BY <1>3 DEF ObserveSameTick, TrackerTypeOK, Answers
<1>4. ASSUME NEW time \in GameTimes, NEW state \in TraceStates,
             ObserveLaterTick(time, state)
      PROVE  TrackerInv'
  BY <1>4, ObserveLaterTickTrackerInv
<1>5. CASE UNCHANGED trackerVars
  BY <1>5 DEF trackerVars, TrackerTypeOK
<1> QED
  BY <1>1, <1>2, <1>3, <1>4, <1>5 DEF TrackerNext

LEMMA TrackerInvHolds == TrackerSpec => []TrackerInv
BY InitTrackerInv, NextTrackerInv, PTL DEF TrackerSpec

\* The tracker's fields stay in their ranges (TraceQuiescenceTracker).
THEOREM TrackerTypeCorrect == TrackerSpec => []TrackerTypeOK
<1>1. TrackerInv => TrackerTypeOK
  BY DEF TrackerInv
<1> QED
  BY <1>1, TrackerInvHolds, PTL

\* The tracker settles exactly at the end of the first complete, fully
\* observed quiet window, whatever the window length and the trace.
THEOREM SettlesAtFirstQuietWindow == TrackerSpec => []SettledAtFirstQuietWindow
<1>1. ASSUME TrackerInv PROVE SettledAtFirstQuietWindow
  <2> USE TrackerAssumption, ObservationAssumption DEF TrackerAssumption, ObservationAssumption
  <2>1. /\ tracker.StartGameTime \in GameTimes
        /\ tracker.PreviousGameTime \in GameTimes
        /\ tracker.PreviousTraceState \in TraceStates
        /\ tracker.UnchangedTicks \in Nat
    BY <1>1 DEF TrackerInv, TrackerTypeOK, TrackerOf
  <2>2. ASSUME tracker.Settled PROVE QuietWindow(tracker.PreviousGameTime)
    BY <1>1, <2>1, <2>2
       DEF TrackerInv, RecordedUpToPrevious, RunIsMaximal, SettledWhenRunIsFull,
           QuietWindow, ElapsedTicks, GameTimes
  <2>3. ASSUME NEW end \in GameTimes, QuietWindow(end)
        PROVE  tracker.Settled /\ end = tracker.PreviousGameTime
    <3>1. end = tracker.PreviousGameTime
      <4>1. ~(end < tracker.PreviousGameTime)
        BY <1>1, <2>3 DEF TrackerInv, NoEarlierWindow
      <4>2. ~(end > tracker.PreviousGameTime)
        BY <1>1, <2>3 DEF TrackerInv, RecordedUpToPrevious, QuietWindow
      <4> QED
        BY <2>1, <4>1, <4>2 DEF GameTimes
    <3>2. tracker.UnchangedTicks = RequiredUnchangedTicks
      <4> SUFFICES ASSUME tracker.UnchangedTicks < RequiredUnchangedTicks
                   PROVE  FALSE
        BY <1>1, <2>1 DEF TrackerInv, SettledWhenRunIsFull
      <4>1. /\ tracker.PreviousGameTime - tracker.UnchangedTicks - 1
                 \in (end - RequiredUnchangedTicks) .. end
            /\ tracker.UnchangedTicks < ElapsedTicks(tracker)
        BY <2>1, <2>3, <3>1 DEF QuietWindow, ElapsedTicks, GameTimes
      <4> QED
        BY <1>1, <2>3, <3>1, <4>1
           DEF TrackerInv, RunIsMaximal, RecordedUpToPrevious, QuietWindow
    <3> QED
      BY <1>1, <3>1, <3>2 DEF TrackerInv, SettledWhenRunIsFull
  <2>4. TrackerTypeOK
    BY <1>1 DEF TrackerInv
  <2> QED
    BY <2>2, <2>3, <2>4 DEF SettledAtFirstQuietWindow
<1> QED
  BY <1>1, TrackerInvHolds, PTL

-----------------------------------------------------------------------------
(* The evidence: when the last change was, and how often ticks were missed. *)

EvidenceInv ==
    /\ EvidenceIsExact
    /\ tracker.LastObservedChangeTick <= ElapsedTicks(tracker)

LEMMA InitEvidenceInv == TrackerInit => EvidenceInv
<1> SUFFICES ASSUME TrackerInit PROVE EvidenceInv
  OBVIOUS
<1>1. PICK start \in GameTimes, state \in TraceStates :
        /\ tracker = NewTracker(start, state)
        /\ seen = [time \in GameTimes |->
                     IF time = start THEN state ELSE Unobserved]
  BY DEF TrackerInit
<1>2. start \in Nat
  BY DEF GameTimes
<1>3. ChangeTickIsTheLastChange /\ tracker.LastObservedChangeTick <= ElapsedTicks(tracker)
  BY <1>1, <1>2 DEF ChangeTickIsTheLastChange, NewTracker, ElapsedTicks
<1>4. GapEnds = {}
  BY <1>1, <1>2 DEF GapEnds, NewTracker
<1>5. GapCountIsExact
  BY <1>1, <1>4, FS_EmptySet DEF GapCountIsExact, NewTracker
<1> QED
  BY <1>3, <1>5 DEF EvidenceInv, EvidenceIsExact

\* What an accepted observation adds to the stretches of skipped ticks.
LEMMA GapEndsAfter ==
    ASSUME TrackerInv, NEW time \in GameTimes, NEW state \in TraceStates,
           ObserveLaterTick(time, state)
    PROVE  /\ GapEnds' = IF IsNextTick(tracker, time) THEN GapEnds
                         ELSE GapEnds \cup {time}
           /\ IsFiniteSet(GapEnds) /\ time \notin GapEnds
<1> USE ObservationAssumption
<1>1. /\ time > tracker.PreviousGameTime
      /\ tracker'.StartGameTime = tracker.StartGameTime
      /\ tracker'.PreviousGameTime = time
      /\ seen' = [seen EXCEPT ![time] = state]
  BY DEF ObserveLaterTick, Observed
<1>2. /\ tracker.StartGameTime \in Nat /\ tracker.PreviousGameTime \in Nat
      /\ time \in Nat /\ time <= MaxGameTime /\ MaxGameTime \in Nat
      /\ tracker.StartGameTime <= tracker.PreviousGameTime
      /\ seen[tracker.PreviousGameTime] # Unobserved
      /\ \A t \in GameTimes : t > tracker.PreviousGameTime => seen[t] = Unobserved
  BY DEF TrackerInv, TrackerTypeOK, TrackerOf, RecordedUpToPrevious, GameTimes
<1>3. \A t \in GameTimes : seen'[t] = IF t = time THEN state ELSE seen[t]
  BY <1>1 DEF TrackerInv, TrackerTypeOK
<1>4. state # Unobserved
  OBVIOUS
<1>5. time \in GapEnds' <=> ~IsNextTick(tracker, time)
  <2>1. time - 1 \in GameTimes /\ time - 1 # time
    BY <1>1, <1>2 DEF GameTimes
  <2>2. time \in GapEnds' <=> seen[time - 1] = Unobserved
    BY <1>1, <1>2, <1>3, <1>4, <2>1 DEF GapEnds
  <2>3. CASE time = tracker.PreviousGameTime + 1
    <3>1. time - 1 = tracker.PreviousGameTime
      BY <1>2, <2>3
    <3> QED
      BY <1>2, <2>2, <2>3, <3>1 DEF IsNextTick
  <2>4. CASE time # tracker.PreviousGameTime + 1
    <3>1. time - 1 > tracker.PreviousGameTime
      BY <1>1, <1>2, <2>4
    <3> QED
      BY <1>2, <2>1, <2>2, <2>4, <3>1 DEF IsNextTick
  <2> QED
    BY <2>3, <2>4
<1>6. ASSUME NEW t \in Int, t # time PROVE t \in GapEnds' <=> t \in GapEnds
  <2>1. CASE t > tracker.PreviousGameTime
    <3>1. t \notin GapEnds
      BY <1>2, <2>1 DEF GapEnds
    <3>2. t \in GapEnds' => t \in GameTimes /\ seen'[t] # Unobserved
      BY <1>1, <1>2, <2>1 DEF GapEnds, GameTimes
    <3>3. t \in GameTimes => seen'[t] = Unobserved
      BY <1>2, <1>3, <1>6, <2>1
    <3> QED
      BY <3>1, <3>2, <3>3
  <2>2. CASE t <= tracker.PreviousGameTime /\ t >= tracker.StartGameTime + 1
    <3>1. /\ t \in GameTimes /\ t - 1 \in GameTimes /\ t - 1 # time
          /\ t \in (tracker.StartGameTime + 1) .. tracker.PreviousGameTime
          /\ t \in (tracker'.StartGameTime + 1) .. tracker'.PreviousGameTime
      BY <1>1, <1>2, <2>2 DEF GameTimes
    <3>2. seen'[t] = seen[t] /\ seen'[t - 1] = seen[t - 1]
      BY <1>3, <1>6, <3>1
    <3> QED
      BY <3>1, <3>2 DEF GapEnds
  <2>3. CASE t < tracker.StartGameTime + 1
    BY <1>1, <1>2, <2>3 DEF GapEnds
  <2> QED
    BY <1>2, <2>1, <2>2, <2>3
<1>7. GapEnds \subseteq Int /\ GapEnds' \subseteq Int /\ time \in Int
  BY <1>1, <1>2 DEF GapEnds
<1>8. time \notin GapEnds
  BY <1>1, <1>2 DEF GapEnds
<1>9. IsFiniteSet(GapEnds)
  <2>0. tracker.StartGameTime + 1 \in Int /\ tracker.PreviousGameTime \in Int
    BY <1>2
  <2>1. IsFiniteSet((tracker.StartGameTime + 1) .. tracker.PreviousGameTime)
    BY <2>0, FS_Interval
  <2> QED
    BY <2>1, FS_Subset DEF GapEnds
<1>10. GapEnds' = IF IsNextTick(tracker, time) THEN GapEnds ELSE GapEnds \cup {time}
  <2>1. CASE IsNextTick(tracker, time)
    <3>1. \A t : t \in GapEnds' <=> t \in GapEnds
      BY <1>5, <1>6, <1>7, <1>8, <2>1
    <3> QED
      BY <2>1, <3>1
  <2>2. CASE ~IsNextTick(tracker, time)
    <3>1. \A t : t \in GapEnds' <=> t \in GapEnds \cup {time}
      BY <1>5, <1>6, <1>7, <2>2
    <3>2. GapEnds' = GapEnds \cup {time}
      BY <3>1
    <3> QED
      BY <2>2, <3>2
  <2> QED
    BY <2>1, <2>2
<1> QED
  BY <1>8, <1>9, <1>10

LEMMA ObserveLaterTickEvidence ==
    ASSUME TrackerInv, EvidenceInv, NEW time \in GameTimes, NEW state \in TraceStates,
           ObserveLaterTick(time, state)
    PROVE  EvidenceInv'
<1> USE ObservationAssumption
<1> DEFINE changed  == tracker.StartGameTime + tracker.LastObservedChangeTick
           changed1 == tracker'.StartGameTime + tracker'.LastObservedChangeTick
<1>1. /\ time > tracker.PreviousGameTime
      /\ tracker'.StartGameTime = tracker.StartGameTime
      /\ tracker'.PreviousGameTime = time
      /\ tracker'.PreviousTraceState = state
      /\ tracker'.LastObservedChangeTick = ChangeTickAfter(tracker, time, state)
      /\ tracker'.UnobservedTickGapCount =
           IF IsNextTick(tracker, time) THEN tracker.UnobservedTickGapCount
                                        ELSE tracker.UnobservedTickGapCount + 1
      /\ seen' = [seen EXCEPT ![time] = state]
  BY DEF ObserveLaterTick, Observed
<1>2. /\ tracker.StartGameTime \in Nat /\ tracker.PreviousGameTime \in Nat
      /\ tracker.LastObservedChangeTick \in Nat
      /\ tracker.UnobservedTickGapCount \in Nat
      /\ time \in Nat /\ time <= MaxGameTime /\ MaxGameTime \in Nat
      /\ tracker.StartGameTime <= tracker.PreviousGameTime
      /\ seen[tracker.PreviousGameTime] = tracker.PreviousTraceState
      /\ tracker.LastObservedChangeTick
           <= tracker.PreviousGameTime - tracker.StartGameTime
  BY DEF TrackerInv, TrackerTypeOK, TrackerOf, RecordedUpToPrevious, GameTimes, EvidenceInv,
         ElapsedTicks
<1>3. \A t \in GameTimes : seen'[t] = IF t = time THEN state ELSE seen[t]
  BY <1>1 DEF TrackerInv, TrackerTypeOK
<1>4. GapCountIsExact'
  <2>1. tracker.UnobservedTickGapCount = Cardinality(GapEnds)
    BY DEF EvidenceInv, EvidenceIsExact, GapCountIsExact
  <2>2. Cardinality(GapEnds') = IF IsNextTick(tracker, time) THEN Cardinality(GapEnds)
                                ELSE Cardinality(GapEnds) + 1
    BY GapEndsAfter, FS_AddElement
  <2>3. Cardinality(GapEnds') = tracker'.UnobservedTickGapCount
    BY <1>1, <2>1, <2>2
  <2> QED
    BY <2>3 DEF GapCountIsExact
<1>5. tracker'.LastObservedChangeTick <= ElapsedTicks(tracker')
  BY <1>1, <1>2 DEF ChangeTickAfter, ElapsedTicks
<1>6. ChangeTickIsTheLastChange'
  <2> SUFFICES ASSUME tracker'.UnobservedTickGapCount = 0
               PROVE  /\ \A t \in changed1 .. time : seen'[t] = state
                      /\ tracker'.LastObservedChangeTick > 0 =>
                           seen'[changed1 - 1] # seen'[changed1]
    BY <1>1 DEF ChangeTickIsTheLastChange
  <2>1. tracker.UnobservedTickGapCount = 0 /\ time = tracker.PreviousGameTime + 1
    BY <1>1, <1>2 DEF IsNextTick
  <2>2. /\ \A t \in changed .. tracker.PreviousGameTime :
              seen[t] = tracker.PreviousTraceState
        /\ tracker.LastObservedChangeTick > 0 => seen[changed - 1] # seen[changed]
    BY <2>1 DEF EvidenceInv, EvidenceIsExact, ChangeTickIsTheLastChange
  <2>3. CASE state = tracker.PreviousTraceState
    <3>1. changed1 = changed /\ tracker'.LastObservedChangeTick = tracker.LastObservedChangeTick
      BY <1>1, <2>3 DEF ChangeTickAfter
    <3>2. \A t \in changed .. time : seen'[t] = state
      <4> SUFFICES ASSUME NEW t \in changed .. time, t # time PROVE seen'[t] = state
        BY <1>3
      <4>1. t \in changed .. tracker.PreviousGameTime /\ t \in GameTimes
        BY <1>2, <2>1 DEF GameTimes
      <4> QED
        BY <1>3, <2>2, <2>3, <4>1
    <3>3. tracker.LastObservedChangeTick > 0 => seen'[changed - 1] # seen'[changed]
      <4>1. tracker.LastObservedChangeTick > 0 =>
              /\ changed - 1 \in GameTimes /\ changed - 1 # time
              /\ changed \in GameTimes /\ changed # time
        BY <1>2, <2>1 DEF GameTimes
      <4> QED
        BY <1>3, <2>2, <4>1
    <3> QED
      BY <3>1, <3>2, <3>3
  <2>4. CASE state # tracker.PreviousTraceState
    <3>1. changed1 = time
      BY <1>1, <1>2, <2>1, <2>4 DEF ChangeTickAfter, IsNextTick
    <3>2. \A t \in changed1 .. time : seen'[t] = state
      BY <1>2, <1>3, <3>1
    <3>3. seen'[time] = state
      BY <1>3
    <3>4. time - 1 = tracker.PreviousGameTime /\ time - 1 \in GameTimes /\ time - 1 # time
      BY <1>2, <2>1 DEF GameTimes
    <3>5. seen'[time - 1] = tracker.PreviousTraceState
      BY <1>2, <1>3, <3>4
    <3> QED
      BY <2>4, <3>1, <3>2, <3>3, <3>5
  <2> QED
    BY <2>3, <2>4
<1> QED
  BY <1>4, <1>5, <1>6 DEF EvidenceInv, EvidenceIsExact

\* A verdict's evidence is what the probes did, whatever ticks were skipped,
\* repeated or out of order: the tick of the last change is exact while no tick
\* was skipped, and every stretch of skipped ticks is counted once.
THEOREM EvidenceIsWhatWasSeen == TrackerSpec => []EvidenceIsExact
<1>1. TrackerInv /\ EvidenceInv /\ [TrackerNext]_trackerVars => EvidenceInv'
  <2> SUFFICES ASSUME TrackerInv, EvidenceInv, [TrackerNext]_trackerVars PROVE EvidenceInv'
    OBVIOUS
  <2>1. CASE UNCHANGED <<tracker, seen>>
    BY <2>1 DEF EvidenceInv, EvidenceIsExact, ChangeTickIsTheLastChange,
                GapCountIsExact, GapEnds, ElapsedTicks
  <2>2. ASSUME NEW time \in GameTimes, NEW state \in TraceStates,
               ObserveLaterTick(time, state)
        PROVE  EvidenceInv'
    BY <2>2, ObserveLaterTickEvidence
  <2> QED
    BY <2>1, <2>2 DEF TrackerNext, trackerVars, ObserveAfterSettled, ObserveBackward, ObserveSameTick
<1>2. EvidenceInv => EvidenceIsExact
  BY DEF EvidenceInv
<1> QED
  BY <1>1, <1>2, InitEvidenceInv, TrackerInvHolds, PTL DEF TrackerSpec

-----------------------------------------------------------------------------
(***************************************************************************)
(* The observer slot.  The property is inductive once the shapes of pc,    *)
(* slot and observer are known.                                            *)
(***************************************************************************)
SlotShapes ==
    /\ pc \in [Sessions -> Locations]
    /\ slot \in Sessions \cup {Nothing}
    /\ DOMAIN observer = Sessions
    /\ observer = [s \in Sessions |-> observer[s]]

IInv == SlotShapes /\ ObserverSlotIsOwned

\* An observer, once looking, ends settled, timed out, failed or still
\* running: a tick never makes it look uninstalled.
LEMMA ObserveTickKeepsObserver ==
    ASSUME SlotShapes, NEW s \in Sessions, ObserveTick(s)
    PROVE  /\ DOMAIN observer' = Sessions
           /\ observer' = [t \in Sessions |-> observer'[t]]
           /\ observer'[s].state # "none"
           /\ \A t \in Sessions \ {s} : observer'[t] = observer[t]
<1>1. CASE placed' = Nothing
  <2>1. ObserverFails(s)
    BY <1>1 DEF ObserveTick
  <2> QED
    BY <2>1 DEF SlotShapes, ObserverFails
<1>2. CASE placed' # Nothing
  <2> DEFINE seenAt == observer[s].tracker.PreviousGameTime + 1
             after  == Observed(observer[s].tracker, seenAt, Trace')
  <2>1. PICK lamps \in LampReadings' :
          observer' = [observer EXCEPT ![s] =
            [tracker |-> after,
             sample  |-> IF after.Settled THEN lamps ELSE Nothing,
             state   |-> IF after.Settled THEN "settled"
                         ELSE IF TimedOut(after) THEN "timedOut"
                         ELSE "running"]]
    BY <1>2 DEF ObserveTick
  <2> HIDE DEF after
  <2>2. observer'[s].state \in {"settled", "timedOut", "running"}
    BY <2>1 DEF SlotShapes
  <2> QED
    BY <2>1, <2>2 DEF SlotShapes
<1> QED
  BY <1>1, <1>2

LEMMA InitIInv == Init => IInv
BY HarnessAssumption
   DEF Init, IInv, SlotShapes, ObserverSlotIsOwned, Locations, HarnessAssumption

LEMMA TickIInv == IInv /\ Tick => IInv'
<1> SUFFICES ASSUME IInv, Tick PROVE IInv'
  OBVIOUS
<1>1. UNCHANGED <<pc, slot>>
  BY DEF Tick
<1>2. CASE slot # Nothing /\ observer[slot].state = "running"
  <2>1. ObserveTick(slot) /\ slot \in Sessions
    BY <1>2 DEF Tick, ObserverCallback, IInv, SlotShapes
  <2>2. /\ DOMAIN observer' = Sessions
        /\ observer' = [t \in Sessions |-> observer'[t]]
        /\ observer'[slot].state # "none"
    BY <2>1, ObserveTickKeepsObserver DEF IInv
  <2> QED
    BY <1>1, <2>2 DEF IInv, SlotShapes, ObserverSlotIsOwned
<1>3. CASE ~(slot # Nothing /\ observer[slot].state = "running")
  <2>1. UNCHANGED observer
    BY <1>3 DEF Tick, ObserverCallback
  <2> QED
    BY <1>1, <2>1 DEF IInv, SlotShapes, ObserverSlotIsOwned
<1> QED
  BY <1>2, <1>3

LEMMA FrozenTickIInv == IInv /\ FrozenTick => IInv'
BY DEF FrozenTick, ObserverFails, session, IInv, SlotShapes, ObserverSlotIsOwned

\* The two steps that move the slot.
LEMMA InstallIInv ==
    ASSUME IInv, NEW s \in Sessions, InstallServerTickObserver(s)
    PROVE  IInv'
<1>1. CASE InstallSucceeds
  <2>1. /\ pc[s] = "applied"
        /\ slot' = s
        /\ observer'[s].state = "running"
        /\ observer' = [observer EXCEPT ![s] = observer'[s]]
        /\ pc' = [pc EXCEPT ![s] = "observing"]
    BY <1>1 DEF InstallServerTickObserver, InstallSucceeds, Go, IInv, SlotShapes
  <2>2. \A t \in Sessions : pc[t] # "observing"
    BY <1>1, HarnessAssumption
      DEF InstallSucceeds, IInv, ObserverSlotIsOwned, HarnessAssumption
  <2> QED
    BY <2>1, <2>2 DEF IInv, SlotShapes, ObserverSlotIsOwned, Locations
<1>2. CASE ~InstallSucceeds
  <2>1. /\ pc[s] = "applied"
        /\ UNCHANGED <<slot, observer>>
        /\ \E location \in {"unwind", "done"} : pc' = [pc EXCEPT ![s] = location]
    BY <1>2 DEF InstallServerTickObserver, InstallSucceeds, Leave, Go
  <2> QED
    BY <2>1 DEF IInv, SlotShapes, ObserverSlotIsOwned, Locations
<1> QED
  BY <1>1, <1>2

LEMMA AwaitIInv ==
    ASSUME IInv, NEW s \in Sessions, AwaitCompletion(s)
    PROVE  IInv'
<1>1. /\ pc[s] = "observing"
      /\ slot = s
      /\ slot' = Nothing
      /\ observer' = [observer EXCEPT ![s] = NoObserver]
  BY DEF AwaitCompletion, RemoveObserver, IInv, ObserverSlotIsOwned
<1>2. \E location \in {"progress", "unwind", "done"} :
         pc' = [pc EXCEPT ![s] = location]
  BY DEF AwaitCompletion, Leave, Go
<1>3. \A t \in Sessions : t # s => pc[t] # "observing"
  BY <1>1 DEF IInv, ObserverSlotIsOwned
<1>4. SlotShapes'
  BY <1>1, <1>2 DEF IInv, SlotShapes, Locations
<1>5. \A t \in Sessions : pc'[t] # "observing" /\ slot' # t
  BY <1>1, <1>2, <1>3, HarnessAssumption
     DEF IInv, SlotShapes, HarnessAssumption
<1> QED
  BY <1>1, <1>4, <1>5 DEF IInv, ObserverSlotIsOwned

\* Every other step of a session leaves the slot and the observers alone and
\* moves between locations that do not observe.
LEMMA OtherStepIInv ==
    ASSUME IInv, NEW s \in Sessions, UNCHANGED <<slot, observer>>,
           pc[s] # "observing",
           NEW location \in Locations \ {"observing"},
           pc' = [pc EXCEPT ![s] = location]
    PROVE  IInv'
BY DEF IInv, SlotShapes, ObserverSlotIsOwned

LEMMA SessionStepIInv ==
    ASSUME IInv, NEW s \in Sessions, SessionStep(s)
    PROVE  IInv'
<1>1. CASE InstallServerTickObserver(s)
  BY <1>1, InstallIInv
<1>2. CASE AwaitCompletion(s)
  BY <1>2, AwaitIInv
<1>3. CASE \/ RejectFixture(s) \/ Prepare(s) \/ ApplyValidationVector(s)
           \/ RestoreInputStates(s) \/ Respond(s)
  <2>1. /\ UNCHANGED <<slot, observer>>
        /\ pc[s] # "observing"
        /\ \E location \in {"done", "pasted", "applied", "restored"} :
             pc' = [pc EXCEPT ![s] = location]
    BY <1>3 DEF RejectFixture, Prepare, ApplyValidationVector,
                RestoreInputStates, Respond, Go
  <2> QED
    BY <2>1, OtherStepIInv DEF Locations
<1>4. CASE PasteSettled(s) \/ ReadInputs(s)
  <2>1. /\ UNCHANGED <<slot, observer>>
        /\ pc[s] # "observing"
        /\ \E location \in {"done", "progress", "readInputs"} :
             pc' = [pc EXCEPT ![s] = location]
    BY <1>4 DEF PasteSettled, ReadInputs, Go
  <2> QED
    BY <2>1, OtherStepIInv DEF Locations
<1>5. CASE WriteProgress(s) \/ WriteProgressFails(s)
  <2>1. /\ UNCHANGED <<slot, observer>>
        /\ pc[s] # "observing"
        /\ \E location \in {"apply", "unwind", "done"} :
             pc' = [pc EXCEPT ![s] = location]
    BY <1>5 DEF WriteProgress, WriteProgressFails, Leave, Go
  <2> QED
    BY <2>1, OtherStepIInv DEF Locations
<1> QED
  BY <1>1, <1>2, <1>3, <1>4, <1>5 DEF SessionStep

LEMMA NextIInv == IInv /\ [Next]_vars => IInv'
<1> SUFFICES ASSUME IInv, [Next]_vars PROVE IInv'
  OBVIOUS
<1>1. CASE Tick
  BY <1>1, TickIInv
<1>7. CASE FrozenTick
  BY <1>7, FrozenTickIInv
<1>2. CASE Control
  <2>1. UNCHANGED <<slot, observer, pc>>
    BY <1>2 DEF Control, PauseTicks, ResumeTicks, StepTicks,
                ClearImportedBlocks, session
  <2> QED
    BY <2>1 DEF IInv, SlotShapes, ObserverSlotIsOwned
<1>3. ASSUME NEW s \in Sessions, NEW asking \in Actions, Submit(s, asking)
      PROVE  IInv'
  <2>1. /\ UNCHANGED <<slot, observer>>
        /\ pc[s] = "idle"
        /\ pc' = [pc EXCEPT ![s] = "prepare"]
    BY <1>3 DEF Submit, Go
  <2> QED
    BY <2>1, OtherStepIInv DEF Locations
<1>4. ASSUME NEW s \in Sessions, Disconnect(s)
      PROVE  IInv'
  BY <1>4 DEF Disconnect, IInv, SlotShapes, ObserverSlotIsOwned
<1>5. ASSUME NEW s \in Sessions, SessionStep(s)
      PROVE  IInv'
  BY <1>5, SessionStepIInv
<1>6. CASE UNCHANGED vars
  BY <1>6 DEF vars, session, IInv, SlotShapes, ObserverSlotIsOwned
<1> QED
  BY <1>1, <1>2, <1>3, <1>4, <1>5, <1>6, <1>7 DEF Next

\* Whoever waits on an observer owns the slot, and nobody else does, however
\* many connections and control requests interleave.
THEOREM SlotHasOneOwner == Spec => []ObserverSlotIsOwned
<1>1. IInv => ObserverSlotIsOwned
  BY DEF IInv
<1> QED
  BY <1>1, InitIInv, NextIInv, PTL DEF Spec

-----------------------------------------------------------------------------
(* However sessions overlap.                                               *)

\* What the trace probes tell apart of a circuit that has k ticks to go.
PhaseOf(k) == (k + VisibleStride - 1) \div VisibleStride

LEMMA PhaseBounds ==
    ASSUME NEW k \in Nat
    PROVE  /\ PhaseOf(k) \in 0 .. k
           /\ k > 0 => PhaseOf(k) > 0
           /\ VisibleStride * PhaseOf(k) \in Nat
           /\ k <= VisibleStride * PhaseOf(k)
           /\ VisibleStride * PhaseOf(k) < k + VisibleStride
<1> DEFINE v == VisibleStride
           q == (k + v - 1) \div v
<1>1. v \in Nat /\ v > 0
  BY PhysicalAssumption
<1>2. q \in Int /\ v * q <= k + v - 1 /\ k + v - 1 < v * q + v
  BY <1>1
<1>3. q >= 0 /\ (k > 0 => q > 0)
  BY <1>1, <1>2
<1>4. q <= k
  BY <1>1, <1>2
<1>5. v * q \in Nat
  BY <1>1, <1>2, <1>3
<1> QED
  BY <1>1, <1>2, <1>3, <1>4, <1>5 DEF PhaseOf

TrackersInRange ==
    \A s \in Sessions :
      /\ observer[s].tracker.StartGameTime = 0
      /\ observer[s].state = "running" =>
           /\ observer[s].tracker.PreviousGameTime < TimeoutTicks
           /\ observer[s].tracker.UnchangedTicks < RequiredUnchangedTicks

\* Levers stand where a circuit is, and what has settled shows them.
Physics ==
    /\ placed = Nothing <=> levers = Nothing
    /\ placed = Nothing => network = [shows |-> Nothing, stage |-> 0]
    /\ placed # Nothing /\ network.stage = 0 => network.shows = levers

\* What a session has done by the time it is at a location.
Progress(s) ==
    /\ pc[s] \in {"idle", "prepare", "pasted", "readInputs"} =>
         tested[s] = 0 /\ saved[s] = Nothing /\ verdict[s] = Nothing
    /\ pc[s] \in {"progress", "apply", "applied", "observing"} =>
         saved[s] # Nothing /\ verdict[s] = Nothing
    /\ pc[s] \in {"apply", "applied", "observing"} => tested[s] < Len(Vectors)
    /\ pc[s] \in {"unwind", "restored"} => saved[s] # Nothing
    /\ pc[s] # "observing" => observer[s] = NoObserver
    /\ pc[s] # "idle" => action[s] \in Actions

HarnessInv ==
    /\ TypeOK
    /\ TrackersInRange
    /\ Physics
    /\ \A s \in Sessions : Progress(s)

LEMMA NoObserverType ==
    /\ NoObserver \in [state   : {"none", "running", "settled", "timedOut", "failed"},
                       sample  : Outputs \cup {Nothing},
                       tracker : TrackerOf(0 .. TimeoutTicks, Traces)]
    /\ NoObserver.state = "none" /\ NoObserver.tracker.StartGameTime = 0
BY TrackerAssumption DEF NoObserver, NewTracker, TrackerOf, Traces

LEMMA InitHarnessInv == Init => HarnessInv
<1> SUFFICES ASSUME Init PROVE HarnessInv
  OBVIOUS
<1> USE HarnessAssumption, TrackerAssumption, PhysicalAssumption
<1>1. \A s \in Sessions : observer[s] = NoObserver
  BY DEF Init
<1>2. TypeOK
  <2>1. Len(Vectors) \in Nat /\ MaxDelay \in Nat
    OBVIOUS
  <2>2. /\ frozen \in BOOLEAN /\ steps \in 0 .. MaxSteps
        /\ placed \in Fixtures \cup {Nothing}
        /\ levers \in Settings \cup {Nothing}
        /\ slot \in Sessions \cup {Nothing}
        /\ circuit \in [Fixtures -> [Settings -> Outputs \cup {Oscillates}]]
    <3>1. 0 \in 0 .. MaxSteps
      OBVIOUS
    <3> QED
      BY <3>1 DEF Init
  <2>3. network \in [shows : Settings \cup {Nothing}, stage : 0 .. MaxDelay]
    BY <2>1, <2>2 DEF Init
  <2>4. observer \in [Sessions ->
                      [state   : {"none", "running", "settled", "timedOut", "failed"},
                       sample  : Outputs \cup {Nothing},
                       tracker : TrackerOf(0 .. TimeoutTicks, Traces)]]
    BY NoObserverType DEF Init
  <2>5. /\ pc \in [Sessions -> Locations]
        /\ action \in [Sessions -> Actions \cup {Nothing}]
        /\ wait \in [Sessions -> 0 .. 2]
        /\ tested \in [Sessions -> 0 .. Len(Vectors)]
        /\ saved \in [Sessions -> Settings \cup {Nothing}]
        /\ connected \in [Sessions -> BOOLEAN]
        /\ verdict \in [Sessions -> Verdicts \cup {Nothing}]
    BY <2>1 DEF Init, Locations
  <2> QED
    BY <2>2, <2>3, <2>4, <2>5 DEF TypeOK
<1>3. TrackersInRange
  BY <1>1, NoObserverType DEF TrackersInRange
<1>4. Physics
  BY DEF Init, Physics
<1>5. \A s \in Sessions : Progress(s)
  BY <1>1 DEF Init, Progress
<1> QED
  BY <1>2, <1>3, <1>4, <1>5 DEF HarnessInv

LEMMA TraceType ==
    ASSUME NEW fixture \in Fixtures \cup {Nothing},
           NEW setting \in Settings \cup {Nothing},
           NEW shows \in Settings \cup {Nothing},
           NEW k \in 0 .. MaxDelay
    PROVE  <<fixture, setting, shows, PhaseOf(k)>> \in Traces
<1>1. k \in Nat /\ MaxDelay \in Nat
  BY PhysicalAssumption
<1>2. PhaseOf(k) \in 0 .. MaxDelay
  BY <1>1, PhaseBounds
<1> QED
  BY <1>2 DEF Traces

LEMMA NewTrackerInRange ==
    ASSUME NEW state \in Traces
    PROVE  /\ NewTracker(0, state) \in TrackerOf(0 .. TimeoutTicks, Traces)
           /\ NewTracker(0, state).StartGameTime = 0
           /\ NewTracker(0, state).PreviousGameTime = 0
           /\ NewTracker(0, state).PreviousTraceState = state
           /\ NewTracker(0, state).UnchangedTicks = 0
BY TrackerAssumption DEF NewTracker, TrackerOf

\* The fields of a tracker after the observation of the next tick.
LEMMA ObservedInRange ==
    ASSUME NEW old \in TrackerOf(0 .. TimeoutTicks, Traces), NEW state \in Traces,
           old.StartGameTime = 0, old.PreviousGameTime < TimeoutTicks,
           NEW new, new = Observed(old, old.PreviousGameTime + 1, state)
    PROVE  /\ new \in TrackerOf(0 .. TimeoutTicks, Traces)
           /\ new.StartGameTime = 0
           /\ new.PreviousGameTime = old.PreviousGameTime + 1
           /\ new.PreviousTraceState = state
           /\ new.UnchangedTicks =
                IF state = old.PreviousTraceState THEN old.UnchangedTicks + 1 ELSE 0
           /\ new.Settled <=> new.UnchangedTicks >= RequiredUnchangedTicks
           /\ TimedOut(new) <=> ~new.Settled /\ new.PreviousGameTime >= TimeoutTicks
<1>1. /\ TimeoutTicks \in Nat /\ RequiredUnchangedTicks \in Nat
      /\ old.PreviousGameTime \in Nat /\ old.UnchangedTicks \in Nat
      /\ old.LastObservedChangeTick \in Nat /\ old.UnobservedTickGapCount \in Nat
  BY TrackerAssumption DEF TrackerOf
<1>2. /\ UnchangedAfter(old, old.PreviousGameTime + 1, state) =
           IF state = old.PreviousTraceState THEN old.UnchangedTicks + 1 ELSE 0
      /\ ChangeTickAfter(old, old.PreviousGameTime + 1, state) \in Nat
      /\ IsNextTick(old, old.PreviousGameTime + 1)
  BY <1>1 DEF UnchangedAfter, ChangeTickAfter, IsNextTick
<1>3. /\ new.StartGameTime = 0
      /\ new.PreviousGameTime = old.PreviousGameTime + 1
      /\ new.PreviousTraceState = state
      /\ new.UnchangedTicks = UnchangedAfter(old, old.PreviousGameTime + 1, state)
      /\ new.Settled <=>
           UnchangedAfter(old, old.PreviousGameTime + 1, state) >= RequiredUnchangedTicks
  BY DEF Observed
<1>4. UnchangedAfter(old, old.PreviousGameTime + 1, state) \in Nat
  BY <1>1, <1>2
<1>5. new \in TrackerOf(0 .. TimeoutTicks, Traces)
  BY <1>1, <1>2, <1>4 DEF Observed, TrackerOf
<1>6. TimedOut(new) <=> ~new.Settled /\ new.PreviousGameTime >= TimeoutTicks
  BY <1>1, <1>3 DEF TimedOut, ElapsedTicks
<1> QED
  BY <1>2, <1>3, <1>5, <1>6

\* Levers move to a setting only where there is a circuit.
LEMMA SetLeversPhysics ==
    ASSUME TypeOK, Physics, NEW setting \in Settings, SetLevers(setting),
           placed' = placed
    PROVE  /\ levers' \in Settings \cup {Nothing}
           /\ network' \in [shows : Settings \cup {Nothing}, stage : 0 .. MaxDelay]
           /\ Physics'
           /\ placed # Nothing => levers' = setting
<1> USE HarnessAssumption, PhysicalAssumption
<1>1. CASE setting = levers \/ placed = Nothing
  BY <1>1 DEF SetLevers, TypeOK, Physics
<1>2. CASE ~(setting = levers \/ placed = Nothing)
  <2>1. PICK delay \in 1 .. MaxDelay : network' = [network EXCEPT !.stage = delay]
    BY <1>2 DEF SetLevers
  <2>2. delay \in 0 .. MaxDelay /\ delay # 0
    OBVIOUS
  <2>3. network \in [shows : Settings \cup {Nothing}, stage : 0 .. MaxDelay]
    BY DEF TypeOK
  <2>4. /\ network' \in [shows : Settings \cup {Nothing}, stage : 0 .. MaxDelay]
        /\ network'.stage # 0
    BY <2>1, <2>2, <2>3
  <2> QED
    BY <1>2, <2>4 DEF SetLevers, Physics
<1> QED
  BY <1>1, <1>2

\* A tick brings the circuit nearer to settling, or starts over.
LEMMA SettlePhysics ==
    ASSUME TypeOK, Physics, Settle, UNCHANGED <<placed, levers>>
    PROVE  /\ network' \in [shows : Settings \cup {Nothing}, stage : 0 .. MaxDelay]
           /\ Physics'
           /\ placed # Nothing =>
                \/ /\ network.stage > 1
                   /\ network'.stage = network.stage - 1 /\ network'.shows = network.shows
                \/ /\ network.stage = 1
                   /\ network'.stage = 0 /\ network'.shows = levers
                \/ /\ network.stage = 0 /\ NeverSettles
                   /\ network'.stage = MaxDelay /\ network'.shows = network.shows
                \/ /\ network.stage = 0 /\ ~NeverSettles
                   /\ network' = network
<1> USE HarnessAssumption, PhysicalAssumption
<1>0. /\ network \in [shows : Settings \cup {Nothing}, stage : 0 .. MaxDelay]
      /\ levers \in Settings \cup {Nothing}
      /\ network.stage \in Nat /\ MaxDelay \in Nat
  BY DEF TypeOK
<1>1. CASE placed = Nothing
  BY <1>0, <1>1 DEF Settle, Physics
<1>2. CASE placed # Nothing /\ network.stage = 1
  <2>1. network' = [shows |-> levers, stage |-> 0]
    BY <1>2 DEF Settle
  <2> QED
    BY <1>0, <1>2, <2>1 DEF Physics
<1>3. CASE placed # Nothing /\ network.stage > 1
  <2>1. network' = [network EXCEPT !.stage = @ - 1]
    BY <1>0, <1>3 DEF Settle
  <2> QED
    BY <1>0, <1>3, <2>1 DEF Physics
<1>4. CASE placed # Nothing /\ network.stage = 0
  <2>1. network' = IF NeverSettles THEN [network EXCEPT !.stage = MaxDelay] ELSE network
    BY <1>4 DEF Settle
  <2> QED
    BY <1>0, <1>4, <2>1 DEF Physics
<1> QED
  BY <1>0, <1>1, <1>2, <1>3, <1>4

\* What one look of the observer leaves behind.
Observers ==
    [state   : {"none", "running", "settled", "timedOut", "failed"},
     sample  : Outputs \cup {Nothing},
     tracker : TrackerOf(0 .. TimeoutTicks, Traces)]

Looked(s) ==
    LET old == observer[s].tracker
        new == observer'[s].tracker
    IN  /\ new.PreviousGameTime = old.PreviousGameTime + 1
        /\ new.PreviousTraceState = Trace'
        /\ new.UnchangedTicks =
             IF Trace' = old.PreviousTraceState THEN old.UnchangedTicks + 1 ELSE 0
        /\ observer'[s].state =
             IF new.UnchangedTicks >= RequiredUnchangedTicks THEN "settled"
             ELSE IF new.PreviousGameTime >= TimeoutTicks THEN "timedOut"
             ELSE "running"
        /\ observer'[s].state = "settled" => observer'[s].sample \in LampReadings'

LEMMA ObserveTickInRange ==
    ASSUME TypeOK, TrackersInRange, NEW s \in Sessions,
           observer[s].state = "running", ObserveTick(s),
           placed' \in Fixtures \cup {Nothing}, levers' \in Settings \cup {Nothing},
           network' \in [shows : Settings \cup {Nothing}, stage : 0 .. MaxDelay],
           circuit' = circuit,
           placed' # Nothing /\ network'.stage = 0 => network'.shows = levers'
    PROVE  /\ observer' = [observer EXCEPT ![s] = observer'[s]]
           /\ observer'[s] \in Observers
           /\ observer'[s].tracker.StartGameTime = 0
           /\ observer'[s].state = "running" =>
                /\ observer'[s].tracker.PreviousGameTime < TimeoutTicks
                /\ observer'[s].tracker.UnchangedTicks < RequiredUnchangedTicks
           /\ IF placed' = Nothing THEN observer'[s].state = "failed" ELSE Looked(s)
<1> DEFINE old == observer[s].tracker
<1>1. /\ observer \in [Sessions -> Observers]
      /\ old \in TrackerOf(0 .. TimeoutTicks, Traces)
      /\ old.StartGameTime = 0 /\ old.PreviousGameTime < TimeoutTicks
  BY DEF TypeOK, TrackersInRange, Observers
<1>2. CASE placed' = Nothing
  <2>1. observer' = [observer EXCEPT ![s] =
                      [state |-> "failed", sample |-> Nothing, tracker |-> @.tracker]]
    BY <1>2 DEF ObserveTick, ObserverFails
  <2> QED
    BY <1>1, <1>2, <2>1 DEF Observers
<1>3. CASE placed' # Nothing
  <2> DEFINE after == Observed(old, old.PreviousGameTime + 1, Trace')
  <2>1. PICK lamps \in LampReadings' :
          observer' = [observer EXCEPT ![s] =
            [tracker |-> after,
             sample  |-> IF after.Settled THEN lamps ELSE Nothing,
             state   |-> IF after.Settled THEN "settled"
                         ELSE IF TimedOut(after) THEN "timedOut"
                         ELSE "running"]]
    BY <1>3 DEF ObserveTick
  <2>2. Trace' \in Traces
    BY TraceType, PhysicalAssumption DEF Trace, PhaseOf
  <2>3. lamps \in Outputs
    BY <1>3 DEF LampReadings, TypeOK
  <2> HIDE DEF after
  <2>4. /\ after \in TrackerOf(0 .. TimeoutTicks, Traces)
        /\ after.StartGameTime = 0
        /\ after.PreviousGameTime = old.PreviousGameTime + 1
        /\ after.PreviousTraceState = Trace'
        /\ after.UnchangedTicks =
             IF Trace' = old.PreviousTraceState THEN old.UnchangedTicks + 1 ELSE 0
        /\ after.Settled <=> after.UnchangedTicks >= RequiredUnchangedTicks
        /\ TimedOut(after) <=> ~after.Settled /\ after.PreviousGameTime >= TimeoutTicks
    BY <1>1, <2>2, ObservedInRange DEF after
  <2> DEFINE state == IF after.Settled THEN "settled"
                      ELSE IF TimedOut(after) THEN "timedOut" ELSE "running"
             sample == IF after.Settled THEN lamps ELSE Nothing
  <2>5. /\ state \in {"settled", "timedOut", "running"}
        /\ sample \in Outputs \cup {Nothing}
        /\ state = "settled" <=> after.Settled
        /\ state = "timedOut" <=> TimedOut(after)
    BY <2>3, <2>4
  <2>6. observer' = [observer EXCEPT ![s] =
                      [tracker |-> after, sample |-> sample, state |-> state]]
    BY <2>1
  <2> HIDE DEF state, sample
  <2>7. /\ observer'[s].tracker = after
        /\ observer'[s].sample = sample
        /\ observer'[s].state = state
        /\ observer'[s] \in Observers
        /\ observer' = [observer EXCEPT ![s] = observer'[s]]
    BY <1>1, <2>4, <2>5, <2>6 DEF Observers
  <2>8. /\ state = "running" => /\ after.PreviousGameTime < TimeoutTicks
                                /\ after.UnchangedTicks < RequiredUnchangedTicks
        /\ state = IF after.UnchangedTicks >= RequiredUnchangedTicks THEN "settled"
                   ELSE IF after.PreviousGameTime >= TimeoutTicks THEN "timedOut"
                   ELSE "running"
    <3>1. /\ after.PreviousGameTime \in Int /\ TimeoutTicks \in Int
          /\ after.UnchangedTicks \in Int /\ RequiredUnchangedTicks \in Int
      BY <2>4, TrackerAssumption DEF TrackerOf
    <3> QED
      BY <2>4, <3>1 DEF state
  <2>9. state = "settled" => sample \in LampReadings'
    BY <2>5 DEF sample
  <2> QED
    BY <1>3, <2>4, <2>7, <2>8, <2>9 DEF Looked
<1> QED
  BY <1>2, <1>3

LEMMA TickHarnessInv ==
    ASSUME HarnessInv, Tick PROVE HarnessInv'
<1> USE HarnessAssumption
<1>1. /\ UNCHANGED <<frozen, placed, levers, circuit, slot, pc, action, tested,
                     saved, connected, verdict>>
      /\ Settle /\ ObserverCallback
  BY DEF Tick
<1>2. /\ network' \in [shows : Settings \cup {Nothing}, stage : 0 .. MaxDelay]
      /\ Physics'
  BY <1>1, SettlePhysics DEF HarnessInv
<1>3. /\ steps' \in 0 .. MaxSteps
      /\ wait' \in [Sessions -> 0 .. 2]
  BY DEF Tick, HarnessInv, TypeOK
<1>4. CASE slot # Nothing /\ observer[slot].state = "running"
  <2>1. slot \in Sessions /\ ObserveTick(slot)
    BY <1>1, <1>4 DEF ObserverCallback, HarnessInv, TypeOK
  <2>2. /\ observer' = [observer EXCEPT ![slot] = observer'[slot]]
        /\ observer'[slot] \in Observers
        /\ observer'[slot].tracker.StartGameTime = 0
        /\ observer'[slot].state = "running" =>
             /\ observer'[slot].tracker.PreviousGameTime < TimeoutTicks
             /\ observer'[slot].tracker.UnchangedTicks < RequiredUnchangedTicks
    <3>1. /\ placed' \in Fixtures \cup {Nothing}
          /\ levers' \in Settings \cup {Nothing}
          /\ placed' # Nothing /\ network'.stage = 0 => network'.shows = levers'
      BY <1>1, <1>2 DEF HarnessInv, TypeOK, Physics
    <3> QED
      BY <1>1, <1>2, <1>4, <2>1, <3>1, ObserveTickInRange DEF HarnessInv
  <2>3. observer' \in [Sessions -> Observers]
    BY <2>1, <2>2 DEF HarnessInv, TypeOK, Observers
  <2>4. TypeOK'
    BY <1>1, <1>2, <1>3, <2>3 DEF HarnessInv, TypeOK, Observers
  <2>5. TrackersInRange'
    BY <2>1, <2>2 DEF HarnessInv, TypeOK, TrackersInRange
  <2>6. pc[slot] = "observing"
    BY <1>4, <2>1, NoObserverType DEF HarnessInv, Progress
  <2>7. \A s \in Sessions : Progress(s)'
    BY <1>1, <2>1, <2>2, <2>6 DEF HarnessInv, TypeOK, Progress
  <2> QED
    BY <1>2, <2>4, <2>5, <2>7 DEF HarnessInv
<1>5. CASE ~(slot # Nothing /\ observer[slot].state = "running")
  <2>1. observer' = observer
    BY <1>1, <1>5 DEF ObserverCallback
  <2>2. TypeOK'
    BY <1>1, <1>2, <1>3, <2>1 DEF HarnessInv, TypeOK
  <2> QED
    BY <1>1, <1>2, <2>1, <2>2 DEF HarnessInv, TrackersInRange, Progress
<1> QED
  BY <1>4, <1>5

LEMMA FrozenTickHarnessInv ==
    ASSUME HarnessInv, FrozenTick PROVE HarnessInv'
<1>1. /\ slot \in Sessions /\ observer[slot].state = "running"
      /\ observer' = [observer EXCEPT ![slot] =
                        [state |-> "failed", sample |-> Nothing, tracker |-> @.tracker]]
      /\ UNCHANGED <<world, slot, session>>
  BY DEF FrozenTick, ObserverFails, HarnessInv, TypeOK
<1>2. pc[slot] = "observing"
  BY <1>1, NoObserverType DEF HarnessInv, Progress
<1>3. observer' \in [Sessions -> Observers]
  BY <1>1 DEF HarnessInv, TypeOK, Observers
<1>4. TypeOK'
  BY <1>1, <1>3 DEF HarnessInv, TypeOK, Observers, world, session
<1>5. TrackersInRange'
  BY <1>1 DEF HarnessInv, TypeOK, TrackersInRange
<1>6. Physics' /\ \A s \in Sessions : Progress(s)'
  BY <1>1, <1>2 DEF HarnessInv, TypeOK, Physics, Progress, world, session
<1> QED
  BY <1>4, <1>5, <1>6 DEF HarnessInv

LEMMA ControlHarnessInv ==
    ASSUME HarnessInv, Control PROVE HarnessInv'
<1> USE HarnessAssumption, PhysicalAssumption
<1>1. UNCHANGED <<circuit, slot, observer, session>>
  BY DEF Control, PauseTicks, ResumeTicks, StepTicks, ClearImportedBlocks
<1>2. /\ frozen' \in BOOLEAN
      /\ steps' \in 0 .. MaxSteps
  <2>1. MaxSteps \in Nat /\ frozen \in BOOLEAN /\ steps \in 0 .. MaxSteps
    BY DEF HarnessInv, TypeOK
  <2>2. CASE PauseTicks \/ ClearImportedBlocks
    BY <2>1, <2>2 DEF PauseTicks, ClearImportedBlocks
  <2>3. CASE ResumeTicks
    <3>1. frozen' = FALSE /\ steps' = 0
      BY <2>3 DEF ResumeTicks
    <3>2. 0 \in 0 .. MaxSteps
      BY <2>1
    <3> QED
      BY <3>1, <3>2
  <2>4. CASE StepTicks
    BY <2>1, <2>4 DEF StepTicks
  <2> QED
    BY <2>2, <2>3, <2>4 DEF Control
<1>3. /\ placed' \in Fixtures \cup {Nothing}
      /\ levers' \in Settings \cup {Nothing}
      /\ network' \in [shows : Settings \cup {Nothing}, stage : 0 .. MaxDelay]
      /\ Physics'
  <2>1. CASE PauseTicks \/ ResumeTicks \/ StepTicks
    BY <2>1 DEF PauseTicks, ResumeTicks, StepTicks, HarnessInv, TypeOK, Physics
  <2>2. CASE ClearImportedBlocks
    BY <2>2 DEF ClearImportedBlocks, Physics
  <2> QED
    BY <2>1, <2>2 DEF Control
<1>4. TypeOK'
  BY <1>1, <1>2, <1>3 DEF HarnessInv, TypeOK, session
<1> QED
  BY <1>1, <1>3, <1>4 DEF HarnessInv, TrackersInRange, Progress, session

LEMMA SubmitHarnessInv ==
    ASSUME HarnessInv, NEW s \in Sessions, NEW asking \in Actions,
           Submit(s, asking)
    PROVE  HarnessInv'
<1>1. TypeOK'
  BY DEF Submit, Go, HarnessInv, TypeOK, Locations, world
<1>2. TrackersInRange' /\ Physics'
  BY DEF Submit, HarnessInv, TrackersInRange, Physics, world
<1>3. \A t \in Sessions : Progress(t)'
  BY DEF Submit, Go, HarnessInv, TypeOK, Progress
<1> QED
  BY <1>1, <1>2, <1>3 DEF HarnessInv

LEMMA DisconnectHarnessInv ==
    ASSUME HarnessInv, NEW s \in Sessions, Disconnect(s)
    PROVE  HarnessInv'
<1>1. TypeOK'
  BY DEF Disconnect, HarnessInv, TypeOK, world
<1> QED
  BY <1>1 DEF Disconnect, HarnessInv, TrackersInRange, Physics, Progress, world

\* The steps of a session that move neither levers nor observers.
LEMMA LocalStepHarnessInv ==
    ASSUME HarnessInv, NEW s \in Sessions,
           \/ RejectFixture(s) \/ PasteSettled(s) \/ ReadInputs(s)
           \/ WriteProgress(s) \/ WriteProgressFails(s) \/ Respond(s)
    PROVE  HarnessInv'
<1> USE HarnessAssumption
<1>1. UNCHANGED <<world, slot, observer>>
  BY DEF RejectFixture, PasteSettled, ReadInputs, WriteProgress,
         WriteProgressFails, Respond
<1>2. TrackersInRange' /\ Physics'
  BY <1>1 DEF HarnessInv, TrackersInRange, Physics, world
<1>3. CASE RejectFixture(s) \/ Respond(s)
  <2>1. TypeOK'
    BY <1>1, <1>3 DEF RejectFixture, Respond, Go, HarnessInv, TypeOK, Locations,
                      Verdicts, world
  <2>2. \A t \in Sessions : Progress(t)'
    BY <1>1, <1>3 DEF RejectFixture, Respond, Go, HarnessInv, TypeOK, Progress
  <2> QED
    BY <1>2, <2>1, <2>2 DEF HarnessInv
<1>4. CASE PasteSettled(s)
  <2>1. /\ \E location \in {"done", "progress", "readInputs"} :
              pc' = [pc EXCEPT ![s] = location]
        /\ saved' = saved \/ saved' = [saved EXCEPT ![s] = Neutral]
        /\ verdict' = verdict \/ verdict' = [verdict EXCEPT ![s] = "loaded"]
        /\ UNCHANGED <<action, wait, tested, connected>>
    BY <1>4 DEF PasteSettled, Go
  <2>3. /\ pc' \in [Sessions -> Locations]
        /\ saved' \in [Sessions -> Settings \cup {Nothing}]
        /\ verdict' \in [Sessions -> Verdicts \cup {Nothing}]
    <3>1. /\ pc \in [Sessions -> Locations]
          /\ saved \in [Sessions -> Settings \cup {Nothing}]
          /\ verdict \in [Sessions -> Verdicts \cup {Nothing}]
          /\ levers \in Settings \cup {Nothing}
      BY DEF HarnessInv, TypeOK
    <3>2. pc' \in [Sessions -> Locations]
      BY <2>1, <3>1 DEF Locations
    <3>3. saved' \in [Sessions -> Settings \cup {Nothing}]
      BY <2>1, <3>1
    <3>4. verdict' \in [Sessions -> Verdicts \cup {Nothing}]
      BY <2>1, <3>1 DEF Verdicts
    <3> QED
      BY <3>2, <3>3, <3>4
  <2>4. TypeOK'
    BY <1>1, <2>1, <2>3 DEF HarnessInv, TypeOK, world
  <2>2. \A t \in Sessions : Progress(t)'
    BY <1>1, <1>4 DEF PasteSettled, Go, HarnessInv, TypeOK, Progress
  <2> QED
    BY <1>2, <2>4, <2>2 DEF HarnessInv
<1>5. CASE ReadInputs(s)
  <2>1. /\ \E location \in {"done", "progress"} :
              pc' = [pc EXCEPT ![s] = location]
        /\ saved' = saved \/ saved' = [saved EXCEPT ![s] = levers]
        /\ verdict' = verdict \/ verdict' = [verdict EXCEPT ![s] = "infrastructure-failure"]
        /\ UNCHANGED <<action, wait, tested, connected>>
    BY <1>5 DEF ReadInputs, Go
  <2>3. /\ pc' \in [Sessions -> Locations]
        /\ saved' \in [Sessions -> Settings \cup {Nothing}]
        /\ verdict' \in [Sessions -> Verdicts \cup {Nothing}]
    <3>1. /\ pc \in [Sessions -> Locations]
          /\ saved \in [Sessions -> Settings \cup {Nothing}]
          /\ verdict \in [Sessions -> Verdicts \cup {Nothing}]
          /\ levers \in Settings \cup {Nothing}
      BY DEF HarnessInv, TypeOK
    <3>2. pc' \in [Sessions -> Locations]
      BY <2>1, <3>1 DEF Locations
    <3>3. saved' \in [Sessions -> Settings \cup {Nothing}]
      BY <2>1, <3>1
    <3>4. verdict' \in [Sessions -> Verdicts \cup {Nothing}]
      BY <2>1, <3>1 DEF Verdicts
    <3> QED
      BY <3>2, <3>3, <3>4
  <2>4. TypeOK'
    BY <1>1, <2>1, <2>3 DEF HarnessInv, TypeOK, world
  <2>2. \A t \in Sessions : Progress(t)'
    BY <1>1, <1>5 DEF ReadInputs, Go, HarnessInv, TypeOK, Progress
  <2> QED
    BY <1>2, <2>4, <2>2 DEF HarnessInv
<1>6. CASE WriteProgress(s) \/ WriteProgressFails(s)
  <2>4. /\ \E location \in Locations : pc' = [pc EXCEPT ![s] = location]
        /\ \/ verdict' = verdict
           \/ \E word \in Verdicts : verdict' = [verdict EXCEPT ![s] = word]
        /\ UNCHANGED <<action, wait, tested, saved, connected>>
    BY <1>6 DEF WriteProgress, WriteProgressFails, Leave, Go, Locations, Verdicts
  <2>5. /\ pc \in [Sessions -> Locations]
        /\ verdict \in [Sessions -> Verdicts \cup {Nothing}]
    BY DEF HarnessInv, TypeOK
  <2>6. pc' \in [Sessions -> Locations]
    BY <2>4, <2>5
  <2>7. verdict' \in [Sessions -> Verdicts \cup {Nothing}]
    BY <2>4, <2>5
  <2>1. TypeOK'
    BY <1>1, <2>4, <2>6, <2>7 DEF HarnessInv, TypeOK, world
  <2>2. tested[s] \in 0 .. Len(Vectors) /\ Len(Vectors) \in Nat
    BY DEF HarnessInv, TypeOK
  <2>3. \A t \in Sessions : Progress(t)'
    BY <1>1, <1>6, <2>2 DEF WriteProgress, WriteProgressFails, Leave, Go,
                            HarnessInv, TypeOK, Progress
  <2> QED
    BY <1>2, <2>1, <2>3 DEF HarnessInv
<1> QED
  BY <1>3, <1>4, <1>5, <1>6

\* The steps of a session that set levers.
LEMMA LeverStepHarnessInv ==
    ASSUME HarnessInv, NEW s \in Sessions,
           Prepare(s) \/ ApplyValidationVector(s) \/ RestoreInputStates(s)
    PROVE  HarnessInv'
<1> USE HarnessAssumption, PhysicalAssumption
<1>1. /\ UNCHANGED <<frozen, steps, circuit, slot, observer, action, tested,
                     saved, connected, verdict>>
      /\ \E location \in {"pasted", "applied", "restored"} :
           pc' = [pc EXCEPT ![s] = location]
      /\ \E ticks \in 1 .. 2 : wait' = [wait EXCEPT ![s] = ticks]
  BY DEF Prepare, ApplyValidationVector, RestoreInputStates, Go
<1>2. /\ placed' \in Fixtures \cup {Nothing}
      /\ levers' \in Settings \cup {Nothing}
      /\ network' \in [shows : Settings \cup {Nothing}, stage : 0 .. MaxDelay]
      /\ Physics'
  <2>1. CASE Prepare(s)
    <3>1. CASE action[s] = "ValidateExisting"
      BY <2>1, <3>1 DEF Prepare, HarnessInv, TypeOK, Physics
    <3>2. CASE action[s] # "ValidateExisting"
      <4>1. /\ placed' = FixtureOf[s] /\ levers' = Neutral
            /\ \E delay \in 1 .. MaxDelay : network' = [shows |-> Nothing, stage |-> delay]
        BY <2>1, <3>2 DEF Prepare
      <4>2. placed' \in Fixtures /\ placed' # Nothing /\ levers' # Nothing
        BY <4>1
      <4>3. /\ network' \in [shows : Settings \cup {Nothing}, stage : 0 .. MaxDelay]
            /\ network'.stage # 0
        BY <4>1
      <4> QED
        BY <4>1, <4>2, <4>3 DEF Physics
    <3> QED
      BY <3>1, <3>2
  <2>2. CASE ApplyValidationVector(s)
    <3>1. tested[s] + 1 \in 1 .. Len(Vectors)
      BY <2>2 DEF ApplyValidationVector, HarnessInv, TypeOK, Progress
    <3>2. Vectors[tested[s] + 1] \in Settings
      BY <3>1
    <3> QED
      BY <2>2, <3>2, SetLeversPhysics DEF ApplyValidationVector, HarnessInv, TypeOK
  <2>3. CASE RestoreInputStates(s)
    <3>1. saved[s] \in Settings
      BY <2>3 DEF RestoreInputStates, HarnessInv, TypeOK, Progress
    <3> QED
      BY <2>3, <3>1, SetLeversPhysics DEF RestoreInputStates, HarnessInv, TypeOK
  <2> QED
    BY <2>1, <2>2, <2>3
<1>3. TypeOK'
  BY <1>1, <1>2 DEF HarnessInv, TypeOK, Locations
<1>4. \A t \in Sessions : Progress(t)'
  BY <1>1 DEF Prepare, ApplyValidationVector, RestoreInputStates, Go,
              HarnessInv, TypeOK, Progress
<1> QED
  BY <1>1, <1>2, <1>3, <1>4 DEF HarnessInv, TrackersInRange

LEMMA InstallHarnessInv ==
    ASSUME HarnessInv, NEW s \in Sessions, InstallServerTickObserver(s)
    PROVE  HarnessInv'
<1> USE HarnessAssumption
<1>1. CASE InstallSucceeds
  <2> DEFINE fresh == NewTracker(0, Trace)
  <2>1. /\ slot' = s
        /\ observer' = [observer EXCEPT ![s] = [state |-> "running", sample |-> Nothing,
                                                tracker |-> fresh]]
        /\ pc' = [pc EXCEPT ![s] = "observing"]
        /\ pc[s] = "applied"
        /\ UNCHANGED <<world, action, wait, tested, saved, connected, verdict>>
    BY <1>1 DEF InstallServerTickObserver, Go
  <2>2. Trace \in Traces
    BY TraceType DEF Trace, PhaseOf, HarnessInv, TypeOK
  <2>3. /\ fresh \in TrackerOf(0 .. TimeoutTicks, Traces)
        /\ fresh.StartGameTime = 0
        /\ fresh.PreviousGameTime = 0
        /\ fresh.UnchangedTicks = 0
    BY <2>2, NewTrackerInRange
  <2>4. 0 < TimeoutTicks /\ 0 < RequiredUnchangedTicks
    BY TrackerAssumption
  <2> HIDE DEF fresh
  <2>5. observer' \in [Sessions -> Observers]
    BY <2>1, <2>3 DEF HarnessInv, TypeOK, Observers
  <2>6. TypeOK'
    BY <2>1, <2>5 DEF HarnessInv, TypeOK, Observers, Locations, world
  <2>7. TrackersInRange'
    BY <2>1, <2>3, <2>4 DEF HarnessInv, TypeOK, TrackersInRange
  <2>8. Physics' /\ \A t \in Sessions : Progress(t)'
    BY <2>1 DEF HarnessInv, TypeOK, Physics, Progress, world
  <2> QED
    BY <2>6, <2>7, <2>8 DEF HarnessInv
<1>2. CASE ~InstallSucceeds
  <2>1. /\ UNCHANGED <<world, slot, observer, action, wait, tested, saved, connected>>
        /\ pc[s] = "applied"
        /\ verdict' = [verdict EXCEPT ![s] = "infrastructure-failure"]
        /\ \E location \in {"unwind", "done"} : pc' = [pc EXCEPT ![s] = location]
    BY <1>2 DEF InstallServerTickObserver, Leave, Go
  <2>2. TypeOK'
    BY <2>1 DEF HarnessInv, TypeOK, Locations, Verdicts, world
  <2>3. TrackersInRange' /\ Physics' /\ \A t \in Sessions : Progress(t)'
    BY <2>1 DEF HarnessInv, TypeOK, TrackersInRange, Physics, Progress, world
  <2> QED
    BY <2>2, <2>3 DEF HarnessInv
<1> QED
  BY <1>1, <1>2

LEMMA AwaitHarnessInv ==
    ASSUME HarnessInv, NEW s \in Sessions, AwaitCompletion(s)
    PROVE  HarnessInv'
<1> USE HarnessAssumption
<1>1. /\ UNCHANGED <<world, action, wait, saved, connected>>
      /\ observer' = [observer EXCEPT ![s] = NoObserver]
      /\ slot' \in {slot, Nothing}
      /\ pc[s] = "observing"
  BY DEF AwaitCompletion, RemoveObserver
<1>2. \/ /\ tested' = [tested EXCEPT ![s] = @ + 1]
         /\ pc' = [pc EXCEPT ![s] = "progress"]
         /\ UNCHANGED verdict
      \/ /\ tested' = tested
         /\ \E location \in {"unwind", "done"} : pc' = [pc EXCEPT ![s] = location]
         /\ \E judged \in Verdicts : verdict' = [verdict EXCEPT ![s] = judged]
  BY DEF AwaitCompletion, Leave, Go, Verdicts
<1>3. /\ tested[s] \in Nat /\ tested[s] < Len(Vectors) /\ Len(Vectors) \in Nat
      /\ saved[s] # Nothing /\ verdict[s] = Nothing
  BY <1>1 DEF HarnessInv, TypeOK, Progress
<1>4. observer' \in [Sessions -> Observers]
  BY <1>1, NoObserverType DEF HarnessInv, TypeOK, Observers
<1>5. tested' \in [Sessions -> 0 .. Len(Vectors)]
  <2>1. tested \in [Sessions -> 0 .. Len(Vectors)] /\ tested[s] + 1 \in 0 .. Len(Vectors)
    BY <1>3 DEF HarnessInv, TypeOK
  <2>2. tested' = tested \/ tested' = [tested EXCEPT ![s] = @ + 1]
    BY <1>2
  <2> QED
    BY <2>1, <2>2
<1>6. /\ pc' \in [Sessions -> Locations]
      /\ verdict' \in [Sessions -> Verdicts \cup {Nothing}]
  <2>1. /\ \E location \in {"progress", "unwind", "done"} :
              pc' = [pc EXCEPT ![s] = location]
        /\ \/ verdict' = verdict
           \/ \E judged \in Verdicts : verdict' = [verdict EXCEPT ![s] = judged]
    BY <1>2
  <2> QED
    <3>1. /\ pc \in [Sessions -> Locations]
          /\ verdict \in [Sessions -> Verdicts \cup {Nothing}]
      BY DEF HarnessInv, TypeOK
    <3>2. pc' \in [Sessions -> Locations]
      BY <2>1, <3>1 DEF Locations
    <3>3. verdict' \in [Sessions -> Verdicts \cup {Nothing}]
      BY <2>1, <3>1
    <3> QED
      BY <3>2, <3>3
<1>7. TypeOK'
  BY <1>1, <1>4, <1>5, <1>6 DEF HarnessInv, TypeOK, Observers, world
<1>8. TrackersInRange' /\ Physics'
  BY <1>1, NoObserverType DEF HarnessInv, TypeOK, TrackersInRange, Physics, world
<1>9. \A t \in Sessions : Progress(t)'
  BY <1>1, <1>2, <1>3 DEF HarnessInv, TypeOK, Progress
<1> QED
  BY <1>7, <1>8, <1>9 DEF HarnessInv

LEMMA NextHarnessInv == HarnessInv /\ [Next]_vars => HarnessInv'
<1> SUFFICES ASSUME HarnessInv, [Next]_vars PROVE HarnessInv'
  OBVIOUS
<1>1. CASE Tick \/ FrozenTick \/ Control
  BY <1>1, TickHarnessInv, FrozenTickHarnessInv, ControlHarnessInv
<1>2. ASSUME NEW s \in Sessions, NEW asking \in Actions, Submit(s, asking)
      PROVE  HarnessInv'
  BY <1>2, SubmitHarnessInv
<1>3. ASSUME NEW s \in Sessions, Disconnect(s)
      PROVE  HarnessInv'
  BY <1>3, DisconnectHarnessInv
<1>4. ASSUME NEW s \in Sessions, SessionStep(s)
      PROVE  HarnessInv'
  BY <1>4, LocalStepHarnessInv, LeverStepHarnessInv, InstallHarnessInv, AwaitHarnessInv
     DEF SessionStep
<1>5. CASE UNCHANGED vars
  BY <1>5 DEF vars, world, session, HarnessInv, TypeOK, TrackersInRange, Physics,
              Progress
<1> QED
  BY <1>1, <1>2, <1>3, <1>4, <1>5 DEF Next

\* What holds of the harness however its sessions, ticks and control requests
\* interleave: the types of all it keeps, trackers within the deadline, levers
\* only where a circuit is, and for each session what its location implies: no
\* verdict before it is due, no observer but while observing, and input levers
\* to give back whenever it could have moved them.
THEOREM HarnessStateIsConsistent == Spec => []HarnessInv
BY InitHarnessInv, NextHarnessInv, PTL DEF Spec

-----------------------------------------------------------------------------
(* While at most one session is busy.                                      *)

Busy(s) == pc[s] \notin {"idle", "done"}
Lone == \A s, t \in Sessions : Busy(s) /\ Busy(t) => s = t

\* What a running observer has seen of a settling circuit.  A quiet run is
\* shorter than the stretch in which the circuit looks still, so the window
\* cannot complete before the circuit has settled; and a circuit that settles
\* has done so in time for the window to complete before the deadline.
Watch(s) ==
    observer[s].state = "running" =>
      /\ observer[s].tracker.PreviousTraceState = Trace
      /\ network.stage > 0 =>
           observer[s].tracker.UnchangedTicks + network.stage
             <= VisibleStride * PhaseOf(network.stage)
      /\ NeverSettles /\ network.stage = 0 => observer[s].tracker.UnchangedTicks = 0
      /\ ~NeverSettles /\ network.stage > 0 =>
           observer[s].tracker.PreviousGameTime + network.stage <= MaxDelay
      /\ ~NeverSettles /\ network.stage = 0 =>
           observer[s].tracker.PreviousGameTime
             <= observer[s].tracker.UnchangedTicks + MaxDelay

\* How the arena stands to the session that has it.
Arena(s) ==
    placed # Nothing =>
      /\ pc[s] \in {"applied", "observing"} => levers = Vectors[tested[s] + 1]
      /\ pc[s] = "restored" => levers = saved[s]
      /\ Watch(s)
      /\ observer[s].state = "settled" =>
           ~NeverSettles /\ network = [shows |-> levers, stage |-> 0]
      /\ observer[s].state = "timedOut" => NeverSettles

\* The arithmetic of one look at a circuit that has settling to do.
LEMMA WatchedTick ==
    ASSUME HarnessInv, NEW s \in Sessions, Watch(s), Looked(s), Settle,
           observer[s].state = "running", placed # Nothing,
           UNCHANGED <<placed, levers, circuit>>,
           observer'[s] \in Observers
    PROVE  /\ Watch(s)'
           /\ observer'[s].state = "settled" =>
                ~NeverSettles' /\ network' = [shows |-> levers', stage |-> 0]
           /\ observer'[s].state = "timedOut" => NeverSettles'
<1> DEFINE old == observer[s].tracker
           new == observer'[s].tracker
           k   == network.stage
           l   == network'.stage
<1>1. /\ network' \in [shows : Settings \cup {Nothing}, stage : 0 .. MaxDelay]
      /\ \/ /\ k > 1
            /\ l = k - 1 /\ network'.shows = network.shows
         \/ /\ k = 1
            /\ l = 0 /\ network'.shows = levers
         \/ /\ k = 0 /\ NeverSettles
            /\ l = MaxDelay /\ network'.shows = network.shows
         \/ /\ k = 0 /\ ~NeverSettles
            /\ network' = network
  BY SettlePhysics DEF HarnessInv
<1>2. /\ NeverSettles' <=> NeverSettles
      /\ Trace = <<placed, levers, network.shows, PhaseOf(k)>>
      /\ Trace' = <<placed, levers, network'.shows, PhaseOf(l)>>
  BY DEF NeverSettles, Trace, PhaseOf
<1>3. /\ old.UnchangedTicks \in Nat /\ old.PreviousGameTime \in Nat
      /\ new.UnchangedTicks \in Nat /\ new.PreviousGameTime \in Nat
      /\ k \in Nat /\ k <= MaxDelay /\ l \in Nat /\ l <= MaxDelay
      /\ MaxDelay \in Nat /\ MaxDelay > 0
      /\ VisibleStride \in Nat /\ VisibleStride <= RequiredUnchangedTicks
      /\ RequiredUnchangedTicks \in Nat /\ RequiredUnchangedTicks > 0
      /\ TimeoutTicks \in Nat /\ MaxDelay + RequiredUnchangedTicks <= TimeoutTicks
  <2>1. observer[s] \in Observers
    BY DEF HarnessInv, TypeOK, Observers
  <2>2. old \in TrackerOf(0 .. TimeoutTicks, Traces)
        /\ new \in TrackerOf(0 .. TimeoutTicks, Traces)
    BY <2>1 DEF Observers
  <2>3. /\ old.UnchangedTicks \in Nat /\ old.PreviousGameTime \in Nat
        /\ new.UnchangedTicks \in Nat /\ new.PreviousGameTime \in Nat
    BY <2>2 DEF TrackerOf
  <2>4. k \in 0 .. MaxDelay /\ l \in 0 .. MaxDelay
    BY <1>1 DEF HarnessInv, TypeOK
  <2> QED
    BY <2>3, <2>4, PhysicalAssumption, TrackerAssumption
<1>4. /\ old.PreviousTraceState = Trace
      /\ k > 0 => old.UnchangedTicks + k <= VisibleStride * PhaseOf(k)
      /\ ~NeverSettles /\ k > 0 => old.PreviousGameTime + k <= MaxDelay
      /\ ~NeverSettles /\ k = 0 =>
           old.PreviousGameTime <= old.UnchangedTicks + MaxDelay
  BY DEF Watch
<1>5. /\ new.PreviousGameTime = old.PreviousGameTime + 1
      /\ new.PreviousTraceState = Trace'
      /\ new.UnchangedTicks = IF Trace' = Trace THEN old.UnchangedTicks + 1 ELSE 0
      /\ observer'[s].state = "settled" =>
           new.UnchangedTicks >= RequiredUnchangedTicks
      /\ observer'[s].state = "timedOut" =>
           /\ new.PreviousGameTime >= TimeoutTicks
           /\ ~(new.UnchangedTicks >= RequiredUnchangedTicks)
  BY <1>4 DEF Looked
<1>6. Watch(s)' <=>
        (observer'[s].state = "running" =>
          /\ new.PreviousTraceState = Trace'
          /\ l > 0 => new.UnchangedTicks + l <= VisibleStride * PhaseOf(l)
          /\ NeverSettles /\ l = 0 => new.UnchangedTicks = 0
          /\ ~NeverSettles /\ l > 0 => new.PreviousGameTime + l <= MaxDelay
          /\ ~NeverSettles /\ l = 0 =>
               new.PreviousGameTime <= new.UnchangedTicks + MaxDelay)
  BY <1>2 DEF Watch, PhaseOf
<1>7. /\ PhaseOf(l) \in 0 .. l
      /\ l > 0 => PhaseOf(l) > 0
      /\ VisibleStride * PhaseOf(l) \in Nat
      /\ l <= VisibleStride * PhaseOf(l)
      /\ VisibleStride * PhaseOf(l) < l + VisibleStride
  BY <1>3, PhaseBounds
<1>8. PhaseOf(k) \in 0 .. k /\ (k > 0 => PhaseOf(k) > 0)
  BY <1>3, PhaseBounds
<1> DEFINE P == PhaseOf(k)
           Q == PhaseOf(l)
           M == VisibleStride * Q
<1> HIDE DEF old, new, k, l, P, Q, M
<1>9. CASE k > 1
  <2>1. l = k - 1 /\ l > 0
    BY <1>1, <1>3, <1>9
  <2>2. new.UnchangedTicks + l <= M
    <3>1. CASE P = Q
      <4>1. old.UnchangedTicks + k <= M
        BY <1>3, <1>4, <1>9, <3>1 DEF P, Q, M
      <4>2. new.UnchangedTicks <= old.UnchangedTicks + 1
        BY <1>3, <1>5
      <4> QED
        BY <1>3, <1>7, <2>1, <4>1, <4>2 DEF M, Q
    <3>2. CASE P # Q
      <4>1. new.UnchangedTicks = 0
        BY <1>2, <1>5, <3>2 DEF P, Q
      <4> QED
        BY <1>3, <1>7, <4>1 DEF M, Q
    <3> QED
      BY <3>1, <3>2
  <2>3. ~(new.UnchangedTicks >= RequiredUnchangedTicks)
    BY <1>3, <1>7, <2>2 DEF M, Q
  <2>4. ~NeverSettles => new.PreviousGameTime + l <= MaxDelay
    BY <1>3, <1>4, <1>5, <1>9, <2>1
  <2>5. ~NeverSettles => new.PreviousGameTime < TimeoutTicks
    BY <1>3, <2>1, <2>4
  <2>6. observer'[s].state # "settled"
    BY <1>5, <2>3
  <2>7. observer'[s].state = "timedOut" => NeverSettles
    BY <1>3, <1>5, <2>5
  <2>8. Watch(s)'
    BY <1>3, <1>5, <1>6, <2>1, <2>2, <2>4 DEF M, Q
  <2> QED
    BY <1>2, <2>6, <2>7, <2>8
<1>10. CASE k = 1
  <2>1. l = 0 /\ P # Q
    BY <1>1, <1>3, <1>7, <1>8, <1>10 DEF P, Q
  <2>2. new.UnchangedTicks = 0
    BY <1>2, <1>5, <2>1 DEF P, Q
  <2>3. ~NeverSettles => new.PreviousGameTime <= MaxDelay
    BY <1>3, <1>4, <1>5, <1>10
  <2>4. observer'[s].state # "settled"
    BY <1>3, <1>5, <2>2
  <2>5. observer'[s].state = "timedOut" => NeverSettles
    BY <1>3, <1>5, <2>3
  <2>6. Watch(s)'
    BY <1>3, <1>5, <1>6, <2>1, <2>2, <2>3
  <2> QED
    BY <1>2, <2>4, <2>5, <2>6
<1>11. CASE k = 0 /\ NeverSettles
  <2>1. l = MaxDelay /\ P # Q
    BY <1>1, <1>3, <1>7, <1>8, <1>11 DEF P, Q
  <2>2. new.UnchangedTicks = 0
    BY <1>2, <1>5, <2>1 DEF P, Q
  <2>3. observer'[s].state # "settled"
    BY <1>3, <1>5, <2>2
  <2>4. Watch(s)'
    BY <1>3, <1>5, <1>6, <1>7, <1>11, <2>1, <2>2
  <2> QED
    BY <1>2, <1>11, <2>3, <2>4
<1>12. CASE k = 0 /\ ~NeverSettles
  <2>1. network' = network /\ l = 0
    BY <1>1, <1>3, <1>12 DEF k, l
  <2>2. network' = [shows |-> levers', stage |-> 0]
    BY <1>1, <2>1 DEF HarnessInv, TypeOK, Physics, k, l
  <2>3. new.UnchangedTicks = old.UnchangedTicks + 1
    BY <1>2, <1>5, <1>12, <2>1
  <2>4. new.PreviousGameTime <= new.UnchangedTicks + MaxDelay
    BY <1>3, <1>4, <1>5, <1>12, <2>3
  <2>5. observer'[s].state # "timedOut"
    BY <1>3, <1>5, <2>4
  <2>6. Watch(s)'
    BY <1>3, <1>5, <1>6, <1>12, <2>1, <2>4
  <2> QED
    BY <1>2, <1>12, <2>2, <2>5, <2>6
<1> QED
  BY <1>3, <1>9, <1>10, <1>11, <1>12

ArenaInv == \A s \in Sessions : Arena(s)

\* A session that is not at work asks nothing of the arena.
LEMMA IdleArena ==
    ASSUME NEW s \in Sessions, pc'[s] \notin {"applied", "observing", "restored"},
           observer'[s] = NoObserver
    PROVE  Arena(s)'
BY NoObserverType DEF Arena, Watch

\* Nothing the arena's judgement rests on has moved.
LEMMA SameArena ==
    ASSUME NEW s \in Sessions, Arena(s),
           UNCHANGED <<placed, levers, network, circuit>>,
           pc'[s] = pc[s], tested'[s] = tested[s], saved'[s] = saved[s],
           observer'[s] = observer[s]
    PROVE  Arena(s)'
<1>1. (NeverSettles' <=> NeverSettles) /\ Trace' = Trace
  BY DEF NeverSettles, Trace
<1> QED
  BY <1>1 DEF Arena, Watch

\* Whoever is at work has the arena to itself.
LEMMA OthersIdle ==
    ASSUME HarnessInv, Lone, NEW s \in Sessions, Busy(s),
           NEW t \in Sessions, t # s
    PROVE  pc[t] \in {"idle", "done"} /\ observer[t] = NoObserver
BY DEF HarnessInv, Progress, Lone, Busy

LEMMA TickArena ==
    ASSUME HarnessInv, IInv, ArenaInv, Tick, NEW s \in Sessions
    PROVE  Arena(s)'
<1>1. /\ UNCHANGED <<frozen, placed, levers, circuit, slot, pc, action, tested,
                     saved, connected, verdict>>
      /\ Settle /\ ObserverCallback
  BY DEF Tick
<1>2. /\ network' \in [shows : Settings \cup {Nothing}, stage : 0 .. MaxDelay]
      /\ Physics'
      /\ NeverSettles' <=> NeverSettles
  BY <1>1, SettlePhysics DEF HarnessInv, NeverSettles
<1> SUFFICES ASSUME placed # Nothing PROVE Arena(s)'
  BY <1>1 DEF Arena
<1>3. Arena(s)
  BY DEF ArenaInv
<1>4. CASE observer[s].state = "running"
  <2>1. slot = s
    BY <1>4, NoObserverType
       DEF HarnessInv, Progress, IInv, ObserverSlotIsOwned
  <2>2. ObserveTick(s)
    BY <1>1, <1>4, <2>1, HarnessAssumption DEF ObserverCallback, HarnessAssumption
  <2>3. observer'[s] \in Observers /\ Looked(s)
    <3>1. /\ placed' \in Fixtures \cup {Nothing}
          /\ levers' \in Settings \cup {Nothing}
          /\ placed' # Nothing /\ network'.stage = 0 => network'.shows = levers'
      BY <1>1, <1>2 DEF HarnessInv, TypeOK, Physics
    <3> QED
      BY <1>1, <1>2, <1>4, <2>2, <3>1, ObserveTickInRange DEF HarnessInv
  <2>4. Watch(s)
    BY <1>3 DEF Arena
  <2>5. /\ Watch(s)'
        /\ observer'[s].state = "settled" =>
             ~NeverSettles' /\ network' = [shows |-> levers', stage |-> 0]
        /\ observer'[s].state = "timedOut" => NeverSettles'
    BY <1>1, <1>4, <2>3, <2>4, WatchedTick
  <2> QED
    BY <1>1, <1>3, <2>5 DEF Arena
<1>5. CASE observer[s].state # "running"
  <2>1. observer'[s] = observer[s]
    <3>1. CASE slot # Nothing /\ observer[slot].state = "running"
      <4>1. slot \in Sessions /\ slot # s /\ ObserveTick(slot)
        BY <1>1, <1>5, <3>1 DEF ObserverCallback, IInv, SlotShapes
      <4> QED
        BY <4>1, ObserveTickKeepsObserver DEF IInv
    <3>2. CASE ~(slot # Nothing /\ observer[slot].state = "running")
      BY <1>1, <3>2 DEF ObserverCallback
    <3> QED
      BY <3>1, <3>2
  <2>2. network.stage = 0 /\ ~NeverSettles => network' = network
    BY <1>1, SettlePhysics DEF HarnessInv
  <2> QED
    BY <1>1, <1>2, <1>3, <1>5, <2>1, <2>2 DEF Arena, Watch
<1> QED
  BY <1>4, <1>5

LEMMA InstallArena ==
    ASSUME HarnessInv, ArenaInv, NEW s \in Sessions, InstallServerTickObserver(s)
    PROVE  Arena(s)'
<1>1. CASE InstallSucceeds
  <2> DEFINE fresh == NewTracker(0, Trace)
  <2>1. /\ observer' = [observer EXCEPT ![s] = [state |-> "running", sample |-> Nothing,
                                                tracker |-> fresh]]
        /\ pc' = [pc EXCEPT ![s] = "observing"]
        /\ pc[s] = "applied"
        /\ UNCHANGED <<world, action, wait, tested, saved, connected, verdict>>
    BY <1>1 DEF InstallServerTickObserver, Go
  <2>2. Trace \in Traces
    BY TraceType DEF Trace, PhaseOf, HarnessInv, TypeOK
  <2>3. /\ fresh.PreviousGameTime = 0
        /\ fresh.UnchangedTicks = 0
        /\ fresh.PreviousTraceState = Trace
    BY <2>2, NewTrackerInRange
  <2> HIDE DEF fresh
  <2>4. /\ pc'[s] = "observing"
        /\ observer'[s].state = "running"
        /\ observer'[s].tracker = fresh
    BY <2>1 DEF HarnessInv, TypeOK
  <2>5. (NeverSettles' <=> NeverSettles) /\ Trace' = Trace
    BY <2>1 DEF NeverSettles, Trace, world
  <2>6. /\ network.stage \in Nat /\ network.stage <= MaxDelay /\ MaxDelay \in Nat
    BY PhysicalAssumption DEF HarnessInv, TypeOK
  <2>7. /\ network.stage <= VisibleStride * PhaseOf(network.stage)
        /\ VisibleStride * PhaseOf(network.stage) \in Nat
    BY <2>6, PhaseBounds
  <2>8. Watch(s)'
    BY <2>1, <2>3, <2>4, <2>5, <2>6, <2>7 DEF Watch, world, PhaseOf
  <2>9. placed # Nothing => levers = Vectors[tested[s] + 1]
    BY <2>1 DEF ArenaInv, Arena
  <2> QED
    BY <2>1, <2>4, <2>8, <2>9 DEF Arena, world
<1>2. CASE ~InstallSucceeds
  <2>1. /\ UNCHANGED <<world, slot, observer>>
        /\ pc[s] = "applied"
        /\ \E location \in {"unwind", "done"} : pc' = [pc EXCEPT ![s] = location]
    BY <1>2 DEF InstallServerTickObserver, Leave, Go
  <2>2. observer'[s] = NoObserver /\ pc'[s] \in {"unwind", "done"}
    BY <2>1 DEF HarnessInv, TypeOK, Progress
  <2> QED
    BY <2>2, IdleArena
<1> QED
  BY <1>1, <1>2

LEMMA SetLeversArena ==
    ASSUME HarnessInv, NEW s \in Sessions,
           ApplyValidationVector(s) \/ RestoreInputStates(s)
    PROVE  Arena(s)'
<1>1. /\ UNCHANGED <<placed, observer, tested, saved>>
      /\ pc[s] \in {"apply", "unwind"}
      /\ \E location \in {"applied", "restored"} : pc' = [pc EXCEPT ![s] = location]
  BY DEF ApplyValidationVector, RestoreInputStates, Go
<1>2. observer'[s] = NoObserver
  BY <1>1 DEF HarnessInv, Progress
<1>3. CASE ApplyValidationVector(s)
  <2>1. pc'[s] = "applied"
    BY <1>3 DEF ApplyValidationVector, Go, HarnessInv, TypeOK
  <2>2. placed # Nothing => levers' = Vectors[tested[s] + 1]
    BY <1>3 DEF ApplyValidationVector, SetLevers
  <2> QED
    BY <1>1, <1>2, <2>1, <2>2, NoObserverType DEF Arena, Watch
<1>4. CASE RestoreInputStates(s)
  <2>1. pc'[s] = "restored"
    BY <1>4 DEF RestoreInputStates, Go, HarnessInv, TypeOK
  <2>2. placed # Nothing => levers' = saved[s]
    BY <1>4 DEF RestoreInputStates, SetLevers
  <2> QED
    BY <1>1, <1>2, <2>1, <2>2, NoObserverType DEF Arena, Watch
<1> QED
  BY <1>3, <1>4

\* A step of one session leaves what the others keep alone.
LEMMA SessionStepIsLocal ==
    ASSUME HarnessInv, NEW s \in Sessions, SessionStep(s),
           NEW t \in Sessions, t # s
    PROVE  /\ pc'[t] = pc[t] /\ action'[t] = action[t] /\ tested'[t] = tested[t]
           /\ saved'[t] = saved[t] /\ verdict'[t] = verdict[t]
           /\ observer'[t] = observer[t]
           /\ circuit' = circuit
<1>1. CASE InstallServerTickObserver(s)
  BY <1>1 DEF InstallServerTickObserver, Leave, Go, HarnessInv, TypeOK, world
<1>2. CASE AwaitCompletion(s)
  BY <1>2 DEF AwaitCompletion, Leave, Go, HarnessInv, TypeOK, world
<1>3. CASE RejectFixture(s) \/ PasteSettled(s) \/ ReadInputs(s) \/ Respond(s)
  BY <1>3 DEF RejectFixture, PasteSettled, ReadInputs, Respond, Go, HarnessInv,
              TypeOK, world
<1>4. CASE WriteProgress(s) \/ WriteProgressFails(s)
  BY <1>4 DEF WriteProgress, WriteProgressFails, Leave, Go, HarnessInv, TypeOK, world
<1>5. CASE Prepare(s) \/ ApplyValidationVector(s) \/ RestoreInputStates(s)
  BY <1>5 DEF Prepare, ApplyValidationVector, RestoreInputStates, Go, HarnessInv, TypeOK
<1> QED
  BY <1>1, <1>2, <1>3, <1>4, <1>5 DEF SessionStep

LEMMA SessionStepArena ==
    ASSUME HarnessInv, Lone, ArenaInv, NEW s \in Sessions, SessionStep(s),
           NEW t \in Sessions
    PROVE  Arena(t)'
<1>1. Busy(s)
  BY DEF SessionStep, Busy, RejectFixture, Prepare, PasteSettled, ReadInputs,
         WriteProgress, WriteProgressFails, ApplyValidationVector,
         InstallServerTickObserver, AwaitCompletion, RestoreInputStates, Respond
<1>2. CASE t # s
  <2>1. pc[t] \in {"idle", "done"} /\ observer[t] = NoObserver
    BY <1>1, <1>2, OthersIdle
  <2>2. pc'[t] = pc[t] /\ observer'[t] = observer[t]
    BY <1>2, SessionStepIsLocal
  <2> QED
    BY <2>1, <2>2, IdleArena
<1>3. CASE t = s
  <2>1. CASE InstallServerTickObserver(s)
    BY <1>3, <2>1, InstallArena
  <2>2. CASE ApplyValidationVector(s) \/ RestoreInputStates(s)
    BY <1>3, <2>2, SetLeversArena
  <2>3. CASE AwaitCompletion(s)
    <3>1. /\ \E location \in {"progress", "unwind", "done"} :
                pc' = [pc EXCEPT ![s] = location]
          /\ observer' = [observer EXCEPT ![s] = NoObserver]
      BY <2>3 DEF AwaitCompletion, Leave, Go
    <3>2. pc'[s] \in {"progress", "unwind", "done"} /\ observer'[s] = NoObserver
      BY <3>1 DEF HarnessInv, TypeOK
    <3> QED
      BY <1>3, <3>2, IdleArena
  <2>4. CASE \/ RejectFixture(s) \/ PasteSettled(s) \/ ReadInputs(s) \/ Respond(s)
             \/ WriteProgress(s) \/ WriteProgressFails(s) \/ Prepare(s)
    <3>1. pc[s] # "observing" /\ observer' = observer
      BY <2>4 DEF RejectFixture, PasteSettled, ReadInputs, Respond, WriteProgress,
                  WriteProgressFails, Prepare
    <3>2. \E location \in {"done", "progress", "readInputs", "apply", "unwind", "pasted"} :
             pc' = [pc EXCEPT ![s] = location]
      BY <2>4 DEF RejectFixture, PasteSettled, ReadInputs, Respond, WriteProgress,
                  WriteProgressFails, Prepare, Leave, Go
    <3>3. pc'[s] \notin {"applied", "observing", "restored"}
          /\ observer'[s] = NoObserver
      BY <3>1, <3>2 DEF HarnessInv, TypeOK, Progress
    <3> QED
      BY <1>3, <3>3, IdleArena
  <2> QED
    BY <2>1, <2>2, <2>3, <2>4 DEF SessionStep
<1> QED
  BY <1>2, <1>3

LEMMA NextArenaInv ==
    HarnessInv /\ IInv /\ Lone /\ ArenaInv /\ [Next]_vars => ArenaInv'
<1> SUFFICES ASSUME HarnessInv, IInv, Lone, ArenaInv, [Next]_vars, NEW t \in Sessions
             PROVE  Arena(t)'
  BY DEF ArenaInv
<1>1. CASE Tick
  BY <1>1, TickArena
<1>2. CASE FrozenTick \/ ClearImportedBlocks
  <2>1. placed' = Nothing
    BY <1>2 DEF FrozenTick, ClearImportedBlocks, world
  <2> QED
    BY <2>1 DEF Arena
<1>3. CASE \/ PauseTicks \/ ResumeTicks \/ StepTicks \/ UNCHANGED vars
  <2>1. UNCHANGED <<placed, levers, network, circuit, observer, pc, tested, saved>>
    BY <1>3 DEF PauseTicks, ResumeTicks, StepTicks, vars, world, session
  <2> QED
    BY <2>1, SameArena DEF ArenaInv
<1>4. ASSUME NEW s \in Sessions, NEW asking \in Actions, Submit(s, asking)
      PROVE  Arena(t)'
  <2>1. /\ UNCHANGED <<placed, levers, network, circuit, observer, tested, saved>>
        /\ pc[s] = "idle" /\ pc' = [pc EXCEPT ![s] = "prepare"]
    BY <1>4 DEF Submit, Go, world
  <2>2. CASE t = s
    <3>1. pc'[s] = "prepare" /\ observer'[s] = NoObserver
      BY <2>1 DEF HarnessInv, TypeOK, Progress
    <3> QED
      BY <2>2, <3>1, IdleArena
  <2>3. CASE t # s
    <3>1. pc'[t] = pc[t]
      BY <2>1, <2>3 DEF HarnessInv, TypeOK
    <3> QED
      BY <2>1, <3>1, SameArena DEF ArenaInv
  <2> QED
    BY <2>2, <2>3
<1>5. ASSUME NEW s \in Sessions, Disconnect(s)
      PROVE  Arena(t)'
  <2>1. UNCHANGED <<placed, levers, network, circuit, observer, pc, tested, saved>>
    BY <1>5 DEF Disconnect, world
  <2> QED
    BY <2>1, SameArena DEF ArenaInv
<1>6. ASSUME NEW s \in Sessions, SessionStep(s)
      PROVE  Arena(t)'
  BY <1>6, SessionStepArena
<1> QED
  BY <1>1, <1>2, <1>3, <1>4, <1>5, <1>6 DEF Next, Control

LEMMA InitArenaInv == Init => ArenaInv
<1> SUFFICES ASSUME Init, NEW s \in Sessions PROVE Arena(s)
  BY DEF ArenaInv
<1>1. pc[s] = "idle" /\ observer[s] = NoObserver
  BY DEF Init
<1> QED
  BY <1>1, NoObserverType DEF Arena, Watch

\* As long as no two sessions are in the server at once, each compares lamps
\* that were sampled under the very vector being tested and after the circuit
\* has settled: the quiet window cannot be fooled by a circuit that looks still
\* for a while.
THEOREM LoneSessionComparesItsVector == Spec /\ []Lone => []ComparedUnderItsVector
<1>1. HarnessInv /\ ArenaInv => ComparedUnderItsVector
  <2> SUFFICES ASSUME HarnessInv, ArenaInv, NEW s \in Sessions,
                      observer[s].state = "settled", placed # Nothing
               PROVE  /\ levers = Vectors[tested[s] + 1]
                      /\ network = [shows |-> levers, stage |-> 0]
    BY DEF ComparedUnderItsVector, HarnessInv
  <2>1. pc[s] = "observing"
    BY NoObserverType DEF HarnessInv, Progress
  <2> QED
    BY <2>1 DEF ArenaInv, Arena
<1> QED
  BY <1>1, NextArenaInv, InitIInv, NextIInv, InitHarnessInv, NextHarnessInv, InitArenaInv,
     PTL DEF Spec

-----------------------------------------------------------------------------
(* Judgements.                                                             *)

\* An existing-world validation does not paste what it names: when one may be
\* asked for, every circuit that can stand in the arena is the one named.
NamesTheCircuit ==
    "ValidateExisting" \in Actions =>
      \A fixture \in Fixtures, s \in Sessions : FixtureOf[s] = fixture

\* What the fixture of a session settles to under its i-th vector.
Shows(s, i) == circuit[FixtureOf[s]][Vectors[i]]
Wanted(i)   == Expected[Vectors[i]]

\* What the verdict of a session says of its fixture.
VerdictIsTrue(s) ==
    /\ verdict[s] = "passed" => tested[s] = Len(Vectors)
    /\ verdict[s] = "mismatch" =>
         /\ tested[s] < Len(Vectors)
         /\ Shows(s, tested[s] + 1) \notin {Wanted(tested[s] + 1), Oscillates}
    /\ verdict[s] = "timeout" =>
         /\ tested[s] < Len(Vectors)
         /\ Shows(s, tested[s] + 1) = Oscillates

\* The arena holds the fixture under test, what has been captured is what the
\* fixture does, and so is what has been judged.
Judge(s) ==
    /\ placed # Nothing /\ pc[s] \in {"pasted", "readInputs", "progress", "apply",
                                       "applied", "observing"} =>
         placed = FixtureOf[s]
    /\ \A i \in 1 .. tested[s] : Shows(s, i) = Wanted(i)
    /\ observer[s].state = "settled" =>
         /\ Shows(s, tested[s] + 1) # Oscillates
         /\ observer[s].sample = Shows(s, tested[s] + 1)
    /\ observer[s].state = "timedOut" => Shows(s, tested[s] + 1) = Oscillates
    /\ pc[s] \in {"unwind", "restored", "done"} => VerdictIsTrue(s)

JudgeInv == \A s \in Sessions : Judge(s)

LEMMA SameJudge ==
    ASSUME NEW s \in Sessions, Judge(s),
           placed' = placed \/ placed' = Nothing \/ pc[s] \in {"idle", "done"},
           circuit' = circuit, pc'[s] = pc[s], tested'[s] = tested[s],
           verdict'[s] = verdict[s], observer'[s] = observer[s]
    PROVE  Judge(s)'
<1>1. \A i : Shows(s, i)' = Shows(s, i)
  BY DEF Shows
<1>2. VerdictIsTrue(s)' <=> VerdictIsTrue(s)
  BY DEF VerdictIsTrue, Shows
<1> QED
  BY <1>1, <1>2 DEF Judge

LEMMA InitJudgeInv == Init => JudgeInv
<1> SUFFICES ASSUME Init, NEW s \in Sessions PROVE Judge(s)
  BY DEF JudgeInv
<1>1. pc[s] = "idle" /\ observer[s] = NoObserver /\ tested[s] = 0
  BY DEF Init
<1> QED
  BY <1>1, NoObserverType DEF Judge

\* The tick on which the observer captures.
LEMMA TickJudge ==
    ASSUME HarnessInv, IInv, ArenaInv, JudgeInv, Tick, NEW s \in Sessions
    PROVE  Judge(s)'
<1> USE HarnessAssumption
<1>1. /\ UNCHANGED <<frozen, placed, levers, circuit, slot, pc, action, tested,
                     saved, connected, verdict>>
      /\ Settle /\ ObserverCallback
  BY DEF Tick
<1>2. Judge(s)
  BY DEF JudgeInv
<1>3. CASE observer'[s] = observer[s]
  BY <1>1, <1>2, <1>3, SameJudge
<1>4. CASE observer'[s] # observer[s]
  <2>1. slot = s /\ observer[s].state = "running" /\ ObserveTick(s)
    <3>1. slot \in Sessions /\ observer[slot].state = "running" /\ ObserveTick(slot)
      BY <1>1, <1>4 DEF ObserverCallback, HarnessInv, TypeOK
    <3> QED
      BY <1>4, <3>1, ObserveTickKeepsObserver DEF IInv
  <2>2. pc[s] = "observing"
    BY <2>1 DEF IInv, ObserverSlotIsOwned
  <2>3. /\ network' \in [shows : Settings \cup {Nothing}, stage : 0 .. MaxDelay]
        /\ Physics'
    BY <1>1, SettlePhysics DEF HarnessInv
  <2>4. IF placed' = Nothing THEN observer'[s].state = "failed" ELSE Looked(s)
    <3>1. /\ placed' \in Fixtures \cup {Nothing}
          /\ levers' \in Settings \cup {Nothing}
          /\ placed' # Nothing /\ network'.stage = 0 => network'.shows = levers'
      BY <1>1, <2>3 DEF HarnessInv, TypeOK, Physics
    <3> QED
      BY <1>1, <2>1, <2>3, <3>1, ObserveTickInRange DEF HarnessInv
  <2>5. CASE placed = Nothing
    BY <1>1, <1>2, <2>2, <2>4, <2>5 DEF Judge, Shows
  <2>6. CASE placed # Nothing
    <3>1. Arena(s)'
      BY TickArena
    <3>2. /\ levers' = Vectors[tested[s] + 1]
          /\ placed' = FixtureOf[s]
          /\ levers' # Nothing
          /\ observer'[s].state = "settled" =>
               ~NeverSettles' /\ network' = [shows |-> levers', stage |-> 0]
          /\ observer'[s].state = "timedOut" => NeverSettles'
          /\ observer'[s].state = "settled" => observer'[s].sample \in LampReadings'
      BY <1>1, <1>2, <2>2, <2>3, <2>4, <2>6, <3>1 DEF Arena, Judge, Looked, Physics
    <3>3. Shows(s, tested[s] + 1) = circuit'[placed'][levers']
      BY <1>1, <3>2 DEF Shows
    <3>4. NeverSettles' <=> Shows(s, tested[s] + 1) = Oscillates
      BY <1>1, <2>6, <3>2, <3>3 DEF NeverSettles
    <3>5. observer'[s].state = "settled" =>
             /\ Shows(s, tested[s] + 1) # Oscillates
             /\ observer'[s].sample = Shows(s, tested[s] + 1)
      BY <3>2, <3>3, <3>4 DEF LampReadings
    <3>6. observer'[s].state = "timedOut" => Shows(s, tested[s] + 1) = Oscillates
      BY <3>2, <3>4
    <3>7. \A i : Shows(s, i)' = Shows(s, i)
      BY <1>1 DEF Shows
    <3> QED
      BY <1>1, <1>2, <2>2, <3>5, <3>6, <3>7 DEF Judge
  <2> QED
    BY <2>5, <2>6
<1> QED
  BY <1>3, <1>4

\* Judging what the observer captured.
LEMMA AwaitJudge ==
    ASSUME HarnessInv, JudgeInv, NEW s \in Sessions, AwaitCompletion(s)
    PROVE  Judge(s)'
<1> USE HarnessAssumption
<1>1. /\ pc[s] = "observing"
      /\ observer'[s] = NoObserver
      /\ UNCHANGED <<placed, circuit>>
  BY DEF AwaitCompletion, HarnessInv, TypeOK, world
<1>2. /\ tested[s] \in Nat /\ tested[s] < Len(Vectors) /\ Len(Vectors) \in Nat
      /\ verdict[s] = Nothing
  BY <1>1 DEF HarnessInv, TypeOK, Progress
<1>3. \A i : Shows(s, i)' = Shows(s, i)
  BY <1>1 DEF Shows
<1>4. Judge(s)
  BY DEF JudgeInv
<1>5. CASE pc'[s] = "progress"
  <2>1. /\ observer[s].state = "settled"
        /\ observer[s].sample = Wanted(tested[s] + 1)
        /\ tested'[s] = tested[s] + 1
    BY <1>5 DEF AwaitCompletion, Leave, Go, HarnessInv, TypeOK, Wanted
  <2>2. Shows(s, tested[s] + 1) = Wanted(tested[s] + 1)
    BY <1>4, <2>1 DEF Judge
  <2>3. \A i \in 1 .. tested'[s] : Shows(s, i) = Wanted(i)
    BY <1>2, <1>4, <2>1, <2>2 DEF Judge
  <2>4. placed # Nothing => placed = FixtureOf[s]
    BY <1>1, <1>4 DEF Judge
  <2> QED
    BY <1>1, <1>3, <1>5, <2>3, <2>4, NoObserverType DEF Judge
<1>6. CASE pc'[s] # "progress"
  <2>1. /\ tested'[s] = tested[s]
        /\ pc'[s] \in {"unwind", "done"}
        /\ \/ /\ observer[s].state = "settled"
              /\ observer[s].sample # Wanted(tested[s] + 1)
              /\ verdict'[s] = "mismatch"
           \/ observer[s].state = "timedOut" /\ verdict'[s] = "timeout"
           \/ verdict'[s] = "infrastructure-failure"
    BY <1>6 DEF AwaitCompletion, Leave, Go, HarnessInv, TypeOK, Wanted
  <2>2. VerdictIsTrue(s)'
    BY <1>2, <1>3, <1>4, <2>1 DEF Judge, VerdictIsTrue
  <2> QED
    BY <1>1, <1>3, <1>4, <2>1, <2>2, NoObserverType DEF Judge
<1> QED
  BY <1>5, <1>6

\* Every other step of a session that is not observing.
LEMMA OtherStepJudge ==
    ASSUME HarnessInv, JudgeInv, NEW s \in Sessions, pc[s] # "observing",
           observer' = observer, circuit' = circuit, tested' = tested,
           placed' # Nothing /\ pc'[s] \in {"pasted", "readInputs", "progress",
                                            "apply", "applied", "observing"} =>
             placed' = FixtureOf[s],
           pc'[s] \in {"unwind", "restored", "done"} =>
             \/ pc[s] \in {"unwind", "restored"} /\ verdict'[s] = verdict[s]
             \/ verdict'[s] \in {"loaded", "infrastructure-failure"}
             \/ verdict'[s] = "passed" /\ tested[s] = Len(Vectors)
    PROVE  Judge(s)'
<1>1. Judge(s) /\ observer[s] = NoObserver
  BY DEF JudgeInv, HarnessInv, Progress
<1>2. \A i : Shows(s, i)' = Shows(s, i)
  BY DEF Shows
<1>3. pc'[s] \in {"unwind", "restored", "done"} => VerdictIsTrue(s)'
  BY <1>1, <1>2 DEF Judge, VerdictIsTrue
<1> QED
  BY <1>1, <1>2, <1>3, NoObserverType DEF Judge

LEMMA SessionStepJudge ==
    ASSUME NamesTheCircuit, HarnessInv, Lone, JudgeInv,
           NEW s \in Sessions, SessionStep(s), NEW t \in Sessions
    PROVE  Judge(t)'
<1> USE HarnessAssumption
<1>1. Busy(s)
  BY DEF SessionStep, Busy, RejectFixture, Prepare, PasteSettled, ReadInputs,
         WriteProgress, WriteProgressFails, ApplyValidationVector,
         InstallServerTickObserver, AwaitCompletion, RestoreInputStates, Respond
<1>2. CASE t # s
  <2>1. pc[t] \in {"idle", "done"}
    BY <1>1, <1>2, OthersIdle
  <2> QED
    BY <1>2, <2>1, SessionStepIsLocal, SameJudge DEF JudgeInv
<1>3. Judge(s)
  BY DEF JudgeInv
<1>4. CASE AwaitCompletion(s)
  BY <1>2, <1>4, AwaitJudge
<1>5. CASE InstallServerTickObserver(s)
  <2>1. /\ UNCHANGED <<placed, circuit, tested>>
        /\ pc[s] = "applied"
        /\ placed # Nothing => placed = FixtureOf[s]
    BY <1>3, <1>5 DEF InstallServerTickObserver, Judge, world
  <2>2. CASE InstallSucceeds
    <3>1. pc'[s] = "observing" /\ observer'[s].state = "running"
      BY <1>5, <2>2 DEF InstallServerTickObserver, Go, HarnessInv, TypeOK
    <3>2. \A i : Shows(s, i)' = Shows(s, i)
      BY <2>1 DEF Shows
    <3>3. Judge(s)'
      BY <1>3, <2>1, <3>1, <3>2 DEF Judge
    <3> QED
      BY <1>2, <3>3
  <2>3. CASE ~InstallSucceeds
    <3>1. /\ observer' = observer
          /\ verdict'[s] = "infrastructure-failure"
          /\ pc'[s] \in {"unwind", "done"}
      BY <1>5, <2>3 DEF InstallServerTickObserver, Leave, Go, HarnessInv, TypeOK
    <3> QED
      BY <1>2, <2>1, <3>1, OtherStepJudge
  <2> QED
    BY <2>2, <2>3
<1>6. CASE RejectFixture(s) \/ Respond(s)
  <2>1. /\ UNCHANGED <<observer, circuit, tested>>
        /\ pc[s] # "observing" /\ pc'[s] = "done"
        /\ \/ pc[s] = "restored" /\ verdict'[s] = verdict[s]
           \/ verdict'[s] = "infrastructure-failure"
    BY <1>6 DEF RejectFixture, Respond, Go, HarnessInv, TypeOK, world
  <2> QED
    BY <1>2, <2>1, OtherStepJudge
<1>7. CASE PasteSettled(s) \/ ReadInputs(s)
  <2>1. /\ UNCHANGED <<placed, observer, circuit, tested>>
        /\ pc[s] \in {"pasted", "readInputs"}
        /\ pc'[s] \in {"done", "progress", "readInputs"}
        /\ pc'[s] = "done" => verdict'[s] \in {"loaded", "infrastructure-failure"}
    BY <1>7 DEF PasteSettled, ReadInputs, Go, HarnessInv, TypeOK, world
  <2>2. placed # Nothing => placed = FixtureOf[s]
    BY <1>3, <2>1 DEF Judge
  <2> QED
    BY <1>2, <2>1, <2>2, OtherStepJudge
<1>8. CASE WriteProgress(s) \/ WriteProgressFails(s)
  <2>1. /\ UNCHANGED <<placed, observer, circuit, tested>>
        /\ pc[s] = "progress"
        /\ pc'[s] \in {"apply", "unwind", "done"}
        /\ pc'[s] # "apply" =>
             \/ verdict'[s] = "passed" /\ tested[s] = Len(Vectors)
             \/ verdict'[s] = "infrastructure-failure"
    BY <1>8 DEF WriteProgress, WriteProgressFails, Leave, Go, HarnessInv, TypeOK, world
  <2>2. placed # Nothing => placed = FixtureOf[s]
    BY <1>3, <2>1 DEF Judge
  <2> QED
    BY <1>2, <2>1, <2>2, OtherStepJudge
<1>9. CASE ApplyValidationVector(s) \/ RestoreInputStates(s)
  <2>1. /\ UNCHANGED <<placed, observer, circuit, tested, verdict>>
        /\ \/ pc[s] = "apply" /\ pc'[s] = "applied"
           \/ pc[s] = "unwind" /\ pc'[s] = "restored"
    BY <1>9 DEF ApplyValidationVector, RestoreInputStates, Go, HarnessInv, TypeOK
  <2>2. placed # Nothing /\ pc[s] = "apply" => placed = FixtureOf[s]
    BY <1>3 DEF Judge
  <2> QED
    BY <1>2, <2>1, <2>2, OtherStepJudge
<1>10. CASE Prepare(s)
  <2>1. /\ UNCHANGED <<observer, circuit, tested, verdict>>
        /\ pc[s] = "prepare" /\ pc'[s] = "pasted"
    BY <1>10 DEF Prepare, Go, HarnessInv, TypeOK
  <2>2. placed' # Nothing => placed' = FixtureOf[s]
    <3>1. CASE action[s] = "ValidateExisting"
      <4>1. "ValidateExisting" \in Actions
        BY <2>1, <3>1 DEF HarnessInv, Progress
      <4>2. placed' = placed /\ placed \in Fixtures \cup {Nothing}
        BY <1>10, <3>1 DEF Prepare, HarnessInv, TypeOK
      <4> QED
        BY <4>1, <4>2 DEF NamesTheCircuit
    <3>2. CASE action[s] # "ValidateExisting"
      BY <1>10, <3>2 DEF Prepare
    <3> QED
      BY <3>1, <3>2
  <2> QED
    BY <1>2, <2>1, <2>2, OtherStepJudge
<1> QED
  BY <1>4, <1>5, <1>6, <1>7, <1>8, <1>9, <1>10 DEF SessionStep

LEMMA NextJudgeInv ==
    ASSUME NamesTheCircuit
    PROVE  HarnessInv /\ IInv /\ Lone /\ ArenaInv /\ JudgeInv /\ [Next]_vars
             => JudgeInv'
<1> SUFFICES ASSUME HarnessInv, IInv, Lone, ArenaInv, JudgeInv, [Next]_vars,
                    NEW t \in Sessions
             PROVE  Judge(t)'
  BY DEF JudgeInv
<1>0. Judge(t)
  BY DEF JudgeInv
<1>1. CASE Tick
  BY <1>1, TickJudge
<1>2. CASE FrozenTick
  <2>1. /\ UNCHANGED <<placed, circuit, pc, tested, verdict>>
        /\ observer' = [observer EXCEPT ![slot] =
                          [state |-> "failed", sample |-> Nothing, tracker |-> @.tracker]]
    BY <1>2 DEF FrozenTick, ObserverFails, world, session
  <2>2. observer'[t] = observer[t] \/ observer'[t].state = "failed"
    BY <2>1 DEF HarnessInv, TypeOK
  <2>3. \A i : Shows(t, i)' = Shows(t, i)
    BY <2>1 DEF Shows
  <2>4. VerdictIsTrue(t)' <=> VerdictIsTrue(t)
    BY <2>1 DEF VerdictIsTrue, Shows
  <2> QED
    BY <1>0, <2>1, <2>2, <2>3, <2>4 DEF Judge
<1>3. CASE Control \/ UNCHANGED vars
  <2>1. /\ UNCHANGED <<circuit, observer, pc, tested, verdict>>
        /\ placed' = placed \/ placed' = Nothing
    BY <1>3 DEF Control, PauseTicks, ResumeTicks, StepTicks, ClearImportedBlocks,
                vars, world, session
  <2> QED
    BY <1>0, <2>1, SameJudge
<1>4. ASSUME NEW s \in Sessions, NEW asking \in Actions, Submit(s, asking)
      PROVE  Judge(t)'
  <2>1. /\ UNCHANGED <<placed, circuit, observer, tested, verdict>>
        /\ pc[s] = "idle" /\ pc' = [pc EXCEPT ![s] = "prepare"]
    BY <1>4 DEF Submit, Go, world
  <2>2. CASE t = s
    <3>1. pc[s] # "observing" /\ pc'[s] = "prepare"
      BY <2>1 DEF HarnessInv, TypeOK
    <3> QED
      BY <2>1, <2>2, <3>1, OtherStepJudge
  <2>3. CASE t # s
    <3>1. pc'[t] = pc[t]
      BY <2>1, <2>3 DEF HarnessInv, TypeOK
    <3> QED
      BY <1>0, <2>1, <3>1, SameJudge
  <2> QED
    BY <2>2, <2>3
<1>5. ASSUME NEW s \in Sessions, Disconnect(s)
      PROVE  Judge(t)'
  <2>1. UNCHANGED <<placed, circuit, observer, pc, tested, verdict>>
    BY <1>5 DEF Disconnect, world
  <2> QED
    BY <1>0, <2>1, SameJudge
<1>6. ASSUME NEW s \in Sessions, SessionStep(s)
      PROVE  Judge(t)'
  BY <1>6, SessionStepJudge
<1> QED
  BY <1>1, <1>2, <1>3, <1>4, <1>5, <1>6 DEF Next

-----------------------------------------------------------------------------
(* The promise of a request, and the inputs it gives back.                 *)

LEMMA InitKeepsPromise ==
    ASSUME Init, NEW s \in Sessions
    PROVE  Promise(s)!Init
BY HarnessAssumption DEF Init, Promise!Init

\* Every step of a session is a step of its promise, or does not touch it.
LEMMA SessionStepKeepsPromise ==
    ASSUME HarnessInv, JudgeInv, NEW s \in Sessions, SessionStep(s)
    PROVE  [Promise(s)!Next]_(Promise(s)!vars)
<1> USE HarnessAssumption
<1>1. Judge(s) /\ Progress(s)
  BY DEF JudgeInv, HarnessInv
<1>2. /\ tested[s] \in Nat /\ Len(Vectors) \in Nat
  BY DEF HarnessInv, TypeOK
<1>3. CASE AwaitCompletion(s)
  <2>1. /\ verdict[s] = Nothing /\ tested[s] < Len(Vectors)
        /\ circuit' = circuit
    BY <1>1, <1>3 DEF AwaitCompletion, Progress, world
  <2>2. CASE pc'[s] = "progress"
    <3>1. /\ observer[s].state = "settled"
          /\ observer[s].sample = Wanted(tested[s] + 1)
          /\ tested'[s] = tested[s] + 1
          /\ verdict'[s] = verdict[s]
      BY <1>3, <2>2 DEF AwaitCompletion, Leave, Go, HarnessInv, TypeOK, Wanted
    <3>2. Shows(s, tested[s] + 1) = Wanted(tested[s] + 1)
      BY <1>1, <3>1 DEF Judge
    <3>3. Promise(s)!TestVector
      BY <2>1, <3>1, <3>2
         DEF Promise!TestVector, Promise!Undone, Promise!NextVector, Shows, Wanted
    <3> QED
      BY <3>3 DEF Promise!Next
  <2>3. CASE pc'[s] # "progress"
    <3>1. /\ tested'[s] = tested[s]
          /\ \/ /\ observer[s].state = "settled"
                /\ observer[s].sample # Wanted(tested[s] + 1)
                /\ verdict'[s] = "mismatch"
             \/ observer[s].state = "timedOut" /\ verdict'[s] = "timeout"
             \/ verdict'[s] = "infrastructure-failure"
      BY <1>3, <2>3 DEF AwaitCompletion, Leave, Go, HarnessInv, TypeOK, Wanted
    <3>2. CASE verdict'[s] = "mismatch" /\ observer[s].state = "settled"
                /\ observer[s].sample # Wanted(tested[s] + 1)
      <4>1. Shows(s, tested[s] + 1) \notin {Wanted(tested[s] + 1), Oscillates}
        BY <1>1, <3>2 DEF Judge
      <4>2. Promise(s)!FindMismatch
        BY <2>1, <3>1, <3>2, <4>1
           DEF Promise!FindMismatch, Promise!Undone, Promise!NextVector, Shows, Wanted
      <4> QED
        BY <4>2 DEF Promise!Next
    <3>3. CASE verdict'[s] = "timeout" /\ observer[s].state = "timedOut"
      <4>1. Promise(s)!FindUnsettled
        BY <1>1, <2>1, <3>1, <3>3
           DEF Judge, Promise!FindUnsettled, Promise!Undone, Promise!NextVector, Shows
      <4> QED
        BY <4>1 DEF Promise!Next
    <3>4. CASE verdict'[s] = "infrastructure-failure"
      <4>1. Promise(s)!DecideNothing
        BY <2>1, <3>1, <3>4 DEF Promise!DecideNothing
      <4> QED
        BY <4>1 DEF Promise!Next
    <3> QED
      BY <3>1, <3>2, <3>3, <3>4
  <2> QED
    BY <2>2, <2>3
<1>4. CASE \/ circuit' = circuit /\ tested'[s] = tested[s] /\ verdict'[s] = verdict[s]
  BY <1>4 DEF Promise!vars
<1>5. CASE /\ circuit' = circuit /\ tested'[s] = tested[s] /\ verdict[s] = Nothing
           /\ verdict'[s] \in {"loaded", "infrastructure-failure"}
  <2>1. Promise(s)!DecideNothing
    BY <1>5 DEF Promise!DecideNothing
  <2> QED
    BY <2>1 DEF Promise!Next
<1>6. CASE /\ circuit' = circuit /\ tested'[s] = tested[s] /\ verdict[s] = Nothing
           /\ verdict'[s] = "passed" /\ tested[s] = Len(Vectors)
  <2>1. Promise(s)!Pass
    BY <1>6 DEF Promise!Pass
  <2> QED
    BY <2>1 DEF Promise!Next
<1>7. CASE InstallServerTickObserver(s)
  <2>1. /\ circuit' = circuit /\ tested' = tested /\ verdict[s] = Nothing
        /\ verdict'[s] = verdict[s] \/ verdict'[s] = "infrastructure-failure"
    BY <1>1, <1>7 DEF InstallServerTickObserver, Leave, Progress, HarnessInv, TypeOK, world
  <2> QED
    BY <1>4, <1>5, <2>1
<1>8. CASE RejectFixture(s) \/ PasteSettled(s) \/ ReadInputs(s)
  <2>1. /\ circuit' = circuit /\ tested' = tested /\ verdict[s] = Nothing
        /\ verdict'[s] = verdict[s] \/ verdict'[s] \in {"loaded", "infrastructure-failure"}
    BY <1>1, <1>8 DEF RejectFixture, PasteSettled, ReadInputs, Progress, HarnessInv,
                      TypeOK, world
  <2> QED
    BY <1>4, <1>5, <2>1
<1>9. CASE WriteProgress(s) \/ WriteProgressFails(s)
  <2>1. /\ circuit' = circuit /\ tested' = tested /\ verdict[s] = Nothing
        /\ \/ verdict'[s] = verdict[s]
           \/ verdict'[s] = "infrastructure-failure"
           \/ verdict'[s] = "passed" /\ tested[s] = Len(Vectors)
    BY <1>1, <1>9 DEF WriteProgress, WriteProgressFails, Leave, Progress, HarnessInv,
                      TypeOK, world
  <2> QED
    BY <1>4, <1>5, <1>6, <2>1
<1>10. CASE \/ Prepare(s) \/ ApplyValidationVector(s) \/ RestoreInputStates(s)
            \/ Respond(s)
  <2>1. UNCHANGED <<circuit, tested, verdict>>
    BY <1>10 DEF Prepare, ApplyValidationVector, RestoreInputStates, Respond, world
  <2> QED
    BY <1>4, <2>1
<1> QED
  BY <1>3, <1>7, <1>8, <1>9, <1>10 DEF SessionStep

LEMMA NextKeepsPromise ==
    ASSUME HarnessInv, JudgeInv, [Next]_vars, NEW t \in Sessions
    PROVE  [Promise(t)!Next]_(Promise(t)!vars)
<1>1. CASE \/ Tick \/ FrozenTick \/ Control \/ UNCHANGED vars
           \/ \E s \in Sessions : Disconnect(s) \/ \E asking \in Actions : Submit(s, asking)
  <2>1. UNCHANGED <<circuit, tested, verdict>>
    BY <1>1 DEF Tick, FrozenTick, Control, PauseTicks, ResumeTicks, StepTicks,
                ClearImportedBlocks, Disconnect, Submit, vars, world, session
  <2> QED
    BY <2>1 DEF Promise!vars
<1>2. ASSUME NEW s \in Sessions, SessionStep(s), s # t
      PROVE  [Promise(t)!Next]_(Promise(t)!vars)
  BY <1>2, SessionStepIsLocal DEF Promise!vars
<1> QED
  BY <1>1, <1>2, SessionStepKeepsPromise DEF Next

\* As long as no two sessions are in the server at once, each judges the
\* vectors in order, each against what the circuit really does, and its verdict
\* is final: it implements the abstract request, whatever is paused, stepped or
\* cleared and whenever its client goes away.
THEOREM LoneSessionKeepsPromise ==
    ASSUME NamesTheCircuit
    PROVE  Spec /\ []Lone => KeepsPromise
<1>1. HarnessInv /\ IInv /\ Lone /\ ArenaInv /\ JudgeInv /\ [Next]_vars => JudgeInv'
  BY NextJudgeInv
<1>2. Init => \A s \in Sessions : Promise(s)!Init
  BY InitKeepsPromise
<1>3. HarnessInv /\ JudgeInv /\ [Next]_vars =>
        [\A s \in Sessions : [Promise(s)!Next]_(Promise(s)!vars)]_vars
  BY NextKeepsPromise
<1> QED
  BY <1>1, <1>2, <1>3, InitIInv, NextIInv, InitHarnessInv, NextHarnessInv,
     InitArenaInv, NextArenaInv, InitJudgeInv, PTL DEF Spec, KeepsPromise

\* On whatever way a lone validation of the live world ends, the input levers
\* are what they were when it read them.
THEOREM LoneSessionRestoresInputs ==
    ASSUME \A s, t \in Sessions : s = t
    PROVE  Spec => []InputsRestored
<1> USE HarnessAssumption
<1>1. Init => InputsRestored
  BY DEF Init, InputsRestored
<1>2. HarnessInv /\ InputsRestored /\ [Next]_vars => InputsRestored'
  <2> SUFFICES ASSUME HarnessInv, InputsRestored, [Next]_vars, NEW s \in Sessions,
                      pc'[s] \in {"restored", "done"}, saved'[s] # Nothing,
                      placed' # Nothing, action'[s] = "ValidateExisting"
               PROVE  levers' = saved'[s]
    BY DEF InputsRestored
  <2>1. Progress(s)
    BY DEF HarnessInv
  <2>2. CASE \/ UNCHANGED <<placed, levers, pc, saved, action>>
             \/ ClearImportedBlocks
    BY <2>2 DEF InputsRestored, ClearImportedBlocks
  <2>3. CASE Tick \/ FrozenTick \/ Control \/ UNCHANGED vars
    <3>1. UNCHANGED <<placed, levers, pc, saved, action>> \/ ClearImportedBlocks
      BY <2>3 DEF Tick, FrozenTick, Control, PauseTicks, ResumeTicks, StepTicks,
                  vars, world, session
    <3> QED
      BY <2>2, <3>1
  <2>4. ASSUME NEW t \in Sessions, Disconnect(t) \/ \E asking \in Actions : Submit(t, asking)
        PROVE  levers' = saved'[s]
    <3>1. CASE Disconnect(t)
      BY <2>2, <3>1 DEF Disconnect, world
    <3>2. CASE \E asking \in Actions : Submit(t, asking)
      <4>1. pc'[s] = "prepare"
        BY <3>2 DEF Submit, Go, HarnessInv, TypeOK
      <4> QED
        BY <4>1
    <3> QED
      BY <2>4, <3>1, <3>2
  <2>5. ASSUME NEW t \in Sessions, SessionStep(t)
        PROVE  levers' = saved'[s]
    <3>1. SessionStep(s)
      BY <2>5
    <3>2. CASE RestoreInputStates(s)
      BY <3>2 DEF RestoreInputStates, SetLevers
    <3>3. CASE Respond(s)
      BY <3>3 DEF Respond, InputsRestored, world
    <3>4. CASE RejectFixture(s) \/ ReadInputs(s)
      BY <2>1, <3>4 DEF RejectFixture, ReadInputs, Go, Progress, HarnessInv, TypeOK
    <3>5. CASE Prepare(s) \/ ApplyValidationVector(s)
      BY <3>5 DEF Prepare, ApplyValidationVector, Go, HarnessInv, TypeOK
    <3>6. CASE PasteSettled(s)
      BY <3>6 DEF PasteSettled, Go, HarnessInv, TypeOK
    <3>7. CASE \/ WriteProgress(s) \/ WriteProgressFails(s)
               \/ InstallServerTickObserver(s) \/ AwaitCompletion(s)
      <4>1. action'[s] = action[s]
        BY <3>7 DEF WriteProgress, WriteProgressFails, InstallServerTickObserver,
                    AwaitCompletion
      <4>2. pc'[s] \in {"apply", "unwind", "observing", "progress"}
        BY <3>7, <4>1 DEF WriteProgress, WriteProgressFails, InstallServerTickObserver,
                          AwaitCompletion, Leave, Go, HarnessInv, TypeOK
      <4> QED
        BY <4>2
    <3> QED
      BY <3>1, <3>2, <3>3, <3>4, <3>5, <3>6, <3>7 DEF SessionStep
  <2> QED
    BY <2>3, <2>4, <2>5 DEF Next
<1> QED
  BY <1>1, <1>2, InitHarnessInv, NextHarnessInv, PTL DEF Spec

-----------------------------------------------------------------------------
(* What the client may conclude.                                           *)

ClientInv ==
    /\ ClientTypeOK
    /\ client = "awaiting" <=> attempt # Nothing
    /\ attempt # Nothing => pc[attempt] # "idle"
    /\ \A s \in Sessions : pc[s] # "idle" => action[s] = asked
    /\ alone => Lone

clientVars == <<vars, request>>

LEMMA InitClientInv == ClientInit => ClientInv
BY HarnessAssumption, InitHarnessInv
   DEF ClientInit, ClientInv, ClientTypeOK, Init, Lone, Busy, HarnessInv, TypeOK

\* The client submits, hangs up or stays outside the harness.
LEMMA ClientStepIsHarnessStep ==
    ASSUME HarnessInv, ClientInv, [ClientNext]_clientVars
    PROVE  [Next]_vars
<1>1. CASE ServerStep
  BY <1>1 DEF ServerStep, Next
<1>2. CASE ClearCanonicalSimulationWorld \/ FailBeforeSending
  BY <1>2 DEF ClearCanonicalSimulationWorld, FailBeforeSending, Next, Control
<1>3. CASE GetRunningControl \/ StartupExpires \/ ReadAnswer
  BY <1>3 DEF GetRunningControl, StartupExpires, ReadAnswer
<1>4. ASSUME NEW s \in Sessions, Send(s) PROVE [Next]_vars
  <2>1. asked \in Actions
    BY DEF ClientInv, ClientTypeOK
  <2> QED
    BY <1>4, <2>1 DEF Send, Next
<1>5. CASE GiveUp \/ BreakConnection
  <2>1. /\ CloseConnection
        /\ UNCHANGED <<world, slot, observer, pc, action, wait, tested, saved, verdict>>
    BY <1>5 DEF GiveUp, BreakConnection
  <2>2. CASE attempt \in Active
    <3>1. /\ attempt \in Sessions /\ pc[attempt] \notin {"idle", "done"}
          /\ connected' = [connected EXCEPT ![attempt] = FALSE]
      BY <2>1, <2>2 DEF CloseConnection, Active
    <3>2. CASE connected[attempt]
      <4>1. Disconnect(attempt)
        BY <2>1, <3>1, <3>2 DEF Disconnect
      <4> QED
        BY <3>1, <4>1 DEF Next
    <3>3. CASE ~connected[attempt]
      <4>1. connected[attempt] = FALSE
        BY <3>1, <3>3 DEF HarnessInv, TypeOK
      <4>2. connected' = connected
        BY <3>1, <4>1 DEF HarnessInv, TypeOK
      <4> QED
        BY <2>1, <4>2 DEF vars, session
    <3> QED
      BY <3>2, <3>3
  <2>3. CASE attempt \notin Active
    BY <2>1, <2>3 DEF CloseConnection, vars, session
  <2> QED
    BY <2>2, <2>3
<1>6. CASE UNCHANGED clientVars
  BY <1>6 DEF clientVars
<1> QED
  BY <1>1, <1>2, <1>3, <1>4, <1>5, <1>6 DEF ClientNext, ClientStep

\* Sessions that are at work after a step of the server were so before it, and
\* none forgets what it was asked.
LEMMA ServerStepSessions ==
    ASSUME HarnessInv, ServerStep, NEW t \in Sessions
    PROVE  /\ pc'[t] = "idle" <=> pc[t] = "idle"
           /\ pc[t] = "done" => pc'[t] = "done"
           /\ action'[t] = action[t]
<1>1. CASE Tick \/ FrozenTick \/ Control
  BY <1>1 DEF Tick, FrozenTick, Control, PauseTicks, ResumeTicks, StepTicks,
              ClearImportedBlocks, session
<1>2. ASSUME NEW s \in Sessions, SessionStep(s), s # t
      PROVE  pc'[t] = pc[t] /\ action'[t] = action[t]
  BY <1>2, SessionStepIsLocal
<1>3. CASE SessionStep(t)
  <2>1. pc[t] \notin {"idle", "done"} /\ action' = action
    BY <1>3 DEF SessionStep, RejectFixture, Prepare, PasteSettled, ReadInputs,
                WriteProgress, WriteProgressFails, ApplyValidationVector,
                InstallServerTickObserver, AwaitCompletion, RestoreInputStates, Respond
  <2>2. pc'[t] # "idle"
    <3>1. CASE RejectFixture(t) \/ Prepare(t) \/ PasteSettled(t) \/ ReadInputs(t)
      BY <3>1 DEF RejectFixture, Prepare, PasteSettled, ReadInputs, Go, HarnessInv, TypeOK
    <3>2. CASE WriteProgress(t) \/ WriteProgressFails(t) \/ InstallServerTickObserver(t)
      BY <3>2 DEF WriteProgress, WriteProgressFails, InstallServerTickObserver, Leave,
                  Go, HarnessInv, TypeOK
    <3>3. CASE AwaitCompletion(t)
      BY <3>3 DEF AwaitCompletion, Leave, Go, HarnessInv, TypeOK
    <3>4. CASE ApplyValidationVector(t) \/ RestoreInputStates(t) \/ Respond(t)
      BY <3>4 DEF ApplyValidationVector, RestoreInputStates, Respond, Go, HarnessInv, TypeOK
    <3> QED
      BY <1>3, <3>1, <3>2, <3>3, <3>4 DEF SessionStep
  <2> QED
    BY <2>1, <2>2
<1> QED
  BY <1>1, <1>2, <1>3 DEF ServerStep

LEMMA NextClientInv ==
    ASSUME HarnessInv, ClientInv, [ClientNext]_clientVars
    PROVE  ClientInv'
<1> USE HarnessAssumption
<1>1. CASE ServerStep
  <2>1. UNCHANGED <<asked, client, attempt, result, alone, original>>
    BY <1>1 DEF ServerStep, request
  <2>2. \A t \in Sessions : /\ pc'[t] = "idle" <=> pc[t] = "idle"
                            /\ pc[t] = "done" => pc'[t] = "done"
                            /\ action'[t] = action[t]
    BY <1>1, ServerStepSessions
  <2>3. alone => Lone'
    BY <2>2 DEF ClientInv, Lone, Busy
  <2> QED
    BY <2>1, <2>2, <2>3 DEF ClientInv, ClientTypeOK
<1>2. CASE ClearCanonicalSimulationWorld \/ FailBeforeSending \/ GetRunningControl
           \/ StartupExpires
  <2>1. UNCHANGED <<pc, action, asked, alone, original>>
    BY <1>2 DEF ClearCanonicalSimulationWorld, FailBeforeSending, GetRunningControl,
                StartupExpires, ClearImportedBlocks, vars, session
  <2>2. /\ client' \in {"probing", "connecting", "finished"}
        /\ attempt' = Nothing
        /\ result' \in {result, "infrastructure-failure"}
    BY <1>2 DEF ClearCanonicalSimulationWorld, FailBeforeSending, GetRunningControl,
                StartupExpires, Finish, ClientInv
  <2>3. alone => Lone'
    BY <2>1 DEF ClientInv, Lone, Busy
  <2> QED
    BY <2>1, <2>2, <2>3 DEF ClientInv, ClientTypeOK, Verdicts
<1>3. ASSUME NEW s \in Sessions, Send(s) PROVE ClientInv'
  <2>1. /\ client' = "awaiting" /\ attempt' = s
        /\ alone' = (alone /\ Active = {})
        /\ UNCHANGED <<asked, result, original>>
        /\ pc' = [pc EXCEPT ![s] = "prepare"]
        /\ action' = [action EXCEPT ![s] = asked]
    BY <1>3 DEF Send, Submit, Go
  <2>2. ClientTypeOK'
    BY <2>1 DEF ClientInv, ClientTypeOK
  <2>3. /\ pc'[s] = "prepare" /\ action'[s] = asked
        /\ \A t \in Sessions : t # s => pc'[t] = pc[t] /\ action'[t] = action[t]
    BY <2>1 DEF HarnessInv, TypeOK
  <2>4. alone' => Lone'
    BY <2>1, <2>3 DEF Active, Lone, Busy
  <2> QED
    BY <2>1, <2>2, <2>3, <2>4 DEF ClientInv
<1>4. CASE ReadAnswer \/ GiveUp \/ BreakConnection
  <2>1. UNCHANGED <<pc, action, asked, alone, original>>
    BY <1>4 DEF ReadAnswer, GiveUp, BreakConnection, vars, session
  <2>2. /\ client' \in {"connecting", "finished"}
        /\ attempt' = Nothing
        /\ result' \in Verdicts \cup {Nothing}
    <3>1. CASE ReadAnswer
      <4>1. attempt \in Sessions /\ verdict[attempt] \in Verdicts \cup {Nothing}
        BY <3>1 DEF ReadAnswer, ClientInv, ClientTypeOK, HarnessInv, TypeOK
      <4> QED
        BY <3>1, <4>1 DEF ReadAnswer, Finish, Verdicts
    <3>2. CASE GiveUp \/ BreakConnection
      BY <3>2 DEF GiveUp, BreakConnection, Finish, ClientInv, ClientTypeOK, Verdicts
    <3> QED
      BY <1>4, <3>1, <3>2
  <2>3. alone => Lone'
    BY <2>1 DEF ClientInv, Lone, Busy
  <2> QED
    BY <2>1, <2>2, <2>3 DEF ClientInv, ClientTypeOK
<1>5. CASE UNCHANGED clientVars
  BY <1>5 DEF clientVars, vars, session, request, ClientInv, ClientTypeOK, Lone, Busy
<1> QED
  BY <1>1, <1>2, <1>3, <1>4, <1>5 DEF ClientNext, ClientStep

\* While no two sessions have overlapped, the arena and the judgements are as a
\* lone session finds them.
AloneInv == alone => ArenaInv /\ JudgeInv

LEMMA AloneStays ==
    ASSUME ClientInv, [ClientNext]_clientVars, alone'
    PROVE  alone
BY DEF ClientNext, ClientStep, ServerStep, clientVars, request, Send, ReadAnswer,
       ClearCanonicalSimulationWorld, FailBeforeSending, GetRunningControl,
       StartupExpires, GiveUp, BreakConnection

LEMMA NextAloneInv ==
    ASSUME NamesTheCircuit
    PROVE  HarnessInv /\ IInv /\ ClientInv /\ AloneInv /\ [ClientNext]_clientVars
             => AloneInv'
<1> SUFFICES ASSUME HarnessInv, IInv, ClientInv, AloneInv, [ClientNext]_clientVars,
                    alone'
             PROVE  ArenaInv' /\ JudgeInv'
  BY DEF AloneInv
<1>1. alone /\ Lone /\ ArenaInv /\ JudgeInv
  BY AloneStays DEF ClientInv, AloneInv
<1>2. [Next]_vars
  BY ClientStepIsHarnessStep
<1> QED
  BY <1>1, <1>2, NextArenaInv, NextJudgeInv

LEMMA ClientInvariants ==
    ClientSpec => Spec /\ [](HarnessInv /\ IInv /\ ClientInv)
<1>1. ClientInit => Init
  BY DEF ClientInit
<1>2. HarnessInv /\ ClientInv /\ [ClientNext]_clientVars => [Next]_vars /\ ClientInv'
  BY ClientStepIsHarnessStep, NextClientInv
<1>3. ClientSpec <=> ClientInit /\ [][ClientNext]_clientVars
  BY DEF ClientSpec, clientVars
<1> QED
  BY <1>1, <1>2, <1>3, InitClientInv, InitHarnessInv, InitIInv, NextHarnessInv,
     NextIInv, PTL DEF Spec

\* Whatever the client does, retries included, is what some clients of the
\* harness may do: all that is proved of the harness holds with this client.
THEOREM ClientDrivesHarness == ClientSpec => Spec
BY ClientInvariants, PTL

-----------------------------------------------------------------------------
(* The report.                                                             *)

\* The retries of a request name the fixture of the request.
OneRequest == \A s, t \in Sessions : FixtureOf[s] = FixtureOf[t]

LEMMA InitReport == ClientInit => ReportIsTrue
BY InitClientInv DEF ReportIsTrue, ClientInv, ClientInit

\* What is read from a session that had the arena to itself is true of the
\* fixture it named.
LEMMA ReadAnswerReport ==
    ASSUME OneRequest, HarnessInv, ClientInv, AloneInv, alone, ReadAnswer
    PROVE  ReportIsTrue'
<1> USE HarnessAssumption
<1>1. /\ attempt \in Sessions /\ pc[attempt] = "done"
      /\ UNCHANGED <<circuit, alone>>
      /\ result' \in {verdict[attempt], "infrastructure-failure"}
  BY DEF ReadAnswer, Finish, ClientInv, ClientTypeOK, vars, world
<1>2. Judge(attempt) /\ VerdictIsTrue(attempt)
  BY <1>1 DEF AloneInv, JudgeInv, Judge
<1>3. tested[attempt] \in 0 .. Len(Vectors) /\ Len(Vectors) \in Nat
  BY <1>1 DEF HarnessInv, TypeOK
<1>4. result' = "passed" => \A i \in 1 .. Len(Vectors) : Shows(attempt, i) = Wanted(i)
  BY <1>1, <1>2 DEF Judge, VerdictIsTrue
<1>5. result' = "mismatch" =>
        \E i \in 1 .. Len(Vectors) : Shows(attempt, i) \notin {Wanted(i), Oscillates}
  BY <1>1, <1>2, <1>3 DEF VerdictIsTrue
<1>6. result' = "timeout" =>
        \E i \in 1 .. Len(Vectors) : Shows(attempt, i) = Oscillates
  BY <1>1, <1>2, <1>3 DEF VerdictIsTrue
<1>7. \A s \in Sessions : FixtureOf[s] = FixtureOf[attempt]
  BY <1>1 DEF OneRequest
<1>8. ClientTypeOK'
  BY NextClientInv DEF ClientNext, ClientStep, ClientInv
<1> QED
  BY <1>1, <1>4, <1>5, <1>6, <1>7, <1>8 DEF ReportIsTrue, Shows, Wanted

LEMMA NextReport ==
    ASSUME OneRequest
    PROVE  HarnessInv /\ IInv /\ ClientInv /\ AloneInv /\ ReportIsTrue
             /\ [ClientNext]_clientVars => ReportIsTrue'
<1> SUFFICES ASSUME HarnessInv, IInv, ClientInv, AloneInv, ReportIsTrue,
                    [ClientNext]_clientVars
             PROVE  ReportIsTrue'
  OBVIOUS
<1> USE HarnessAssumption
<1>1. ClientTypeOK'
  BY NextClientInv DEF ClientInv
<1>2. alone' => alone
  BY AloneStays
<1>3. CASE ReadAnswer
  <2>1. CASE alone
    BY <1>3, <2>1, ReadAnswerReport
  <2>2. CASE ~alone
    BY <1>1, <1>2, <2>2 DEF ReportIsTrue
  <2> QED
    BY <2>1, <2>2
<1>4. CASE FailBeforeSending \/ StartupExpires \/ GiveUp
  <2>1. result' = "infrastructure-failure"
    BY <1>4 DEF FailBeforeSending, StartupExpires, GiveUp, Finish
  <2> QED
    BY <1>1, <2>1 DEF ReportIsTrue
<1>5. CASE \/ ClearCanonicalSimulationWorld \/ GetRunningControl \/ BreakConnection
           \/ \E s \in Sessions : Send(s)
  <2>1. client' # "finished"
    BY <1>5 DEF ClearCanonicalSimulationWorld, GetRunningControl, BreakConnection, Send
  <2> QED
    BY <1>1, <2>1 DEF ReportIsTrue
<1>6. CASE ServerStep \/ UNCHANGED clientVars
  <2>1. UNCHANGED <<client, alone, result>>
    BY <1>6 DEF ServerStep, clientVars, request
  <2>2. circuit' = circuit
    <3>1. CASE Tick \/ FrozenTick \/ Control \/ UNCHANGED clientVars
      BY <3>1 DEF Tick, FrozenTick, Control, PauseTicks, ResumeTicks, StepTicks,
                  ClearImportedBlocks, clientVars, vars, world
    <3>2. ASSUME NEW s \in Sessions, SessionStep(s) PROVE circuit' = circuit
      BY <3>2 DEF SessionStep, RejectFixture, Prepare, PasteSettled, ReadInputs,
                  WriteProgress, WriteProgressFails, ApplyValidationVector,
                  InstallServerTickObserver, AwaitCompletion, RestoreInputStates,
                  Respond, world
    <3> QED
      BY <1>6, <3>1, <3>2 DEF ServerStep
  <2> QED
    BY <1>1, <2>1, <2>2 DEF ReportIsTrue
<1> QED
  BY <1>3, <1>4, <1>5, <1>6 DEF ClientNext, ClientStep

\* The client reports about the circuit only what is so: over connections lost
\* and requests sent again, with ticks paused and blocks cleared meanwhile, as
\* long as no two of its sessions overlap in the server.
THEOREM ReportIsTrueOfTheCircuit ==
    ASSUME NamesTheCircuit, OneRequest
    PROVE  ClientSpec => []ReportIsTrue
<1>1. ClientInit => AloneInv /\ ReportIsTrue
  BY InitArenaInv, InitJudgeInv, InitReport DEF ClientInit, AloneInv
<1>2. HarnessInv /\ IInv /\ ClientInv /\ AloneInv /\ [ClientNext]_clientVars
        => AloneInv'
  BY NextAloneInv
<1>3. HarnessInv /\ IInv /\ ClientInv /\ AloneInv /\ ReportIsTrue
        /\ [ClientNext]_clientVars => ReportIsTrue'
  BY NextReport
<1>4. ClientSpec <=> ClientInit /\ [][ClientNext]_clientVars
  BY DEF ClientSpec, clientVars
<1> QED
  BY <1>1, <1>2, <1>3, <1>4, ClientInvariants, PTL

-----------------------------------------------------------------------------
(* The inputs of a validation that was sent again.                         *)

\* The levers are as they were found, or the session at work knows how they
\* were and has yet to give them back.
FoundInv ==
    asked = "ValidateExisting" /\ alone /\ placed # Nothing =>
      /\ Active = {} => levers = original
      /\ \A s \in Sessions :
           /\ pc[s] \in {"prepare", "pasted", "readInputs"} => levers = original
           /\ Busy(s) /\ saved[s] # Nothing => saved[s] = original

\* An existing-world session on its way out gives the levers back.
LEMMA SessionStepFound ==
    ASSUME HarnessInv, ClientInv, Lone, ArenaInv, FoundInv, UNCHANGED request,
           asked = "ValidateExisting", alone, placed' # Nothing,
           NEW s \in Sessions, SessionStep(s)
    PROVE  FoundInv'
<1> USE HarnessAssumption
<1>0. Busy(s)
  BY DEF SessionStep, Busy, RejectFixture, Prepare, PasteSettled, ReadInputs,
         WriteProgress, WriteProgressFails, ApplyValidationVector,
         InstallServerTickObserver, AwaitCompletion, RestoreInputStates, Respond
<1>1. /\ action[s] = "ValidateExisting"
      /\ UNCHANGED <<asked, alone, original>>
      /\ Progress(s) /\ Arena(s)
  BY <1>0 DEF ClientInv, Busy, HarnessInv, ArenaInv, request
<1>2. placed' = placed
  BY <1>1 DEF SessionStep, RejectFixture, Prepare, PasteSettled, ReadInputs,
         WriteProgress, WriteProgressFails, ApplyValidationVector,
         InstallServerTickObserver, AwaitCompletion, RestoreInputStates, Respond, world
<1>3. /\ pc[s] \in {"prepare", "pasted", "readInputs"} => levers = original
      /\ saved[s] # Nothing => saved[s] = original
  BY <1>0, <1>1, <1>2 DEF FoundInv
<1>4. /\ pc'[s] \in {"prepare", "pasted", "readInputs", "idle", "done"} =>
           levers' = original
      /\ saved'[s] # Nothing => saved'[s] = original
  <2>1. CASE RejectFixture(s) \/ Prepare(s)
    BY <1>1, <1>3, <2>1 DEF RejectFixture, Prepare, Go, HarnessInv, TypeOK, world
  <2>2. CASE PasteSettled(s)
    BY <1>1, <1>3, <2>2 DEF PasteSettled, Go, HarnessInv, TypeOK, world
  <2>3. CASE ReadInputs(s)
    BY <1>1, <1>3, <2>3 DEF ReadInputs, Go, HarnessInv, TypeOK, world
  <2>4. CASE WriteProgress(s) \/ WriteProgressFails(s)
    BY <1>1, <1>3, <2>4 DEF WriteProgress, WriteProgressFails, Leave, Go, HarnessInv,
                            TypeOK, world
  <2>5. CASE InstallServerTickObserver(s)
    <3>1. saved' = saved /\ pc'[s] \in {"observing", "unwind"}
      BY <1>1, <2>5 DEF InstallServerTickObserver, Leave, Go, HarnessInv, TypeOK
    <3> QED
      BY <1>3, <3>1
  <2>6. CASE AwaitCompletion(s)
    <3>1. saved' = saved /\ pc'[s] \in {"progress", "unwind"}
      BY <1>1, <2>6 DEF AwaitCompletion, Leave, Go, HarnessInv, TypeOK
    <3> QED
      BY <1>3, <3>1
  <2>7. CASE ApplyValidationVector(s) \/ RestoreInputStates(s)
    BY <1>3, <2>7 DEF ApplyValidationVector, RestoreInputStates, Go, HarnessInv, TypeOK
  <2>8. CASE Respond(s)
    <3>1. saved' = saved /\ levers' = levers /\ pc[s] = "restored"
      BY <2>8 DEF Respond, world
    <3>2. levers = saved[s] /\ saved[s] # Nothing
      BY <1>1, <1>2, <3>1 DEF Arena, Progress
    <3> QED
      BY <1>3, <3>1, <3>2
  <2> QED
    BY <2>1, <2>2, <2>3, <2>4, <2>5, <2>6, <2>7, <2>8 DEF SessionStep
<1>5. \A t \in Sessions \ {s} : pc[t] \in {"idle", "done"} /\ pc'[t] = pc[t]
  BY <1>0, OthersIdle, SessionStepIsLocal
<1>6. Active' = {} => levers' = original
  BY <1>4 DEF Active
<1> QED
  BY <1>1, <1>4, <1>5, <1>6 DEF FoundInv, Busy

LEMMA NextFound ==
    HarnessInv /\ IInv /\ ClientInv /\ (alone => ArenaInv) /\ FoundInv
      /\ [ClientNext]_clientVars => FoundInv'
<1> SUFFICES ASSUME HarnessInv, IInv, ClientInv, alone => ArenaInv, FoundInv,
                    [ClientNext]_clientVars,
                    asked' = "ValidateExisting", alone', placed' # Nothing
             PROVE  FoundInv'
  BY DEF FoundInv
<1>1. alone /\ Lone /\ ArenaInv
  BY AloneStays DEF ClientInv
<1>2. UNCHANGED <<asked, original>>
  BY DEF ClientNext, ClientStep, ServerStep, clientVars, request, Send, ReadAnswer,
         ClearCanonicalSimulationWorld, FailBeforeSending, GetRunningControl,
         StartupExpires, GiveUp, BreakConnection
<1>3. CASE UNCHANGED <<placed, levers, pc, saved>>
  BY <1>1, <1>2, <1>3 DEF FoundInv, Active, Busy
<1>4. CASE \/ ClearCanonicalSimulationWorld \/ FailBeforeSending \/ GetRunningControl
           \/ StartupExpires \/ ReadAnswer \/ GiveUp \/ BreakConnection
           \/ UNCHANGED clientVars
  <2>1. UNCHANGED <<placed, levers, pc, saved>> \/ ClearImportedBlocks
    BY <1>4 DEF ClearCanonicalSimulationWorld, FailBeforeSending, GetRunningControl,
                StartupExpires, ReadAnswer, GiveUp, BreakConnection, clientVars, vars,
                world, session
  <2> QED
    BY <1>3, <2>1 DEF ClearImportedBlocks
<1>5. ASSUME NEW s \in Sessions, Send(s) PROVE FoundInv'
  <2>1. /\ Active = {} /\ pc[s] = "idle"
        /\ UNCHANGED <<placed, levers, saved>>
        /\ pc' = [pc EXCEPT ![s] = "prepare"]
    BY <1>5 DEF Send, Submit, Go, world
  <2>2. levers = original /\ saved[s] = Nothing
    BY <1>1, <1>2, <2>1 DEF FoundInv, HarnessInv, Progress
  <2>3. \A t \in Sessions : Busy(t)' => t = s
    BY <2>1 DEF Active, Busy, HarnessInv, TypeOK
  <2> QED
    BY <1>2, <2>1, <2>2, <2>3 DEF FoundInv
<1>6. CASE ServerStep
  <2>1. CASE Tick \/ FrozenTick \/ Control
    <3>1. UNCHANGED <<placed, levers, pc, saved>> \/ ClearImportedBlocks
      BY <2>1 DEF Tick, FrozenTick, Control, PauseTicks, ResumeTicks, StepTicks,
                  world, session
    <3> QED
      BY <1>3, <3>1 DEF ClearImportedBlocks
  <2>2. ASSUME NEW s \in Sessions, SessionStep(s) PROVE FoundInv'
    <3>1. UNCHANGED request
      BY <1>6 DEF ServerStep
    <3> QED
      BY <1>1, <1>2, <2>2, <3>1, SessionStepFound
  <2> QED
    BY <1>6, <2>1, <2>2 DEF ServerStep
<1> QED
  BY <1>4, <1>5, <1>6 DEF ClientNext, ClientStep

LEMMA InitFound == ClientInit => FoundInv
BY HarnessAssumption DEF ClientInit, Init, FoundInv, Busy

\* However often a validation of the live world is sent again, once no session
\* is at work the levers are as they were found, unless sessions overlapped or
\* the circuit was cleared away.
THEOREM InputsAreAsFound == ClientSpec => []InputsAsFound
<1>1. ClientInit => (alone => ArenaInv) /\ FoundInv
  BY InitArenaInv, InitFound DEF ClientInit
<1>2. HarnessInv /\ IInv /\ ClientInv /\ (alone => ArenaInv) /\ [ClientNext]_clientVars
        => (alone' => ArenaInv')
  <2> SUFFICES ASSUME HarnessInv, IInv, ClientInv, alone => ArenaInv,
                      [ClientNext]_clientVars, alone'
               PROVE  ArenaInv'
    OBVIOUS
  <2>1. alone /\ Lone /\ ArenaInv
    BY AloneStays DEF ClientInv
  <2> QED
    BY <2>1, ClientStepIsHarnessStep, NextArenaInv
<1>3. FoundInv => InputsAsFound
  BY DEF FoundInv, InputsAsFound
<1>4. ClientSpec <=> ClientInit /\ [][ClientNext]_clientVars
  BY DEF ClientSpec, clientVars
<1> QED
  BY <1>1, <1>2, <1>3, <1>4, NextFound, ClientInvariants, PTL
=============================================================================
