---------------------------- MODULE FabricHarness ----------------------------
(***************************************************************************)
(* The in-server validation harness: HarnessValidation.validate and the    *)
(* tick observer, as run by one virtual thread per control connection (a   *)
(* session) against the single Minecraft server thread.                    *)
(*                                                                         *)
(* A session hands closures to the server thread (OnServer) and blocks on  *)
(* each, so a closure is one atomic action; ticks and the closures of      *)
(* other sessions run between any two of them.  Game time is kept          *)
(* relative: a session waiting for n ticks holds a countdown, and an       *)
(* observer counts the ticks since it was installed.                       *)
(*                                                                         *)
(* The circuit under test is the server's own physics, external to the     *)
(* repository.  It is a delay line: after its levers change it takes up to *)
(* MaxDelay ticks to show the new setting, its probes visibly changing at  *)
(* least every VisibleStride ticks until then; some settings never settle. *)
(***************************************************************************)
EXTENDS QuiescenceTracker, Sequences, FiniteSets

CONSTANTS Sessions,       \* control connections
          Actions,        \* what a session may request
          Controls,       \* other requests that may interleave
          Fixtures,       \* compiled circuits
          FixtureOf,      \* the fixture each session names
          Settings,       \* settings of the input levers
          Outputs,        \* readings of the output lamps
          Expected,       \* what the logic says the lamps read
          Vectors,        \* the settings to test, in order
          Neutral,        \* the setting a fixture is pasted with
          MaxDelay,       \* the slowest settling setting, in ticks
          VisibleStride,  \* longest stretch of unsettled ticks that looks still
          MaxSteps        \* bound: frozen ticks one StepTicks request runs

\* Values that are not fixtures, settings, outputs or sessions.
CONSTANTS Nothing, Oscillates

ASSUME HarnessAssumption ==
    /\ Actions \subseteq {"Validate", "ValidateExisting", "LoadFixture"}
    /\ Controls \subseteq {"PauseTicks", "ResumeTicks", "StepTicks",
                           "ClearImportedBlocks"}
    /\ FixtureOf \in [Sessions -> Fixtures]
    /\ Expected \in [Settings -> Outputs]
    /\ Vectors \in Seq(Settings)
    /\ Neutral \in Settings
    /\ Nothing \notin Fixtures \cup Settings \cup Outputs \cup Sessions
    /\ Oscillates \notin Outputs
    /\ MaxSteps \in Nat

\* The circuits a quiet window can judge: they settle early enough, and look
\* still for less than a window while they have not settled.
ASSUME PhysicalAssumption ==
    /\ MaxDelay \in Nat \ {0}
    /\ VisibleStride \in Nat \ {0}
    /\ VisibleStride <= RequiredUnchangedTicks
    /\ MaxDelay + RequiredUnchangedTicks <= TimeoutTicks

VARIABLES
    \* the world, owned by the server thread
    frozen,      \* tick freeze
    steps,       \* frozen ticks still to run (tick step)
    placed,      \* the fixture whose blocks are in the arena, or Nothing
    levers,      \* the setting of the arena's levers, or Nothing
    network,     \* what the redstone shows and how far it is from settling
    circuit,     \* external: what each fixture settles to, fixed for good
    \* the harness
    slot,        \* TickObserver: the session whose observer is installed
    observer,    \* each session's TickFixtureObserver
    \* the sessions
    pc, action, wait, tested, saved, connected, verdict

world   == <<frozen, steps, placed, levers, network, circuit>>
session == <<pc, action, wait, tested, saved, connected, verdict>>
vars    == <<world, slot, observer, session>>

Verdicts == {"passed", "mismatch", "timeout", "loaded", "infrastructure-failure"}

Locations == {"idle", "prepare", "pasted", "readInputs", "progress", "apply",
              "applied", "observing", "unwind", "restored", "done"}

Traces ==
    {Nothing} \cup
      ((Fixtures \cup {Nothing}) \X (Settings \cup {Nothing})
         \X (Settings \cup {Nothing}) \X (0 .. MaxDelay))

TypeOK ==
    /\ frozen \in BOOLEAN
    /\ steps \in 0 .. MaxSteps
    /\ placed \in Fixtures \cup {Nothing}
    /\ levers \in Settings \cup {Nothing}
    /\ network \in [shows : Settings \cup {Nothing}, stage : 0 .. MaxDelay]
    /\ circuit \in [Fixtures -> [Settings -> Outputs \cup {Oscillates}]]
    /\ slot \in Sessions \cup {Nothing}
    /\ observer \in [Sessions ->
                      [state   : {"none", "running", "settled", "timedOut", "failed"},
                       sample  : Outputs \cup {Nothing},
                       tracker : TrackerOf(0 .. TimeoutTicks, Traces)]]
    /\ pc \in [Sessions -> Locations]
    /\ action \in [Sessions -> Actions \cup {Nothing}]
    /\ wait \in [Sessions -> 0 .. 2]
    /\ tested \in [Sessions -> 0 .. Len(Vectors)]
    /\ saved \in [Sessions -> Settings \cup {Nothing}]
    /\ connected \in [Sessions -> BOOLEAN]
    /\ verdict \in [Sessions -> Verdicts \cup {Nothing}]

-----------------------------------------------------------------------------
(* The circuit under test.                                                 *)

NeverSettles == placed # Nothing /\ levers # Nothing
                  /\ circuit[placed][levers] = Oscillates

\* What the trace probes read: levers, dust and lamps of the arena.
Trace == <<placed, levers, network.shows,
           (network.stage + VisibleStride - 1) \div VisibleStride>>

\* The lamps, read on the server thread.  Unsettled lamps can read anything.
LampReadings ==
    IF /\ network.stage = 0 /\ network.shows # Nothing
       /\ circuit[placed][network.shows] # Oscillates
      THEN {circuit[placed][network.shows]}
      ELSE Outputs

\* Setting levers to what they already are disturbs nothing, and a lever set
\* where the circuit has been cleared away pops off.
SetLevers(setting) ==
    IF setting = levers \/ placed = Nothing
      THEN UNCHANGED <<levers, network>>
      ELSE /\ levers' = setting
           /\ \E delay \in 1 .. MaxDelay :
                network' = [network EXCEPT !.stage = delay]

Settle == network' =
    IF placed = Nothing THEN network
    ELSE CASE network.stage = 1 -> [shows |-> levers, stage |-> 0]
           [] network.stage > 1 -> [network EXCEPT !.stage = @ - 1]
           [] OTHER             -> IF NeverSettles THEN [network EXCEPT !.stage = MaxDelay]
                                                   ELSE network

NoObserver == [state |-> "none", sample |-> Nothing,
               tracker |-> NewTracker(0, Nothing)]

Init ==
    /\ frozen = FALSE
    /\ steps = 0
    /\ circuit \in [Fixtures -> [Settings -> Outputs \cup {Oscillates}]]
    /\ \/ placed = Nothing /\ levers = Nothing
       \/ placed \in Fixtures /\ levers \in Settings
    /\ network = [shows |-> levers, stage |-> 0]
    /\ slot = Nothing
    /\ observer = [s \in Sessions |-> NoObserver]
    /\ pc = [s \in Sessions |-> "idle"]
    /\ action = [s \in Sessions |-> Nothing]
    /\ wait = [s \in Sessions |-> 0]
    /\ tested = [s \in Sessions |-> 0]
    /\ saved = [s \in Sessions |-> Nothing]
    /\ connected = [s \in Sessions |-> TRUE]
    /\ verdict = [s \in Sessions |-> Nothing]

-----------------------------------------------------------------------------
(* The server thread: ticks.                                               *)

\* Reading a lamp that has been cleared away throws, and the observer fails.
ObserverFails(s) ==
    observer' = [observer EXCEPT ![s] =
                   [state |-> "failed", sample |-> Nothing, tracker |-> @.tracker]]

\* OnServerTick of the installed observer, with the trace after the tick.
ObserveTick(s) ==
    LET seenAt == observer[s].tracker.PreviousGameTime + 1
        after  == Observed(observer[s].tracker, seenAt, Trace')
    IN  IF placed' = Nothing
          THEN ObserverFails(s)
          ELSE \E lamps \in LampReadings' :
                 observer' = [observer EXCEPT ![s] =
                   [tracker |-> after,
                    sample  |-> IF after.Settled THEN lamps ELSE Nothing,
                    state   |-> IF after.Settled THEN "settled"
                                ELSE IF TimedOut(after) THEN "timedOut"
                                ELSE "running"]]

\* Mutant: the last tick before the deadline is not looked at.
ObserverStopsEarly ==
    IF /\ slot # Nothing /\ observer[slot].state = "running"
       /\ ElapsedTicks(observer[slot].tracker) < TimeoutTicks - 1
      THEN ObserveTick(slot)
      ELSE UNCHANGED observer

\* A finished observer no longer looks.
ObserverCallback ==
    IF slot # Nothing /\ observer[slot].state = "running"
      THEN ObserveTick(slot)
      ELSE UNCHANGED observer

Tick ==
    /\ ~frozen \/ steps > 0
    /\ steps' = IF frozen THEN steps - 1 ELSE steps
    /\ Settle
    /\ wait' = [s \in Sessions |-> IF wait[s] > 0 THEN wait[s] - 1 ELSE 0]
    /\ UNCHANGED <<frozen, placed, levers, circuit, slot, pc, action, tested,
                   saved, connected, verdict>>
    /\ ObserverCallback

\* A frozen server calls the observer too.  The game time has not moved, so
\* the observer looks at the lamps and leaves the tracker alone.
FrozenTick ==
    /\ frozen /\ steps = 0
    /\ slot # Nothing
    /\ observer[slot].state = "running"
    /\ placed = Nothing
    /\ ObserverFails(slot)
    /\ UNCHANGED <<world, slot, session>>

-----------------------------------------------------------------------------
(* The server thread: one-closure requests of other connections.           *)

PauseTicks ==
    /\ "PauseTicks" \in Controls
    /\ frozen' = TRUE
    /\ UNCHANGED <<steps, placed, levers, network, circuit, slot, observer, session>>

ResumeTicks ==
    /\ "ResumeTicks" \in Controls
    /\ frozen' = FALSE
    /\ steps' = 0
    /\ UNCHANGED <<placed, levers, network, circuit, slot, observer, session>>

StepTicks ==
    /\ "StepTicks" \in Controls
    /\ frozen
    /\ steps' \in 1 .. MaxSteps
    /\ UNCHANGED <<frozen, placed, levers, network, circuit, slot, observer, session>>

ClearImportedBlocks ==
    /\ "ClearImportedBlocks" \in Controls
    /\ placed' = Nothing
    /\ levers' = Nothing
    /\ network' = [shows |-> Nothing, stage |-> 0]
    /\ UNCHANGED <<frozen, steps, circuit, slot, observer, session>>

-----------------------------------------------------------------------------
(* A session.                                                              *)

Go(s, location) == pc' = [pc EXCEPT ![s] = location]

\* Mutant: only a verdict gives the inputs back, an exception does not.
LeaveWithoutFinally(s, result) ==
    /\ verdict' = [verdict EXCEPT ![s] = result]
    /\ Go(s, IF action[s] = "ValidateExisting" /\ result # "infrastructure-failure"
               THEN "unwind" ELSE "done")

\* How a session leaves validateVectors, by return or by exception: an
\* existing circuit gets its input levers back first (the finally block).
Leave(s, result) ==
    /\ verdict' = [verdict EXCEPT ![s] = result]
    /\ Go(s, IF action[s] = "ValidateExisting" THEN "unwind" ELSE "done")

Submit(s, request) ==
    /\ pc[s] = "idle"
    /\ action' = [action EXCEPT ![s] = request]
    /\ Go(s, "prepare")
    /\ UNCHANGED <<world, slot, observer, wait, tested, saved, connected, verdict>>

\* A digest mismatch or an arena over too many chunks: nothing was touched.
RejectFixture(s) ==
    /\ pc[s] = "prepare"
    /\ verdict' = [verdict EXCEPT ![s] = "infrastructure-failure"]
    /\ Go(s, "done")
    /\ UNCHANGED <<world, slot, observer, action, wait, tested, saved, connected>>

\* One closure clears the arena, places the fixture and forces updates.
Prepare(s) ==
    /\ pc[s] = "prepare"
    /\ IF action[s] = "ValidateExisting"
         THEN UNCHANGED <<placed, levers, network>>
         ELSE /\ placed' = FixtureOf[s]
              /\ levers' = Neutral
              /\ \E delay \in 1 .. MaxDelay :
                   network' = [shows |-> Nothing, stage |-> delay]
    /\ wait' = [wait EXCEPT ![s] = 2]
    /\ Go(s, "pasted")
    /\ UNCHANGED <<frozen, steps, circuit, slot, observer, action, tested,
                   saved, connected, verdict>>

\* After two ticks, a plain load is finished; a pasted fixture's levers are
\* known, an existing circuit's levers must be read from the world.
PasteSettled(s) ==
    /\ pc[s] = "pasted"
    /\ wait[s] = 0
    /\ \/ /\ action[s] = "LoadFixture"
          /\ verdict' = [verdict EXCEPT ![s] = "loaded"]
          /\ Go(s, "done")
          /\ UNCHANGED saved
       \/ /\ action[s] = "Validate"
          /\ saved' = [saved EXCEPT ![s] = Neutral]
          /\ Go(s, "progress")
          /\ UNCHANGED verdict
       \/ /\ action[s] = "ValidateExisting"
          /\ Go(s, "readInputs")
          /\ UNCHANGED <<saved, verdict>>
    /\ UNCHANGED <<world, slot, observer, action, wait, tested, connected>>

\* inputStatesFromWorld throws when an input is no longer a lever.
ReadInputs(s) ==
    /\ pc[s] = "readInputs"
    /\ IF levers = Nothing
         THEN /\ verdict' = [verdict EXCEPT ![s] = "infrastructure-failure"]
              /\ Go(s, "done")
              /\ UNCHANGED saved
         ELSE /\ saved' = [saved EXCEPT ![s] = levers]
              /\ Go(s, "progress")
              /\ UNCHANGED verdict
    /\ UNCHANGED <<world, slot, observer, action, wait, tested, connected>>

\* The client closes its end: it timed out, crashed or was interrupted.
Disconnect(s) ==
    /\ pc[s] \notin {"idle", "done"}
    /\ connected[s]
    /\ connected' = [connected EXCEPT ![s] = FALSE]
    /\ UNCHANGED <<world, slot, observer, pc, action, wait, tested, saved, verdict>>

\* A progress line goes out before the first vector and after each one.
WriteProgress(s) ==
    /\ pc[s] = "progress"
    /\ IF tested[s] = Len(Vectors)
         THEN Leave(s, "passed")
         ELSE Go(s, "apply") /\ UNCHANGED verdict
    /\ UNCHANGED <<world, slot, observer, action, wait, tested, saved, connected>>

\* Writing to a closed connection may fail now or only at a later write.
WriteProgressFails(s) ==
    /\ pc[s] = "progress"
    /\ ~connected[s]
    /\ Leave(s, "infrastructure-failure")
    /\ UNCHANGED <<world, slot, observer, action, wait, tested, saved, connected>>

\* Mutant: from the second vector on, the previous one is applied again.
ApplyPreviousVector(s) ==
    /\ pc[s] = "apply"
    /\ SetLevers(Vectors[IF tested[s] = 0 THEN 1 ELSE tested[s]])
    /\ wait' = [wait EXCEPT ![s] = 1]
    /\ Go(s, "applied")
    /\ UNCHANGED <<frozen, steps, placed, circuit, slot, observer, action,
                   tested, saved, connected, verdict>>

ApplyValidationVector(s) ==
    /\ pc[s] = "apply"
    /\ SetLevers(Vectors[tested[s] + 1])
    /\ wait' = [wait EXCEPT ![s] = 1]
    /\ Go(s, "applied")
    /\ UNCHANGED <<frozen, steps, placed, circuit, slot, observer, action,
                   tested, saved, connected, verdict>>

\* Mutant: a plain set instead of compareAndSet.
InstallOverwrites == placed # Nothing

\* The slot's compareAndSet fails when another session's observer is in it;
\* the constructor's snapshot throws when the lamps are gone.
InstallSucceeds == slot = Nothing /\ placed # Nothing

\* The closure that builds the observer and installs it, after one tick.
InstallServerTickObserver(s) ==
    /\ pc[s] = "applied"
    /\ wait[s] = 0
    /\ IF InstallSucceeds
         THEN /\ slot' = s
              /\ observer' = [observer EXCEPT ![s] =
                                [state |-> "running", sample |-> Nothing,
                                 tracker |-> NewTracker(0, Trace)]]
              /\ Go(s, "observing")
              /\ UNCHANGED verdict
         ELSE /\ Leave(s, "infrastructure-failure")
              /\ UNCHANGED <<slot, observer>>
    /\ UNCHANGED <<world, action, wait, tested, saved, connected>>

\* RemoveServerTickObserver: compareAndSet from this session's observer.
RemoveObserver(s) == slot' = IF slot = s THEN Nothing ELSE slot

\* The latch opens: release the slot, then judge what the observer captured.
AwaitCompletion(s) ==
    /\ pc[s] = "observing"
    /\ observer[s].state # "running"
    /\ RemoveObserver(s)
    /\ \/ /\ observer[s].state = "settled"
          /\ observer[s].sample = Expected[Vectors[tested[s] + 1]]
          /\ tested' = [tested EXCEPT ![s] = @ + 1]
          /\ Go(s, "progress")
          /\ UNCHANGED verdict
       \/ /\ observer[s].state = "settled"
          /\ observer[s].sample # Expected[Vectors[tested[s] + 1]]
          /\ Leave(s, "mismatch")
          /\ UNCHANGED tested
       \/ /\ observer[s].state = "timedOut"
          /\ Leave(s, "timeout")
          /\ UNCHANGED tested
       \/ /\ observer[s].state = "failed"
          /\ Leave(s, "infrastructure-failure")
          /\ UNCHANGED tested
    /\ observer' = [observer EXCEPT ![s] = NoObserver]
    /\ UNCHANGED <<world, action, wait, saved, connected>>

\* The finally block of an existing-world validation.
RestoreInputStates(s) ==
    /\ pc[s] = "unwind"
    /\ SetLevers(saved[s])
    /\ wait' = [wait EXCEPT ![s] = 2]
    /\ Go(s, "restored")
    /\ UNCHANGED <<frozen, steps, placed, circuit, slot, observer, action,
                   tested, saved, connected, verdict>>

Respond(s) ==
    /\ pc[s] = "restored"
    /\ wait[s] = 0
    /\ Go(s, "done")
    /\ UNCHANGED <<world, slot, observer, action, wait, tested, saved, connected,
                   verdict>>

\* Every step of a session that the harness itself takes.
SessionStep(s) ==
    \/ RejectFixture(s)
    \/ Prepare(s)
    \/ PasteSettled(s)
    \/ ReadInputs(s)
    \/ WriteProgress(s)
    \/ WriteProgressFails(s)
    \/ ApplyValidationVector(s)
    \/ InstallServerTickObserver(s)
    \/ AwaitCompletion(s)
    \/ RestoreInputStates(s)
    \/ Respond(s)

Control == PauseTicks \/ ResumeTicks \/ StepTicks \/ ClearImportedBlocks

Next ==
    \/ Tick
    \/ FrozenTick
    \/ Control
    \/ \E s \in Sessions :
         \/ \E request \in Actions : Submit(s, request)
         \/ Disconnect(s)
         \/ SessionStep(s)

Spec == Init /\ [][Next]_vars

\* The server loop keeps ticking and draining its task queue, and the threads
\* of sessions are scheduled; no client has to submit or to leave.
Fairness ==
    /\ WF_vars(Tick)
    /\ \A s \in Sessions : WF_vars(SessionStep(s))

FairSpec == Spec /\ Fairness

-----------------------------------------------------------------------------
(* Properties.                                                             *)

\* A vector counts as tested only while the levers hold that very vector and
\* the circuit has settled: the compared lamps were sampled under it, unless
\* the circuit has been cleared away since.  (The type invariant is part.)
ComparedUnderItsVector ==
    /\ TypeOK
    /\ \A s \in Sessions :
         observer[s].state = "settled" /\ placed # Nothing =>
           /\ levers = Vectors[tested[s] + 1]
           /\ network = [shows |-> levers, stage |-> 0]

\* The observer slot belongs to the session that waits on it, from installing
\* to judging: a session refused the slot never frees its owner's observer.
ObserverSlotIsOwned ==
    /\ \A s \in Sessions : pc[s] = "observing" <=> slot = s
    /\ slot # Nothing => observer[slot].state # "none"

\* An existing-world validation gives the input levers back on every way out:
\* pass, mismatch, timeout, failure, or a client that went away; only a circuit
\* that was cleared away has no levers to give back.
InputsRestored ==
    \A s \in Sessions :
      pc[s] \in {"restored", "done"} /\ saved[s] # Nothing /\ placed # Nothing
        /\ action[s] = "ValidateExisting" => levers = saved[s]

\* What a session promises its client, seen through its own variables.
Promise(s) == INSTANCE ValidationVerdict WITH
    circuit   <- circuit[FixtureOf[s]],
    tested    <- tested[s],
    verdict   <- verdict[s],
    Undecided <- Nothing

\* A session that has the arena to itself implements the abstract request:
\* vectors are judged in order, each against what the circuit really does,
\* and the verdict is final (validate, validateVectors and compare).
KeepsPromise ==
    /\ \A s \in Sessions : Promise(s)!Init
    /\ [][\A s \in Sessions : [Promise(s)!Next]_(Promise(s)!vars)]_vars

\* A submitted request is answered, also when the client has gone away and
\* whatever was paused, stepped or cleared, unless ticks stay frozen or are
\* frozen again and again: waitForTicks has no deadline of its own.
SessionEnds ==
    <>[]~frozen => \A s \in Sessions : pc[s] = "prepare" ~> pc[s] = "done"
=============================================================================
