---------------------------- MODULE ServerSnapshot ----------------------------
(***************************************************************************)
(* CaptureServerUpdatedLitematic: reading a validated fixture back from    *)
(* the live world, with every input lever at zero, into the schematic that *)
(* a successful compile publishes.                                         *)
(*                                                                         *)
(* A pass over the fixture is one request per batch of positions, and the  *)
(* server ticks on between requests; the reader accepts a pass that equals *)
(* the one before it, once a settle budget of game ticks is over.          *)
(*                                                                         *)
(* The circuit, external to the repository, needs up to MaxDelay ticks to  *)
(* settle after its levers moved.  Its blocks change visibly at least      *)
(* every VisibleStride ticks until then, in every batch.                   *)
(*                                                                         *)
(* CompilePipeline runs the capture where a compile stages its files.      *)
(***************************************************************************)
EXTENDS Naturals

CONSTANTS Batches,       \* WorldReadBlocks requests of one pass
          SettleTicks,   \* SnapshotSettleTicks
          StablePasses,  \* SnapshotStableReadPasses
          MaxDelay,      \* slowest circuit that passed validation, in ticks
          VisibleStride, \* longest stretch of unsettled ticks that looks still
          Unread         \* not a phase: a batch no pass has read

VARIABLES
    stage,     \* external: ticks until the circuit has settled
    clock,     \* ticks since the recorded input-zero time, up to the budget
    pc,
    batch,     \* the batch the pass reads next
    current,   \* CurrentBlocks: what this pass has read, per batch
    previous,  \* PreviousBlocks
    stable,    \* StableReadPasses
    lastTime   \* LastGameTime of the pass

reader == <<pc, batch, current, previous, stable, lastTime>>
vars   == <<stage, clock, reader>>

\* What the blocks look like: phase 0 is the settled all-zero-input state.
Phase == (stage + VisibleStride - 1) \div VisibleStride

NothingRead == [b \in 1 .. Batches |-> Unread]

TypeOK ==
    /\ stage \in 0 .. MaxDelay
    /\ clock \in 0 .. SettleTicks
    /\ pc \in {"reset", "stamp", "read", "time", "judge", "captured", "failed"}
    /\ batch \in 1 .. Batches
    /\ current \in [1 .. Batches -> 0 .. MaxDelay \cup {Unread}]
    /\ previous \in [1 .. Batches -> 0 .. MaxDelay \cup {Unread}]
    /\ stable \in 0 .. StablePasses
    /\ lastTime \in 0 .. SettleTicks

Init ==
    /\ stage = 0
    /\ clock = 0
    /\ pc = "reset"
    /\ batch = 1
    /\ current = NothingRead
    /\ previous = NothingRead
    /\ stable = 0
    /\ lastTime = 0

\* The server thread.
Tick ==
    /\ stage' = IF stage > 0 THEN stage - 1 ELSE 0
    /\ clock' = IF clock < SettleTicks THEN clock + 1 ELSE clock
    /\ UNCHANGED reader

-----------------------------------------------------------------------------
(* The reader.                                                             *)

\* SetFixtureInputsToZero: one closure moves the levers, after validation has
\* left them at the last vector, and a second one reads the game time.
ResetInputs ==
    /\ pc = "reset"
    /\ stage' \in 0 .. MaxDelay
    /\ pc' = "stamp"
    /\ UNCHANGED <<clock, batch, current, previous, stable, lastTime>>

StampInputZero ==
    /\ pc = "stamp"
    /\ clock' = 0
    /\ pc' = "read"
    /\ UNCHANGED <<stage, batch, current, previous, stable, lastTime>>

\* One closure reads the blocks of a batch ...
ReadBatch ==
    /\ pc = "read"
    /\ current' = [current EXCEPT ![batch] = Phase]
    /\ pc' = "time"
    /\ UNCHANGED <<stage, clock, batch, previous, stable, lastTime>>

\* ... and the next one the game time that goes with them.
ReadGameTime ==
    /\ pc = "time"
    /\ lastTime' = clock
    /\ IF batch = Batches
         THEN batch' = 1 /\ pc' = "judge"
         ELSE batch' = batch + 1 /\ pc' = "read"
    /\ UNCHANGED <<stage, clock, current, previous, stable>>

ReachedTickBudget == lastTime >= SettleTicks

\* Mutants: the budget is forgotten; a repetition is never counted.
StableAnyTime == IF current = previous THEN stable + 1 ELSE 1
StableNever   == IF ReachedTickBudget THEN 1 ELSE 0

StableAfterPass ==
    CASE ReachedTickBudget /\ current = previous -> stable + 1
      [] ReachedTickBudget /\ current # previous -> 1
      [] ~ReachedTickBudget                      -> 0

\* The end of a pass that is accepted.
Accept ==
    /\ pc = "judge"
    /\ StableAfterPass >= StablePasses
    /\ stable' = StableAfterPass
    /\ pc' = "captured"
    /\ UNCHANGED <<stage, clock, batch, current, previous, lastTime>>

ReadAgain ==
    /\ pc = "judge"
    /\ StableAfterPass < StablePasses
    /\ stable' = StableAfterPass
    /\ previous' = current
    /\ pc' = "read"
    /\ UNCHANGED <<stage, clock, batch, current, lastTime>>

\* The five seconds are over at the end of a pass that is not accepted.
SettleTimeout ==
    /\ pc = "judge"
    /\ StableAfterPass < StablePasses
    /\ stable' = StableAfterPass
    /\ pc' = "failed"
    /\ UNCHANGED <<stage, clock, batch, current, previous, lastTime>>

\* A request fails, or its answer is not what was asked for.
RequestFails ==
    /\ pc \in {"reset", "stamp", "read", "time"}
    /\ pc' = "failed"
    /\ UNCHANGED <<stage, clock, batch, current, previous, stable, lastTime>>

Advance ==
    \/ ResetInputs \/ StampInputZero
    \/ ReadBatch \/ ReadGameTime
    \/ Accept \/ ReadAgain

-----------------------------------------------------------------------------
(* Properties.                                                             *)

\* Documented: "The emitted artifact therefore represents Minecraft's fully
\* block-updated all-zero-input state" (CaptureServerUpdatedLitematic).  Every
\* batch of the accepted pass shows the settled circuit, whatever ticks ran
\* between the requests of a pass.  (The type invariant is part.)
SnapshotIsSettled ==
    /\ TypeOK
    /\ pc = "captured" => \A b \in 1 .. Batches : current[b] = 0
===============================================================================
