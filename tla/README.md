# A verification project for RedstoneCompiler

RedstoneCompiler turns SystemVerilog into a Minecraft redstone circuit: it
decodes and optimises the design, places NAND cells, routes dust between them,
validates the result in redstone engines, and publishes a schematic.  This
directory holds TLA+ models of the parts whose correctness depends on order,
failure or search, the TLC runs that check them, and proofs that TLAPS checks.
Paths below are relative to the repository.

Contents: [inventory](#inventory) · [modules](#modules-and-code) ·
[runs](#runs-and-bounds) · [fairness](#fairness-and-deadlock) ·
[proofs](#proofs) · [disagreements](#disagreements-with-the-documentation) ·
[not modelled](#not-modelled) · [plan](#plan)

## Inventory

| component | state it keeps | operations | what makes it correct |
|---|---|---|---|
| **Pipeline and publication** (`Compiler/Pipeline.py`, `RunReporting.py`, `Main.py`) | files of a run directory and of the stable paths | clear stale files, fail, stage, publish, promote | failure is transactional; success and failure never stand side by side |
| **Fabric client** (`Compiler/FabricServer`) | connection, request in flight | clear the world, validate, retry, snapshot | nothing is validated twice by a retry; answers are of this fixture |
| **Server snapshot** (`FabricServer/ServerSnapshot.py`) | blocks of two passes, settle clock | reset inputs, read in batches, compare | what is published is a settled circuit |
| **Server manager** (`ValidationServerHarness/Server/PyScripts`) | state file, token file, server processes; a clear in progress | start, stop, status, live clear | success of a clear means empty, ticking and saving; a command that nothing disturbs leaves the servers as it reports |
| **Validation harness** (Fabric mod, `HarnessValidation.java`, `RedstoneCompilerHarness.java`) | the one observer slot, a thread per session, the world | validate, load, tick controls, clear | a verdict is about the vector and the circuit it names; inputs come back; sessions end |
| **Quiescence tracker** (`TraceQuiescenceTracker.java`) | start, last tick, quiet run, gaps | observe a tick | settles exactly at the first full quiet window |
| **MCHPRS validation** (`RustRouting/.../PhysicalValidation`) | an external engine | run vectors | single-threaded driver |
| **Negotiated routing** (`Routing/Authoritative/NegotiatedRouting`) | selection, present counts, options, overflow history | passes of rip-up and reroute, growth, exact assignment | counts follow the selection; nothing found is left untried before giving up; failures name the conflicts |
| **Claims** (`ResourceGraph.py`, `Technology.py`, `PhysicalClaims.py`, native masks) | claims by signal | build, compare pairwise, compare by index | all forms agree; no conflict means no electrical contact |
| **Native assignment** (`RustRouting/Src/Assignment`) | domains, selection, budget counters, worklist | exact search, propagation, parallel root waves | a witness is legal, a failure is a proof unless it says that it was cut short |
| **Assembly assignment** (`Routing/Authoritative/FlowPhases/AssignmentPreparation.py`, `AssignmentState.py`, `Routing/Components/NoGoods.py`, `DynamicSolver.py`, `Placement/Flow/PhysicalFlow.py`) | forbidden sets, exclusions searched, the layer cap | publish certificates, plan under rising caps, branch on no-goods, compile the component, record why it failed | exhaustion is a proof; a no-good forbids only what cannot work; the plan is of the lowest layer |
| **Placement** (`Compiler/Placement`) | attempt queue, no-goods, caches | place, repair, retry | an attempt is not repeated; a no-good excludes only what failed |
| **Routing flow, workers, components, path search** | data passed between phases | transformations and searches | checked downstream by claims and validation |
| **Synthesis** (`Compiler/Synthesis`) | tables of aliases, inversions and expressions during a call | simplify, minimise, map to NAND | the NAND module computes what the source says: both validators compare with it, not with the source |
| **Decoder, IR, encoder** | none beyond a call | parse and write | pure functions |

How they interact.  A compile runs front end, placement and routing in one
process; routing calls the native library, which searches on a thread pool
against a shared budget and a deadline.  Validation talks over a loopback
socket to the mod: each connection is a *session* on its own thread which hands
closures to the one server thread and waits for them.  A request that loses its
connection is sent again over a new one.  Before a paste the client runs the
manager, a process of its own that shares only files and the server with other
managers: it finds or starts a server, reads region files from disk and removes
their blocks in the live world.  A passing fixture is read back by the snapshot and
published; `Main` then promotes the run's files to stable names.

What is hard: closures of sessions, ticks and control requests interleave at
every hand-over; requests fail for the sender and still run, or are sent twice;
managers lock nothing, and any of them, a server or a compile can be killed
between any two steps; reads of a running world are not
atomic; searches are cut by budgets that other threads spend; and the same
decision (do two claims conflict?) is made in six places.  `PROJECT.json` lists
each hazard with its line.

## Modules and code

A comment above each action or property names the code it is about, and the
`map` of `PROJECT.json` gives the lines of every definition.  Definitions marked
*Mutant* or *mutation* are the form a plausible bug would give the definition
below them; they are in no specification.

**`QuiescenceTracker`, `TraceQuiescence`.**  The tracker's fields and `Observe`
as operators on a record; `TraceQuiescence` drives one with any game time
(earlier, equal, next, later) and any probe state, one action per way a call
ends.  The history variable `seen` records what was observed when.

**`FabricHarness`** (uses `QuiescenceTracker`).  One action per closure handed
to the server thread and per decision of a session thread between two of them:
`Prepare`, `ReadInputs`, `WriteProgress`, `ApplyValidationVector`,
`InstallServerTickObserver`, `AwaitCompletion`, `RestoreInputStates`, … with
`Tick` (world settles, waits count down, observer called) and the control
requests.  A blocked `waitForTicks` is a countdown, an observer counts ticks
since installation, so no absolute time is needed.  The circuit is external: a
delay line with a setting-to-lamps table chosen in `Init`, in which a setting
may never settle.  `PhysicalAssumption` names the circuits a quiet window can
judge at all.  `ValidationVerdict` is the abstract request: vectors are judged
in order against the circuit's truth, and one verdict is given.

**`FabricClient`** (extends `FabricHarness`).  The one request of the compiler's
client: clear, probe, connect, send, and then an answer, a deadline, a hang-up or
a broken connection after which the request is sent again.  A connection *is* a
session of the harness, so a session whose client has gone runs on while the next
one begins.  The history variables `alone` (no two sessions overlapped) and
`original` (the levers before the request) are what the properties need to know of
the past.

**`FabricManager`.**  The manager's commands as processes of their own: every
read or write of the state file, the token file and the process table, and every
request to the server, is a step, since nothing is locked.  `service` says
whether the host has the systemd user manager, which keeps a second unit from
running.  `alone` records which commands nothing has disturbed.

**`WorldClear`.**  The manager's clear as a sequence of requests, each
answered or failed; a request whose sender gave up stays in `late` and may run
at any later time, as the server's queue does with a closure whose socket is
gone.  `Kill` ends the manager anywhere, `Crash` loses what was not saved, and
the server may be shut down, booted again or rekeyed under the clear; what of
this happened during a run is in `troubles`.  `live`, `files` and `stored` keep
the live world apart from the disk.

**`FabricRuntime`** (composes `FabricManager` and `WorldClear`).  A command that
asks for a clear goes on as the clear once it has found or started a server;
`WorldFollows` gives the world's step for every step of the processes: a server
told to stop saves, one that dies loses, a new token is not the one the server
has loaded.

**`CompilePipeline`** (composes the three below).  A compile from end to end:
`ParseSvToNetlist` takes any netlist of the instance, `Synthesize` lowers it,
`ValidateDiagram` needs vectors that can be computed from the NAND module, staging
is the capture, and every other step is one of the files.  A behaviour shows one
of three things in detail, its `focus`: several compiles and their files, one
compile of any source, or one compile with its capture read by read; the product
of the three would multiply interleavings that do not meet.

**`LogicSynthesis`.**  Pure: `StructurallySimplifyLogic`, `OptimizeLogic` with the
minimal sums of its truth tables, and `ToNandOnly`, each as a fold over the gates,
and the evaluators.  Folds are recursive functions of the length (`Accumulate`), so
that proofs can speak of them.  A net that synthesis adds is named by what drives it.
`IsCombinational` is what a source has to be: the parser sees to its kinds of gates,
to one assignment for each signal and one for every output (`Sv.py:192-224`), but a
loop, a wire that nothing drives and an assigned input pass it, and are not among the
sources (`SourceAssumption`).

**`ServerSnapshot`.**  The capture loop, one action per request, while the
server ticks on; a batch of blocks is reduced to the phase of the circuit it
shows.

**`ArtifactPublication`.**  Every unlink and replace of every compile is a
step; a file is the compile that wrote it.  Compiles fail, raise, are
interrupted or die anywhere; those of one directory follow one another.

**`CandidateAssignment`** implements **`AssignmentAnswer`**.  The recursion of
`AssignCandidateDomains` as an explicit stack of frames; every check of budget
and deadline is a choice; with a shared budget, others spend at any time.

**`ArcConsistency`.**  Rounds before the search, the choice of a candidate, and
the worklist, with arcs taken in any order.  The catalogue form (factored or
not) and the signal classes decide which propagation follows a choice, as in
`Search.rs`.  The auxiliary variable `stale` records the signals whose losses no
propagation was told of.

**`RootWaves`** implements **`AssignmentAnswer`**.  Branches of the parallel
root on a pool of threads: entering, asking for expansions singly or in
bundles, returning; outcomes are consumed in candidate order, wave by wave.

**`ClaimConflicts`.**  Claims built from routes of dust, and the predicates of
Python and Rust, each transcribed in its own form, over a table that signals
commit to and rip up from.

**`ComponentCompile`.**  Pure: which accesses, portals and trees of a closed
component survive a selection of exterior routes, why a net came out empty, the
minimum cores of that, and the certificates published beforehand.  Claims are
reduced to which of them conflict.

**`ExactNoGoods`** (extends `ComponentCompile`).  The assignment phase: publish,
plan under rising layer caps, branch on the members of the no-good a witness
contains, compile the plan, record its failure.  Each call of the recursive
`Search` is a frame of `stack`.  The native planner is external: it answers as
`AssignmentAnswer` promises, which `CandidateAssignment` is shown to do.

**`NegotiatedSearch`.**  The pass loop; a tree is an opaque candidate using
capacity-one resources, and what a native route search finds is any subset of
the trees, so that nothing depends on the search's quality.  Trees may be handed in
as selected (`seeds`) or as options only (`initial`), and the domain may be declared
complete; the one call in the repository (`CandidateMaterialization.py:307`) does
neither of the last two.  Two flags stand for the conditions on local claims and the
number of terminals: below 200 and from 200 to 256 they differ in `earlyCut` only.

`MC…` modules give constants their values; `…_proofs` modules hold theorems.

| variables | code |
|---|---|
| `FabricHarness`: `slot`, `observer` | `ServerTickObserver` reference; fields of `TickFixtureObserver` |
| … `pc`, `wait`, `tested`, `saved` | position in `validate`/`validateVectors`; target of `waitForTicks`; loop index; input states to restore |
| `FabricClient`: `client`, `attempt`, `result` | position in `Validate`/`_RequestWhenReady`; the open connection; the `Status` returned |
| `FabricManager`: `jvm`, `loaded`, `tokenFile`, `state` | Java processes; the token each server has loaded; the harness configuration; the `ManagerState` file |
| … `at`, `work`, `refresh` | position and local variables of a command; `HarnessNeedsRefresh` |
| `WorldClear`: `listed`, `pending`, `savingDisabled` | `RegionPaths`, `PendingBlocks`, the flag of the `finally` block |
| `CompilePipeline`: `circuit`, `capturing` | `Netlist`, then what it and `NandIR` compute; position in `CaptureServerUpdatedLitematic` |
| `ServerSnapshot`: `current`, `previous`, `stable` | `CurrentBlocks`, `PreviousBlocks`, `StableReadPasses` |
| `ArtifactPublication`: `files`, `pc`, `index` | directory contents; position in `CompileSvToLitematic`; loop position |
| `CandidateAssignment`: `stack`, `selected`, `expansions`, `shared` | call frames, `Selected`, `ExpansionCount`, `SharedExpansionCount` |
| `ArcConsistency`: `pending`, `neighbors` | `Pending`/`Queued`, `ConstraintNeighbors` |
| `ExactNoGoods`: `forbidden`, `stack`, `seen` | `ForbiddenPhysicalComponentGlobalCandidateSets`; calls of `Search`; `SeenExclusions` |
| … `firstCut`, `cap`, `recorded` | `IncompleteResults[0]`; `MaximumAssignedLayer`; the no-good recorded after a failed compile |
| `RootWaves`: `spent`, `shared`, `anyLocal` | per-branch count, atomic counter, `AnyLocalBudgetExhausted` |
| `NegotiatedSearch`: `present`, `options`, `best`, `stagnation` | present counts, `InitialCandidateOptions`, best overflow and its age |
| … `offered` | the domain whose `CandidateCounts` the last exact assignment reports |

## Runs and bounds

Sizes are distinct states.  The type invariant of a module is a conjunct of one of
its run's properties, and so are a few facts that belong to a larger claim (who
else is excluded while a verdict stands, say); the comment above a property names
its parts.

| run | properties | shows | bounds |
|---|---|---|---|
| `quiescence` | `SettledAtFirstQuietWindow`, `EvidenceIsExact` | the tracker settles exactly at the first quiet window over any calls, and its evidence is what happened | window 2 (code 40), timeout 4 (200), game times to 6, two probe states |
| `harness_single` | `ComparedUnderItsVector`, `InputsRestored`, `KeepsPromise`, `SessionEnds` | one session under all control requests and disconnects; implements `ValidationVerdict`; 19 k | window 2, timeout 4, two vectors, delay ≤ 2, two frozen steps |
| `harness_concurrent` | `ObserverSlotIsOwned`, `ReportIsTrue`, `InputsAsFound` | the client's request over one connection and, when it is lost, another, against the harness with all controls; 1.2 M | window 2, timeout 3, delay 1, two connections, one frozen step |
| `world_clear` | `ListedRegionsCleared`, `PausedForTheScanOnly`, `LoneCommandsSettle` | `FabricRuntime`: commands that overlap, fail and are killed, servers that crash and race, and the clears among them; 2.5 M | 2 managers, 3 tokens, 2 overworld and 1 foreign region, 2 positions each, batches of 2, four loads (below) |
| `compile_pipeline` | `DirectoryIsTransactional`, `StableIsWhatWasAsked`, `DiagramComputesTheSource`, `SchematicIsSettled`, `StagingEnds` | a compile from source to promoted files: what becomes stable computes what its source says, and is captured settled; the files are those of one compile or none; 210 k | 3 compiles in one directory or two; netlists of 3 gates over 2 inputs (XOR only in order, one input read twice only by a first gate), wide and narrow; 3 batches, settle budget 4 (code 50), delay 4 |
| `nand_equivalence` | `NandModuleIsEquivalent`, expected to be violated | `DataContracts.md:6` fails for an AND that is an output and merged into an OR | the netlists in order |
| `candidate_assignment` | `SelectionIsLegal`, `DomainsFollowSelection`, `FailureNetConflicts`, `KeepsPromise` | the exact search over every relation of the instance; 523 k | 3 signals × 2 candidates; 5 own or 2 shared expansions |
| `arc_consistency` | `PropagationIsSound`, `ConsistentBetweenChoices`, `PropagationEnds` | propagation loses nothing and leaves support behind; 265 k | 4 signals × 2 candidates, a ring of relations with diagonals, two guides and a terminal |
| `root_waves` | `WorkIsCharged`, `PassedOverOnlyWhenCut`, `KeepsPromise` | racing branches never overspend; only what a budget cut is passed over | 3 branches, 2 threads, budget 8, share 4, six plans |
| `claim_conflicts` | `PairwiseFormsAgree`, `IndexFindsTheSame`, `NoCrossTalk` | the six deciders agree; accepted routes neither touch nor cut | 3 signals, routes in a 3×3 vertical slice |
| `negotiated_search` | `OfferedBeforeGivingUp`, `InputsFollowSelection`, `StagnationIsHonest`, `FailureNamesTheConflicting` | many passes of the loop, over twelve problems; what was found is tried together before the search gives up; 540 k | 3 signals × 2 trees, 3 resources, 4 iterations, stagnation limit 3 |
| `exact_nogoods` | `PlanIsAcceptable`, `ExhaustionIsProof`, `LowestLayerOrNone`, `NoGoodsAreSound`, `EmptiedByThree`, `PlanningEnds` | planning around no-goods under layer caps, over the claims of an assembly; 63 k | 3 signals × 2 routes on 2 layers, 3 owned terminals of two nets, 1 foreign terminal, 5 trees; 432 problems |

The loads of `world_clear`: three overlapping starts, stops and harness builds,
from no server or one, with and without user services, over an empty world; a
clear beside any other command, with a paste; two clears with two pastes; one
clear with three pastes.

Why the bounds are enough.  A quiet window of two ticks distinguishes every
case of `Observe` (first tick, repeated, skipped, change inside the window, the
window completing on the deadline tick); larger ones only repeat them, and the
proofs below cover all lengths.  Two sessions and one slot show every contest
for it.  Two connections are a lost one and its repetition; a third would repeat the
second's part, which is why the client then stops sending.  Two managers are what it takes
for one to change what the other has read, and three tokens let each launch a
server while one of an earlier command still runs.  Two regions, a batch smaller
than the blocks, two clears and three pastes allow a failed clear's leftovers to
meet the blocks of the next fixture and the clear after it, and more blocks than
one batch.  Three gates over two inputs
are the least with a value that a gate and an output share, an alias of an alias, and
every order of definition and use.  Three batches let a tick fall between any two
reads.  Three compiles allow a cancelled one to be followed by a cancelled and a
failing one, or all this beside one in another directory.  Three signals give
the assignment search both a backtrack over an intermediate choice and a
forward check of two remaining domains; four signals are what the worklist
needs for an arc between two signals neither of which was just revised.  Three
branches on two threads make a second wave, with a branch that enters after
another was cut.  Three signals in negotiation allow a conflict to move between
two pairs, and three exterior routes are the least that can empty a terminal
without a certificate having foreseen it; the menu of what each route blocks has
cores of one, two and three routes and nets spoilt by two sources at once.

Each property was also run against a mutated definition that breaks it
(`mutants` in `PROJECT.json`), to show that the instance is large enough to see
the fault.

## Fairness and deadlock

- `FabricHarness`: `WF(Tick)`, because the server loop ticks unless frozen, and
  `WF(SessionStep(s))`, because session threads are scheduled and the server drains
  its queue on every loop, frozen or not.  Clients owe nothing: submitting,
  leaving and the control requests are unfair.  `waitForTicks` has no deadline of
  its own, so `SessionEnds` holds only where ticks are eventually not frozen any
  more, and says so.
- `CompilePipeline`: `WF(Tick)`, `WF(Advance)`: ticks pass and the reader's requests
  are answered; and weak fairness of staging, once the capture is over, since one
  thread goes on.  The deadline never has to come: the capture ends by itself.
- `CandidateAssignment`, `ArcConsistency`: `WF(Search)`, `WF(Propagate)`: one thread
  that goes on computing.  A deadline may pass but never has to.
- `ExactNoGoods`: `WF(Step)`, for the same reason; `PlanningEnds` needs no cut.
- `RootWaves`: `WF` of any worker or control step: the thread pool makes progress.
- `FabricClient`, `FabricRuntime`, `TraceQuiescence`, `ClaimConflicts` and
  `NegotiatedSearch` are checked for safety only and assume no
  fairness.

Deadlock is checked except in the runs `compile_pipeline` and `world_clear`: these
programs end, and their bounded numbers of compiles, commands, clears and pastes
run out.

## Proofs

The theorems hold for every value of the constants that satisfies the named
assumptions.  `tlapm` checks them to the last leaf.

**`FabricValidation_proofs`** — the server side of validation, from the tracker up to
the client, for every window, timeout, delay, fixture, vector and number of sessions.

- *The tracker* (`TrackerTypeCorrect`, `SettlesAtFirstQuietWindow`,
  `EvidenceIsWhatWasSeen`).  Neither property is inductive: nothing in them ties the
  counter `UnchangedTicks` to the history.  The invariant adds `RecordedUpToPrevious`
  (nothing is recorded after the previous observation), `RunIsMaximal` (the last *n*+1
  recordings are equal and the one before them differs or was skipped),
  `SettledWhenRunIsFull` and `NoEarlierWindow`.
- *The slot* (`SlotHasOneOwner`): with any sessions and controls the observer slot
  belongs to exactly the session that waits on it.
- *Any sessions* (`HarnessStateIsConsistent`): `HarnessInv` says what each location of
  a session implies of its own variables and of the redstone, whatever other sessions
  and controls do between two of its steps.
- *No two sessions in the server at once* (`Lone`):
  `LoneSessionComparesItsVector`, `LoneSessionKeepsPromise`.  `Watch` is the argument:
  a quiet run is shorter than the stretch in which a settling circuit looks still, and
  a circuit that settles leaves the window time to complete before the deadline, so the
  observer settles on settled circuits only and times out on none that settles
  (`PhysicalAssumption`); `Judge` carries it through the vectors.  With several
  sessions at once this is false, as `InputsAsFound` and `ReportIsTrue` of the model
  say by excluding overlaps; so `[]Lone` is a hypothesis, not a simplification.
  `NamesTheCircuit` excludes the existing-world request that names another fixture
  than the one that stands, which the server does not compare.
  `LoneSessionRestoresInputs` is for a single session: a second one may change the
  levers after the first has given them back.
- *The client* (`ClientDrivesHarness`, `ReportIsTrueOfTheCircuit`,
  `InputsAreAsFound`).  Every step of the client, retries included, is one of the
  harness, so the layers above apply; `ClientInv` relates the open connection to its
  session, and `alone` to `Lone`.  `OneRequest` says that a retry names the fixture of
  the first attempt, as the client's one request does.

**`FabricRuntime_proofs`** — `ListedRegionsAreCleared`, `PausesForTheScan`,
`LoneCommandsAreSettled`, for any managers, servers, commands, clears and pastes.
Every step of the runtime is one of `WorldClear` or none, so the first two rest on an invariant of
the world alone (`ClearInv`): from the first flush on, what lives is also on disk, so
that no region still to be read hides a block, and what is left of a region already
read is in a batch on its way — unless the server crashed, which `troubles` records.
For the life cycle, `Place` says what a command that nothing disturbs knows of the
servers at each of its steps.  The point is that servers then only go, except the
one that the command launches: so what a status read found is still the only server
when the command acts on it, and the record names it.  That there is at most one to
begin with is part of `alone`; that any other command is disturbed is proved with it
(`LifecycleInv`), since `Begin` marks them.

**`NativeSearch_proofs`**, of `ArcConsistency` — `TypeCorrect`,
`PropagationKeepsWitnesses`, `WorklistIsComplete` and `ArcConsistentBetweenChoices`,
for any symmetric relations
and domains (`SymmetricAssumption`, `DomainsAssumption`).  The heart is the worklist
invariant: towards every signal whose losses have been propagated, a candidate
without support has its arc pending.  Revising `<<s, t>>` does not enqueue the arc
back from `t`; by symmetry it need not, since what `s` lost was supported by nothing
in `t`.  A signal that is no neighbour of `s` is supported by whatever `s` keeps.

… and of `RootWaves` — `WavesStayCharged`, `NoneIsPassedOver`, and `WavesAreHonest`, the
safety part of the refinement of `AssignmentAnswer`; for any number of branches and
threads and any plans.  The sum of what the branches spent is a recursive function; that
it exists and grows by what one branch adds is shown by taking a least counterexample.
The invariant is about what is final: an outcome does not change once its branch has
ended, nothing is consumed before its wave has, and every consumed branch but the last
ended without a witness or deadline, with a cut remembered in `anyLocal`.  So
"unsatisfiable", said when nothing is left and nothing was cut, is a proof.

**`ClaimConflicts_proofs`** — `TypeCorrect`, `PairwiseFormsAreOne`, `IndexIsExact`,
`SignalsStayApart`, `OwnerFormsAreOne`, for any sets of signals, routes and blocks.
All rest on the type invariant: a claim in the table was built from a route, so its
wire cells are among its electrical cells.  That is why the forms that do not look
at two wires in one cell find the conflict all the same.

**`ExactNoGoods_proofs`**, with the lemmas about `ComponentCompile` —
`TypeCorrect`, `PlansAreAcceptable`, `ExhaustionProves`, `LayersAreLowest`,
`NoGoodsSound`, `ThreeAreNeeded`, for any finite set of routes, any layers and any
claims.  That the search may skip an exclusion it has seen is the point: call an
exclusion *closed* when no acceptable selection avoids it.  The invariant
(`SeenIsSettled`) says that every seen exclusion is closed, or belongs to a call
that is still on the stack, or the search was cut; and a call that has tried some
members of its no-good has closed the exclusion with each of them.  A call that
returns is closed because every selection that avoids its exclusion contains no
no-good, hence misses some member of the one at hand.  `LowerCapsAreEmpty` carries
the result of each cap to the next.  `CoresAreSound` shows that a core meets every
blocker set of what it empties, so that whatever contains the core empties it
again — provided that the blockers came from one source (`OneSource`): see the
disagreements.

**`CandidateAssignment_proofs`** — `TypeCorrect`, `BudgetsHold`, `SelectionsAreLegal`,
`DomainsFollow`, `FailuresNameConflicts`, and `AnswersAreHonest`, the safety part of the
refinement of `AssignmentAnswer`; for any signals, candidates, relations and budgets,
and however much of a shared budget other searches spend.  A failed call hands up the
partial selection it got furthest with, which may be longer than its caller's; the
invariant says that it begins with the caller's choices, so that the truncation
restores exactly what the caller worked on: the frame at depth *n* holds the domains
that the first *n* choices leave (`DomainsAfter`).  Every candidate a frame has tried
is *dead*, in that no legal assignment extends the choices so far with it, unless the
search was cut; so a search that ends without a flag has shown that there is none.

**`NegotiatedSearch_proofs`** — `InputsFollow`, `OfferedFirst`, `StagnationCounts`,
`FailuresName`, for any finite sets of signals and resources
(`NegotiationAssumption`), any trees, problems and limits.  The counts follow the
selection because a commit takes out the tree it replaces.  That every selected tree
is known to the exact assignment (`SelectionIsKnown`) takes a case on the pass: in
pass zero whatever is committed is retained, and from then on nothing leaves the
retained options, so that every signal has a known tree; an expansion, which needs a
signal without one and which later passes do not retain, can only happen in pass zero.
`Progress` ties the pass number to the counts recorded, without which stagnation could
not be read off them.  `Offering` carries `OfferedBeforeGivingUp` through the end of a
pass: one that ends in conflicts has offered the exact assignment all that is known, or
its domain is complete and brought nothing new, or no limit is near (`RetryNotDue`);
and the limit of stagnation cannot be reached by a pass from where it was not near.

**`CompilePipeline_proofs`**, of `LogicSynthesis` — `SimplificationIsSound`,
`CandidateIsSound`, `OptimizationIsSound`, `AddNandIsSound`, `NandModuleIsSound`,
`LampsAreDriven` and, from these, `DiagramsAreRight`: no diagram computes anything but
its source, for any number of inputs, any combinational sources and any limit.  The
argument is by *valuations*.  A valuation gives every signal its set of true
assignments, and *holds* for a gate if the gate computes what the valuation says of its
output.  The evaluation of the source is one that holds for its gates
(`EvaluationHolds`); every stage extends it by the nets it adds, keeps it holding for
the gates it leaves, and never says anything else of a signal of the source
(`Preserves`); and whatever an evaluation of the final gates finds, in however many
passes, is what every valuation says that holds for them (`EvaluationIsSound`).  That is
why the order of the gates does not matter to what is computed, only to whether
everything is found (`EvaluationIsComplete`), which takes a second invariant
(`Tidy`: in order, every alias and inversion leads to a driven net).
For the tables of a pass the invariant is `Sound`: a signal and its alias compute the
same, and a noted inversion is one.  It is what allows a gate to be shared under an
alias, and an OR to read the inputs of a merged AND (`ReadForIsComplement`).  A
minimised sum covers its table exactly since its cubes are implicants and a minimum
cover is a cover; that it is a *minimum* plays no part.  The functions defined by
recursion are met by a lemma each (`EvaluateRun`, `SimplifyRun`, …): that a function
satisfies its equations up to any length is proved by a least counterexample, since the
library's induction theorems take an operator.
`NamesAreNew` is a hypothesis of `DiagramsAreRight` and of `StableFilesAreRight`, and
the one thing they need of the names: no wire of a source is called like a net that
synthesis adds.  The code does not look (see the disagreements).  It is no `ASSUME`
because it excludes names of any shape whatever, which TLC cannot enumerate; the model
values of the run satisfy it.

… and of the files — `FailureIsTransactional`, `CapturesAreSettled`,
`StableFilesAreRight`, for any compiles, directories, layouts, sources and limits.
`Progress` says of each compile what its directory holds at every place
in the code, down to which of the three have been unlinked or moved; `OthersStay` is
the frame: a step of one compile cannot disturb what is said of another, because
compiles that share a directory follow one another (`Owned`).  That no failure leaves a
design behind rests on the order of publishing: an error can only strike while the
design, moved last, is not there yet.  For the capture, a pass that counts as stable was
judged past the budget, so the pass after it read a settled circuit only; this needs two
stable passes and a budget no shorter than the circuit's delay (`CaptureAssumption`).
With one stable pass it would not hold: the batches that pass read first may
have been read before the budget was over.  `StableFilesAreRight` joins the two halves:
what is kept of a compile is its source or what synthesis made of that source
(`CircuitInv`), validation lets only diagrams pass whose every output has a value, and
only what was validated is published and promoted.

Only model-checked: every liveness property (`SessionEnds`, `StagingEnds`,
`PropagationEnds`, `PlanningEnds`), and with them the liveness part of `KeepsPromise` in
`CandidateAssignment` and `RootWaves`, since fairness and `ENABLED` are out of the
prover's reach.  Every invariant that a run checks is stated by a theorem; two of the
harness need that sessions do not overlap, as said above, and two of the pipeline that
names are new.

## Disagreements with the documentation

These were met while modelling.  The first has a run of its own,
`nand_equivalence`; the models show each of the others if the property is stated
without the exception that its comment names.

- *An output merged away.*  `ToNandOnly` builds an AND into the one OR that reads it
  (`NandTransform.py:31-43`), counting gates as readers but not the outputs of the
  module.  With `assign y = a & b; assign z = y | c;` the output `y` is driven by
  nothing, while `Docs/Architecture/DataContracts.md:6` says that "synthesis produces a
  logically equivalent NAND-only module".  The fault also makes such a netlist look
  cheaper to `OptimizeLogic`.  No wrong circuit is published: the vectors cannot be
  computed, and the compile fails (`StableIsWhatWasAsked`).  `DiagramComputesTheSource`
  asks for every output only where none is merged.
- *A name taken.*  `ToNandOnly` and the rebuilt netlist number their nets
  (`NandTransform.py:74`, `LogicOptimization.py:365`) without looking whether a wire of
  the source is called `NandNet0` or `MinimizedNet0`; such a wire may get
  a second driver.  The models name nets by what drives them, so this cannot be seen in
  a run; the proofs say where they need the names to be new (`NamesAreNew`).
- *Sources out of order.*  Continuous assignments have no order, but one that reads a
  name before it is assigned fails with a `KeyError` in a circuit of at most six
  inputs (`LogicOptimization.py:153`).
- *Not always cheaper.*  `OptimizeLogic` compares its candidate with the simplified
  netlist, not with the source (`LogicOptimization.py:448`), and the simplification may
  cost a NAND: for `y = (a & b) | c; z = (a & b) | d` it shares the AND, which is then
  merged into neither OR, and five NANDs become six; line 422 speaks of "retaining only
  cheaper equivalents".
- *Unflushed regions.*  The region files are listed (`Process.py:513`) before
  `save-all flush` writes the live chunks (580-588), so blocks in a region that the
  flush saves for the first time survive a clear that reports success;
  `Docs/Architecture/FabricServerValidation.md:90-92` says that no persisted block
  from an earlier fixture can survive into the new test.  `ListedRegionsCleared`
  speaks of the regions listed.
- *A server replaced under a clear.*  When the server dies between two requests of
  a clear and another manager starts it again, the blocks of the last save are
  back, and the clear goes on and reports success.  `ListedRegionsCleared` excepts
  exactly this crash.  Stopping and restarting it, which saves, is harmless.
- *A lost record.*  `stop` with the state file gone reports that nothing was
  stopped while a server runs on; it records that server, so that the next `stop`
  finds it.  Without user services two servers can be launched at once, and a
  start that fails leaves the other one; `LoneCommandsSettle` speaks of commands that
  begin with at most one server.
- *Shared arena.*  Only the observer slot is exclusive.  With two sessions in
  `FabricHarness`, `ComparedUnderItsVector` fails: one session's levers or paste fall
  between the other's lever write and its comparison, so a verdict may be false of
  the circuit.  One client is enough: a request sent again after a broken connection
  overlaps the session of the first, and a false mismatch or timeout follows
  (with three settings, a false pass).  `ReportIsTrue` and `InputsAsFound` speak of
  requests whose sessions did not overlap.  The documentation
  (`FabricServerValidation.md:233-235`) calls simulation "automatic and reproducible".
- *Slow circuits.*  With a circuit slower than the settle budget (`MaxDelay` 8 in
  the capture of `CompilePipeline`), which the validator still accepts, two equal passes may fall
  between two changes; `ServerSnapshot.py:393-395` says the artifact represents the
  fully updated state.
- *Presence means success.*  An interrupt between two replaces leaves part of a set
  (only `except Exception` clears it), while `Pipeline.py:186` speaks of artifacts
  "whose presence means a compile was successful".
- *Atomic promotion.*  Two promotions can interleave file by file, and leave a stable
  set of two runs; `RunReporting.py:454` says "Atomically promote".
- *Outranked branches.*  A branch refused a bundle because it would overrun what is
  left of the shared budget is taken for locally exhausted, and a later branch's
  witness is chosen, though `Search.rs:2353-2356` says that a later witness cannot
  outrank an earlier feasible branch.  `PassedOverOnlyWhenCut` states what does hold.
- *Cores of two sources.*  A core of terminal filters is recorded as a complete
  proof although other routes had already thinned what the trees could use
  (`NoGoods.py:593` calls it "narrowest proof-qualified").  With blockers from two
  sources another selection with the same core may compile.  `NoGoodsAreSound` holds
  where `OneSource` does.
- *Found, not tried.*  `DiscoveredCandidateThisPass` is of one pass
  (`Search.py:16`).  Over a complete domain, a tree found in a pass that was not yet near
  the limits is given to no exact assignment if the last pass finds nothing, although
  the retry is meant for when "negotiated routing grows the domain"
  (`Portals.py:1524`); and a stagnating pass may end in a portal cut without one.
  `OfferedBeforeGivingUp` excepts both; no call declares a domain complete today.
- *No retry with the no-good.*  `ReplanPhysicalAssemblyWithTiming`
  (`PhysicalAssembly.py:2347-2378`) always raises, so 2379-2406 never run, and the
  no-good just recorded is not used within the attempt (`PhysicalFlow.py:371-380` clears
  it).  The model ends there, as the code does.

## Not modelled

- Native assignment: the greedy and min-conflict seeds, which only propose
  selections that the exact search checks; the certified access bundles
  (`Search.rs:400-605`) appear in `RootWaves` as requests for several expansions; the
  template assignment with its own domains.
- The harness's console commands, schematic import and authentication.
- Of the manager: a failing `systemctl stop`, more than one clear at a time (the
  overlap of two is covered only as late requests), and pastes of another client
  while a clear runs.
- Of the assembly assignment: the proofs from relaxed global domains in `NoGoods.py`,
  the capacity problem of `DynamicSolver.py:560-705`, and the order in which members
  are tried (any order, in the model).  The frontier is built over whole trees
  rather than grown terminal by terminal.
- Placement's cost functions and geometry, path, escape and candidate
  generation, interface and exterior relations, portfolios and certificates of
  components, physical guides: numeric searches over grids, and ranking of what
  they return, whose results the models take as any candidate at all, and which
  claims and validation check afterwards.  These are most of the repository's
  lines, and the reason why the modelled share is small: they keep no state
  between calls, and a model of a ranking says nothing that the ranking does not.
- Placement's attempt queue, whose order is all heuristics, but whose memory of
  attempts is worth a module (see the plan).
- The decoder, the IR, the diagram file and the encoder: a parser and writers.  Of
  synthesis, sources that are not combinational: assigned inputs, open wires, and loops,
  which `Resolve` does not end on if they are of buffers.
- Two compiles that use one server at a time: a capture would then read the arena
  while the other clears it or validates in it.
- The vendored Flute3, language bindings, scripts, templates and examples.

Abstractions to know of: a tick is atomic, as all of the server thread's work
within one is; redstone is the delay line described above; a server loads its token and takes its port in
one step; repeaters, and
stairs with more than one support, are not among the routes of
`ClaimConflicts`, and component claims enter as the same three fields.  Errors raised
while cleaning up after an error (an `unlink` of a staged file, the end of a capture)
and a snapshot reply without a game time are left out, as are the local claims a
component chooses before its routes, and its trees whose terminals are incomplete.
The planner without forbidden sets is the same search with an empty set of them.

## Plan

Done, in this order: `QuiescenceTracker`, `FabricHarness`, `WorldClear`,
`ServerSnapshot`, `ArtifactPublication`, the assignment search, claims and
negotiation; then `FabricClient`, `ComponentCompile` and `ExactNoGoods` with their
proofs, `FabricManager` and `FabricRuntime`; then the proofs about
`CandidateAssignment` and `NegotiatedSearch`; then `LogicSynthesis` and
`CompilePipeline` with its proofs; then the proofs about the tracker's evidence, the
harness and its client, the runtime manager and `RootWaves`; then those about
`LogicSynthesis`.  To come:

1. Placement's attempt queue (`RoutingAttempts.py:411ff`, `AttemptHistory.py`): no
   attempt repeated, none dropped that was not tried; composed with
   `ArtifactPublication`, which follows it in a compile.
2. Template assignment domains and the Python fallback of the exact search, against
   `AssignmentAnswer`; access bundles as actions of their own.
3. Vector selection against a reference definition.
4. The decoder against a semantics of expressions, so that what the theorems call the
   source is the text rather than the parsed gates.
