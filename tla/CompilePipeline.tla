--------------------------- MODULE CompilePipeline ---------------------------
(***************************************************************************)
(* CompileSvToLitematic from end to end: a source is parsed, synthesised   *)
(* and written as a NAND diagram; what is placed, routed and validated is  *)
(* that diagram; the schematic is read back from the validated world; the  *)
(* files are published and promoted.                                       *)
(*                                                                         *)
(* The steps on files are ArtifactPublication's, the lowering is           *)
(* LogicSynthesis's, the capture is ServerSnapshot's.  Each behaviour      *)
(* shows one of the three in detail, its focus: several compiles of one    *)
(* plain circuit at a time, one compile of any source, or one compile      *)
(* whose capture is followed read by read.                                 *)
(***************************************************************************)
EXTENDS ArtifactPublication, LogicSynthesis

CONSTANTS
    Focuses,        \* which of "files", "source" and "capture" are looked at
    Lead,           \* the compile that runs alone in the latter two
    SourceFamilies, \* netlists the parser may return, in sets
    PlainSource,    \* the one it returns unless the source is in focus
    TableLimits,    \* MaximumTruthTableInputs: narrow and wide circuits
    Batches, SettleTicks, StablePasses, MaxDelay, VisibleStride, Unread

ASSUME PipelineAssumption ==
    /\ Focuses \subseteq {"files", "source", "capture"}
    /\ Lead \in Compiles

Sources == (UNION SourceFamilies) \cup {PlainSource}

\* A loop, a wire that nothing drives and an input that is assigned pass the
\* parser, but EvaluateLogicModule has no value, or no single one, for such a
\* source: it says nothing that a diagram could miss.
ASSUME SourceAssumption == \A source \in Sources : IsCombinational(source)

\* Of the capture: its constants, see ServerSnapshot.
ASSUME CaptureAssumption ==
    /\ Batches \in Nat \ {0}
    /\ SettleTicks \in Nat
    /\ StablePasses \in Nat \ {0, 1}   \* 2 in the code
    /\ MaxDelay \in 0 .. SettleTicks   \* the budget is meant to be enough
    /\ VisibleStride \in Nat \ {0}
    /\ Unread \notin 0 .. MaxDelay

VARIABLES
    focus,    \* fixed for good
    circuit,  \* compile -> nothing yet, its netlist, or what was made of it
    unsettled, clock, capturing, batch, current, previous, stable, lastTime

captureVars ==
    <<unsettled, clock, capturing, batch, current, previous, stable, lastTime>>
pipelineVars == <<vars, focus, circuit, captureVars>>

Capture == INSTANCE ServerSnapshot WITH stage <- unsettled, pc <- capturing

PipelineInit ==
    /\ Init
    /\ Capture!Init
    /\ focus \in Focuses
    /\ focus # "files" => directoryOf = The(Layouts)   \* it makes no difference
    /\ circuit = [c \in Compiles |-> <<>>]

Takes(c) == focus = "files" \/ c = Lead

-----------------------------------------------------------------------------
(* The front end.                                                          *)

IsParsed(c) == "gates" \in DOMAIN circuit[c]

ParseSvToNetlist(c) ==
    /\ pc[c] = "frontend" /\ ~IsParsed(c)
    /\ \E family \in (IF focus = "source" THEN SourceFamilies ELSE {{PlainSource}}) :
         \E source \in family : circuit' = [circuit EXCEPT ![c] = source]
    /\ UNCHANGED <<files, pc, index, outcome, last, captureVars>>

\* An output of the netlist that ToNandOnly merges into an OR.
ReadsFusedAnd(netlist) == netlist.outputs \cap FusedAndOutputs(netlist.gates) # {}

\* What the outputs of the source and the lamps of its NAND module compute; an
\* output with no lamp here is one nothing drives.
Compared(source, netlist) ==
    LET nand  == ToNandOnly(netlist)
        asked == EvaluateLogicModule(source.gates)
        made  == EvaluateLogicModule(nand.gates)
        lit   == {o \in source.outputs : nand.lamps[o] \in DOMAIN made}
    IN [wanted  |-> [o \in source.outputs |-> asked[o]],
        built   |-> [o \in lit |-> made[nand.lamps[o]]],
        orderly |-> InDependencyOrder(source.gates) /\ ~ReadsFusedAnd(netlist)]

\* OptimizeLogic and ToNandOnly, and the diagram is written.
Synthesize(c) ==
    /\ Frontend(c)
    /\ IsParsed(c)
    /\ \E limit \in TableLimits :
         /\ Optimizable(circuit[c], limit)
         /\ \E netlist \in OptimizeLogic(circuit[c], limit) :
              circuit' = [circuit EXCEPT ![c] = Compared(circuit[c], netlist)]
    /\ UNCHANGED captureVars

-----------------------------------------------------------------------------
(* Validation and staging.                                                 *)

\* Mutant: an output without a value is passed over.
VectorizablePartly(c) == DOMAIN circuit[c].built \subseteq DOMAIN circuit[c].wanted

\* The vectors both validators are given come from the NAND module; they cannot
\* be computed for an output that nothing drives.
Vectorizable(c) == DOMAIN circuit[c].built = DOMAIN circuit[c].wanted

ValidateDiagram(c) ==
    /\ Validate(c)
    /\ Vectorizable(c)
    /\ UNCHANGED <<circuit, captureVars>>

IsCapturing == focus = "capture" /\ pc[Lead] = "stage"

CaptureStep(step) ==
    /\ IsCapturing
    /\ step
    /\ UNCHANGED <<vars, circuit>>

Tick == CaptureStep(Capture!Tick)
Advance == CaptureStep(Capture!Advance)
GiveUp == CaptureStep(Capture!SettleTimeout \/ Capture!RequestFails)

\* Staging writes the capture, once there is one.
StageCapture(c) ==
    /\ Stage(c)
    /\ focus = "capture" => capturing = "captured"
    /\ UNCHANGED <<circuit, captureVars>>

\* A failed capture is an error of staging.
CaptureFails(c) ==
    /\ focus = "capture" /\ capturing = "failed" /\ pc[c] = "stage"
    /\ PublishError(c)
    /\ UNCHANGED <<circuit, captureVars>>

FileStep(c) ==
    /\ PublicationStep(c)
    /\ UNCHANGED <<circuit, captureVars>>

PipelineNext ==
    /\ \/ \E c \in Compiles :
            /\ Takes(c)
            /\ \/ ParseSvToNetlist(c) \/ Synthesize(c) \/ ValidateDiagram(c)
               \/ StageCapture(c) \/ CaptureFails(c) \/ FileStep(c)
       \/ Tick \/ Advance \/ GiveUp
    /\ UNCHANGED <<directoryOf, focus>>

\* The world ticks, requests are answered, and a staging whose capture is over
\* goes on; the deadline of a capture need never come.
PipelineSpec ==
    /\ PipelineInit /\ [][PipelineNext]_pipelineVars
    /\ WF_pipelineVars(Tick /\ UNCHANGED <<directoryOf, focus>>)
    /\ WF_pipelineVars(Advance /\ UNCHANGED <<directoryOf, focus>>)
    /\ WF_pipelineVars((StageCapture(Lead) \/ CaptureFails(Lead))
                       /\ UNCHANGED <<directoryOf, focus>>)

-----------------------------------------------------------------------------
(* Properties.                                                             *)

IsLowered(c) == "wanted" \in DOMAIN circuit[c]

\* Both validators compare the world with the NAND module, so nothing behind
\* synthesis would see it change what the source says: no output of the
\* diagram computes anything else, whatever the order of the assignments, and
\* no output goes missing from a source that is in order and has no output
\* merged into an OR.
DiagramComputesTheSource ==
    \A c \in Compiles : IsLowered(c) =>
        /\ \A o \in DOMAIN circuit[c].built : circuit[c].built[o] = circuit[c].wanted[o]
        /\ circuit[c].orderly => Vectorizable(c)

\* Documented: "Synthesis produces a logically equivalent NAND-only module."
\* It does not for an AND that an OR merges and that is an output itself: the
\* run that checks this finds one.
NandModuleIsEquivalent ==
    \A c \in Compiles : IsLowered(c) => circuit[c].built = circuit[c].wanted

\* What reaches the stable paths was validated and published as a whole, every
\* output of it computes what its source says, and a failed compile never
\* replaces the result of an earlier one.
StableIsWhatWasAsked ==
    \A name \in Names :
      LET c == files[Stable][name] IN
      c # Absent =>
        /\ outcome[c] = "compiled"
        /\ IsLowered(c) /\ circuit[c].built = circuit[c].wanted

\* Documented: "The emitted artifact therefore represents Minecraft's fully
\* block-updated all-zero-input state" (CaptureServerUpdatedLitematic).  A
\* capture shows the settled circuit in every batch, whatever ticks ran between
\* the reads of a pass, and no schematic but a captured one is ever published.
SchematicIsSettled ==
    /\ Capture!SnapshotIsSettled
    /\ focus = "capture" /\ Lead \in {files[place]["Schematic"] : place \in Places} =>
         capturing = "captured"

\* While requests are answered, staging comes to an end by itself: it is not
\* the deadline of the wall clock that ends the capture.
StagingEnds ==
    (focus = "capture" /\ pc[Lead] = "stage") ~> (pc[Lead] # "stage")
=============================================================================
