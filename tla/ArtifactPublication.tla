------------------------- MODULE ArtifactPublication -------------------------
(***************************************************************************)
(* The files a compile leaves behind: CompileSvToLitematic working in the  *)
(* directory of its run, and PromoteRunArtifacts copying what succeeded to *)
(* the stable paths of the circuit.                                        *)
(*                                                                         *)
(* Every unlink and every replace is a step of its own.  Between any two   *)
(* the process may be cancelled or die, and another compile of the same    *)
(* circuit may take steps.  A file is its name and the compile that wrote  *)
(* it.                                                                     *)
(***************************************************************************)
EXTENDS Naturals, Sequences

CONSTANTS Compiles,     \* invocations of the compiler
          Directories,  \* run directories
          Layouts,      \* how compiles may be spread over directories
          Stable,       \* not a run directory: the stable paths
          Absent        \* not a compile: no such file

ASSUME PublicationAssumption ==
    /\ Layouts \subseteq [Compiles -> Directories]
    /\ Stable \notin Directories
    /\ Absent \notin Compiles

VARIABLES
    directoryOf,  \* the directory each compile works in, fixed for good
    files,    \* place -> file name -> the compile that wrote it, or Absent
    pc,       \* where each compile is
    index,    \* the next file of the sequence it is working through
    outcome,  \* how its CompileSvToLitematic ended
    last      \* history: the last compile to begin in each directory

vars == <<directoryOf, files, pc, index, outcome, last>>

\* SuccessArtifactPaths in the order of its dictionary.
SuccessArtifacts == <<"Schematic", "PhysicalDesign", "PhysicalFixture">>

\* The files are moved out of the staging directory with the design last.
PublishOrder == <<"Schematic", "PhysicalFixture", "PhysicalDesign">>

\* The suffixes of PromoteRunArtifacts that a compile still produces.
PromoteOrder == <<"Schematic", "Nand", "PhysicalDesign", "PhysicalFixture">>

Names  == {"Schematic", "PhysicalDesign", "PhysicalFixture", "Nand", "RoutingFailure"}
Places == Directories \cup {Stable}

Locations == {"idle", "clearStale", "clearFailure", "frontend", "routing",
              "validation", "clearBeforePublish", "stage", "publish",
              "clearAfterError", "promote", "ended"}

TypeOK ==
    /\ directoryOf \in [Compiles -> Directories]
    /\ files \in [Places -> [Names -> Compiles \cup {Absent}]]
    /\ pc \in [Compiles -> Locations]
    /\ index \in [Compiles -> 1 .. 4]
    /\ outcome \in [Compiles -> {"none", "compiled", "failed", "cancelled"}]
    /\ last \in [Directories -> Compiles \cup {Absent}]

Init ==
    /\ directoryOf \in Layouts
    /\ files = [place \in Places |-> [name \in Names |-> Absent]]
    /\ pc = [c \in Compiles |-> "idle"]
    /\ index = [c \in Compiles |-> 1]
    /\ outcome = [c \in Compiles |-> "none"]
    /\ last = [directory \in Directories |-> Absent]

Put(place, name, c) == files' = [files EXCEPT ![place][name] = c]

Go(c, location) ==
    /\ pc' = [pc EXCEPT ![c] = location]
    /\ index' = [index EXCEPT ![c] = 1]

Fail(c) ==
    /\ Go(c, "ended")
    /\ outcome' = [outcome EXCEPT ![c] = "failed"]

-----------------------------------------------------------------------------
(* CompileSvToLitematic.                                                   *)

\* Compiles that share a run directory follow one another.
Begin(c) ==
    /\ pc[c] = "idle"
    /\ \A other \in Compiles \ {c} :
         directoryOf[other] = directoryOf[c] => pc[other] \in {"idle", "ended"}
    /\ Go(c, "clearStale")
    /\ last' = [last EXCEPT ![directoryOf[c]] = c]
    /\ UNCHANGED <<files, outcome>>

\* One unlink of ClearStaleSuccessArtifacts, and what comes after the last.
Unlink(c, location, afterwards) ==
    /\ pc[c] = location
    /\ Put(directoryOf[c], SuccessArtifacts[index[c]], Absent)
    /\ IF index[c] < Len(SuccessArtifacts)
         THEN index' = [index EXCEPT ![c] = @ + 1] /\ UNCHANGED <<pc, outcome>>
         ELSE afterwards
    /\ UNCHANGED last

ClearStale(c) ==
    Unlink(c, "clearStale", Go(c, "clearFailure") /\ UNCHANGED outcome)

ClearFailure(c) ==
    /\ pc[c] = "clearFailure"
    /\ Put(directoryOf[c], "RoutingFailure", Absent)
    /\ Go(c, "frontend")
    /\ UNCHANGED <<outcome, last>>

\* Parsing, optimisation and the NAND transform end in the diagram.
Frontend(c) ==
    /\ pc[c] = "frontend"
    /\ Put(directoryOf[c], "Nand", c)
    /\ Go(c, "routing")
    /\ UNCHANGED <<outcome, last>>

\* An exception that is not a routing failure leaves no artifact behind.
Raise(c) ==
    /\ pc[c] \in {"frontend", "routing", "validation"}
    /\ Fail(c)
    /\ UNCHANGED <<files, last>>

\* A typed failure of routing, or a verdict other than passed of MCHPRS or the
\* Fabric server, leaves a failure artifact, if writing that one succeeds.
TypedFailure(c) ==
    /\ pc[c] \in {"routing", "validation"}
    /\ \/ Put(directoryOf[c], "RoutingFailure", c)
       \/ UNCHANGED files
    /\ Fail(c)
    /\ UNCHANGED last

Route(c) ==
    /\ pc[c] = "routing"
    /\ Go(c, "validation")
    /\ UNCHANGED <<files, outcome, last>>

Validate(c) ==
    /\ pc[c] = "validation"
    /\ Go(c, "clearBeforePublish")
    /\ UNCHANGED <<files, outcome, last>>

-----------------------------------------------------------------------------
(* PublishSuccessArtifacts.                                                *)

ClearBeforePublish(c) ==
    Unlink(c, "clearBeforePublish", Go(c, "stage") /\ UNCHANGED outcome)

\* All files are written into a temporary directory first, the schematic from
\* the server snapshot.
Stage(c) ==
    /\ pc[c] = "stage"
    /\ Go(c, "publish")
    /\ UNCHANGED <<files, outcome, last>>

Publish(c) ==
    /\ pc[c] = "publish"
    /\ Put(directoryOf[c], PublishOrder[index[c]], c)
    /\ IF index[c] < Len(PublishOrder)
         THEN index' = [index EXCEPT ![c] = @ + 1] /\ UNCHANGED <<pc, outcome>>
         ELSE Go(c, "promote") /\ outcome' = [outcome EXCEPT ![c] = "compiled"]
    /\ UNCHANGED last

\* Mutant: what has been moved out already stays.
PublishErrorKeepsFiles(c) ==
    /\ pc[c] \in {"stage", "publish"}
    /\ Fail(c)
    /\ UNCHANGED <<files, last>>

\* Any exception while staging or moving clears the success artifacts again.
PublishError(c) ==
    /\ pc[c] \in {"stage", "publish"}
    /\ Go(c, "clearAfterError")
    /\ UNCHANGED <<files, outcome, last>>

ClearAfterError(c) == Unlink(c, "clearAfterError", Fail(c))

-----------------------------------------------------------------------------
(* Main.                                                                   *)

\* One file of PromoteRunArtifacts; a file the run has not got is skipped.
Promote(c) ==
    LET name == PromoteOrder[index[c]] IN
    /\ pc[c] = "promote"
    /\ IF files[directoryOf[c]][name] # Absent
         THEN Put(Stable, name, files[directoryOf[c]][name])
         ELSE UNCHANGED files
    /\ IF index[c] < Len(PromoteOrder)
         THEN index' = [index EXCEPT ![c] = @ + 1] /\ UNCHANGED pc
         ELSE Go(c, "ended")
    /\ UNCHANGED <<outcome, last>>

\* KeyboardInterrupt is no Exception, so nothing is cleared on the way out; a
\* process that dies leaves the same files, and so does a copy that fails.
Cancel(c) ==
    /\ pc[c] \notin {"idle", "ended"}
    /\ Go(c, "ended")
    /\ outcome' = [outcome EXCEPT ![c] = IF @ = "none" THEN "cancelled" ELSE @]
    /\ UNCHANGED <<files, last>>

\* The steps that concern nothing but the files; CompilePipeline adds the rest.
PublicationStep(c) ==
    \/ Begin(c) \/ ClearStale(c) \/ ClearFailure(c)
    \/ Route(c) \/ Raise(c) \/ TypedFailure(c)
    \/ ClearBeforePublish(c) \/ Publish(c)
    \/ PublishError(c) \/ ClearAfterError(c)
    \/ Promote(c) \/ Cancel(c)

-----------------------------------------------------------------------------
(* Properties.                                                             *)

Success(place) ==
    {files[place][name] : name \in {"Schematic", "PhysicalDesign", "PhysicalFixture"}}

\* No directory ever says both that a compile failed and that one succeeded,
\* not even while files are being cleared or after a cancelled compile.
VerdictsExclude ==
    \A directory \in Directories :
      files[directory]["RoutingFailure"] # Absent => Success(directory) = {Absent}

HasOwnDirectory(c) ==
    \A other \in Compiles \ {c} : directoryOf[other] # directoryOf[c]

\* In a directory of its own a compile that is cut short anywhere still leaves
\* no physical design without the schematic and the fixture it describes.
DesignSealsTheSet ==
    \A c \in Compiles :
      HasOwnDirectory(c) /\ files[directoryOf[c]]["PhysicalDesign"] # Absent =>
        Success(directoryOf[c]) = {c}

\* Documented: "Failure is transactional".  A compile that was not cut short
\* leaves its own three success artifacts or none at all, whatever an earlier
\* compile, finished or cut short, had left in the directory, and failure and
\* success never stand side by side; one that was cut short in a directory of
\* its own leaves no design without the rest.  (The type invariant is part.)
DirectoryIsTransactional ==
    /\ TypeOK
    /\ VerdictsExclude
    /\ DesignSealsTheSet
    /\ \A directory \in Directories :
         LET c == last[directory] IN
         c # Absent /\ outcome[c] \in {"compiled", "failed"} =>
           IF outcome[c] = "compiled"
             THEN /\ Success(directory) = {c}
                  /\ files[directory]["RoutingFailure"] = Absent
             ELSE /\ Success(directory) = {Absent}
                  /\ files[directory]["RoutingFailure"] \in {c, Absent}
=============================================================================
