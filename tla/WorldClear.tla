------------------------------ MODULE WorldClear ------------------------------
(***************************************************************************)
(* The live clear of the simulation world that precedes every validation   *)
(* paste: ClearPersistedWorldBlocks of the runtime manager, against the    *)
(* server whose blocks it removes and the region files it reads.           *)
(*                                                                         *)
(* The manager reads block positions from disk and removes them from the   *)
(* live world through harness requests.  Any request may fail for the      *)
(* manager while the server still runs it, now or later (`late`): a socket *)
(* times out, the queued closure does not.  The manager itself may be      *)
(* killed at any point, and the server may crash, or be stopped, restarted *)
(* or given another token by other managers (FabricRuntime says how).      *)
(***************************************************************************)
EXTENDS Naturals, FiniteSets

CONSTANTS Overworld,   \* regions the harness can clear
          Foreign,     \* regions of other dimensions
          Positions,   \* block positions within one region
          BatchLimit,  \* MaximumWorldSetBlocksPerRequest; the harness's own cap
          MaxRuns,     \* bound: runs of the manager
          MaxPastes    \* bound: pastes into the world

Regions == Overworld \cup Foreign
Blocks == Regions \X Positions

ASSUME WorldAssumption ==
    /\ Overworld \cap Foreign = {}
    /\ BatchLimit \in Nat \ {0}
    /\ MaxRuns \in Nat /\ MaxPastes \in Nat

VARIABLES
    \* the server
    up,        \* whether one serves
    authentic, \* whether it accepts the token on disk
    live,      \* non-air blocks of the live world
    files,     \* the regions that have a file on disk
    stored,    \* the non-air blocks those files hold
    frozen,    \* ticks are paused
    saving,    \* automatic saving is on
    late,      \* requests their sender has given up on, still to run
    \* the manager
    pc,
    listed,    \* RegionPaths: the region files found at the start
    unread,    \* those of them not read yet
    queue,     \* positions read from the current region, still to be batched
    pending,   \* PendingBlocks
    savingDisabled, mainError, cleanupErrors,
    result,    \* how the last run ended
    \* bounds and history
    runs, pastes,
    troubles   \* history: what befell the server since the last run began

server  == <<up, authentic, live, files, stored, frozen, saving, late>>
manager == <<pc, listed, unread, queue, pending, savingDisabled, mainError,
             cleanupErrors, result>>
vars    == <<server, manager, runs, pastes, troubles>>

\* The one-word requests of the protocol; a batch request is the set of blocks.
Commands == {"PauseTicks", "ResumeTicks", "save-off", "save-on", "save-all flush"}

TypeOK ==
    /\ up \in BOOLEAN /\ authentic \in BOOLEAN /\ frozen \in BOOLEAN /\ saving \in BOOLEAN
    /\ live \subseteq Blocks
    /\ files \subseteq Regions
    /\ stored \subseteq files \X Positions
    /\ late \subseteq (Commands \X {{}}) \cup ({"WorldSetBlocks"} \X SUBSET Blocks)
    /\ pc \in {"idle", "pause", "saveOff", "flushBefore", "scan", "clearBatch",
               "saveOn", "flushAfter", "resume", "report"}
    /\ listed \subseteq Overworld
    /\ unread \subseteq listed
    /\ queue \subseteq Blocks
    /\ pending \subseteq Blocks
    /\ savingDisabled \in BOOLEAN /\ mainError \in BOOLEAN
    /\ cleanupErrors \in BOOLEAN
    /\ result \in {"none", "cleared", "failed", "killed"}
    /\ runs \in 0 .. MaxRuns /\ pastes \in 0 .. MaxPastes
    /\ troubles \subseteq {"late", "stopped", "crashed"}

\* An empty world, and nothing to undo.
WorldInit ==
    /\ frozen = FALSE /\ saving = TRUE
    /\ live = {}
    /\ files = {} /\ stored = {}
    /\ late = {}
    /\ pc = "idle"
    /\ listed = {} /\ unread = {} /\ queue = {} /\ pending = {}
    /\ savingDisabled = FALSE /\ mainError = FALSE /\ cleanupErrors = FALSE
    /\ result = "none"
    /\ troubles = {}

Init ==
    /\ WorldInit
    /\ up = TRUE /\ authentic = TRUE
    /\ runs = 0 /\ pastes = 0

-----------------------------------------------------------------------------
(* The server.                                                             *)

In(region) == {region} \X Positions

\* A save writes the live blocks; a region with blocks gets a file.
Save ==
    /\ files' = files \cup {block[1] : block \in live}
    /\ stored' = live

\* What one request does on the server thread.
Execute(request) ==
    /\ frozen' = CASE request[1] = "PauseTicks"  -> TRUE
                   [] request[1] = "ResumeTicks" -> FALSE
                   [] OTHER                      -> frozen
    /\ saving' = CASE request[1] = "save-off" -> FALSE
                   [] request[1] = "save-on"  -> TRUE
                   [] OTHER                   -> saving
    /\ IF request[1] = "save-all flush" THEN Save ELSE UNCHANGED <<files, stored>>
    /\ live' = live \ request[2]
    /\ UNCHANGED <<up, authentic>>

\* A request whose sender has given up runs after all.
RunLate ==
    /\ up
    /\ \E request \in late :
         /\ Execute(request)
         /\ late' = late \ {request}
    /\ troubles' = troubles \cup {"late"}
    /\ UNCHANGED <<manager, runs, pastes>>

AutoSave ==
    /\ up /\ saving
    /\ Save
    /\ UNCHANGED <<up, authentic, live, frozen, saving, late, manager, runs, pastes,
                   troubles>>

\* A validation or an import puts a block into the world between clears; the
\* region it lies in need not have a file yet.
Paste ==
    /\ up
    /\ pc = "idle"
    /\ pastes < MaxPastes
    /\ \E block \in Blocks \ live : live' = live \cup {block}
    /\ pastes' = pastes + 1
    /\ result' = "none"
    /\ UNCHANGED <<up, authentic, files, stored, frozen, saving, late, pc, listed, unread,
                   queue, pending, savingDisabled, mainError, cleanupErrors, runs,
                   troubles>>

\* A server that goes takes its queue, the tick freeze and save-off with it.
Goes(trouble) ==
    /\ up
    /\ up' = FALSE /\ authentic' = FALSE
    /\ frozen' = FALSE /\ saving' = TRUE
    /\ late' = {}
    /\ troubles' = troubles \cup {trouble}
    /\ UNCHANGED <<manager, runs, pastes>>

\* What was not saved is lost in a crash.
Crash == Goes("crashed") /\ live' = stored /\ UNCHANGED <<files, stored>>

\* A stop saves, even with automatic saving off.
Shutdown == Goes("stopped") /\ Save /\ UNCHANGED live

\* A manager has started a server, or has written another token.
Boot ==
    /\ ~up
    /\ up' = TRUE
    /\ authentic' \in BOOLEAN
    /\ UNCHANGED <<live, files, stored, frozen, saving, late, manager, runs, pastes,
                   troubles>>

Rekey ==
    /\ up
    /\ authentic' = ~authentic
    /\ UNCHANGED <<up, live, files, stored, frozen, saving, late, manager, runs, pastes,
                   troubles>>

-----------------------------------------------------------------------------
(* The manager.                                                            *)

\* Send a request and read its answer.
Answered(request) == up /\ authentic /\ Execute(request) /\ UNCHANGED late

\* The answer never comes, or is a refusal: the server is down or does not
\* know the token, or it runs the request some time later, or never.
Unanswered(request) ==
    /\ late' = IF up /\ authentic THEN late \cup {request} ELSE late
    /\ UNCHANGED <<up, authentic, live, files, stored, frozen, saving>>

Exchange(command, succeeded, failed) ==
    \/ Answered(<<command, {}>>) /\ succeeded
    \/ Unanswered(<<command, {}>>) /\ failed

\* Region files outside the overworld that hold chunks.
UnsupportedRegions == files \cap Foreign

\* Once a server was ready the region files are listed, before anything is
\* paused or flushed.  Saved chunks of another dimension end the run at once.
StartClear ==
    /\ pc = "idle"
    /\ runs < MaxRuns
    /\ runs' = runs + 1
    /\ troubles' = {}
    /\ savingDisabled' = FALSE /\ mainError' = FALSE /\ cleanupErrors' = FALSE
    /\ queue' = {} /\ pending' = {}
    /\ IF UnsupportedRegions # {}
         THEN /\ result' = "failed"
              /\ UNCHANGED <<pc, listed, unread>>
         ELSE /\ listed' = files
              /\ unread' = listed'
              /\ pc' = "pause"
              /\ result' = "none"
    /\ UNCHANGED <<server, pastes>>

\* Pausing is outside the try: a failure leaves at once, with nothing undone.
Pause ==
    /\ pc = "pause"
    /\ Exchange("PauseTicks",
                pc' = "saveOff" /\ UNCHANGED result,
                pc' = "idle" /\ result' = "failed")
    /\ UNCHANGED <<listed, unread, queue, pending, savingDisabled, mainError,
                   cleanupErrors, runs, pastes, troubles>>

\* The finally block begins with saving, if this run knows it turned it off.
SaveOff ==
    /\ pc = "saveOff"
    /\ Exchange("save-off",
                pc' = "flushBefore" /\ savingDisabled' = TRUE /\ UNCHANGED mainError,
                pc' = "resume" /\ mainError' = TRUE /\ UNCHANGED savingDisabled)
    /\ UNCHANGED <<listed, unread, queue, pending, cleanupErrors, result, runs,
                   pastes, troubles>>

FlushBefore ==
    /\ pc = "flushBefore"
    /\ Exchange("save-all flush",
                pc' = "scan" /\ UNCHANGED mainError,
                pc' = "saveOn" /\ mainError' = TRUE)
    /\ UNCHANGED <<listed, unread, queue, pending, savingDisabled, cleanupErrors,
                   result, runs, pastes, troubles>>

\* ReadRegionNonAirBlocks of the next listed region.
ReadRegion ==
    /\ pc = "scan"
    /\ queue = {}
    /\ \E region \in unread :
         /\ unread' = unread \ {region}
         /\ queue' = stored \cap In(region)
    /\ UNCHANGED <<server, pc, listed, pending, savingDisabled, mainError,
                   cleanupErrors, result, runs, pastes, troubles>>

\* One more position; a full batch is sent at once.
AddPosition ==
    /\ pc = "scan"
    /\ \E block \in queue :
         /\ queue' = queue \ {block}
         /\ pending' = pending \cup {block}
         /\ pc' = IF Cardinality(pending') = BatchLimit THEN "clearBatch" ELSE "scan"
    /\ UNCHANGED <<server, listed, unread, savingDisabled, mainError,
                   cleanupErrors, result, runs, pastes, troubles>>

\* The last, partial batch goes out after the last region.
FinishScan ==
    /\ pc = "scan"
    /\ queue = {} /\ unread = {}
    /\ pc' = IF pending = {} THEN "saveOn" ELSE "clearBatch"
    /\ UNCHANGED <<server, listed, unread, queue, pending, savingDisabled,
                   mainError, cleanupErrors, result, runs, pastes, troubles>>

FlushPendingBlocks ==
    /\ pc = "clearBatch"
    /\ \/ /\ Answered(<<"WorldSetBlocks", pending>>)
          /\ pending' = {}
          /\ pc' = "scan"
          /\ UNCHANGED mainError
       \/ /\ Unanswered(<<"WorldSetBlocks", pending>>)
          /\ mainError' = TRUE
          /\ pc' = "saveOn"
          /\ UNCHANGED pending
    /\ UNCHANGED <<listed, unread, queue, savingDisabled, cleanupErrors, result,
                   runs, pastes, troubles>>

\* Mutant: saving is back on, and the cleared world is not flushed.
SaveOnOnly ==
    /\ pc = "saveOn"
    /\ pc' = "resume"
    /\ Exchange("save-on", UNCHANGED cleanupErrors, cleanupErrors' = TRUE)
    /\ UNCHANGED <<listed, unread, queue, pending, savingDisabled, mainError,
                   result, runs, pastes, troubles>>

SaveOn ==
    /\ pc = "saveOn"
    /\ Exchange("save-on",
                pc' = "flushAfter" /\ UNCHANGED cleanupErrors,
                pc' = "resume" /\ cleanupErrors' = TRUE)
    /\ UNCHANGED <<listed, unread, queue, pending, savingDisabled, mainError,
                   result, runs, pastes, troubles>>

FlushAfter ==
    /\ pc = "flushAfter"
    /\ pc' = "resume"
    /\ Exchange("save-all flush", UNCHANGED cleanupErrors, cleanupErrors' = TRUE)
    /\ UNCHANGED <<listed, unread, queue, pending, savingDisabled, mainError,
                   result, runs, pastes, troubles>>

Resume ==
    /\ pc = "resume"
    /\ pc' = "report"
    /\ Exchange("ResumeTicks", UNCHANGED cleanupErrors, cleanupErrors' = TRUE)
    /\ UNCHANGED <<listed, unread, queue, pending, savingDisabled, mainError,
                   result, runs, pastes, troubles>>

\* Mutant: failures of the cleanup are not reported.
ReportIgnoresCleanup ==
    /\ pc = "report"
    /\ pc' = "idle"
    /\ result' = IF mainError THEN "failed" ELSE "cleared"
    /\ UNCHANGED <<server, listed, unread, queue, pending, savingDisabled,
                   mainError, cleanupErrors, runs, pastes, troubles>>

Report ==
    /\ pc = "report"
    /\ pc' = "idle"
    /\ result' = IF mainError \/ cleanupErrors THEN "failed" ELSE "cleared"
    /\ UNCHANGED <<server, listed, unread, queue, pending, savingDisabled,
                   mainError, cleanupErrors, runs, pastes, troubles>>

\* The compiler kills a manager that outlives its subprocess timeout.
Kill ==
    /\ pc # "idle"
    /\ pc' = "idle"
    /\ result' = "killed"
    /\ UNCHANGED <<server, listed, unread, queue, pending, savingDisabled,
                   mainError, cleanupErrors, runs, pastes, troubles>>

ManagerStep ==
    \/ Pause \/ SaveOff \/ FlushBefore
    \/ ReadRegion \/ AddPosition \/ FinishScan \/ FlushPendingBlocks
    \/ SaveOn \/ FlushAfter \/ Resume \/ Report

Next ==
    \/ StartClear
    \/ ManagerStep
    \/ Kill
    \/ RunLate \/ AutoSave \/ Paste
    \/ Crash \/ Shutdown \/ Boot \/ Rekey

Spec == Init /\ [][Next]_vars

-----------------------------------------------------------------------------
(* Properties.                                                             *)

\* A run that reports the world cleared has removed every block of every
\* region file it listed, from the live world and from disk, so the blocks do
\* not come back with a restart (ClearedStateFlushed), though the server may
\* have been stopped and started under it; only one that crashed and came back
\* between two requests can have undone a batch.  No batch on the way was more
\* than the harness accepts, and none was forgotten.  (The type invariant is
\* part.)
ListedRegionsCleared ==
    /\ TypeOK
    /\ Cardinality(pending) <= BatchLimit
    /\ result = "cleared" =>
         /\ "crashed" \notin troubles =>
              \A region \in listed : (live \cup stored) \cap In(region) = {}
         /\ pending = {} /\ queue = {} /\ unread = {}

\* While positions are read and removed no automatic save runs and no tick
\* passes; after a run that reports success the server ticks and saves again,
\* whatever earlier runs left behind when they failed or were killed.  Only a
\* restart, a crash, or a request an earlier sender gave up on can spoil either.
PausedForTheScanOnly ==
    troubles = {} =>
        /\ pc \in {"scan", "clearBatch"} /\ up => frozen /\ ~saving
        /\ result = "cleared" => ~frozen /\ saving

=============================================================================
