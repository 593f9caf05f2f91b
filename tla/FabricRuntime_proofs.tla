------------------------ MODULE FabricRuntime_proofs ------------------------
(***************************************************************************)
(* The runtime manager, for any number of manager processes, of servers,   *)
(* of commands that overlap, fail or are killed, of clears and pastes, and *)
(* for any regions, positions and batch limit.                             *)
(*                                                                         *)
(* First the clear of the world: every step of the runtime is one of       *)
(* WorldClear, so its properties rest on an invariant of WorldClear alone. *)
(* Then the life cycle of the server.                                      *)
(***************************************************************************)
EXTENDS FabricRuntime, FiniteSetTheorems, TLAPS

(***************************************************************************)
(* The clear of the world.                                                 *)
(***************************************************************************)
Requests == (Commands \X {{}}) \cup ({"WorldSetBlocks"} \X SUBSET Blocks)

\* Where the blocks of the listed regions are read and removed, and where that
\* is over.
Scanning == {"scan", "clearBatch"}
Scanned == {"saveOn", "flushAfter", "resume", "report"}

Succeeding == ~mainError /\ ~cleanupErrors

\* Batches fill one block at a time, and go out when full.
BatchesFit ==
    /\ IsFiniteSet(pending)
    /\ Cardinality(pending) <= BatchLimit
    /\ pc = "scan" => Cardinality(pending) < BatchLimit

\* Nothing is forgotten: what is left of the regions read so far is on its way.
\* Unless the server crashes, what lives is also on disk from the first flush
\* on, so no region still to be read can hide a block.
NothingForgotten ==
    /\ pc # "idle" => result # "cleared"
    /\ pc \in {"pause", "saveOff", "flushBefore"} =>
         pending = {} /\ queue = {} /\ unread = listed
    /\ (pc \in Scanned /\ ~mainError) \/ result = "cleared" =>
         pending = {} /\ queue = {} /\ unread = {}
    /\ "crashed" \notin troubles =>
         /\ pc \in Scanning =>
              /\ live \subseteq stored
              /\ \A region \in listed \ unread :
                    live \cap In(region) \subseteq queue \cup pending
         /\ pc \in Scanned /\ ~mainError =>
              \A region \in listed : live \cap In(region) = {}
         /\ (pc \in {"resume", "report"} /\ Succeeding) \/ result = "cleared" =>
              \A region \in listed : (live \cup stored) \cap In(region) = {}

\* What the requests answered so far have done to ticks and saving, if nothing
\* else befell the server.
Paused ==
    troubles = {} =>
        /\ pc \notin {"idle", "pause", "report"} => up /\ frozen
        /\ pc \in {"flushBefore"} \cup Scanning => ~saving
        /\ pc = "flushAfter" => saving
        /\ pc \in {"resume", "report"} /\ Succeeding => saving
        /\ pc = "report" /\ Succeeding => ~frozen
        /\ result = "cleared" => ~frozen /\ saving

ClearInv == TypeOK /\ BatchesFit /\ NothingForgotten /\ Paused

-----------------------------------------------------------------------------
\* What requests and saves may do to the blocks: live ones go, and the files
\* are left alone or follow the live world.
Shrinks == live' \subseteq live /\ stored' \in {stored, live}

ServerTyped ==
    /\ up \in BOOLEAN /\ authentic \in BOOLEAN /\ frozen \in BOOLEAN /\ saving \in BOOLEAN
    /\ live \subseteq Blocks
    /\ files \subseteq Regions
    /\ stored \subseteq files \X Positions

LEMMA SaveTyped ==
    ASSUME TypeOK, Save
    PROVE  files' \subseteq Regions /\ stored' \subseteq files' \X Positions
BY DEF TypeOK, Save, Blocks, Regions

\* The frozen and saving flags after a request.
LEMMA ExecuteFlags ==
    ASSUME NEW request, Execute(request)
    PROVE  /\ frozen' = IF request[1] = "PauseTicks" THEN TRUE
                        ELSE IF request[1] = "ResumeTicks" THEN FALSE ELSE frozen
           /\ saving' = IF request[1] = "save-off" THEN FALSE
                        ELSE IF request[1] = "save-on" THEN TRUE ELSE saving
<1>1. CASE request[1] = "PauseTicks"
  BY <1>1, Zenon DEF Execute
<1>2. CASE request[1] = "ResumeTicks"
  BY <1>2, Zenon DEF Execute
<1>3. CASE request[1] = "save-off"
  BY <1>3, Zenon DEF Execute
<1>4. CASE request[1] = "save-on"
  BY <1>4, Zenon DEF Execute
<1>5. CASE request[1] \notin {"PauseTicks", "ResumeTicks", "save-off", "save-on"}
  BY <1>5, Zenon DEF Execute
<1> QED
  BY <1>1, <1>2, <1>3, <1>4, <1>5

LEMMA ExecuteEffect ==
    ASSUME TypeOK, NEW request \in Requests, Execute(request)
    PROVE  Shrinks /\ ServerTyped' /\ UNCHANGED <<up, authentic>>
<1>1. frozen' \in BOOLEAN /\ saving' \in BOOLEAN
  BY ExecuteFlags DEF TypeOK
<1>2. live' \subseteq live /\ UNCHANGED <<up, authentic>>
  BY DEF Execute
<1>3. \/ Save
      \/ UNCHANGED <<files, stored>>
  BY DEF Execute
<1>4. CASE Save
  BY <1>1, <1>2, <1>4, SaveTyped DEF Shrinks, ServerTyped, TypeOK, Save
<1>5. CASE UNCHANGED <<files, stored>>
  BY <1>1, <1>2, <1>5 DEF Shrinks, ServerTyped, TypeOK
<1> QED
  BY <1>3, <1>4, <1>5

\* An exchange of the manager: the request ran, or it has not run yet.
LEMMA ExchangeEffect ==
    ASSUME TypeOK, NEW request \in Requests, Answered(request) \/ Unanswered(request)
    PROVE  /\ Shrinks /\ ServerTyped' /\ UNCHANGED <<up, authentic>>
           /\ late' \subseteq Requests
<1>1. late \subseteq Requests
  BY DEF TypeOK, Requests
<1>2. CASE Answered(request)
  BY <1>1, <1>2, ExecuteEffect DEF Answered
<1>3. CASE Unanswered(request)
  BY <1>1, <1>3 DEF Unanswered, Shrinks, ServerTyped, TypeOK
<1> QED
  BY <1>2, <1>3

\* While only the server moves and does not crash, nothing comes back.
LEMMA ServerKeepsClear ==
    ASSUME ClearInv, Shrinks, ServerTyped', late' \subseteq Requests,
           UNCHANGED <<manager, runs, pastes>>,
           troubles' \in {troubles \cup {"late"}, troubles \cup {"stopped"}, troubles},
           troubles' = {} =>
               /\ up => up'
               /\ frozen' = frozen /\ saving' = saving
    PROVE  ClearInv'
<1>1. TypeOK'
  BY DEF ClearInv, TypeOK, ServerTyped, Requests, manager
<1>2. BatchesFit'
  BY DEF ClearInv, BatchesFit, manager
<1>3. NothingForgotten'
  <2>1. "crashed" \notin troubles' => "crashed" \notin troubles
    OBVIOUS
  <2>2. live \subseteq stored => live' \subseteq stored'
    BY DEF Shrinks
  <2>3. (live' \cup stored') \subseteq live \cup stored
    BY DEF Shrinks
  <2>4. pc' = pc /\ result' = result /\ pending' = pending /\ queue' = queue
        /\ unread' = unread /\ listed' = listed
    BY DEF manager
  <2>5. (Succeeding' <=> Succeeding) /\ (mainError' <=> mainError)
    BY DEF manager, Succeeding
  <2> QED
    BY <2>1, <2>2, <2>3, <2>4, <2>5 DEF ClearInv, NothingForgotten, Shrinks
<1>4. Paused'
  <2>1. CASE troubles' = {}
    <3>1. troubles = {}
      BY <2>1
    <3> QED
      BY <2>1, <3>1 DEF ClearInv, Paused, manager, Succeeding, TypeOK
  <2>2. CASE troubles' # {}
    BY <2>2 DEF Paused
  <2> QED
    BY <2>1, <2>2
<1> QED
  BY <1>1, <1>2, <1>3, <1>4 DEF ClearInv

LEMMA CrashKeepsClear ==
    ASSUME ClearInv, Crash
    PROVE  ClearInv'
<1>1. TypeOK'
  BY DEF ClearInv, TypeOK, Crash, Goes, manager, Blocks, Regions
<1>2. BatchesFit'
  BY DEF ClearInv, BatchesFit, Crash, Goes, manager
<1>3. "crashed" \in troubles'
  BY DEF Crash, Goes
<1>4. NothingForgotten'
  BY <1>3 DEF ClearInv, NothingForgotten, Crash, Goes, manager
<1>5. Paused'
  BY <1>3 DEF Paused
<1> QED
  BY <1>1, <1>2, <1>4, <1>5 DEF ClearInv

LEMMA ServerStepsKeepClear ==
    ASSUME ClearInv, RunLate \/ AutoSave \/ Shutdown \/ Boot \/ Rekey
    PROVE  ClearInv'
<1> USE DEF ClearInv
<1>0. late \subseteq Requests
  BY DEF TypeOK, Requests
<1>1. CASE RunLate
  <2>1. PICK request \in late : Execute(request) /\ late' = late \ {request}
    BY <1>1 DEF RunLate
  <2>2. Shrinks /\ ServerTyped' /\ late' \subseteq Requests
    BY <1>0, <2>1, ExecuteEffect
  <2>3. troubles' = troubles \cup {"late"} /\ UNCHANGED <<manager, runs, pastes>>
    BY <1>1 DEF RunLate
  <2> QED
    BY <2>2, <2>3, ServerKeepsClear
<1>2. CASE AutoSave
  <2>1. Shrinks /\ ServerTyped'
    BY <1>2, SaveTyped DEF AutoSave, Save, Shrinks, ServerTyped, TypeOK
  <2> QED
    BY <1>0, <1>2, <2>1, ServerKeepsClear DEF AutoSave
<1>3. CASE Shutdown
  <2>1. Shrinks /\ ServerTyped'
    BY <1>3, SaveTyped DEF Shutdown, Goes, Save, Shrinks, ServerTyped, TypeOK
  <2>2. late' \subseteq Requests /\ UNCHANGED <<manager, runs, pastes>>
        /\ troubles' = troubles \cup {"stopped"}
    BY <1>3 DEF Shutdown, Goes
  <2> QED
    BY <2>1, <2>2, ServerKeepsClear
<1>4. CASE Boot
  <2>1. Shrinks /\ ServerTyped'
    BY <1>4 DEF Boot, Shrinks, ServerTyped, TypeOK
  <2> QED
    BY <1>0, <1>4, <2>1, ServerKeepsClear DEF Boot
<1>5. CASE Rekey
  <2>1. Shrinks /\ ServerTyped'
    BY <1>5 DEF Rekey, Shrinks, ServerTyped, TypeOK
  <2> QED
    BY <1>0, <1>5, <2>1, ServerKeepsClear DEF Rekey
<1> QED
  BY <1>1, <1>2, <1>3, <1>4, <1>5

LEMMA PasteKeepsClear ==
    ASSUME ClearInv, Paste
    PROVE  ClearInv'
<1> USE WorldAssumption
<1>1. TypeOK'
  BY DEF ClearInv, TypeOK, Paste
<1>2. BatchesFit' /\ NothingForgotten' /\ Paused'
  BY DEF ClearInv, BatchesFit, NothingForgotten, Paused, Succeeding, Paste,
         Scanning, Scanned
<1> QED
  BY <1>1, <1>2 DEF ClearInv

-----------------------------------------------------------------------------
\* What a step of the manager leaves for the invariant to show: its own part.
LEMMA TypeAfterExchange ==
    ASSUME TypeOK, NEW request \in Requests, Answered(request) \/ Unanswered(request),
           UNCHANGED <<listed, unread, queue, result, runs, pastes, troubles>>,
           pc' \in Scanning \cup Scanned \cup {"saveOff", "flushBefore"},
           pending' \in {pending, {}},
           savingDisabled' \in BOOLEAN, mainError' \in BOOLEAN, cleanupErrors' \in BOOLEAN
    PROVE  TypeOK'
<1>1. ServerTyped' /\ late' \subseteq Requests
  BY ExchangeEffect
<1>2. /\ pc' \in {"idle", "pause", "saveOff", "flushBefore", "scan", "clearBatch",
                  "saveOn", "flushAfter", "resume", "report"}
  BY DEF Scanning, Scanned
<1> QED
  BY <1>1, <1>2 DEF TypeOK, ServerTyped, Requests

LEMMA PauseKeepsClear ==
    ASSUME ClearInv, Pause
    PROVE  ClearInv'
<1> DEFINE request == <<"PauseTicks", {}>>
<1>1. request \in Requests /\ request[1] = "PauseTicks"
  BY DEF Requests, Commands
<1>2. \/ Answered(request) /\ pc' = "saveOff" /\ UNCHANGED result
      \/ Unanswered(request) /\ pc' = "idle" /\ result' = "failed"
  BY DEF Pause, Exchange
<1>3. /\ pc = "pause"
      /\ UNCHANGED <<listed, unread, queue, pending, savingDisabled, mainError,
                     cleanupErrors, runs, pastes, troubles>>
  BY DEF Pause
<1>4. ServerTyped' /\ late' \subseteq Requests
  BY <1>1, <1>2, ExchangeEffect DEF ClearInv
<1>5. Answered(request) => up /\ up' = up /\ frozen'
  BY <1>1, ExecuteFlags, ExecuteEffect DEF Answered, ClearInv
<1> HIDE DEF request
<1>6. TypeOK'
  BY <1>2, <1>3, <1>4 DEF ClearInv, TypeOK, ServerTyped, Requests
<1>7. BatchesFit'
  BY <1>2, <1>3 DEF ClearInv, BatchesFit
<1>8. NothingForgotten'
  BY <1>2, <1>3 DEF ClearInv, NothingForgotten, Scanning, Scanned, Succeeding
<1>9. Paused'
  BY <1>2, <1>3, <1>5 DEF ClearInv, Paused, Scanning, NothingForgotten
<1> QED
  BY <1>6, <1>7, <1>8, <1>9 DEF ClearInv

LEMMA SaveOffKeepsClear ==
    ASSUME ClearInv, SaveOff
    PROVE  ClearInv'
<1> DEFINE request == <<"save-off", {}>>
<1>1. request \in Requests /\ request[1] = "save-off"
  BY DEF Requests, Commands
<1>2. \/ Answered(request) /\ pc' = "flushBefore" /\ UNCHANGED mainError
      \/ Unanswered(request) /\ pc' = "resume" /\ mainError' = TRUE
  BY DEF SaveOff, Exchange
<1>3. /\ pc = "saveOff"
      /\ UNCHANGED <<listed, unread, queue, pending, cleanupErrors, result, runs,
                     pastes, troubles>>
      /\ savingDisabled' \in {TRUE, savingDisabled}
  BY DEF SaveOff, Exchange
<1>4. up' = up
  BY <1>1, <1>2, ExchangeEffect DEF ClearInv
<1>5. /\ Answered(request) => ~saving' /\ frozen' = frozen
      /\ Unanswered(request) => frozen' = frozen
  BY <1>1, ExecuteFlags DEF Answered, Unanswered
<1> HIDE DEF request
<1>6. TypeOK'
  BY <1>1, <1>2, <1>3, TypeAfterExchange DEF ClearInv, TypeOK, Scanned
<1>7. BatchesFit'
  BY <1>2, <1>3 DEF ClearInv, BatchesFit
<1>8. NothingForgotten'
  BY <1>2, <1>3 DEF ClearInv, NothingForgotten, Scanning, Scanned, Succeeding
<1>9. Paused'
  <2>1. result' # "cleared"
    BY <1>3 DEF ClearInv, NothingForgotten
  <2>2. CASE Answered(request) /\ pc' = "flushBefore"
    BY <1>3, <1>4, <1>5, <2>1, <2>2 DEF ClearInv, Paused, Scanning
  <2>3. CASE Unanswered(request) /\ pc' = "resume" /\ mainError'
    BY <1>3, <1>4, <1>5, <2>1, <2>3 DEF ClearInv, Paused, Scanning, Succeeding
  <2> QED
    BY <1>2, <2>2, <2>3
<1> QED
  BY <1>6, <1>7, <1>8, <1>9 DEF ClearInv

LEMMA FlushBeforeKeepsClear ==
    ASSUME ClearInv, FlushBefore
    PROVE  ClearInv'
<1> USE WorldAssumption
<1> DEFINE request == <<"save-all flush", {}>>
<1>1. request \in Requests /\ request[1] = "save-all flush" /\ request[2] = {}
  BY DEF Requests, Commands
<1>2. \/ Answered(request) /\ pc' = "scan" /\ UNCHANGED mainError
      \/ Unanswered(request) /\ pc' = "saveOn" /\ mainError' = TRUE
  BY DEF FlushBefore, Exchange
<1>3. /\ pc = "flushBefore"
      /\ UNCHANGED <<listed, unread, queue, pending, savingDisabled, cleanupErrors,
                     result, runs, pastes, troubles>>
  BY DEF FlushBefore
<1>4. up' = up
  BY <1>1, <1>2, ExchangeEffect DEF ClearInv
<1>5. frozen' = frozen /\ saving' = saving
  BY <1>1, <1>2, ExecuteFlags DEF Answered, Unanswered
<1>6. Answered(request) => live' \subseteq stored'
  BY <1>1 DEF Answered, Execute, Save
<1> HIDE DEF request
<1>7. TypeOK'
  BY <1>1, <1>2, <1>3, TypeAfterExchange DEF ClearInv, TypeOK, Scanned, Scanning
<1>8. BatchesFit'
  <2>1. Cardinality({}) = 0
    BY FS_EmptySet
  <2>2. pending' = {}
    BY <1>3 DEF ClearInv, NothingForgotten
  <2> QED
    BY <1>3, <2>1, <2>2 DEF ClearInv, BatchesFit
<1>9. NothingForgotten'
  BY <1>2, <1>3, <1>6 DEF ClearInv, NothingForgotten, Scanning, Scanned, Succeeding
<1>10. Paused'
  BY <1>2, <1>3, <1>4, <1>5 DEF ClearInv, Paused, Scanning, Succeeding, NothingForgotten
<1> QED
  BY <1>7, <1>8, <1>9, <1>10 DEF ClearInv

LEMMA ReadRegionKeepsClear ==
    ASSUME ClearInv, ReadRegion
    PROVE  ClearInv'
<1>1. PICK region \in unread : unread' = unread \ {region} /\ queue' = stored \cap In(region)
  BY DEF ReadRegion
<1>2. /\ pc = "scan" /\ pc' = "scan" /\ queue = {}
      /\ UNCHANGED <<server, listed, pending, savingDisabled, mainError, cleanupErrors,
                     result, runs, pastes, troubles>>
  BY DEF ReadRegion
<1>3. TypeOK'
  <2>1. queue' \subseteq Blocks
    BY <1>1 DEF ClearInv, TypeOK, Blocks
  <2> QED
    BY <1>1, <1>2, <2>1 DEF ClearInv, TypeOK, server
<1>4. BatchesFit'
  BY <1>2 DEF ClearInv, BatchesFit
<1>5. NothingForgotten'
  BY <1>1, <1>2 DEF ClearInv, NothingForgotten, Scanning, Scanned, Succeeding, server
<1>6. Paused'
  BY <1>2 DEF ClearInv, Paused, Scanning, Succeeding, server
<1> QED
  BY <1>3, <1>4, <1>5, <1>6 DEF ClearInv

LEMMA AddPositionKeepsClear ==
    ASSUME ClearInv, AddPosition
    PROVE  ClearInv'
<1> USE WorldAssumption
<1>1. PICK block \in queue :
        /\ queue' = queue \ {block}
        /\ pending' = pending \cup {block}
        /\ pc' = IF Cardinality(pending') = BatchLimit THEN "clearBatch" ELSE "scan"
  BY DEF AddPosition
<1>2. /\ pc = "scan"
      /\ UNCHANGED <<server, listed, unread, savingDisabled, mainError, cleanupErrors,
                     result, runs, pastes, troubles>>
  BY DEF AddPosition
<1>3. TypeOK'
  BY <1>1, <1>2 DEF ClearInv, TypeOK, server
<1>4. BatchesFit'
  <2>1. IsFiniteSet(pending) /\ Cardinality(pending) < BatchLimit
    BY <1>2 DEF ClearInv, BatchesFit
  <2>2. /\ IsFiniteSet(pending')
        /\ Cardinality(pending') = IF block \in pending THEN Cardinality(pending)
                                                        ELSE Cardinality(pending) + 1
    BY <1>1, <2>1, FS_AddElement
  <2>3. Cardinality(pending) \in Nat
    BY <2>1, FS_CardinalityType
  <2> QED
    BY <1>1, <2>1, <2>2, <2>3 DEF BatchesFit
<1>5. NothingForgotten'
  BY <1>1, <1>2 DEF ClearInv, NothingForgotten, Scanning, Scanned, Succeeding, server
<1>6. Paused'
  BY <1>1, <1>2 DEF ClearInv, Paused, Scanning, Succeeding, server
<1> QED
  BY <1>3, <1>4, <1>5, <1>6 DEF ClearInv

LEMMA FinishScanKeepsClear ==
    ASSUME ClearInv, FinishScan
    PROVE  ClearInv'
<1>1. /\ pc = "scan" /\ queue = {} /\ unread = {}
      /\ pc' = IF pending = {} THEN "saveOn" ELSE "clearBatch"
      /\ UNCHANGED <<server, listed, unread, queue, pending, savingDisabled, mainError,
                     cleanupErrors, result, runs, pastes, troubles>>
  BY DEF FinishScan
<1>2. TypeOK'
  BY <1>1 DEF ClearInv, TypeOK, server
<1>3. BatchesFit'
  BY <1>1 DEF ClearInv, BatchesFit
<1>4. NothingForgotten'
  BY <1>1 DEF ClearInv, NothingForgotten, Scanning, Scanned, Succeeding, server
<1>5. Paused'
  BY <1>1 DEF ClearInv, Paused, Scanning, Succeeding, server
<1> QED
  BY <1>2, <1>3, <1>4, <1>5 DEF ClearInv

LEMMA FlushPendingBlocksKeepsClear ==
    ASSUME ClearInv, FlushPendingBlocks
    PROVE  ClearInv'
<1> USE WorldAssumption
<1> DEFINE request == <<"WorldSetBlocks", pending>>
<1>1. request \in Requests /\ request[1] = "WorldSetBlocks" /\ request[2] = pending
  BY DEF Requests, ClearInv, TypeOK
<1>2. \/ Answered(request) /\ pending' = {} /\ pc' = "scan" /\ UNCHANGED mainError
      \/ Unanswered(request) /\ mainError' = TRUE /\ pc' = "saveOn" /\ UNCHANGED pending
  BY DEF FlushPendingBlocks
<1>3. /\ pc = "clearBatch"
      /\ UNCHANGED <<listed, unread, queue, savingDisabled, cleanupErrors, result,
                     runs, pastes, troubles>>
  BY DEF FlushPendingBlocks
<1>4. up' = up /\ Shrinks
  BY <1>1, <1>2, ExchangeEffect DEF ClearInv
<1>5. frozen' = frozen /\ saving' = saving
  BY <1>1, <1>2, ExecuteFlags DEF Answered, Unanswered
<1>6. Answered(request) => live' = live \ pending /\ stored' = stored
  BY <1>1 DEF Answered, Execute
<1> HIDE DEF request
<1>7. TypeOK'
  BY <1>1, <1>2, <1>3, TypeAfterExchange DEF ClearInv, TypeOK, Scanned, Scanning
<1>8. BatchesFit'
  <2>1. Cardinality({}) = 0 /\ IsFiniteSet({})
    BY FS_EmptySet
  <2>2. CASE pending' = {}
    BY <2>1, <2>2 DEF BatchesFit
  <2>3. CASE pending' = pending /\ pc' = "saveOn"
    BY <2>3 DEF ClearInv, BatchesFit
  <2> QED
    BY <1>2, <2>2, <2>3
<1>9. NothingForgotten'
  <2>1. CASE Answered(request) /\ pending' = {} /\ pc' = "scan"
    BY <1>3, <1>6, <2>1 DEF ClearInv, NothingForgotten, Scanning, Scanned
  <2>2. CASE mainError' = TRUE /\ pc' = "saveOn"
    BY <1>3, <2>2 DEF ClearInv, NothingForgotten, Scanning, Scanned
  <2> QED
    BY <1>2, <2>1, <2>2
<1>10. Paused'
  BY <1>2, <1>3, <1>4, <1>5 DEF ClearInv, Paused, Scanning, Succeeding, NothingForgotten
<1> QED
  BY <1>7, <1>8, <1>9, <1>10 DEF ClearInv

LEMMA SaveOnKeepsClear ==
    ASSUME ClearInv, SaveOn
    PROVE  ClearInv'
<1> DEFINE request == <<"save-on", {}>>
<1>1. request \in Requests /\ request[1] = "save-on"
  BY DEF Requests, Commands
<1>2. \/ Answered(request) /\ pc' = "flushAfter" /\ UNCHANGED cleanupErrors
      \/ Unanswered(request) /\ pc' = "resume" /\ cleanupErrors' = TRUE
  BY DEF SaveOn, Exchange
<1>3. /\ pc = "saveOn"
      /\ UNCHANGED <<listed, unread, queue, pending, savingDisabled, mainError, result,
                     runs, pastes, troubles>>
  BY DEF SaveOn
<1>4. up' = up /\ Shrinks
  BY <1>1, <1>2, ExchangeEffect DEF ClearInv
<1>5. frozen' = frozen /\ (Answered(request) => saving')
  BY <1>1, <1>2, ExecuteFlags DEF Answered, Unanswered
<1> HIDE DEF request
<1>6. TypeOK'
  BY <1>1, <1>2, <1>3, TypeAfterExchange DEF ClearInv, TypeOK, Scanned, Scanning
<1>7. BatchesFit'
  BY <1>2, <1>3 DEF ClearInv, BatchesFit
<1>8. NothingForgotten'
  BY <1>2, <1>3, <1>4 DEF ClearInv, NothingForgotten, Scanning, Scanned, Succeeding, Shrinks
<1>9. Paused'
  BY <1>2, <1>3, <1>4, <1>5 DEF ClearInv, Paused, Scanning, Succeeding, NothingForgotten
<1> QED
  BY <1>6, <1>7, <1>8, <1>9 DEF ClearInv

LEMMA FlushAfterKeepsClear ==
    ASSUME ClearInv, FlushAfter
    PROVE  ClearInv'
<1> DEFINE request == <<"save-all flush", {}>>
<1>1. request \in Requests /\ request[1] = "save-all flush" /\ request[2] = {}
  BY DEF Requests, Commands
<1>2. \/ Answered(request) /\ UNCHANGED cleanupErrors
      \/ Unanswered(request) /\ cleanupErrors' = TRUE
  BY DEF FlushAfter, Exchange
<1>3. /\ pc = "flushAfter" /\ pc' = "resume"
      /\ UNCHANGED <<listed, unread, queue, pending, savingDisabled, mainError, result,
                     runs, pastes, troubles>>
  BY DEF FlushAfter
<1>4. up' = up /\ Shrinks
  BY <1>1, <1>2, ExchangeEffect DEF ClearInv
<1>5. frozen' = frozen /\ saving' = saving
  BY <1>1, <1>2, ExecuteFlags DEF Answered, Unanswered
<1>6. Answered(request) => stored' = live
  BY <1>1 DEF Answered, Execute, Save
<1> HIDE DEF request
<1>7. TypeOK'
  BY <1>1, <1>2, <1>3, TypeAfterExchange DEF ClearInv, TypeOK, Scanned, Scanning
<1>8. BatchesFit'
  BY <1>2, <1>3 DEF ClearInv, BatchesFit
<1>9. NothingForgotten'
  BY <1>2, <1>3, <1>4, <1>6
     DEF ClearInv, NothingForgotten, Scanning, Scanned, Succeeding, Shrinks
<1>10. Paused'
  BY <1>2, <1>3, <1>4, <1>5 DEF ClearInv, Paused, Scanning, Succeeding, NothingForgotten
<1> QED
  BY <1>7, <1>8, <1>9, <1>10 DEF ClearInv

LEMMA ResumeKeepsClear ==
    ASSUME ClearInv, Resume
    PROVE  ClearInv'
<1> DEFINE request == <<"ResumeTicks", {}>>
<1>1. request \in Requests /\ request[1] = "ResumeTicks"
  BY DEF Requests, Commands
<1>2. \/ Answered(request) /\ UNCHANGED cleanupErrors
      \/ Unanswered(request) /\ cleanupErrors' = TRUE
  BY DEF Resume, Exchange
<1>3. /\ pc = "resume" /\ pc' = "report"
      /\ UNCHANGED <<listed, unread, queue, pending, savingDisabled, mainError, result,
                     runs, pastes, troubles>>
  BY DEF Resume
<1>4. Shrinks
  BY <1>1, <1>2, ExchangeEffect DEF ClearInv
<1>5. saving' = saving /\ (Answered(request) => ~frozen')
  BY <1>1, <1>2, ExecuteFlags DEF Answered, Unanswered
<1> HIDE DEF request
<1>6. TypeOK'
  BY <1>1, <1>2, <1>3, TypeAfterExchange DEF ClearInv, TypeOK, Scanned, Scanning
<1>7. BatchesFit'
  BY <1>2, <1>3 DEF ClearInv, BatchesFit
<1>8. NothingForgotten'
  BY <1>2, <1>3, <1>4
     DEF ClearInv, NothingForgotten, Scanning, Scanned, Succeeding, Shrinks
<1>9. Paused'
  BY <1>2, <1>3, <1>5 DEF ClearInv, Paused, Scanning, Succeeding, NothingForgotten
<1> QED
  BY <1>6, <1>7, <1>8, <1>9 DEF ClearInv

LEMMA StartClearKeepsClear ==
    ASSUME ClearInv, StartClear
    PROVE  ClearInv'
<1> USE WorldAssumption
<1>1. /\ pc = "idle" /\ runs < MaxRuns /\ runs' = runs + 1
      /\ troubles' = {} /\ ~savingDisabled' /\ ~mainError' /\ ~cleanupErrors'
      /\ savingDisabled' \in BOOLEAN /\ mainError' \in BOOLEAN /\ cleanupErrors' \in BOOLEAN
      /\ queue' = {} /\ pending' = {}
      /\ UNCHANGED <<server, pastes>>
  BY DEF StartClear
<1>2. \/ result' = "failed" /\ UNCHANGED <<pc, listed, unread>>
      \/ /\ UnsupportedRegions = {}
         /\ listed' = files /\ unread' = files /\ pc' = "pause" /\ result' = "none"
  BY DEF StartClear
<1>3. TypeOK'
  <2>1. UnsupportedRegions = {} => files \subseteq Overworld
    BY DEF UnsupportedRegions, ClearInv, TypeOK, Regions
  <2>2. runs' \in 0 .. MaxRuns
    BY <1>1 DEF ClearInv, TypeOK
  <2> QED
    BY <1>1, <1>2, <2>1, <2>2 DEF ClearInv, TypeOK, server
<1>4. BatchesFit'
  <2>1. Cardinality({}) = 0 /\ IsFiniteSet({})
    BY FS_EmptySet
  <2> QED
    BY <1>1, <2>1 DEF BatchesFit
<1>5. NothingForgotten'
  BY <1>1, <1>2 DEF NothingForgotten, Scanning, Scanned
<1>6. Paused'
  BY <1>1, <1>2 DEF Paused, Scanning
<1> QED
  BY <1>3, <1>4, <1>5, <1>6 DEF ClearInv

LEMMA ReportKeepsClear ==
    ASSUME ClearInv, Report \/ Kill
    PROVE  ClearInv'
<1>1. /\ pc' = "idle"
      /\ UNCHANGED <<server, listed, unread, queue, pending, savingDisabled, mainError,
                     cleanupErrors, runs, pastes, troubles>>
      /\ result' \in {"failed", "cleared", "killed"}
      /\ result' = "cleared" => pc = "report" /\ Succeeding
  BY DEF Report, Kill, Succeeding
<1>2. TypeOK'
  BY <1>1 DEF ClearInv, TypeOK, server
<1>3. BatchesFit'
  BY <1>1 DEF ClearInv, BatchesFit
<1>4. NothingForgotten'
  BY <1>1 DEF ClearInv, NothingForgotten, Scanning, Scanned, Succeeding, server
<1>5. Paused'
  BY <1>1 DEF ClearInv, Paused, Scanning, Succeeding, server
<1> QED
  BY <1>2, <1>3, <1>4, <1>5 DEF ClearInv

LEMMA NextClearInv == ClearInv /\ [Next]_vars => ClearInv'
<1>1. ClearInv /\ UNCHANGED vars => ClearInv'
  BY DEF vars, server, manager, ClearInv, TypeOK, BatchesFit, NothingForgotten, Paused,
         Scanning, Scanned, Succeeding
<1> QED
  BY <1>1, ServerStepsKeepClear, CrashKeepsClear, PasteKeepsClear, StartClearKeepsClear,
     PauseKeepsClear, SaveOffKeepsClear, FlushBeforeKeepsClear, ReadRegionKeepsClear,
     AddPositionKeepsClear, FinishScanKeepsClear, FlushPendingBlocksKeepsClear,
     SaveOnKeepsClear, FlushAfterKeepsClear, ResumeKeepsClear, ReportKeepsClear
  DEF Next, ManagerStep

LEMMA InitClearInv == RuntimeInit => ClearInv
<1> SUFFICES ASSUME RuntimeInit PROVE ClearInv
  OBVIOUS
<1>1. WorldInit /\ up \in BOOLEAN /\ authentic \in BOOLEAN
  BY DEF RuntimeInit, Up, Authentic
<1>2. runs \in 0 .. MaxRuns /\ pastes \in 0 .. MaxPastes
  <2>1. PICK load \in Loads : runs = MaxRuns - load.clears /\ pastes = MaxPastes - load.pastes
    BY DEF RuntimeInit
  <2> QED
    BY <2>1, LoadsAssumption, WorldAssumption
<1>3. TypeOK
  BY <1>1, <1>2 DEF TypeOK, WorldInit
<1>4. BatchesFit
  <2>1. Cardinality({}) = 0 /\ IsFiniteSet({})
    BY FS_EmptySet
  <2> QED
    BY <1>1, <2>1, WorldAssumption DEF WorldInit, BatchesFit
<1>5. NothingForgotten /\ Paused
  BY <1>1 DEF WorldInit, NothingForgotten, Paused, Scanning, Scanned
<1> QED
  BY <1>3, <1>4, <1>5 DEF ClearInv

\* Whatever the servers do, the world sees a step of its own or none.
LEMMA WorldFollowsNext ==
    ASSUME TypeOK, WorldFollows
    PROVE  [Next]_vars
<1>1. up \in BOOLEAN /\ up' \in BOOLEAN
  BY DEF WorldFollows, TypeOK, Up
<1>2. CASE up /\ ~up'
  BY <1>2 DEF WorldFollows, Next
<1>3. CASE ~up /\ up'
  BY <1>3 DEF WorldFollows, Next
<1>4. CASE up = up'
  BY <1>4 DEF WorldFollows, Next
<1> QED
  BY <1>1, <1>2, <1>3, <1>4

LEMMA RuntimeNextIsWorldNext == TypeOK /\ [RuntimeNext]_runtime => [Next]_vars
<1> SUFFICES ASSUME TypeOK, [RuntimeNext]_runtime PROVE [Next]_vars
  OBVIOUS
<1>1. ASSUME NEW m \in Managers, ClearBegins(m) PROVE [Next]_vars
  BY <1>1 DEF ClearBegins, Next
<1>2. ASSUME NEW m \in Managers, ClearGoesOn(m) PROVE [Next]_vars
  BY <1>2 DEF ClearGoesOn, Next
<1>3. ASSUME NEW m \in Managers, Killed(m) PROVE [Next]_vars
  BY <1>3 DEF Killed, Next
<1>4. UNCHANGED runtime => UNCHANGED vars
  BY DEF runtime
<1>5. RunLate \/ AutoSave \/ Paste => [Next]_vars
  BY DEF Next
<1> QED
  BY <1>1, <1>2, <1>3, <1>4, <1>5, WorldFollowsNext DEF RuntimeNext

LEMMA ClearInvHolds == RuntimeSpec => []ClearInv
<1>1. ClearInv => TypeOK
  BY DEF ClearInv
<1>2. ClearInv /\ [RuntimeNext]_runtime => ClearInv'
  BY <1>1, NextClearInv, RuntimeNextIsWorldNext
<1> QED
  BY <1>2, InitClearInv, PTL DEF RuntimeSpec

\* A run of the manager that reports the world cleared has removed every block
\* of every region file it listed, live and on disk, although the server may
\* have been stopped, restarted or rekeyed under it, requests of earlier runs
\* may still have run, and automatic saves gone on.
THEOREM ListedRegionsAreCleared == RuntimeSpec => []ListedRegionsCleared
<1>1. ClearInv => ListedRegionsCleared
  BY DEF ClearInv, BatchesFit, NothingForgotten, ListedRegionsCleared
<1> QED
  BY <1>1, ClearInvHolds, PTL

\* Undisturbed, positions are read and removed with ticks and saving stopped,
\* and a run that reports success leaves both on, whatever earlier runs did.
THEOREM PausesForTheScan == RuntimeSpec => []PausedForTheScanOnly
<1>1. ClearInv => PausedForTheScanOnly
  BY DEF ClearInv, Paused, PausedForTheScanOnly, Scanning
<1> QED
  BY <1>1, ClearInvHolds, PTL

(***************************************************************************)
(* The life cycle of the server.  What a command that nothing disturbs     *)
(* knows of the servers at each of its steps: with no one else at work,    *)
(* servers only go, except for the one that the command launches itself.   *)
(***************************************************************************)
Phases == {"gone", "booting", "serving", "stopping"}
Works ==
    [command : Actions,
     then : {"assessClear", "assess", "prepare", "report", "clear", "remove", "forget"},
     pid : 0 .. MaxTokens, method : Methods, own : 0 .. MaxTokens,
     edit : {"keep", "record", "remove"},
     outcome : {"none", "running", "started", "stopped", "notStopped", "failed"}]

\* Only a host with user services has a server that one has launched.
ServiceMethods ==
    /\ state.method = "user-service" => service
    /\ \A m \in Managers : work[m].method = "user-service" => service

OneServer == \A p, q \in AliveServers : p = q
OnlyServer(pid) == AliveServers \subseteq {pid}
NoneServes == \A pid \in Tokens : jvm[pid] \notin {"booting", "serving"}

\* The server on record serves, with the token on disk.
Accepted ==
    \E pid \in Tokens : Serving(pid) /\ loaded[pid] = tokenFile /\ state.pid = pid

\* What a status read in the course of a command is for.
StatusPurpose(w) ==
    \/ w.then = "assess" /\ w.command = "start"
    \/ w.then = "prepare" /\ w.command = "start" /\ AliveServers = {}
    \/ w.then = "report" /\ w.command = "start" /\ w.outcome = "started" /\ Accepted
    \/ /\ w.then = "report" /\ w.command = "stop"
       /\ (w.outcome = "stopped" /\ AliveServers = {}) \/ w.outcome = "notStopped"

Stopping(w) == w.then = "remove" /\ w.outcome \in {"stopped", "notStopped"}

Place(w, step) ==
    /\ step \notin {"idle", "assessClear", "clear"}
    /\ step \in {"status", "statusWrite"} => StatusPurpose(w)
    /\ step = "statusWrite" =>
         /\ OnlyServer(w.pid)
         /\ w.edit = "keep" => state.pid = w.pid
         /\ w.edit = "remove" => w.pid = 0
    /\ step \in {"assess", "probe"} =>
         w.then = "assess" /\ w.command = "start" /\ OnlyServer(w.pid) /\ state.pid = w.pid
    /\ step = "stop" /\ w.command = "start" => OnlyServer(state.pid)
    /\ step \in {"ask", "awaitExit", "terminate"} =>
         OnlyServer(w.pid) /\ w.then = "remove" /\ w.outcome = "stopped"
    /\ step = "awaitKill" =>
         OnlyServer(w.pid) /\ NoneServes /\ w.then = "remove" /\ w.outcome = "stopped"
    /\ step = "unitStops" =>
         OnlyServer(w.pid) /\ (Stopping(w) \/ (w.then = "forget" /\ w.command = "start"))
    /\ step = "remove" =>
         /\ Stopping(w)
         /\ w.command = "start" \/ w.outcome = "stopped" => AliveServers = {}
    /\ step \in {"prepare", "configure", "launch"} =>
         w.command = "start" /\ AliveServers = {}
    /\ step = "record" => w.command = "start" /\ OnlyServer(w.own)
    /\ step \in {"await", "quiet", "undo"} =>
         w.command = "start" /\ OnlyServer(w.own) /\ state.pid = w.own
    /\ step = "forget" => w.command = "start" /\ NoneServes
    /\ step = "report" =>
         /\ w.outcome \in {"running", "started"} => Accepted
         /\ w.outcome = "stopped" => AliveServers = {}
         /\ w.outcome = "failed" => NoneServes
         /\ w.outcome = "notStopped" => OnlyServer(state.pid)

LoneTask(m) == alone[m] /\ work[m].command \in {"start", "stop"}
InPlace(m) == OneServer /\ Place(work[m], at[m])

LifecycleInv ==
    /\ ManagerTypeOK
    /\ ServiceMethods
    /\ \A m \in Managers :
         /\ alone[m] => /\ at[m] # "idle"
                        /\ \A n \in Managers \ {m} : at[n] = "idle"
         /\ LoneTask(m) => InPlace(m)

-----------------------------------------------------------------------------
RecordsTyped ==
    /\ tokenFile \in 0 .. MaxTokens
    /\ state \in [pid : 0 .. MaxTokens, method : Methods]
    /\ issued \in 0 .. MaxTokens
    /\ refresh \in BOOLEAN

ProcessesTyped == jvm \in [Tokens -> Phases] /\ loaded \in [Tokens -> 0 .. MaxTokens]

LEMMA TypeParts ==
    ASSUME ManagerTypeOK
    PROVE  /\ RecordsTyped /\ ProcessesTyped
           /\ service \in BOOLEAN
           /\ at \in [Managers -> Steps] /\ work \in [Managers -> Works]
           /\ alone \in [Managers -> BOOLEAN]
           /\ commands \in Nat /\ kinds \subseteq Actions
BY DEF ManagerTypeOK, RecordsTyped, ProcessesTyped, Works, Phases

\* What a step of m's command comes to.
Moved(m) ==
    /\ ManagerTypeOK' /\ ServiceMethods'
    /\ alone' = alone
    /\ at'[m] # "idle"
    /\ \A n \in Managers \ {m} : at'[n] = at[n]
    /\ work'[m].command = work[m].command
    /\ LoneTask(m) => InPlace(m)'

LEMMA MoveOn ==
    ASSUME LifecycleInv, NEW m \in Managers, NEW step \in Steps \ {"idle"}, NEW new \in Works,
           With(m, step, new), Keep,
           ProcessesTyped', RecordsTyped',
           new.command = work[m].command,
           new.method = "user-service" => service,
           state'.method = "user-service" => service,
           LoneTask(m) => OneServer' /\ Place(new, step)'
    PROVE  Moved(m)
<1>1. /\ at \in [Managers -> Steps] /\ work \in [Managers -> Works]
      /\ service' = service /\ commands' = commands /\ kinds' = kinds /\ alone' = alone
      /\ at' = [at EXCEPT ![m] = step] /\ work' = [work EXCEPT ![m] = new]
  BY TypeParts DEF LifecycleInv, Keep, With, Go
<1>2. /\ at'[m] = step /\ work'[m] = new
      /\ \A n \in Managers \ {m} : at'[n] = at[n] /\ work'[n] = work[n]
      /\ at' \in [Managers -> Steps] /\ work' \in [Managers -> Works]
  BY <1>1
<1>3. ManagerTypeOK'
  BY <1>1, <1>2, TypeParts
     DEF LifecycleInv, ManagerTypeOK, ProcessesTyped, RecordsTyped, Works, Phases
<1>4. ServiceMethods'
  BY <1>1, <1>2 DEF LifecycleInv, ServiceMethods
<1> QED
  BY <1>1, <1>2, <1>3, <1>4 DEF Moved, InPlace

LEMMA PhaseChange ==
    ASSUME ManagerTypeOK, NEW pid \in 0 .. MaxTokens, NEW phase \in Phases,
           InPhase(pid, phase)
    PROVE  /\ ProcessesTyped'
           /\ AliveServers' \subseteq AliveServers \cup {pid}
           /\ phase = "gone" => AliveServers' \subseteq AliveServers \ {pid}
           /\ pid \in Tokens => jvm'[pid] = phase
           /\ \A q \in Tokens \ {pid} : jvm'[q] = jvm[q] /\ loaded'[q] = loaded[q]
<1>1. /\ jvm \in [Tokens -> Phases] /\ loaded \in [Tokens -> 0 .. MaxTokens]
      /\ tokenFile \in 0 .. MaxTokens
  BY TypeParts DEF ProcessesTyped, RecordsTyped
<1>2. 0 \in 0 .. MaxTokens
  BY ManagerAssumption
<1>3. /\ jvm' = [jvm EXCEPT ![pid] = phase]
      /\ loaded' = [loaded EXCEPT ![pid] = IF phase = "serving" THEN tokenFile ELSE 0]
  BY DEF InPhase
<1>4. ProcessesTyped'
  BY <1>1, <1>2, <1>3 DEF ProcessesTyped
<1>5. \A q \in Tokens : jvm'[q] = IF q = pid THEN phase ELSE jvm[q]
  BY <1>1, <1>3
<1>6. \A q \in Tokens \ {pid} : loaded'[q] = loaded[q]
  BY <1>1, <1>3
<1> QED
  BY <1>4, <1>5, <1>6 DEF AliveServers, Alive

\* A server that is told to stop, or is killed, serves no more.
LEMMA TerminatedEffect ==
    ASSUME ManagerTypeOK, NEW pid \in AliveServers, Terminated(pid)
    PROVE  /\ ProcessesTyped'
           /\ AliveServers' \subseteq AliveServers
           /\ OnlyServer(pid) => NoneServes'
<1>1. pid \in Tokens /\ pid \in 0 .. MaxTokens /\ Tokens \subseteq 0 .. MaxTokens
  BY ManagerAssumption DEF AliveServers, Tokens
<1>2. PICK phase \in {"gone", "stopping"} : InPhase(pid, phase)
  BY DEF Terminated
<1>3. phase \in Phases
  BY DEF Phases
<1>4. /\ ProcessesTyped' /\ AliveServers' \subseteq AliveServers
      /\ jvm'[pid] = phase
      /\ \A q \in Tokens \ {pid} : jvm'[q] = jvm[q]
  BY <1>1, <1>2, <1>3, PhaseChange
<1>5. ASSUME OnlyServer(pid) PROVE NoneServes'
  BY <1>1, <1>4, <1>5 DEF OnlyServer, NoneServes, AliveServers, Alive, Tokens
<1> QED
  BY <1>4, <1>5

LEMMA SameServers ==
    ASSUME UNCHANGED processes
    PROVE  /\ AliveServers' = AliveServers
           /\ NoneServes' <=> NoneServes
           /\ OneServer' <=> OneServer
BY DEF processes, AliveServers, Alive, NoneServes, OneServer

LEMMA SameRecords ==
    ASSUME ManagerTypeOK, UNCHANGED records
    PROVE  RecordsTyped' /\ state' = state /\ tokenFile' = tokenFile
BY TypeParts DEF RecordsTyped, records

\* Where a server is alive, it is the one that its command knows of.
LEMMA AliveIsServer ==
    ASSUME NEW pid \in 0 .. MaxTokens
    PROVE  /\ Alive(pid) <=> pid \in AliveServers
           /\ 0 \notin AliveServers
           /\ pid \in Tokens /\ Serving(pid) => pid \in AliveServers
BY ManagerAssumption DEF AliveServers, Alive, Serving, Tokens

LEMMA ServersAreTokens == AliveServers \subseteq Tokens /\ Tokens \subseteq 0 .. MaxTokens
<1>1. AliveServers \subseteq Tokens
  BY DEF AliveServers
<1>2. Tokens \subseteq 0 .. MaxTokens
  BY ManagerAssumption DEF Tokens
<1> QED
  BY <1>1, <1>2

LEMMA AuthenticServer ==
    ASSUME Authentic, NEW pid, OnlyServer(pid)
    PROVE  pid \in Tokens /\ Serving(pid) /\ loaded[pid] = tokenFile
BY DEF Authentic, OnlyServer, AliveServers, Alive, Serving, Tokens

LEMMA StatusReadMoves ==
    ASSUME LifecycleInv, NEW m \in Managers, StatusRead(m)
    PROVE  Moved(m)
<1>0. ManagerTypeOK
  BY DEF LifecycleInv
<1>1. at[m] = "status" /\ Keep /\ UNCHANGED processes /\ UNCHANGED records
  BY DEF StatusRead
<1>2. work[m] \in Works /\ state.pid \in 0 .. MaxTokens
  BY <1>0, TypeParts DEF RecordsTyped
<1>3. PICK pid :
        /\ pid \in IF Alive(state.pid) THEN {state.pid}
                   ELSE IF AliveServers = {} THEN {0} ELSE AliveServers
        /\ With(m, "statusWrite",
              [work[m] EXCEPT
                 !.pid = pid,
                 !.edit = IF pid # 0 /\ (state.pid # pid \/ state.method = "recovered")
                            THEN "record"
                          ELSE IF pid = 0 /\ state.pid # 0 THEN "remove" ELSE "keep"])
  BY DEF StatusRead
<1>4. pid \in 0 .. MaxTokens /\ (pid \in AliveServers \/ (AliveServers = {} /\ pid = 0))
  <2>1. CASE Alive(state.pid)
    <3>1. pid = state.pid
      BY <1>3, <2>1
    <3> QED
      BY <1>2, <2>1, <3>1, AliveIsServer
  <2>2. CASE ~Alive(state.pid) /\ AliveServers = {}
    BY <1>3, <2>2, ManagerAssumption
  <2>3. CASE ~Alive(state.pid) /\ AliveServers # {}
    <3>1. pid \in AliveServers
      BY <1>3, <2>3
    <3> QED
      BY <3>1, ServersAreTokens
  <2> QED
    BY <2>1, <2>2, <2>3
<1>5. PICK edit \in {"keep", "record", "remove"} :
        /\ edit = IF pid # 0 /\ (state.pid # pid \/ state.method = "recovered")
                    THEN "record"
                  ELSE IF pid = 0 /\ state.pid # 0 THEN "remove" ELSE "keep"
  OBVIOUS
<1>6. PICK new : new = [work[m] EXCEPT !.pid = pid, !.edit = edit]
  OBVIOUS
<1>7. With(m, "statusWrite", new)
  BY <1>3, <1>5, <1>6
<1>8. /\ new \in Works
      /\ new.pid = pid /\ new.edit = edit
      /\ new.command = work[m].command /\ new.then = work[m].then
      /\ new.outcome = work[m].outcome /\ new.method = work[m].method
  BY <1>2, <1>4, <1>6 DEF Works
<1>9. ASSUME LoneTask(m) PROVE OneServer' /\ Place(new, "statusWrite")'
  <2>1. OneServer /\ Place(work[m], "status")
    BY <1>1, <1>9 DEF LifecycleInv, InPlace
  <2>2. OnlyServer(pid)
    BY <1>4, <2>1 DEF OneServer, OnlyServer
  <2>3. StatusPurpose(new)
    BY <1>8, <2>1 DEF Place, StatusPurpose
  <2>4. /\ AliveServers' = AliveServers /\ OneServer' /\ state' = state
        /\ Accepted' <=> Accepted
    BY <1>1, <2>1, SameServers DEF records, processes, Accepted, Serving
  <2>5. StatusPurpose(new)' /\ OnlyServer(pid)'
    BY <2>2, <2>3, <2>4 DEF StatusPurpose, OnlyServer
  <2> QED
    BY <1>4, <1>5, <1>8, <2>4, <2>5 DEF Place
<1> QED
  BY <1>0, <1>1, <1>2, <1>7, <1>8, <1>9, MoveOn, SameRecords, TypeParts
     DEF LifecycleInv, ServiceMethods, processes, ProcessesTyped, Steps

LEMMA Known ==
    ASSUME LifecycleInv, NEW m \in Managers
    PROVE  /\ ManagerTypeOK /\ RecordsTyped /\ ProcessesTyped
           /\ work \in [Managers -> Works] /\ work[m] \in Works
           /\ at \in [Managers -> Steps]
           /\ state.pid \in 0 .. MaxTokens
           /\ service \in BOOLEAN
           /\ state.method = "user-service" => service
           /\ work[m].method = "user-service" => service
           /\ LoneTask(m) => OneServer /\ Place(work[m], at[m])
BY TypeParts DEF LifecycleInv, ServiceMethods, InPlace, RecordsTyped

LEMMA GoIsWith ==
    ASSUME NEW m \in Managers, NEW step, work \in [Managers -> Works],
           Go(m, step), UNCHANGED work
    PROVE  With(m, step, work[m])
BY DEF With

LEMMA NoServer ==
    ASSUME AliveServers = {}
    PROVE  NoneServes /\ OneServer /\ \A pid : OnlyServer(pid)
BY DEF NoneServes, OneServer, OnlyServer, AliveServers, Alive, Tokens

LEMMA GoneServer ==
    ASSUME NEW pid \in 0 .. MaxTokens, OnlyServer(pid), ~Alive(pid)
    PROVE  AliveServers = {}
BY AliveIsServer DEF OnlyServer

\* Nothing but the command's own variables has changed.
LEMMA PlaceStays ==
    ASSUME NEW w, NEW step, Place(w, step), UNCHANGED processes, UNCHANGED records
    PROVE  Place(w, step)'
<1>1. /\ AliveServers' = AliveServers /\ (NoneServes' <=> NoneServes) /\ state' = state
      /\ Accepted' <=> Accepted
  BY SameServers DEF records, processes, Accepted, Serving
<1> QED
  BY <1>1 DEF Place, StatusPurpose, OnlyServer

\* A step that leaves servers and records alone.
LEMMA LocalMoves ==
    ASSUME LifecycleInv, NEW m \in Managers, NEW step \in Steps \ {"idle"}, NEW new \in Works,
           With(m, step, new), Keep, UNCHANGED processes, UNCHANGED records,
           new.command = work[m].command,
           new.method \in {"process", work[m].method},
           LoneTask(m) => Place(new, step)
    PROVE  Moved(m)
<1>1. ProcessesTyped' /\ RecordsTyped' /\ state' = state
  BY Known, SameRecords DEF processes, ProcessesTyped
<1>2. LoneTask(m) => OneServer' /\ Place(new, step)'
  BY Known, SameServers, PlaceStays
<1> QED
  BY <1>1, <1>2, Known, MoveOn

\* A command that fails has left no server but one on its way out.
LEMMA FailMoves ==
    ASSUME LifecycleInv, NEW m \in Managers, Fail(m), Keep,
           ProcessesTyped', RecordsTyped', state'.method = "user-service" => service,
           LoneTask(m) => OneServer' /\ NoneServes'
    PROVE  Moved(m)
<1>1. PICK command : command = work[m].command
  OBVIOUS
<1>2. PICK new : new = [NoWork EXCEPT !.command = command, !.outcome = "failed"]
  OBVIOUS
<1>3. With(m, "report", new)
  BY <1>1, <1>2 DEF Fail
<1>4. command \in Actions /\ 0 \in 0 .. MaxTokens
  BY <1>1, Known, ManagerAssumption DEF Works
<1>5. new \in Works /\ new.command = command /\ new.outcome = "failed"
      /\ new.method = "process"
  BY <1>2, <1>4 DEF Works, NoWork, Methods
<1>6. LoneTask(m) => OneServer' /\ Place(new, "report")'
  BY <1>5 DEF Place
<1>7. "report" \in Steps \ {"idle"}
  BY DEF Steps
<1> QED
  BY <1>1, <1>3, <1>5, <1>6, <1>7, MoveOn

LEMMA StatusWriteMoves ==
    ASSUME LifecycleInv, NEW m \in Managers, StatusWrite(m)
    PROVE  Moved(m)
<1>1. /\ at[m] = "statusWrite" /\ Keep /\ UNCHANGED processes
      /\ UNCHANGED <<tokenFile, issued, refresh>>
  BY DEF StatusWrite
<1>2. PICK w : w = work[m]
  OBVIOUS
<1>3. w \in Works
  BY <1>2, Known
<1>4. PICK pid : pid = IF w.then \in {"assess", "assessClear"} THEN w.pid ELSE 0
  OBVIOUS
<1>5. PICK new : new = [w EXCEPT !.edit = "keep", !.pid = pid]
  OBVIOUS
<1>6. With(m, w.then, new)
  <2>1. [w EXCEPT !.edit = "keep"].pid = w.pid
    BY <1>3 DEF Works
  <2> QED
    BY <1>2, <1>4, <1>5, <2>1 DEF StatusWrite
<1>7. pid \in 0 .. MaxTokens
  BY <1>3, <1>4, ManagerAssumption DEF Works
<1>8. /\ new \in Works
      /\ new.pid = pid /\ new.edit = "keep"
      /\ new.command = w.command /\ new.then = w.then
      /\ new.outcome = w.outcome /\ new.method = w.method
  BY <1>3, <1>5, <1>7 DEF Works
<1>9. w.then \in Steps \ {"idle"}
  BY <1>3 DEF Works, Steps
<1>10. /\ w.edit = "keep" => state' = state
       /\ w.edit = "remove" => state' = NoState
       /\ w.edit = "record" =>
            state' = [pid |-> w.pid,
                      method |-> IF w.pid \in ServiceMainPids THEN "user-service"
                                                             ELSE "recovered"]
  BY <1>2, Zenon DEF StatusWrite
<1>11. w.edit \in {"keep", "remove", "record"}
  BY <1>3 DEF Works
<1>12. /\ state' \in [pid : 0 .. MaxTokens, method : Methods]
       /\ state'.method = "user-service" => service
       /\ w.edit = "keep" => state' = state
       /\ w.edit = "remove" => state'.pid = 0
       /\ w.edit = "record" => state'.pid = w.pid
  <2>1. CASE w.edit = "keep"
    BY <1>10, <2>1, Known DEF RecordsTyped
  <2>2. CASE w.edit = "remove"
    BY <1>10, <2>2, ManagerAssumption DEF NoState, Methods
  <2>3. CASE w.edit = "record"
    <3>1. PICK method : method = IF w.pid \in ServiceMainPids THEN "user-service"
                                                               ELSE "recovered"
      OBVIOUS
    <3>2. method \in Methods /\ (method = "user-service" => service)
      BY <3>1 DEF ServiceMainPids, Methods
    <3> QED
      BY <1>3, <1>10, <2>3, <3>1, <3>2 DEF Works
  <2> QED
    BY <1>11, <2>1, <2>2, <2>3
<1>13. ProcessesTyped' /\ RecordsTyped'
  BY <1>1, <1>12, Known DEF processes, ProcessesTyped, RecordsTyped
<1>14. ASSUME LoneTask(m) PROVE OneServer' /\ Place(new, w.then)'
  <2>1. OneServer /\ Place(w, "statusWrite")
    BY <1>1, <1>2, <1>14, Known
  <2>2. /\ OneServer' /\ AliveServers' = AliveServers
    BY <1>1, <2>1, SameServers
  <2>3. OnlyServer(w.pid) /\ StatusPurpose(w)
    BY <2>1 DEF Place
  <2>4. state'.pid = w.pid
    BY <1>11, <1>12, <2>1 DEF Place
  <2>5. Accepted => Accepted'
    <3> SUFFICES ASSUME Accepted PROVE Accepted'
      OBVIOUS
    <3>1. PICK q \in Tokens : Serving(q) /\ loaded[q] = tokenFile
      BY DEF Accepted
    <3>2. q = w.pid
      BY <2>3, <3>1 DEF OnlyServer, AliveServers, Alive, Serving, Tokens
    <3> QED
      BY <1>1, <2>4, <3>1, <3>2 DEF Accepted, processes, Serving
  <2>6. OnlyServer(w.pid)' /\ OnlyServer(state.pid)'
    BY <2>2, <2>3, <2>4 DEF OnlyServer
  <2>7. CASE w.then = "assess"
    BY <1>4, <1>8, <2>2, <2>3, <2>4, <2>6, <2>7 DEF Place, StatusPurpose
  <2>8. CASE w.then = "prepare"
    BY <1>8, <2>2, <2>3, <2>8 DEF Place, StatusPurpose
  <2>9. CASE w.then = "report"
    BY <1>8, <2>2, <2>3, <2>5, <2>6, <2>9 DEF Place, StatusPurpose
  <2> QED
    BY <2>2, <2>3, <2>7, <2>8, <2>9 DEF StatusPurpose
<1> QED
  BY <1>1, <1>2, <1>6, <1>8, <1>9, <1>12, <1>13, <1>14, MoveOn, Known

LEMMA AssessClearMoves ==
    ASSUME LifecycleInv, NEW m \in Managers, AssessClear(m)
    PROVE  Moved(m)
<1>1. at[m] = "assessClear" /\ Keep /\ UNCHANGED processes /\ UNCHANGED records
  BY DEF AssessClear
<1>2. PICK w : w = work[m]
  OBVIOUS
<1>3. PICK new : new = [w EXCEPT !.then = "assess"]
  OBVIOUS
<1>4. /\ w \in Works /\ new \in Works
      /\ new.command = w.command /\ new.method = w.method
  BY <1>2, <1>3, Known DEF Works
<1>5. \/ With(m, "probe", w)
      \/ With(m, "status", new)
  BY <1>2, <1>3, Known, GoIsWith DEF AssessClear
<1>6. ~LoneTask(m)
  BY <1>1, Known DEF Place
<1>7. {"probe", "status"} \subseteq Steps \ {"idle"}
  BY DEF Steps
<1> QED
  BY <1>1, <1>2, <1>4, <1>5, <1>6, <1>7, LocalMoves

LEMMA AssessMoves ==
    ASSUME LifecycleInv, NEW m \in Managers, Assess(m)
    PROVE  Moved(m)
<1>1. at[m] = "assess" /\ Keep /\ UNCHANGED processes /\ UNCHANGED records
  BY DEF Assess
<1>2. PICK w : w = work[m]
  OBVIOUS
<1>3. PICK step : step = IF w.pid = 0 THEN "prepare" ELSE IF refresh THEN "stop" ELSE "probe"
  OBVIOUS
<1>4. w \in Works /\ With(m, step, w)
  BY <1>2, <1>3, Known, GoIsWith DEF Assess
<1>5. step \in Steps \ {"idle"}
  BY <1>3 DEF Steps
<1>6. ASSUME LoneTask(m) PROVE Place(w, step)
  <2>1. /\ w.then = "assess" /\ w.command = "start" /\ OnlyServer(w.pid)
        /\ state.pid = w.pid
    BY <1>1, <1>2, <1>6, Known DEF Place
  <2>2. w.pid = 0 => AliveServers = {}
    BY <2>1, GoneServer, ManagerAssumption DEF Alive
  <2> QED
    BY <1>3, <2>1, <2>2 DEF Place
<1> QED
  BY <1>1, <1>2, <1>4, <1>5, <1>6, LocalMoves

LEMMA ProbeMoves ==
    ASSUME LifecycleInv, NEW m \in Managers, Probe(m)
    PROVE  Moved(m)
<1>1. at[m] = "probe" /\ Keep /\ UNCHANGED processes /\ UNCHANGED records
  BY DEF Probe
<1>2. PICK w : w = work[m]
  OBVIOUS
<1>3. w \in Works
  BY <1>2, Known
<1>4. LoneTask(m) =>
        w.then = "assess" /\ w.command = "start" /\ OnlyServer(w.pid) /\ state.pid = w.pid
  BY <1>1, <1>2, Known DEF Place
<1>5. CASE Authentic /\ With(m, Success(work[m].command),
                             [work[m] EXCEPT !.pid = 0, !.outcome = "running"])
  <2>1. PICK new : new = [w EXCEPT !.pid = 0, !.outcome = "running"]
    OBVIOUS
  <2>2. PICK step : step = Success(w.command)
    OBVIOUS
  <2>3. 0 \in 0 .. MaxTokens
    BY ManagerAssumption
  <2>4. /\ new \in Works
        /\ new.command = w.command /\ new.method = w.method /\ new.outcome = "running"
    BY <1>3, <2>1, <2>3 DEF Works
  <2>5. step \in Steps \ {"idle"} /\ (w.command = "start" => step = "report")
    BY <2>2 DEF Success, Steps
  <2>6. ASSUME LoneTask(m) PROVE Place(new, step)
    <3>1. Accepted
      BY <1>4, <1>5, <2>6, AuthenticServer DEF Accepted
    <3> QED
      BY <1>4, <2>4, <2>5, <2>6, <3>1 DEF Place
  <2>7. With(m, step, new)
    BY <1>2, <1>5, <2>1, <2>2
  <2> QED
    BY <1>1, <1>2, <2>4, <2>5, <2>6, <2>7, LocalMoves
<1>6. CASE Go(m, "stop") /\ UNCHANGED work
  <2>1. With(m, "stop", w)
    BY <1>2, <1>6, Known, GoIsWith
  <2>2. "stop" \in Steps \ {"idle"}
    BY DEF Steps
  <2>3. LoneTask(m) => Place(w, "stop")
    BY <1>4 DEF Place
  <2> QED
    BY <1>1, <1>2, <1>3, <2>1, <2>2, <2>3, LocalMoves
<1>7. CASE work[m].then = "assessClear" /\ Fail(m)
  <2>1. ~LoneTask(m)
    BY <1>2, <1>4, <1>7
  <2> QED
    BY <1>1, <1>7, <2>1, FailMoves, Known, SameRecords DEF processes, ProcessesTyped
<1> QED
  BY <1>5, <1>6, <1>7 DEF Probe

\* systemctl stop, in whatever it serves: a stop, or undoing a start.
LEMMA StopUserServiceMoves ==
    ASSUME LifecycleInv, NEW m \in Managers, NEW new \in Works,
           StopUserService(m, new), Keep, UNCHANGED records,
           new.command = work[m].command,
           new.method \in {"process", work[m].method} \/ service,
           LoneTask(m) => /\ service
                          /\ Stopping(new) \/ (new.then = "forget" /\ new.command = "start")
    PROVE  Moved(m)
<1>1. ManagerTypeOK /\ RecordsTyped' /\ state' = state
  BY Known, SameRecords
<1>2. CASE ServiceMainPids = {} /\ With(m, new.then, new) /\ UNCHANGED processes
  <2>1. new.then \in Steps \ {"idle"}
    BY DEF Works, Steps
  <2>2. ProcessesTyped'
    BY <1>2, Known DEF processes, ProcessesTyped
  <2>3. ASSUME LoneTask(m) PROVE OneServer' /\ Place(new, new.then)'
    <3>1. AliveServers = {}
      BY <1>2, <2>3 DEF ServiceMainPids
    <3>2. OneServer' /\ NoneServes' /\ AliveServers' = {}
      BY <1>2, <3>1, NoServer, SameServers
    <3> QED
      BY <2>3, <3>2 DEF Place, Stopping
  <2> QED
    BY <1>1, <1>2, <2>1, <2>2, <2>3, MoveOn, Known
<1>3. CASE \E pid \in ServiceMainPids :
             Terminated(pid) /\ With(m, "unitStops", [new EXCEPT !.pid = pid])
  <2>1. PICK pid \in ServiceMainPids :
             Terminated(pid) /\ With(m, "unitStops", [new EXCEPT !.pid = pid])
    BY <1>3
  <2>2. pid \in AliveServers /\ pid \in 0 .. MaxTokens
    BY ServersAreTokens DEF ServiceMainPids
  <2>3. PICK newer : newer = [new EXCEPT !.pid = pid]
    OBVIOUS
  <2>4. /\ newer \in Works
        /\ newer.pid = pid /\ newer.then = new.then /\ newer.command = new.command
        /\ newer.method = new.method /\ newer.outcome = new.outcome
    BY <2>2, <2>3 DEF Works
  <2>5. ProcessesTyped' /\ AliveServers' \subseteq AliveServers
    BY <1>1, <2>1, <2>2, TerminatedEffect
  <2>6. ASSUME LoneTask(m) PROVE OneServer' /\ Place(newer, "unitStops")'
    <3>1. AliveServers \subseteq {pid}
      BY <2>2, <2>6, Known DEF OneServer
    <3>2. OneServer' /\ OnlyServer(pid)'
      BY <2>5, <3>1 DEF OneServer, OnlyServer
    <3> QED
      BY <2>4, <2>6, <3>2 DEF Place, Stopping
  <2>7. "unitStops" \in Steps \ {"idle"}
    BY DEF Steps
  <2> QED
    BY <1>1, <2>1, <2>3, <2>4, <2>5, <2>6, <2>7, MoveOn, Known
<1> QED
  BY <1>2, <1>3 DEF StopUserService

LEMMA UnitStopsMoves ==
    ASSUME LifecycleInv, NEW m \in Managers, UnitStops(m)
    PROVE  Moved(m)
<1>1. /\ at[m] = "unitStops" /\ Keep /\ UNCHANGED processes /\ UNCHANGED records
      /\ ~Alive(work[m].pid)
  BY DEF UnitStops
<1>2. PICK w : w = work[m]
  OBVIOUS
<1>3. w \in Works /\ With(m, w.then, w)
  BY <1>2, Known, GoIsWith DEF UnitStops
<1>4. w.then \in Steps \ {"idle"}
  BY <1>3 DEF Works, Steps
<1>5. ASSUME LoneTask(m) PROVE Place(w, w.then)
  <2>1. OnlyServer(w.pid) /\ (Stopping(w) \/ (w.then = "forget" /\ w.command = "start"))
    BY <1>1, <1>2, <1>5, Known DEF Place
  <2>2. w.pid \in 0 .. MaxTokens
    BY <1>3 DEF Works
  <2>3. AliveServers = {} /\ NoneServes
    BY <1>1, <1>2, <2>1, <2>2, GoneServer, NoServer
  <2> QED
    BY <2>1, <2>3 DEF Place, Stopping
<1> QED
  BY <1>1, <1>2, <1>3, <1>4, <1>5, LocalMoves

LEMMA StopMoves ==
    ASSUME LifecycleInv, NEW m \in Managers, Stop(m)
    PROVE  Moved(m)
<1>1. at[m] = "stop" /\ Keep /\ UNCHANGED records
  BY DEF Stop
<1>2. PICK w : w = work[m]
  OBVIOUS
<1>3. w \in Works
  BY <1>2, Known
<1>4. CASE Alive(state.pid)
  <2>1. PICK pid, method : pid = state.pid /\ method = state.method
    OBVIOUS
  <2>2. PICK new : new = [w EXCEPT !.pid = pid, !.method = method, !.then = "remove",
                                   !.outcome = "stopped"]
    OBVIOUS
  <2>3. With(m, "ask", new) /\ UNCHANGED processes
    BY <1>2, <1>4, <2>1, <2>2 DEF Stop
  <2>4. pid \in 0 .. MaxTokens /\ method \in Methods /\ (method = "user-service" => service)
    BY <2>1, Known DEF RecordsTyped
  <2>5. /\ new \in Works
        /\ new.command = w.command /\ new.method = method /\ new.pid = pid
        /\ new.then = "remove" /\ new.outcome = "stopped"
    BY <1>3, <2>2, <2>4 DEF Works
  <2>6. ProcessesTyped' /\ RecordsTyped' /\ state' = state
    BY <1>1, <2>3, Known, SameRecords DEF processes, ProcessesTyped
  <2>7. ASSUME LoneTask(m) PROVE OneServer' /\ Place(new, "ask")'
    <3>1. pid \in AliveServers
      BY <1>4, <2>1, <2>4, AliveIsServer
    <3>2. OneServer /\ OnlyServer(pid)
      BY <2>7, <3>1, Known DEF OneServer, OnlyServer
    <3>3. OneServer' /\ Place(new, "ask")
      BY <2>3, <2>5, <3>2, SameServers DEF Place
    <3> QED
      BY <1>1, <2>3, <3>3, PlaceStays
  <2>8. "ask" \in Steps \ {"idle"}
    BY DEF Steps
  <2> QED
    BY <1>1, <1>2, <2>3, <2>4, <2>5, <2>6, <2>7, <2>8, MoveOn, Known
<1>5. CASE ~Alive(state.pid)
  <2>1. PICK new : new = [w EXCEPT !.then = "remove", !.outcome = "notStopped"]
    OBVIOUS
  <2>2. /\ new \in Works
        /\ new.command = w.command /\ new.method = w.method
        /\ new.then = "remove" /\ new.outcome = "notStopped"
    BY <1>3, <2>1 DEF Works
  <2>3. IF state.method = "user-service"
          THEN StopUserService(m, new)
          ELSE With(m, "remove", new) /\ UNCHANGED processes
    BY <1>2, <1>5, <2>1 DEF Stop
  <2>4. CASE state.method = "user-service"
    <3>1. service
      BY <2>4, Known
    <3> QED
      BY <1>1, <1>2, <2>2, <2>3, <2>4, <3>1, StopUserServiceMoves DEF Stopping
  <2>5. CASE state.method # "user-service"
    <3>1. ASSUME LoneTask(m) PROVE Place(new, "remove")
      <4>1. w.command = "start" => OnlyServer(state.pid)
        BY <1>1, <1>2, <3>1, Known DEF Place
      <4>2. w.command = "start" => AliveServers = {}
        BY <1>5, <4>1, Known, GoneServer
      <4> QED
        BY <2>2, <4>2 DEF Place, Stopping
    <3>2. "remove" \in Steps \ {"idle"}
      BY DEF Steps
    <3> QED
      BY <1>1, <1>2, <2>2, <2>3, <2>5, <3>1, <3>2, LocalMoves
  <2> QED
    BY <2>4, <2>5
<1> QED
  BY <1>4, <1>5

LEMMA AskMoves ==
    ASSUME LifecycleInv, NEW m \in Managers, Ask(m)
    PROVE  Moved(m)
<1>1. at[m] = "ask" /\ Keep /\ UNCHANGED work /\ UNCHANGED records
  BY DEF Ask
<1>2. PICK w : w = work[m]
  OBVIOUS
<1>3. w \in Works
  BY <1>2, Known
<1>4. LoneTask(m) => OneServer /\ Place(w, "ask") /\ OnlyServer(w.pid)
  BY <1>1, <1>2, Known DEF Place
<1>5. CASE /\ \E pid \in Tokens : Serving(pid) /\ InPhase(pid, "stopping")
           /\ Go(m, "awaitExit")
  <2>1. PICK pid \in Tokens : Serving(pid) /\ InPhase(pid, "stopping")
    BY <1>5
  <2>2. /\ pid \in AliveServers /\ pid \in 0 .. MaxTokens
    BY <2>1, ServersAreTokens, AliveIsServer
  <2>3. "stopping" \in Phases /\ "awaitExit" \in Steps \ {"idle"}
    BY DEF Phases, Steps
  <2>4. ProcessesTyped' /\ AliveServers' \subseteq AliveServers
    BY <2>1, <2>2, <2>3, PhaseChange, Known
  <2>5. RecordsTyped' /\ state' = state
    BY <1>1, Known, SameRecords
  <2>6. With(m, "awaitExit", w)
    BY <1>1, <1>2, <1>5, Known, GoIsWith
  <2>7. LoneTask(m) => OneServer' /\ Place(w, "awaitExit")'
    BY <1>4, <2>4 DEF Place, OneServer, OnlyServer
  <2> QED
    BY <1>1, <1>2, <1>3, <2>3, <2>4, <2>5, <2>6, <2>7, MoveOn, Known
<1>6. CASE Go(m, "terminate") /\ UNCHANGED processes
  <2>1. With(m, "terminate", w) /\ "terminate" \in Steps \ {"idle"}
    BY <1>1, <1>2, <1>6, Known, GoIsWith DEF Steps
  <2>2. LoneTask(m) => Place(w, "terminate")
    BY <1>4 DEF Place
  <2> QED
    BY <1>1, <1>2, <1>3, <1>6, <2>1, <2>2, LocalMoves
<1> QED
  BY <1>5, <1>6 DEF Ask

LEMMA AwaitExitMoves ==
    ASSUME LifecycleInv, NEW m \in Managers, AwaitExit(m)
    PROVE  Moved(m)
<1>1. at[m] = "awaitExit" /\ Keep /\ UNCHANGED processes /\ UNCHANGED records
  BY DEF AwaitExit
<1>2. PICK w : w = work[m]
  OBVIOUS
<1>3. PICK step : step = IF Alive(w.pid) THEN "terminate" ELSE "remove"
  OBVIOUS
<1>4. w \in Works /\ With(m, step, w)
  BY <1>2, <1>3, Known, GoIsWith DEF AwaitExit
<1>5. step \in Steps \ {"idle"} /\ w.pid \in 0 .. MaxTokens
  BY <1>3, <1>4 DEF Steps, Works
<1>6. ASSUME LoneTask(m) PROVE Place(w, step)
  <2>1. OnlyServer(w.pid) /\ w.then = "remove" /\ w.outcome = "stopped"
    BY <1>1, <1>2, <1>6, Known DEF Place
  <2>2. ~Alive(w.pid) => AliveServers = {}
    BY <1>5, <2>1, GoneServer
  <2> QED
    BY <1>3, <2>1, <2>2 DEF Place, Stopping
<1> QED
  BY <1>1, <1>2, <1>4, <1>5, <1>6, LocalMoves

LEMMA TerminateMoves ==
    ASSUME LifecycleInv, NEW m \in Managers, Terminate(m)
    PROVE  Moved(m)
<1>1. at[m] = "terminate" /\ Keep /\ UNCHANGED records
  BY DEF Terminate
<1>2. PICK w : w = work[m]
  OBVIOUS
<1>3. w \in Works /\ w.pid \in 0 .. MaxTokens
  BY <1>2, Known DEF Works
<1>4. LoneTask(m) =>
        OneServer /\ OnlyServer(w.pid) /\ w.then = "remove" /\ w.outcome = "stopped"
  BY <1>1, <1>2, Known DEF Place
<1>5. CASE w.method = "user-service"
  <2>1. service /\ StopUserService(m, w)
    BY <1>2, <1>5, Known DEF Terminate
  <2> QED
    BY <1>1, <1>2, <1>3, <1>4, <2>1, StopUserServiceMoves DEF Stopping
<1>6. CASE w.method # "user-service" /\ Alive(w.pid)
  <2>1. Terminated(w.pid) /\ Go(m, "awaitKill") /\ UNCHANGED work
    BY <1>2, <1>6 DEF Terminate
  <2>2. w.pid \in AliveServers
    BY <1>3, <1>6, AliveIsServer
  <2>3. /\ ProcessesTyped' /\ AliveServers' \subseteq AliveServers
        /\ OnlyServer(w.pid) => NoneServes'
    BY <2>1, <2>2, TerminatedEffect, Known
  <2>4. With(m, "awaitKill", w) /\ "awaitKill" \in Steps \ {"idle"}
    BY <1>2, <2>1, Known, GoIsWith DEF Steps
  <2>5. LoneTask(m) => OneServer' /\ Place(w, "awaitKill")'
    BY <1>4, <2>3 DEF Place, OneServer, OnlyServer
  <2> QED
    BY <1>1, <1>2, <1>3, <2>3, <2>4, <2>5, MoveOn, Known, SameRecords
<1>7. CASE w.method # "user-service" /\ ~Alive(w.pid)
  <2>1. Fail(m) /\ UNCHANGED processes
    BY <1>2, <1>7 DEF Terminate
  <2>2. LoneTask(m) => OneServer' /\ NoneServes'
    BY <1>3, <1>4, <1>7, <2>1, GoneServer, NoServer, SameServers
  <2>3. ProcessesTyped' /\ RecordsTyped' /\ state' = state
    BY <1>1, <2>1, Known, SameRecords DEF processes, ProcessesTyped
  <2> QED
    BY <1>1, <2>1, <2>2, <2>3, FailMoves, Known
<1> QED
  BY <1>5, <1>6, <1>7

LEMMA AwaitKillMoves ==
    ASSUME LifecycleInv, NEW m \in Managers, AwaitKill(m)
    PROVE  Moved(m)
<1>1. at[m] = "awaitKill" /\ Keep /\ UNCHANGED processes /\ UNCHANGED records
  BY DEF AwaitKill
<1>2. PICK w : w = work[m]
  OBVIOUS
<1>3. w \in Works /\ w.pid \in 0 .. MaxTokens
  BY <1>2, Known DEF Works
<1>4. LoneTask(m) => /\ OneServer /\ OnlyServer(w.pid) /\ NoneServes
                     /\ w.then = "remove" /\ w.outcome = "stopped"
  BY <1>1, <1>2, Known DEF Place
<1>5. CASE Fail(m)
  <2>1. ProcessesTyped' /\ RecordsTyped' /\ state' = state
    BY <1>1, Known, SameRecords DEF processes, ProcessesTyped
  <2> QED
    BY <1>1, <1>4, <1>5, <2>1, FailMoves, Known, SameServers
<1>6. CASE ~Alive(w.pid) /\ Go(m, "remove") /\ UNCHANGED work
  <2>1. With(m, "remove", w) /\ "remove" \in Steps \ {"idle"}
    BY <1>2, <1>6, Known, GoIsWith DEF Steps
  <2>2. LoneTask(m) => Place(w, "remove")
    BY <1>3, <1>4, <1>6, GoneServer DEF Place, Stopping
  <2> QED
    BY <1>1, <1>2, <1>3, <2>1, <2>2, LocalMoves
<1> QED
  BY <1>2, <1>5, <1>6 DEF AwaitKill

LEMMA RemoveMoves ==
    ASSUME LifecycleInv, NEW m \in Managers, Remove(m)
    PROVE  Moved(m)
<1>1. /\ at[m] = "remove" /\ Keep /\ UNCHANGED processes
      /\ UNCHANGED <<tokenFile, issued, refresh>> /\ state' = NoState
  BY DEF Remove
<1>2. PICK w : w = work[m]
  OBVIOUS
<1>3. PICK then : then = IF w.command = "stop" THEN "report" ELSE "prepare"
  OBVIOUS
<1>4. PICK new : new = [w EXCEPT !.pid = 0, !.method = "process", !.then = then]
  OBVIOUS
<1>5. With(m, "status", new)
  BY <1>2, <1>3, <1>4 DEF Remove
<1>6. 0 \in 0 .. MaxTokens /\ w \in Works
  BY <1>2, ManagerAssumption, Known
<1>7. /\ new \in Works
      /\ new.command = w.command /\ new.method = "process" /\ new.then = then
      /\ new.outcome = w.outcome
  BY <1>3, <1>4, <1>6 DEF Works, Methods
<1>8. ProcessesTyped' /\ RecordsTyped' /\ state'.method = "process"
  BY <1>1, <1>6, Known DEF processes, ProcessesTyped, RecordsTyped, NoState, Methods
<1>9. ASSUME LoneTask(m) PROVE OneServer' /\ Place(new, "status")'
  <2>1. /\ OneServer /\ Stopping(w)
        /\ w.command = "start" \/ w.outcome = "stopped" => AliveServers = {}
        /\ w.command \in {"start", "stop"}
    BY <1>1, <1>2, <1>9, Known DEF Place, LoneTask
  <2>2. OneServer' /\ AliveServers' = AliveServers
    BY <1>1, <2>1, SameServers
  <2>3. StatusPurpose(new)'
    BY <1>3, <1>7, <2>1, <2>2 DEF StatusPurpose, Stopping
  <2> QED
    BY <2>2, <2>3 DEF Place
<1>10. "status" \in Steps \ {"idle"}
  BY DEF Steps
<1> QED
  BY <1>1, <1>2, <1>5, <1>7, <1>8, <1>9, <1>10, MoveOn

LEMMA PrepareMoves ==
    ASSUME LifecycleInv, NEW m \in Managers, Prepare(m)
    PROVE  Moved(m)
<1>1. /\ at[m] = "prepare" /\ Keep /\ UNCHANGED processes
      /\ UNCHANGED <<tokenFile, state, issued>> /\ refresh' \in {FALSE, refresh}
  BY DEF Prepare
<1>2. PICK w : w = work[m]
  OBVIOUS
<1>3. w \in Works
  BY <1>2, Known
<1>4. ProcessesTyped' /\ RecordsTyped'
  BY <1>1, Known DEF processes, ProcessesTyped, RecordsTyped
<1>5. LoneTask(m) => w.command = "start" /\ AliveServers = {}
  BY <1>1, <1>2, Known DEF Place
<1>6. LoneTask(m) => AliveServers' = {} /\ OneServer' /\ NoneServes'
  BY <1>1, <1>5, NoServer, SameServers
<1>7. CASE Go(m, "configure") /\ UNCHANGED work
  <2>1. With(m, "configure", w) /\ "configure" \in Steps \ {"idle"}
    BY <1>2, <1>7, Known, GoIsWith DEF Steps
  <2>2. LoneTask(m) => OneServer' /\ Place(w, "configure")'
    BY <1>5, <1>6 DEF Place
  <2> QED
    BY <1>1, <1>2, <1>3, <1>4, <2>1, <2>2, MoveOn, Known
<1>8. CASE Fail(m)
  BY <1>1, <1>4, <1>6, <1>8, FailMoves, Known
<1> QED
  BY <1>7, <1>8 DEF Prepare

LEMMA WriteHarnessConfigurationMoves ==
    ASSUME LifecycleInv, NEW m \in Managers, WriteHarnessConfiguration(m)
    PROVE  Moved(m)
<1>1. /\ at[m] = "configure" /\ Keep /\ UNCHANGED processes /\ UNCHANGED <<state, refresh>>
      /\ issued < MaxTokens
  BY DEF WriteHarnessConfiguration
<1>2. PICK w : w = work[m]
  OBVIOUS
<1>3. PICK own : own = issued + 1
  OBVIOUS
<1>4. PICK new : new = [w EXCEPT !.own = own, !.pid = 0]
  OBVIOUS
<1>5. With(m, "launch", new) /\ issued' = own /\ tokenFile' = own
  BY <1>2, <1>3, <1>4 DEF WriteHarnessConfiguration
<1>6. w \in Works /\ own \in 0 .. MaxTokens /\ 0 \in 0 .. MaxTokens
  BY <1>1, <1>2, <1>3, Known, ManagerAssumption DEF RecordsTyped
<1>7. new \in Works /\ new.command = w.command /\ new.method = w.method
  BY <1>4, <1>6 DEF Works
<1>8. ProcessesTyped' /\ RecordsTyped'
  BY <1>1, <1>5, <1>6, Known DEF processes, ProcessesTyped, RecordsTyped
<1>9. LoneTask(m) => OneServer' /\ Place(new, "launch")'
  BY <1>1, <1>2, <1>7, Known, SameServers DEF Place
<1>10. "launch" \in Steps \ {"idle"}
  BY DEF Steps
<1> QED
  BY <1>1, <1>2, <1>5, <1>7, <1>8, <1>9, <1>10, MoveOn, Known

LEMMA LaunchMoves ==
    ASSUME LifecycleInv, NEW m \in Managers, Launch(m)
    PROVE  Moved(m)
<1>1. at[m] = "launch" /\ Keep /\ UNCHANGED records
  BY DEF Launch
<1>2. PICK w : w = work[m]
  OBVIOUS
<1>3. w \in Works /\ w.own \in 0 .. MaxTokens
  BY <1>2, Known DEF Works
<1>4. RecordsTyped' /\ state' = state
  BY <1>1, Known, SameRecords
<1>5. LoneTask(m) => w.command = "start" /\ AliveServers = {}
  BY <1>1, <1>2, Known DEF Place
<1>6. CASE InPhase(w.own, "booting") /\ Go(m, "record") /\ UNCHANGED work
  <2>1. "booting" \in Phases /\ "record" \in Steps \ {"idle"}
    BY DEF Phases, Steps
  <2>2. ProcessesTyped' /\ AliveServers' \subseteq AliveServers \cup {w.own}
    BY <1>3, <1>6, <2>1, PhaseChange, Known
  <2>3. With(m, "record", w)
    BY <1>2, <1>6, Known, GoIsWith
  <2>4. LoneTask(m) => OneServer' /\ Place(w, "record")'
    BY <1>5, <2>2 DEF Place, OneServer, OnlyServer
  <2> QED
    BY <1>1, <1>2, <1>3, <1>4, <2>1, <2>2, <2>3, <2>4, MoveOn, Known
<1>7. CASE Fail(m) /\ UNCHANGED processes
  <2>1. LoneTask(m) => OneServer' /\ NoneServes'
    BY <1>5, <1>7, NoServer, SameServers
  <2>2. ProcessesTyped'
    BY <1>7, Known DEF processes, ProcessesTyped
  <2> QED
    BY <1>1, <1>4, <1>7, <2>1, <2>2, FailMoves, Known
<1> QED
  BY <1>2, <1>6, <1>7 DEF Launch

LEMMA RecordLaunchMoves ==
    ASSUME LifecycleInv, NEW m \in Managers, RecordLaunch(m)
    PROVE  Moved(m)
<1>1. /\ at[m] = "record" /\ Keep /\ UNCHANGED processes
      /\ UNCHANGED <<tokenFile, issued, refresh>>
  BY DEF RecordLaunch
<1>2. PICK w : w = work[m]
  OBVIOUS
<1>3. PICK method : method = IF service THEN "user-service" ELSE "process"
  OBVIOUS
<1>4. w \in Works /\ w.own \in 0 .. MaxTokens
  BY <1>2, Known DEF Works
<1>5. state' = [pid |-> w.own, method |-> method]
  BY <1>2, <1>3 DEF RecordLaunch
<1>6. method \in Methods /\ (method = "user-service" => service)
  BY <1>3 DEF Methods
<1>7. ProcessesTyped' /\ RecordsTyped' /\ state'.pid = w.own /\ state'.method = method
  BY <1>1, <1>4, <1>5, <1>6, Known DEF processes, ProcessesTyped, RecordsTyped
<1>8. With(m, "await", w) /\ "await" \in Steps \ {"idle"}
  BY <1>2, Known, GoIsWith DEF RecordLaunch, Steps
<1>9. ASSUME LoneTask(m) PROVE OneServer' /\ Place(w, "await")'
  <2>1. OneServer /\ w.command = "start" /\ OnlyServer(w.own)
    BY <1>1, <1>2, <1>9, Known DEF Place
  <2>2. OneServer' /\ OnlyServer(w.own)'
    BY <1>1, <2>1, SameServers DEF OnlyServer
  <2> QED
    BY <1>7, <2>1, <2>2 DEF Place
<1> QED
  BY <1>1, <1>2, <1>4, <1>6, <1>7, <1>8, <1>9, MoveOn, Known

LEMMA AwaitMoves ==
    ASSUME LifecycleInv, NEW m \in Managers, Await(m)
    PROVE  Moved(m)
<1>1. /\ at[m] = "await" /\ Keep /\ UNCHANGED processes /\ UNCHANGED records
      /\ UNCHANGED work
  BY DEF Await
<1>2. PICK w : w = work[m]
  OBVIOUS
<1>3. PICK step \in {"quiet", "undo"} : Go(m, step)
  BY DEF Await
<1>4. With(m, step, w) /\ step \in Steps \ {"idle"} /\ w \in Works
  BY <1>1, <1>2, <1>3, Known, GoIsWith DEF Steps
<1>5. LoneTask(m) => Place(w, step)
  BY <1>1, <1>2, <1>3, Known DEF Place
<1> QED
  BY <1>1, <1>2, <1>4, <1>5, LocalMoves

LEMMA ConfigureQuietWorldMoves ==
    ASSUME LifecycleInv, NEW m \in Managers, ConfigureQuietWorld(m)
    PROVE  Moved(m)
<1>1. at[m] = "quiet" /\ Keep /\ UNCHANGED processes /\ UNCHANGED records
  BY DEF ConfigureQuietWorld
<1>2. PICK w : w = work[m]
  OBVIOUS
<1>3. w \in Works
  BY <1>2, Known
<1>4. LoneTask(m) => w.command = "start" /\ OnlyServer(w.own) /\ state.pid = w.own
  BY <1>1, <1>2, Known DEF Place
<1>5. CASE Authentic /\ With(m, "status",
                  [work[m] EXCEPT !.then = Success(work[m].command), !.own = 0,
                                  !.outcome = "started"])
  <2>1. PICK then : then = Success(w.command)
    OBVIOUS
  <2>2. PICK new : new = [w EXCEPT !.then = then, !.own = 0, !.outcome = "started"]
    OBVIOUS
  <2>3. With(m, "status", new)
    BY <1>2, <1>5, <2>1, <2>2
  <2>4. then \in {"clear", "report"} /\ (w.command = "start" => then = "report")
        /\ 0 \in 0 .. MaxTokens
    BY <2>1, ManagerAssumption DEF Success
  <2>5. /\ new \in Works
        /\ new.command = w.command /\ new.method = w.method /\ new.then = then
        /\ new.outcome = "started"
    BY <1>3, <2>2, <2>4 DEF Works
  <2>6. LoneTask(m) => Place(new, "status")
    <3>1. LoneTask(m) => Accepted
      BY <1>4, <1>5, AuthenticServer DEF Accepted
    <3> QED
      BY <1>4, <2>4, <2>5, <3>1 DEF Place, StatusPurpose
  <2>7. "status" \in Steps \ {"idle"}
    BY DEF Steps
  <2> QED
    BY <1>1, <1>2, <2>3, <2>5, <2>6, <2>7, LocalMoves
<1>6. CASE Go(m, "undo") /\ UNCHANGED work
  <2>1. With(m, "undo", w) /\ "undo" \in Steps \ {"idle"}
    BY <1>2, <1>6, Known, GoIsWith DEF Steps
  <2>2. LoneTask(m) => Place(w, "undo")
    BY <1>4 DEF Place
  <2> QED
    BY <1>1, <1>2, <1>3, <2>1, <2>2, LocalMoves
<1> QED
  BY <1>5, <1>6 DEF ConfigureQuietWorld

LEMMA UndoMoves ==
    ASSUME LifecycleInv, NEW m \in Managers, Undo(m)
    PROVE  Moved(m)
<1>1. at[m] = "undo" /\ Keep /\ UNCHANGED records
  BY DEF Undo
<1>2. PICK w : w = work[m]
  OBVIOUS
<1>3. w \in Works /\ w.own \in 0 .. MaxTokens
  BY <1>2, Known DEF Works
<1>4. PICK own : own = w.own
  OBVIOUS
<1>5. PICK new : new = [w EXCEPT !.pid = own, !.then = "forget"]
  OBVIOUS
<1>6. /\ new \in Works
      /\ new.command = w.command /\ new.method = w.method /\ new.then = "forget"
  BY <1>3, <1>4, <1>5 DEF Works
<1>7. IF service THEN StopUserService(m, new)
      ELSE IF Alive(own) THEN Terminated(own) /\ With(m, "forget", new)
      ELSE With(m, "forget", new) /\ UNCHANGED processes
  BY <1>2, <1>4, <1>5 DEF Undo
<1>8. LoneTask(m) => OneServer /\ w.command = "start" /\ OnlyServer(own)
  BY <1>1, <1>2, <1>4, Known DEF Place
<1>9. "forget" \in Steps \ {"idle"}
  BY DEF Steps
<1>10. CASE service
  BY <1>1, <1>2, <1>6, <1>7, <1>8, <1>10, StopUserServiceMoves
<1>11. CASE ~service /\ Alive(own)
  <2>1. own \in AliveServers /\ Terminated(own) /\ With(m, "forget", new)
    BY <1>3, <1>4, <1>7, <1>11, AliveIsServer
  <2>2. /\ ProcessesTyped' /\ AliveServers' \subseteq AliveServers
        /\ OnlyServer(own) => NoneServes'
    BY <2>1, TerminatedEffect, Known
  <2>3. LoneTask(m) => OneServer' /\ Place(new, "forget")'
    BY <1>6, <1>8, <2>2 DEF Place, OneServer
  <2> QED
    BY <1>1, <1>2, <1>6, <1>9, <2>1, <2>2, <2>3, MoveOn, Known, SameRecords
<1>12. CASE ~service /\ ~Alive(own)
  <2>1. With(m, "forget", new) /\ UNCHANGED processes
    BY <1>7, <1>12
  <2>2. LoneTask(m) => Place(new, "forget")
    BY <1>3, <1>4, <1>6, <1>8, <1>12, GoneServer, NoServer DEF Place
  <2> QED
    BY <1>1, <1>2, <1>6, <1>9, <2>1, <2>2, LocalMoves
<1> QED
  BY <1>10, <1>11, <1>12, Known

LEMMA ForgetMoves ==
    ASSUME LifecycleInv, NEW m \in Managers, Forget(m)
    PROVE  Moved(m)
<1>1. /\ at[m] = "forget" /\ Keep /\ UNCHANGED processes /\ Fail(m)
      /\ UNCHANGED <<tokenFile, issued, refresh>> /\ state' = NoState
  BY DEF Forget
<1>2. 0 \in 0 .. MaxTokens
  BY ManagerAssumption
<1>3. ProcessesTyped' /\ RecordsTyped' /\ state'.method = "process"
  BY <1>1, <1>2, Known DEF processes, ProcessesTyped, RecordsTyped, NoState, Methods
<1>4. LoneTask(m) => OneServer' /\ NoneServes'
  BY <1>1, Known, SameServers DEF Place
<1> QED
  BY <1>1, <1>3, <1>4, FailMoves

-----------------------------------------------------------------------------
LEMMA MovedKeepsLifecycle ==
    ASSUME LifecycleInv, NEW m \in Managers, at[m] # "idle", Moved(m)
    PROVE  LifecycleInv'
<1>1. ASSUME NEW n \in Managers, alone'[n] PROVE n = m
  BY <1>1 DEF LifecycleInv, Moved
<1>2. ASSUME NEW n \in Managers, alone'[n]
      PROVE  /\ at'[n] # "idle"
             /\ \A k \in Managers \ {n} : at'[k] = "idle"
  BY <1>1, <1>2 DEF LifecycleInv, Moved
<1>3. ASSUME NEW n \in Managers, LoneTask(n)' PROVE InPlace(n)'
  BY <1>1, <1>3 DEF Moved, LoneTask
<1> QED
  BY <1>2, <1>3 DEF LifecycleInv, Moved

\* The command ends, in peace or not.
LEMMA EndKeepsLifecycle ==
    ASSUME LifecycleInv, NEW m \in Managers, Finish(m) \/ KillManager(m)
    PROVE  LifecycleInv'
<1>1. /\ at[m] # "idle"
      /\ at' = [at EXCEPT ![m] = "idle"] /\ work' = [work EXCEPT ![m] = NoWork]
      /\ alone' = [alone EXCEPT ![m] = FALSE]
      /\ UNCHANGED <<service, commands, kinds>> /\ UNCHANGED processes /\ UNCHANGED records
  BY DEF Finish, KillManager, With, Go
<1>2. NoWork \in Works /\ NoWork.method = "process"
  BY ManagerAssumption DEF NoWork, Works, Actions, Methods
<1>3. ManagerTypeOK'
  <2>1. /\ at' \in [Managers -> Steps] /\ work' \in [Managers -> Works]
        /\ alone' \in [Managers -> BOOLEAN]
    BY <1>1, <1>2, TypeParts DEF LifecycleInv, Steps
  <2> QED
    BY <1>1, <2>1, TypeParts
       DEF LifecycleInv, ManagerTypeOK, processes, records, Works, ProcessesTyped, Phases,
           RecordsTyped
<1>4. ServiceMethods'
  BY <1>1, <1>2, TypeParts DEF LifecycleInv, ServiceMethods, records
<1>5. \A n \in Managers : ~alone'[n]
  BY <1>1, TypeParts DEF LifecycleInv
<1> QED
  BY <1>3, <1>4, <1>5 DEF LifecycleInv, LoneTask

\* At most one server is counted, so any two are one.
LEMMA CountedOne ==
    ASSUME Cardinality(AliveServers) <= 1
    PROVE  OneServer
<1> SUFFICES ASSUME NEW p \in AliveServers, NEW q \in AliveServers, p # q PROVE FALSE
  BY DEF OneServer
<1>1. IsFiniteSet(1 .. MaxTokens)
  <2>1. 1 \in Int /\ MaxTokens \in Int
    BY ManagerAssumption
  <2> QED
    BY <2>1, FS_Interval
<1>2. IsFiniteSet(AliveServers)
  BY <1>1, FS_Subset DEF AliveServers, Tokens
<1>3. Cardinality({p}) = 1 /\ IsFiniteSet({p})
  BY FS_Singleton
<1>4. Cardinality({p} \cup {q}) = 2
  <2>1. q \notin {p}
    OBVIOUS
  <2> QED
    BY <1>3, <2>1, FS_AddElement
<1>5. Cardinality({p} \cup {q}) <= Cardinality(AliveServers)
  <2>1. {p} \cup {q} \subseteq AliveServers
    OBVIOUS
  <2> QED
    BY <1>2, <2>1, FS_Subset
<1>6. Cardinality(AliveServers) \in Nat
  BY <1>2, FS_CardinalityType
<1> QED
  BY <1>4, <1>5, <1>6

\* Only a command that begins while no other is at work, and no two servers
\* race, is promised anything.
LEMMA BeginKeepsLifecycle ==
    ASSUME LifecycleInv, NEW m \in Managers, Begin(m)
    PROVE  LifecycleInv'
<1>1. PICK command \in kinds :
        With(m, IF command = "stop" THEN "stop" ELSE "status",
                 [NoWork EXCEPT !.command = command,
                                !.then = CASE command = "start" -> "assess"
                                           [] command = "clear" -> "assessClear"
                                           [] OTHER             -> "report"])
  BY DEF Begin
<1>2. /\ at[m] = "idle" /\ commands > 0 /\ commands' = commands - 1
      /\ UNCHANGED <<service, kinds>> /\ UNCHANGED processes /\ UNCHANGED records
  BY DEF Begin
<1>3. PICK then : then = CASE command = "start" -> "assess"
                           [] command = "clear" -> "assessClear"
                           [] OTHER             -> "report"
  OBVIOUS
<1>4. PICK step : step = IF command = "stop" THEN "stop" ELSE "status"
  OBVIOUS
<1>5. PICK new : new = [NoWork EXCEPT !.command = command, !.then = then]
  OBVIOUS
<1>6. With(m, step, new)
  BY <1>1, <1>3, <1>4, <1>5
<1>7. then \in {"assess", "assessClear", "report"} /\ (command = "start" => then = "assess")
  <2>1. CASE command = "start"
    BY <1>3, <2>1, Zenon
  <2>2. CASE command # "start" /\ command = "clear"
    BY <1>3, <2>2, Zenon
  <2>3. CASE command # "start" /\ command # "clear"
    BY <1>3, <2>3, Zenon
  <2> QED
    BY <2>1, <2>2, <2>3
<1>8. command \in Actions /\ 0 \in 0 .. MaxTokens
  BY ManagerAssumption, TypeParts DEF LifecycleInv
<1>9. /\ new \in Works
      /\ new.command = command /\ new.then = then /\ new.method = "process"
  BY <1>5, <1>7, <1>8 DEF Works, NoWork, Methods
<1>10. step \in Steps \ {"idle"}
  BY <1>4 DEF Steps
<1>11. /\ at' \in [Managers -> Steps] /\ work' \in [Managers -> Works]
       /\ at'[m] = step /\ work'[m] = new
       /\ \A n \in Managers \ {m} : at'[n] = at[n] /\ work'[n] = work[n]
  BY <1>6, <1>9, <1>10, TypeParts DEF LifecycleInv, With, Go
<1>12. /\ alone' \in [Managers -> BOOLEAN]
       /\ \A n \in Managers \ {m} : alone'[n] => alone[n] /\ at[n] = "idle"
       /\ alone'[m] => /\ \A n \in Managers \ {m} : at[n] = "idle"
                       /\ Cardinality(AliveServers) <= 1
  <2> DEFINE running == {other \in Managers \ {m} : at[other] # "idle"}
             few == Cardinality(AliveServers) <= 1
  <2>1. alone' = [other \in Managers |->
                     IF other = m THEN running = {} /\ few
                                  ELSE alone[other] /\ other \notin running]
    BY DEF Begin
  <2>2. \A n \in Managers \ {m} : n \notin running => at[n] = "idle"
    OBVIOUS
  <2>3. (running = {}) \in BOOLEAN /\ few \in BOOLEAN
    OBVIOUS
  <2> HIDE DEF few, running
  <2>4. alone' \in [Managers -> BOOLEAN]
    BY <2>1, <2>3, TypeParts DEF LifecycleInv
  <2>5. \A n \in Managers \ {m} : alone'[n] => alone[n] /\ n \notin running
    BY <2>1
  <2>6. alone'[m] => running = {} /\ few
    BY <2>1
  <2> QED
    BY <2>2, <2>4, <2>5, <2>6 DEF few
<1>13. ManagerTypeOK'
  BY <1>2, <1>11, <1>12, TypeParts
     DEF LifecycleInv, ManagerTypeOK, processes, records, ProcessesTyped, RecordsTyped,
         Works, Phases
<1>14. ServiceMethods'
  BY <1>2, <1>9, <1>11 DEF LifecycleInv, ServiceMethods, records
<1>15. ASSUME NEW n \in Managers, alone'[n]
       PROVE  /\ n = m
              /\ at'[n] # "idle"
              /\ \A k \in Managers \ {n} : at'[k] = "idle"
  BY <1>10, <1>11, <1>12, <1>15 DEF LifecycleInv
<1>16. ASSUME LoneTask(m)' PROVE InPlace(m)'
  <2>1. new.command \in {"start", "stop"} /\ alone'[m]
    BY <1>11, <1>16 DEF LoneTask
  <2>2. OneServer'
    BY <1>2, <1>12, <2>1, CountedOne, SameServers
  <2>3. Place(new, step)'
    BY <1>4, <1>7, <1>9, <2>1 DEF Place, StatusPurpose
  <2> QED
    BY <1>11, <2>2, <2>3 DEF InPlace
<1>17. \A n \in Managers : LoneTask(n)' => n = m
  BY <1>15 DEF LoneTask
<1> QED
  BY <1>13, <1>14, <1>15, <1>16, <1>17 DEF LifecycleInv

\* What is known of the servers stays known when one of them moves on.
LEMMA PlaceFollows ==
    ASSUME NEW w, NEW step, Place(w, step),
           AliveServers' \subseteq AliveServers, state' = state,
           NoneServes => NoneServes', Accepted => Accepted'
    PROVE  Place(w, step)'
BY DEF Place, StatusPurpose, OnlyServer

LEMMA ProcessKeepsLifecycle ==
    ASSUME LifecycleInv, NEW pid \in Tokens, Process(pid)
    PROVE  LifecycleInv'
<1>0. ManagerTypeOK /\ pid \in 0 .. MaxTokens
  BY ServersAreTokens DEF LifecycleInv
<1>1. UNCHANGED <<service, commands, kinds>> /\ UNCHANGED records /\ UNCHANGED local
  BY DEF Process, Serve, Exit, Refused, CrashServer
<1>2. PICK phase \in {"gone", "serving"} :
        InPhase(pid, phase) /\ (phase = "serving" => Serve(pid))
  BY DEF Process, Serve, Exit, Refused, CrashServer
<1>3. /\ ProcessesTyped' /\ jvm'[pid] = phase
      /\ AliveServers' \subseteq AliveServers \cup {pid}
      /\ phase = "gone" => AliveServers' \subseteq AliveServers \ {pid}
      /\ \A q \in Tokens \ {pid} : jvm'[q] = jvm[q] /\ loaded'[q] = loaded[q]
  BY <1>0, <1>2, PhaseChange DEF Phases
<1>4. AliveServers' \subseteq AliveServers
  <2>1. phase = "serving" => pid \in AliveServers
    BY <1>2 DEF Serve, AliveServers, Alive, Tokens
  <2> QED
    BY <1>3, <2>1
<1>5. RecordsTyped' /\ state' = state /\ tokenFile' = tokenFile
  BY <1>0, <1>1, SameRecords
<1>6. CASE alone' = alone /\ jvm[pid] # "serving"
  <2>1. ManagerTypeOK'
    BY <1>0, <1>1, <1>3, <1>5, <1>6, TypeParts
       DEF ManagerTypeOK, local, ProcessesTyped, RecordsTyped, Works, Phases
  <2>2. ServiceMethods'
    BY <1>1, <1>5 DEF LifecycleInv, ServiceMethods, local
  <2>3. NoneServes => NoneServes'
    BY <1>2, <1>3 DEF NoneServes, Serve
  <2>4. Accepted => Accepted'
    <3> SUFFICES ASSUME NEW q \in Tokens, Serving(q), loaded[q] = tokenFile, state.pid = q
                 PROVE  Accepted'
      BY DEF Accepted
    <3>1. q # pid
      BY <1>6 DEF Serving
    <3> QED
      BY <1>3, <1>5, <3>1 DEF Accepted, Serving
  <2>5. ASSUME NEW n \in Managers, LoneTask(n)' PROVE InPlace(n)'
    <3>1. LoneTask(n) /\ work'[n] = work[n] /\ at'[n] = at[n]
      BY <1>1, <1>6, <2>5 DEF LoneTask, local
    <3>2. PICK w, step : w = work[n] /\ step = at[n]
      OBVIOUS
    <3>3. OneServer /\ Place(w, step)
      BY <3>1, <3>2, Known
    <3>4. OneServer' /\ Place(w, step)'
      BY <1>4, <1>5, <2>3, <2>4, <3>3, PlaceFollows DEF OneServer
    <3> QED
      BY <3>1, <3>2, <3>4 DEF InPlace
  <2>6. ASSUME NEW n \in Managers, alone'[n]
        PROVE  at'[n] # "idle" /\ \A k \in Managers \ {n} : at'[k] = "idle"
    BY <1>1, <1>6, <2>6 DEF LifecycleInv, local
  <2> QED
    BY <2>1, <2>2, <2>5, <2>6 DEF LifecycleInv
<1>7. CASE Disturb(Managers)
  <2>1. alone' = [n \in Managers |-> FALSE]
    BY <1>0, <1>7, TypeParts DEF Disturb
  <2>2. ManagerTypeOK'
    BY <1>0, <1>1, <1>3, <1>5, <2>1, TypeParts
       DEF ManagerTypeOK, local, ProcessesTyped, RecordsTyped, Works, Phases
  <2>3. ServiceMethods'
    BY <1>1, <1>5 DEF LifecycleInv, ServiceMethods, local
  <2> QED
    BY <2>1, <2>2, <2>3 DEF LifecycleInv, LoneTask
<1> QED
  BY <1>6, <1>7 DEF Process, Serve, Exit, Refused, CrashServer

LEMMA RebuildKeepsLifecycle ==
    ASSUME LifecycleInv, Rebuild
    PROVE  LifecycleInv'
<1>1. /\ refresh' = TRUE /\ commands > 0 /\ commands' = commands - 1
      /\ UNCHANGED <<service, tokenFile, state, issued, kinds, alone>>
      /\ UNCHANGED processes /\ UNCHANGED local
  BY DEF Rebuild
<1>2. ManagerTypeOK'
  BY <1>1, TypeParts
     DEF LifecycleInv, ManagerTypeOK, processes, local, ProcessesTyped, RecordsTyped,
         Works, Phases
<1>3. ServiceMethods'
  BY <1>1 DEF LifecycleInv, ServiceMethods, local
<1>4. NoneServes => NoneServes'
  BY <1>1, SameServers
<1>5. Accepted => Accepted'
  BY <1>1 DEF Accepted, Serving, processes
<1>6. ASSUME NEW n \in Managers, LoneTask(n)' PROVE InPlace(n)'
  <2>1. LoneTask(n) /\ work'[n] = work[n] /\ at'[n] = at[n]
    BY <1>1, <1>6 DEF LoneTask, local
  <2>2. PICK w, step : w = work[n] /\ step = at[n]
    OBVIOUS
  <2>3. OneServer /\ Place(w, step)
    BY <2>1, <2>2, Known
  <2>4. OneServer' /\ Place(w, step)'
    BY <1>1, <1>4, <1>5, <2>3, PlaceFollows, SameServers
  <2> QED
    BY <2>1, <2>2, <2>4 DEF InPlace
<1>7. ASSUME NEW n \in Managers, alone'[n]
      PROVE  at'[n] # "idle" /\ \A k \in Managers \ {n} : at'[k] = "idle"
  BY <1>1, <1>7 DEF LifecycleInv, local
<1> QED
  BY <1>2, <1>3, <1>6, <1>7 DEF LifecycleInv

LEMMA UnchangedKeepsLifecycle ==
    ASSUME LifecycleInv, UNCHANGED lifecycle
    PROVE  LifecycleInv'
<1>1. /\ UNCHANGED <<service, commands, kinds, alone>>
      /\ UNCHANGED processes /\ UNCHANGED records /\ UNCHANGED local
  BY DEF lifecycle
<1>2. ManagerTypeOK' /\ ServiceMethods'
  BY <1>1 DEF LifecycleInv, ManagerTypeOK, ServiceMethods, processes, records, local
<1>3. ASSUME NEW n \in Managers, LoneTask(n)' PROVE InPlace(n)'
  <2>1. LoneTask(n) /\ work'[n] = work[n] /\ at'[n] = at[n]
    BY <1>1, <1>3 DEF LoneTask, local
  <2>2. PICK w, step : w = work[n] /\ step = at[n]
    OBVIOUS
  <2>3. OneServer /\ Place(w, step)
    BY <2>1, <2>2, Known
  <2>4. OneServer' /\ Place(w, step)'
    BY <1>1, <2>3, PlaceStays, SameServers
  <2> QED
    BY <2>1, <2>2, <2>4 DEF InPlace
<1>4. ASSUME NEW n \in Managers, alone'[n]
      PROVE  at'[n] # "idle" /\ \A k \in Managers \ {n} : at'[k] = "idle"
  BY <1>1, <1>4 DEF LifecycleInv, local
<1> QED
  BY <1>2, <1>3, <1>4 DEF LifecycleInv

\* A clear with its server touches neither servers nor records; only its end
\* moves the command on.
LEMMA ClearKeepsLifecycle ==
    ASSUME LifecycleInv, NEW m \in Managers, ClearBegins(m) \/ ClearGoesOn(m)
    PROVE  LifecycleInv'
<1>1. /\ at[m] = "clear" /\ Keep /\ UNCHANGED processes /\ UNCHANGED records
      /\ UNCHANGED local \/ Fail(m) \/ (Go(m, "report") /\ UNCHANGED work)
  <2>1. CASE ClearBegins(m)
    BY <2>1 DEF ClearBegins
  <2>2. CASE ClearGoesOn(m)
    <3>1. /\ at[m] = "clear" /\ Keep /\ UNCHANGED processes /\ UNCHANGED records
          /\ ManagerStep
          /\ IF pc' # "idle" THEN UNCHANGED local
             ELSE CASE result' = "failed"  -> Fail(m)
                    [] result' = "cleared" -> Go(m, "report") /\ UNCHANGED work
      BY <2>2 DEF ClearGoesOn
    <3>2. pc' = "idle" => result' \in {"failed", "cleared"}
      BY <3>1 DEF ManagerStep, Pause, SaveOff, FlushBefore, ReadRegion, AddPosition, FinishScan,
                  FlushPendingBlocks, SaveOn, FlushAfter, Resume, Report, Exchange
    <3>3. CASE pc' # "idle"
      BY <3>1, <3>3
    <3>4. CASE pc' = "idle" /\ result' = "failed"
      <4>1. Fail(m)
        BY <3>1, <3>4, Zenon
      <4> QED
        BY <3>1, <4>1
    <3>5. CASE pc' = "idle" /\ result' = "cleared"
      <4>1. Go(m, "report") /\ UNCHANGED work
        BY <3>1, <3>5, Zenon
      <4> QED
        BY <3>1, <4>1
    <3> QED
      BY <3>2, <3>3, <3>4, <3>5
  <2> QED
    BY <2>1, <2>2
<1>2. ~LoneTask(m)
  BY <1>1, Known DEF Place
<1>3. CASE UNCHANGED local
  BY <1>1, <1>3, UnchangedKeepsLifecycle DEF Keep, lifecycle
<1>4. CASE Fail(m)
  <2>1. ProcessesTyped' /\ RecordsTyped' /\ state' = state
    BY <1>1, Known, SameRecords DEF processes, ProcessesTyped
  <2> QED
    BY <1>1, <1>2, <1>4, <2>1, Known, FailMoves, MovedKeepsLifecycle
<1>5. CASE Go(m, "report") /\ UNCHANGED work
  <2>1. PICK w : w = work[m]
    OBVIOUS
  <2>2. With(m, "report", w) /\ w \in Works /\ "report" \in Steps \ {"idle"}
    BY <1>5, <2>1, GoIsWith, Known DEF Steps
  <2> QED
    BY <1>1, <1>2, <2>1, <2>2, LocalMoves, MovedKeepsLifecycle
<1> QED
  BY <1>1, <1>3, <1>4, <1>5

\* Every step of a command but its last takes it from a place to the next.
LEMMA StepKeepsLifecycle ==
    ASSUME LifecycleInv, NEW m \in Managers, Step(m)
    PROVE  LifecycleInv'
<1>1. CASE Finish(m)
  BY <1>1, EndKeepsLifecycle
<1>2. ASSUME ~Finish(m) PROVE Moved(m)
  BY <1>2, StatusReadMoves, StatusWriteMoves, AssessClearMoves, AssessMoves, ProbeMoves,
     StopMoves, AskMoves, AwaitExitMoves, TerminateMoves, AwaitKillMoves, UnitStopsMoves,
     RemoveMoves, PrepareMoves, WriteHarnessConfigurationMoves, LaunchMoves,
     RecordLaunchMoves, AwaitMoves, ConfigureQuietWorldMoves, UndoMoves, ForgetMoves
  DEF Step
<1>3. at[m] # "idle"
  BY DEF Step, StatusRead, StatusWrite, AssessClear, Assess, Probe, Stop, Ask, AwaitExit,
         Terminate, AwaitKill, UnitStops, Remove, Prepare, WriteHarnessConfiguration, Launch,
         RecordLaunch, Await, ConfigureQuietWorld, Undo, Forget, Finish
<1> QED
  BY <1>1, <1>2, <1>3, MovedKeepsLifecycle

LEMMA NextLifecycleInv == LifecycleInv /\ [RuntimeNext]_runtime => LifecycleInv'
<1> SUFFICES ASSUME LifecycleInv, [RuntimeNext]_runtime PROVE LifecycleInv'
  OBVIOUS
<1>1. UNCHANGED runtime => UNCHANGED lifecycle
  BY DEF runtime
<1>2. ASSUME NEW m \in Managers, Killed(m) PROVE LifecycleInv'
  BY <1>2, EndKeepsLifecycle DEF Killed
<1> QED
  BY <1>1, <1>2, RebuildKeepsLifecycle, ProcessKeepsLifecycle, BeginKeepsLifecycle,
     StepKeepsLifecycle, ClearKeepsLifecycle, UnchangedKeepsLifecycle
  DEF RuntimeNext

LEMMA InitLifecycleInv == RuntimeInit => LifecycleInv
<1> SUFFICES ASSUME RuntimeInit PROVE LifecycleInv
  OBVIOUS
<1>1. PICK load \in Loads : \E running \in load.running :
        /\ service \in load.services
        /\ issued = running /\ tokenFile = running
        /\ jvm = [pid \in Tokens |-> IF pid = running THEN "serving" ELSE "gone"]
        /\ loaded = [pid \in Tokens |-> IF pid = running THEN running ELSE 0]
        /\ state = [pid |-> running,
                    method |-> IF service /\ running # 0 THEN "user-service" ELSE "process"]
        /\ refresh = FALSE
        /\ at = [m \in Managers |-> "idle"]
        /\ work = [m \in Managers |-> NoWork]
        /\ alone = [m \in Managers |-> FALSE]
        /\ commands = load.commands /\ kinds = load.kinds
  BY DEF RuntimeInit
<1>2. /\ load.running \subseteq {0, 1} \cap 0 .. MaxTokens
      /\ load.services \subseteq BOOLEAN
      /\ load.kinds \subseteq Actions /\ load.commands \in Nat
  BY LoadsAssumption
<1>3. NoWork \in Works /\ NoWork.method = "process" /\ 0 \in 0 .. MaxTokens
  BY ManagerAssumption DEF NoWork, Works, Actions, Methods
<1>4. ManagerTypeOK
  <2>1. PICK running \in load.running :
          /\ issued = running /\ tokenFile = running
          /\ jvm = [pid \in Tokens |-> IF pid = running THEN "serving" ELSE "gone"]
          /\ loaded = [pid \in Tokens |-> IF pid = running THEN running ELSE 0]
          /\ state = [pid |-> running,
                      method |-> IF service /\ running # 0 THEN "user-service" ELSE "process"]
    BY <1>1
  <2>2. running \in 0 .. MaxTokens
    BY <1>2
  <2>3. /\ state \in [pid : 0 .. MaxTokens, method : Methods]
        /\ issued \in 0 .. MaxTokens /\ tokenFile \in 0 .. MaxTokens
    BY <2>1, <2>2 DEF Methods
  <2>4. ProcessesTyped
    BY <1>3, <2>1, <2>2 DEF ProcessesTyped, Phases
  <2>5. /\ service \in BOOLEAN /\ refresh \in BOOLEAN
        /\ commands \in Nat /\ kinds \subseteq Actions
    BY <1>1, <1>2
  <2>6. at \in [Managers -> Steps] /\ work \in [Managers -> Works]
        /\ alone \in [Managers -> BOOLEAN]
    BY <1>1, <1>3 DEF Steps
  <2> QED
    BY <2>3, <2>4, <2>5, <2>6 DEF ManagerTypeOK, ProcessesTyped, Works, Phases
<1>5. ServiceMethods
  BY <1>1, <1>3 DEF ServiceMethods
<1>6. \A m \in Managers : ~alone[m]
  BY <1>1
<1> QED
  BY <1>4, <1>5, <1>6 DEF LifecycleInv, LoneTask

LEMMA LifecycleInvHolds == RuntimeSpec => []LifecycleInv
BY InitLifecycleInv, NextLifecycleInv, PTL DEF RuntimeSpec

\* A start that nothing disturbs ends with the server on record serving under
\* the token on disk, or with none but one on its way out; a stop that nothing
\* disturbs leaves none, or the record that lets the next stop find it -
\* whatever killed, failed or overlapping commands have left behind.
THEOREM LoneCommandsAreSettled == RuntimeSpec => []LoneCommandsSettle
<1>1. LifecycleInv => LoneCommandsSettle
  <2> SUFFICES ASSUME LifecycleInv PROVE LoneCommandsSettle
    OBVIOUS
  <2>1. ASSUME NEW m \in Managers, at[m] = "report", LoneTask(m) PROVE Settled(m)
    <3>1. /\ work[m].outcome \in {"running", "started"} => Accepted
          /\ work[m].outcome = "stopped" => AliveServers = {}
          /\ work[m].outcome = "failed" => NoneServes
          /\ work[m].outcome = "notStopped" => OnlyServer(state.pid)
      BY <2>1, Known DEF Place
    <3>2. OnlyServer(state.pid) => AliveServers = {} \/ Alive(state.pid)
      BY DEF OnlyServer, AliveServers
    <3> QED
      BY <3>1, <3>2 DEF Settled, Accepted, NoneServes
  <2> QED
    BY <2>1 DEF LoneCommandsSettle, LifecycleInv, LoneTask
<1> QED
  BY <1>1, LifecycleInvHolds, PTL
=============================================================================
