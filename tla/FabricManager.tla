----------------------------- MODULE FabricManager -----------------------------
(***************************************************************************)
(* The life cycle of the validation server: the manager's start, stop,     *)
(* status and clear commands, each a process of its own that may be        *)
(* killed, over what they share: the state file, the token file and the    *)
(* Java processes.  Nothing is locked, so every read, write and request is *)
(* a step.  What a clear does once it has a server is in FabricRuntime.    *)
(*                                                                         *)
(* A process is named by the number of the token that was written just     *)
(* before it was launched; the token it loads when it boots may be another.*)
(***************************************************************************)
EXTENDS Naturals, FiniteSets

CONSTANTS Managers,     \* manager processes that can run side by side
          MaxTokens     \* bound: tokens written, so also servers launched

ASSUME ManagerAssumption == MaxTokens \in Nat

Tokens == 1 .. MaxTokens

VARIABLES
    service,    \* UserServiceManagerAvailable, of this host
    jvm,        \* the phase of each Java process, gone before its launch
    loaded,     \* the token each server in service has loaded, else 0
    tokenFile,  \* the token in the harness configuration
    state,      \* ManagerState; Pid 0 when there is no file
    issued,     \* tokens written so far
    refresh,    \* HarnessNeedsRefresh
    at,         \* the next step of each manager
    work,       \* its local variables
    commands,   \* bound: commands and builds that may still come
    kinds,      \* bound: the commands among them
    alone       \* history: no other command, and no crash, since it began, and
                \* no two servers raced for the world when it began

processes == <<jvm, loaded>>
records   == <<tokenFile, state, issued, refresh>>
local     == <<at, work>>
lifecycle == <<service, processes, records, local, commands, kinds, alone>>

Actions == {"start", "stop", "status", "clear"}
Methods == {"user-service", "process", "recovered"}
NoState == [pid |-> 0, method |-> "process"]

\* command: what was asked; then: where to go after a status, a failed probe or
\* the end of the unit; pid: the process in hand; method: how it was launched;
\* own: the token this start has written; edit: what a status does to the
\* state file; outcome: what is reported.
NoWork == [command |-> "status", then |-> "report", pid |-> 0, method |-> "process",
           own |-> 0, edit |-> "keep", outcome |-> "none"]

Steps == {"idle", "status", "statusWrite", "assessClear", "assess", "probe", "stop",
          "ask", "awaitExit", "terminate", "awaitKill", "unitStops", "remove",
          "prepare", "configure", "launch", "record", "await", "quiet", "undo",
          "forget", "clear", "report"}

ManagerTypeOK ==
    /\ service \in BOOLEAN
    /\ jvm \in [Tokens -> {"gone", "booting", "serving", "stopping"}]
    /\ loaded \in [Tokens -> 0 .. MaxTokens]
    /\ tokenFile \in 0 .. MaxTokens
    /\ state \in [pid : 0 .. MaxTokens, method : Methods]
    /\ issued \in 0 .. MaxTokens
    /\ refresh \in BOOLEAN
    /\ at \in [Managers -> Steps]
    /\ work \in [Managers ->
         [command : Actions,
          then : {"assessClear", "assess", "prepare", "report", "clear", "remove", "forget"},
          pid : 0 .. MaxTokens, method : Methods, own : 0 .. MaxTokens,
          edit : {"keep", "record", "remove"},
          outcome : {"none", "running", "started", "stopped", "notStopped", "failed"}]]
    /\ commands \in Nat /\ kinds \subseteq Actions
    /\ alone \in [Managers -> BOOLEAN]

-----------------------------------------------------------------------------
(* Java processes.                                                         *)

Alive(pid) == pid # 0 /\ jvm[pid] \in {"booting", "serving", "stopping"}
AliveServers == {pid \in Tokens : Alive(pid)}

\* The process that holds the world and the control port.
Serving(pid) == jvm[pid] = "serving"
Up == \E pid \in Tokens : Serving(pid)

\* It accepts the token on disk.
Authentic == \E pid \in Tokens : Serving(pid) /\ loaded[pid] = tokenFile

\* The user service runs one process under a fixed unit name, so in a session
\* that has services it is the only one.
ServiceMainPids == IF service THEN AliveServers ELSE {}

\* A server that begins to serve has loaded the token on disk.
InPhase(pid, phase) ==
    /\ jvm' = [jvm EXCEPT ![pid] = phase]
    /\ loaded' = [loaded EXCEPT ![pid] = IF phase = "serving" THEN tokenFile ELSE 0]

Disturb(others) == alone' = [m \in Managers |-> alone[m] /\ m \notin others]

\* The harness loads its configuration and binds the port; the world lock
\* admits one server.  What loads between the two is taken as one step.
Serve(pid) ==
    /\ jvm[pid] = "booting"
    /\ \A other \in Tokens : jvm[other] \notin {"serving", "stopping"}
    /\ InPhase(pid, "serving")
    /\ UNCHANGED <<service, records, local, commands, kinds, alone>>

\* A server that was told to stop has saved and exits.
Exit(pid) ==
    /\ jvm[pid] = "stopping"
    /\ InPhase(pid, "gone")
    /\ UNCHANGED <<service, records, local, commands, kinds, alone>>

\* A booting server that finds the world locked.
Refused(pid) ==
    /\ jvm[pid] = "booting"
    /\ \E other \in Tokens : jvm[other] \in {"serving", "stopping"}
    /\ InPhase(pid, "gone")
    /\ UNCHANGED <<service, records, local, commands, kinds, alone>>

CrashServer(pid) ==
    /\ Alive(pid)
    /\ InPhase(pid, "gone")
    /\ Disturb(Managers)
    /\ UNCHANGED <<service, records, local, commands, kinds>>

\* The project builds a newer harness.
Rebuild ==
    /\ ~refresh
    /\ refresh' = TRUE
    /\ commands > 0 /\ commands' = commands - 1
    /\ UNCHANGED <<service, processes, tokenFile, state, issued, local, kinds, alone>>

-----------------------------------------------------------------------------
(* Steps of a manager.                                                     *)

Go(m, step) == at' = [at EXCEPT ![m] = step]

Keep == UNCHANGED <<service, commands, kinds, alone>>

\* Move on with new local variables.
With(m, step, new) ==
    /\ Go(m, step)
    /\ work' = [work EXCEPT ![m] = new]

\* An exception ends the command.
Fail(m) == With(m, "report", [NoWork EXCEPT !.command = work[m].command,
                                            !.outcome = "failed"])

\* SIGTERM: a server saves and exits, one that boots has nothing to save.
Terminated(pid) == InPhase(pid, IF jvm[pid] = "booting" THEN "gone" ELSE "stopping")

\* systemctl stop returns when the process of the unit is gone; it is taken to
\* succeed.
StopUserService(m, new) ==
    \/ /\ ServiceMainPids = {}
       /\ With(m, new.then, new)
       /\ UNCHANGED processes
    \/ \E pid \in ServiceMainPids :
         /\ Terminated(pid)
         /\ With(m, "unitStops", [new EXCEPT !.pid = pid])

UnitStops(m) ==
    /\ at[m] = "unitStops"
    /\ ~Alive(work[m].pid)
    /\ Go(m, work[m].then)
    /\ Keep /\ UNCHANGED <<work, processes, records>>

\* A command of the compiler or the operator: a new process of its own.
Begin(m) ==
    /\ at[m] = "idle"
    /\ commands > 0
    /\ commands' = commands - 1
    /\ \E command \in kinds :
         /\ command = "clear" => \A other \in Managers : work[other].command # "clear"
         /\ With(m, IF command = "stop" THEN "stop" ELSE "status",
                 [NoWork EXCEPT !.command = command,
                                !.then = CASE command = "start" -> "assess"
                                           [] command = "clear" -> "assessClear"
                                           [] OTHER             -> "report"])
    /\ LET running == {other \in Managers \ {m} : at[other] # "idle"} IN
         alone' = [other \in Managers |->
                     IF other = m THEN running = {} /\ Cardinality(AliveServers) <= 1
                                  ELSE alone[other] /\ other \notin running]
    /\ UNCHANGED <<service, kinds, processes, records>>

\* Mutant: only the recorded process is looked for.
RecordedStatusRead(m) ==
    /\ at[m] = "status"
    /\ With(m, "statusWrite",
            [work[m] EXCEPT !.pid = IF Alive(state.pid) THEN state.pid ELSE 0,
                            !.edit = IF Alive(state.pid) \/ state.pid = 0 THEN "keep"
                                                                          ELSE "remove"])
    /\ Keep /\ UNCHANGED <<processes, records>>

\* CurrentStatus, its first half: the recorded process if it is owned, else
\* any process of the canonical launcher; and what that makes of the record.
StatusRead(m) ==
    /\ at[m] = "status"
    /\ \E pid \in IF Alive(state.pid) THEN {state.pid}
                  ELSE IF AliveServers = {} THEN {0} ELSE AliveServers :
         With(m, "statusWrite",
              [work[m] EXCEPT
                 !.pid = pid,
                 !.edit = IF pid # 0 /\ (state.pid # pid \/ state.method = "recovered")
                            THEN "record"
                          ELSE IF pid = 0 /\ state.pid # 0 THEN "remove" ELSE "keep"])
    /\ Keep /\ UNCHANGED <<processes, records>>

\* Its second half: an unrecorded process is recorded, a stale record removed.
StatusWrite(m) ==
    /\ at[m] = "statusWrite"
    /\ state' = CASE work[m].edit = "keep"   -> state
                  [] work[m].edit = "remove" -> NoState
                  [] work[m].edit = "record" ->
                       [pid |-> work[m].pid,
                        method |-> IF work[m].pid \in ServiceMainPids
                                     THEN "user-service" ELSE "recovered"]
    /\ With(m, work[m].then,
            [work[m] EXCEPT !.edit = "keep",
                            !.pid = IF work[m].then \in {"assess", "assessClear"} THEN @ ELSE 0])
    /\ Keep /\ UNCHANGED <<processes, tokenFile, issued, refresh>>

\* A start or a clear that ends well.
Success(command) == IF command = "clear" THEN "clear" ELSE "report"

\* ClearServerWorld leaves a running server alone, whatever the harness build,
\* and starts one otherwise.
AssessClear(m) ==
    /\ at[m] = "assessClear"
    /\ IF work[m].pid # 0 THEN Go(m, "probe") /\ UNCHANGED work
                           ELSE With(m, "status", [work[m] EXCEPT !.then = "assess"])
    /\ Keep /\ UNCHANGED <<processes, records>>

\* StartServer: a running server with an old harness is restarted.
Assess(m) ==
    /\ at[m] = "assess"
    /\ Go(m, IF work[m].pid = 0 THEN "prepare" ELSE IF refresh THEN "stop" ELSE "probe")
    /\ Keep /\ UNCHANGED <<work, processes, records>>

\* RunningHarnessReady: an answer within five seconds.  A healthy server may
\* be too busy to give it.
Probe(m) ==
    /\ at[m] = "probe"
    /\ \/ /\ Authentic
          /\ With(m, Success(work[m].command), [work[m] EXCEPT !.pid = 0, !.outcome = "running"])
       \/ /\ work[m].then = "assess"
          /\ Go(m, "stop") /\ UNCHANGED work
       \/ work[m].then = "assessClear" /\ Fail(m)
    /\ Keep /\ UNCHANGED <<processes, records>>

\* StopServer reads the record.  It looks for no process the record misses.
Stop(m) ==
    /\ at[m] = "stop"
    /\ \/ /\ Alive(state.pid)
          /\ With(m, "ask", [work[m] EXCEPT !.pid = state.pid, !.method = state.method,
                                            !.then = "remove", !.outcome = "stopped"])
          /\ UNCHANGED processes
       \/ /\ ~Alive(state.pid)
          /\ LET new == [work[m] EXCEPT !.then = "remove", !.outcome = "notStopped"] IN
               IF state.method = "user-service"
                 THEN StopUserService(m, new)
                 ELSE With(m, "remove", new) /\ UNCHANGED processes
    /\ Keep /\ UNCHANGED records

\* The server that answers takes the stop command.
Ask(m) ==
    /\ at[m] = "ask"
    /\ \/ /\ Authentic
          /\ \E pid \in Tokens : Serving(pid) /\ InPhase(pid, "stopping")
          /\ Go(m, "awaitExit")
       \/ Go(m, "terminate") /\ UNCHANGED processes
    /\ Keep /\ UNCHANGED <<work, records>>

\* WaitForExit gives up on a server that is still there.
AwaitExit(m) ==
    /\ at[m] = "awaitExit"
    /\ Go(m, IF Alive(work[m].pid) THEN "terminate" ELSE "remove")
    /\ Keep /\ UNCHANGED <<work, processes, records>>

Terminate(m) ==
    /\ at[m] = "terminate"
    /\ IF work[m].method = "user-service"
         THEN StopUserService(m, work[m])
         ELSE IF Alive(work[m].pid)
         THEN Terminated(work[m].pid) /\ Go(m, "awaitKill") /\ UNCHANGED work
         ELSE Fail(m) /\ UNCHANGED processes
    /\ Keep /\ UNCHANGED records

AwaitKill(m) ==
    /\ at[m] = "awaitKill"
    /\ IF Alive(work[m].pid) THEN Fail(m)
                              ELSE Go(m, "remove") /\ UNCHANGED work
    /\ Keep /\ UNCHANGED <<processes, records>>

\* StopServer removes the record, whoever has written it meanwhile, and
\* reports the status.
Remove(m) ==
    /\ at[m] = "remove"
    /\ state' = NoState
    /\ With(m, "status",
            [work[m] EXCEPT !.pid = 0, !.method = "process",
                            !.then = IF work[m].command = "stop" THEN "report"
                                                                 ELSE "prepare"])
    /\ Keep /\ UNCHANGED <<processes, tokenFile, issued, refresh>>

\* EnsureServerPrerequisites installs a newer harness; a missing launcher,
\* licence or harness ends the start.
Prepare(m) ==
    /\ at[m] = "prepare"
    /\ \/ refresh' = FALSE /\ Go(m, "configure") /\ UNCHANGED work
       \/ Fail(m) /\ UNCHANGED refresh
    /\ Keep /\ UNCHANGED <<processes, tokenFile, state, issued>>

WriteHarnessConfiguration(m) ==
    /\ at[m] = "configure"
    /\ issued < MaxTokens
    /\ issued' = issued + 1
    /\ tokenFile' = issued'
    /\ With(m, "launch", [work[m] EXCEPT !.own = issued', !.pid = 0])
    /\ Keep /\ UNCHANGED <<processes, state, refresh>>

\* systemd-run refuses a unit name in use, and the start ends there; so it
\* does when the process dies at once.
Launch(m) ==
    /\ at[m] = "launch"
    /\ \/ /\ ServiceMainPids = {}
          /\ InPhase(work[m].own, "booting")
          /\ Go(m, "record") /\ UNCHANGED work
       \/ /\ service
          /\ Fail(m) /\ UNCHANGED processes
    /\ Keep /\ UNCHANGED records

RecordLaunch(m) ==
    /\ at[m] = "record"
    /\ state' = [pid |-> work[m].own,
                 method |-> IF service THEN "user-service" ELSE "process"]
    /\ Go(m, "await")
    /\ Keep /\ UNCHANGED <<work, processes, tokenFile, issued, refresh>>

\* WaitForReady: until an answer, a rejected token or the deadline.
Await(m) ==
    /\ at[m] = "await"
    /\ \/ Authentic /\ Go(m, "quiet")
       \/ Go(m, "undo")
    /\ Keep /\ UNCHANGED <<work, processes, records>>

\* ConfigureSimulationWorld, and the status the start reports.
ConfigureQuietWorld(m) ==
    /\ at[m] = "quiet"
    /\ \/ /\ Authentic
          /\ With(m, "status",
                  [work[m] EXCEPT !.then = Success(work[m].command), !.own = 0,
                                  !.outcome = "started"])
       \/ Go(m, "undo") /\ UNCHANGED work
    /\ Keep /\ UNCHANGED <<processes, records>>

\* What the start launched is stopped: by the unit, or by its process.
Undo(m) ==
    /\ at[m] = "undo"
    /\ LET new == [work[m] EXCEPT !.pid = work[m].own, !.then = "forget"] IN
         IF service THEN StopUserService(m, new)
         ELSE IF Alive(work[m].own)
         THEN Terminated(work[m].own) /\ With(m, "forget", new)
         ELSE With(m, "forget", new) /\ UNCHANGED processes
    /\ Keep /\ UNCHANGED records

Forget(m) ==
    /\ at[m] = "forget"
    /\ state' = NoState
    /\ Fail(m)
    /\ Keep /\ UNCHANGED <<processes, tokenFile, issued, refresh>>

\* The process prints its report and ends.
Finish(m) ==
    /\ at[m] = "report"
    /\ With(m, "idle", NoWork)
    /\ alone' = [alone EXCEPT ![m] = FALSE]
    /\ UNCHANGED <<service, commands, kinds, processes, records>>

\* The client's timeout, or the operator.
KillManager(m) ==
    /\ at[m] # "idle"
    /\ With(m, "idle", NoWork)
    /\ alone' = [alone EXCEPT ![m] = FALSE]
    /\ UNCHANGED <<service, commands, kinds, processes, records>>

Step(m) ==
    \/ StatusRead(m) \/ StatusWrite(m) \/ AssessClear(m) \/ Assess(m) \/ Probe(m)
    \/ Stop(m) \/ Ask(m) \/ AwaitExit(m) \/ Terminate(m) \/ AwaitKill(m)
    \/ UnitStops(m) \/ Remove(m) \/ Prepare(m) \/ WriteHarnessConfiguration(m)
    \/ Launch(m) \/ RecordLaunch(m) \/ Await(m) \/ ConfigureQuietWorld(m)
    \/ Undo(m) \/ Forget(m) \/ Finish(m)

Process(pid) == Serve(pid) \/ Exit(pid) \/ Refused(pid) \/ CrashServer(pid)

-----------------------------------------------------------------------------
(* Properties.                                                             *)

\* What the report of a command promises about the servers.
Settled(m) ==
    LET outcome == work[m].outcome IN
    /\ outcome \in {"running", "started"} =>
         \E pid \in Tokens :
            Serving(pid) /\ loaded[pid] = tokenFile /\ state.pid = pid
    /\ outcome = "stopped" => AliveServers = {}
    /\ outcome = "failed" => ~\E pid \in Tokens : jvm[pid] \in {"booting", "serving"}
    /\ outcome = "notStopped" => AliveServers = {} \/ Alive(state.pid)

\* Whatever killed, failed or overlapping commands have left behind, a start
\* that nothing disturbs ends well or in the open: with a server that accepts
\* the token on disk and is the one on record, or with no server but one on
\* its way out; and a stop that nothing disturbs leaves none, or the record
\* that lets the next stop find it.  (The type invariant is part.)
LoneCommandsSettle ==
    /\ ManagerTypeOK
    /\ \A m \in Managers :
         /\ at[m] = "report" /\ alone[m]
         /\ work[m].command \in {"start", "stop"}
         => Settled(m)

===============================================================================
