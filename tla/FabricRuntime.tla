----------------------------- MODULE FabricRuntime -----------------------------
(***************************************************************************)
(* The runtime manager as a whole: the life cycle of the server together   *)
(* with the clear of its world.  A clear that has found or started a       *)
(* server holds nothing that keeps other commands from stopping,           *)
(* restarting or rekeying that server between two of its requests, and the *)
(* requests themselves go to whatever server answers the token that is on  *)
(* disk when each of them is sent.                                         *)
(***************************************************************************)
EXTENDS FabricManager, WorldClear

\* Bounds: where a behaviour starts (running: 0 with no server, 1 with one),
\* which commands may be given, how many of them, and how many clears and
\* pastes of the world may follow.
CONSTANT Loads

ASSUME LoadsAssumption ==
    \A load \in Loads :
        /\ load.running \subseteq {0, 1} \cap 0 .. MaxTokens
        /\ load.services \subseteq BOOLEAN
        /\ load.kinds \subseteq Actions /\ load.commands \in Nat
        /\ load.clears \in 0 .. MaxRuns /\ load.pastes \in 0 .. MaxPastes

runtime == <<lifecycle, vars>>

\* Either no server has been started yet, or one serves and is on record.
RuntimeInit ==
    \E load \in Loads : \E running \in load.running :
      /\ service \in load.services
      /\ issued = running /\ tokenFile = running
      /\ jvm = [pid \in Tokens |-> IF pid = running THEN "serving" ELSE "gone"]
      /\ loaded = [pid \in Tokens |-> IF pid = running THEN running ELSE 0]
      /\ state = [pid |-> running,
                  method |-> IF service /\ running # 0 THEN "user-service" ELSE "process"]
      /\ refresh = FALSE
      /\ at = [m \in Managers |-> "idle"]
      /\ work = [m \in Managers |-> NoWork]
      /\ alone = [m \in Managers |-> FALSE]
      /\ WorldInit
      /\ up = Up /\ authentic = Authentic
      /\ commands = load.commands /\ kinds = load.kinds
      /\ runs = MaxRuns - load.clears
      /\ pastes = MaxPastes - load.pastes

\* What a step of the life cycle does to the world.
WorldFollows ==
    /\ up' = Up' /\ authentic' = Authentic'
    /\ CASE up /\ ~up' -> IF \E pid \in Tokens : Serving(pid) /\ jvm'[pid] = "stopping"
                            THEN Shutdown ELSE Crash
         [] ~up /\ up' -> Boot
         [] up = up'   -> IF authentic # authentic' THEN Rekey ELSE UNCHANGED vars

\* A clear with a server goes on with the world.  One that meets saved chunks
\* of another dimension fails at once.
ClearBegins(m) ==
    /\ at[m] = "clear"
    /\ pc = "idle"
    /\ StartClear
    /\ IF pc' = "idle" THEN Fail(m) ELSE UNCHANGED local
    /\ Keep /\ UNCHANGED <<processes, records>>

ClearGoesOn(m) ==
    /\ at[m] = "clear"
    /\ ManagerStep
    /\ IF pc' # "idle" THEN UNCHANGED local
       ELSE CASE result' = "failed"  -> Fail(m)
              [] result' = "cleared" -> Go(m, "report") /\ UNCHANGED work
    /\ Keep /\ UNCHANGED <<processes, records>>

Killed(m) ==
    /\ KillManager(m)
    /\ IF at[m] = "clear" /\ pc # "idle" THEN Kill ELSE UNCHANGED vars

RuntimeNext ==
    \/ Rebuild /\ UNCHANGED vars
    \/ \E pid \in Tokens : Process(pid) /\ WorldFollows
    \/ \E m \in Managers :
         \/ Begin(m) /\ UNCHANGED vars
         \/ Step(m) /\ WorldFollows
         \/ ClearBegins(m) \/ ClearGoesOn(m)
         \/ Killed(m)
    \/ (RunLate \/ AutoSave \/ Paste) /\ UNCHANGED lifecycle

RuntimeSpec == RuntimeInit /\ [][RuntimeNext]_runtime

===============================================================================
