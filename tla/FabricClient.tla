---------------------------- MODULE FabricClient ----------------------------
(***************************************************************************)
(* The compiler's validation client (FabricServerSupervisor) against the   *)
(* harness: one request, sent over one connection after another until an   *)
(* answer is read, a deadline passes or the harness hangs up.  A           *)
(* connection is a session of FabricHarness; one that the client has lost  *)
(* goes on in the server while the request is sent again.                  *)
(***************************************************************************)
EXTENDS FabricHarness

ASSUME ClientAssumption == "ClearImportedBlocks" \in Controls

VARIABLES asked,    \* the action of the request
          client,   \* where the client is
          attempt,  \* the session whose answer it reads, or Nothing
          result,   \* the Status returned, or Nothing
          alone,    \* history: no two sessions have overlapped
          original  \* history: the levers before the request

request == <<asked, client, attempt, result, alone, original>>

ClientTypeOK ==
    /\ asked \in Actions
    /\ client \in {"clearing", "probing", "connecting", "awaiting", "finished"}
    /\ attempt \in Sessions \cup {Nothing}
    /\ result \in Verdicts \cup {Nothing}
    /\ alone \in BOOLEAN
    /\ original \in Settings \cup {Nothing}

ClientInit ==
    /\ Init
    /\ asked \in Actions
    /\ client = IF asked = "Validate" THEN "clearing" ELSE "connecting"
    /\ attempt = Nothing
    /\ result = Nothing
    /\ alone = TRUE
    /\ original = levers

-----------------------------------------------------------------------------

Active == {s \in Sessions : pc[s] \notin {"idle", "done"}}

Finish(status) ==
    /\ client' = "finished"
    /\ result' = status
    /\ attempt' = Nothing

\* A validation that pastes has the manager clear the whole world first.
ClearCanonicalSimulationWorld ==
    /\ client = "clearing"
    /\ ClearImportedBlocks
    /\ client' = "probing"
    /\ UNCHANGED <<asked, attempt, result, alone, original>>

\* The endpoint must answer a read of no blocks.
GetRunningControl ==
    /\ client = "probing"
    /\ client' = "connecting"
    /\ UNCHANGED <<vars, asked, attempt, result, alone, original>>

\* The manager failed or took too long, its clear done or not, or there is no
\* endpoint; nothing is retried.
FailBeforeSending ==
    /\ client \in {"clearing", "probing"}
    /\ ClearImportedBlocks \/ UNCHANGED vars
    /\ Finish("infrastructure-failure")
    /\ UNCHANGED <<asked, alone, original>>

\* A refused connection or a server that is not ready is tried again, which
\* changes nothing; here the connection is made and the request is sent.
Send(s) ==
    /\ client = "connecting"
    /\ Submit(s, asked)
    /\ client' = "awaiting"
    /\ attempt' = s
    /\ alone' = (alone /\ Active = {})
    /\ UNCHANGED <<asked, result, original>>

\* The startup deadline is looked at between two connections only.
StartupExpires ==
    /\ client = "connecting"
    /\ Finish("infrastructure-failure")
    /\ UNCHANGED <<vars, asked, alone, original>>

\* A status the request does not know is an infrastructure failure.
ReadAnswer ==
    /\ client = "awaiting"
    /\ pc[attempt] = "done"
    /\ Finish(IF verdict[attempt] = "loaded" /\ asked # "LoadFixture"
                THEN "infrastructure-failure" ELSE verdict[attempt])
    /\ UNCHANGED <<vars, asked, alone, original>>

\* The client closes its end; the session finds out at a later write.
CloseConnection ==
    IF attempt \in Active
      THEN connected' = [connected EXCEPT ![attempt] = FALSE]
      ELSE UNCHANGED connected

\* The response deadline, an end of file or an invalid progress line.
GiveUp ==
    /\ client = "awaiting"
    /\ CloseConnection
    /\ Finish("infrastructure-failure")
    /\ UNCHANGED <<world, slot, observer, pc, action, wait, tested, saved, verdict,
                   asked, alone, original>>

\* A reset connection or an unreadable line has the request sent again; a load
\* is sent once.
BreakConnection ==
    /\ client = "awaiting"
    /\ asked # "LoadFixture"
    /\ CloseConnection
    /\ client' = "connecting"
    /\ attempt' = Nothing
    /\ UNCHANGED <<world, slot, observer, pc, action, wait, tested, saved, verdict,
                   asked, result, alone, original>>

-----------------------------------------------------------------------------

ClientStep ==
    \/ ClearCanonicalSimulationWorld \/ GetRunningControl \/ FailBeforeSending
    \/ \E s \in Sessions : Send(s)
    \/ StartupExpires \/ ReadAnswer \/ GiveUp \/ BreakConnection

ServerStep ==
    /\ \/ Tick \/ FrozenTick \/ Control
       \/ \E s \in Sessions : SessionStep(s)
    /\ UNCHANGED request

ClientNext == ClientStep \/ ServerStep

ClientSpec == ClientInit /\ [][ClientNext]_<<vars, request>>

-----------------------------------------------------------------------------
(* Properties.                                                             *)

\* The client reports about the circuit only what is so, over retries and with
\* ticks paused, stepped or blocks cleared meanwhile, unless sessions overlap:
\* one that it lost and the one it sent next share the levers.  (The type
\* invariant is part.)
ReportIsTrue ==
    /\ ClientTypeOK
    /\ client = "finished" /\ alone =>
         \A fixture \in {FixtureOf[s] : s \in Sessions} :
           LET Shows(i) == circuit[fixture][Vectors[i]]
           IN  /\ result = "passed" =>
                    \A i \in 1 .. Len(Vectors) : Shows(i) = Expected[Vectors[i]]
               /\ result = "mismatch" =>
                    \E i \in 1 .. Len(Vectors) :
                      Shows(i) \notin {Expected[Vectors[i]], Oscillates}
               /\ result = "timeout" =>
                    \E i \in 1 .. Len(Vectors) : Shows(i) = Oscillates

\* A validation of the live world that was sent again after a lost connection
\* still leaves the levers as it found them, unless its sessions overlapped: the
\* lost session gives them back before the next one reads them.
InputsAsFound ==
    asked = "ValidateExisting" /\ alone /\ Active = {} /\ placed # Nothing =>
      levers = original
=============================================================================
