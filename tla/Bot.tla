-------------------------------- MODULE Bot --------------------------------
(***************************************************************************)
(* A bot: the client of packages/bot/src/client.ts and runIntervalTask of  *)
(* scheduler.ts, driven by the two programs of apps/bot-example: the wiki  *)
(* bot, which sends a message every INTERVAL_MS until it is told to stop,  *)
(* and the smoke test, which sends one.                                    *)
(*                                                                         *)
(* libp2p is external: making, starting and stopping a node, dialing and   *)
(* writing take any time and may fail; a stop of a node that is stopping   *)
(* need not wait for the first.  Streams come in as soon as the handlers   *)
(* are registered and the node starts.  A step is what runs between two    *)
(* awaits.                                                                 *)
(***************************************************************************)
EXTENDS Naturals, FiniteSets

CONSTANTS
    Inbound,     \* messages that peers send to the bot
    MaxSignals   \* bound on SIGINT and SIGTERM

VARIABLES
    program,   \* "wiki" or "smoke"
    phase,     \* its main: "creating", "booting", "dialing", "sending", "running", "ending", "exited"
    node,      \* "none", "made", "up", "stopping", "down": node and its state
    started,   \* localPeerId is set
    listening, \* a listener is registered
    timer,     \* the interval is on and not stopped
    inFlight,  \* inFlight of runIntervalTask
    sends,     \* sends of the interval task under way
    stops,     \* pending calls of stop
    signals,   \* signals received
    heard,     \* heard[m]: "no", "reading", "yes", "dropped", "early"
    answer     \* the last profile request: "none", "reading", "profile", "empty"

vars == <<program, phase, node, started, listening, timer, inFlight, sends, stops, signals, heard, answer>>
task == <<timer, inFlight, sends>>
streams == <<heard, answer>>

Init ==
    /\ program \in {"wiki", "smoke"}
    /\ phase = "creating" /\ node = "none"
    /\ started = FALSE /\ listening = FALSE /\ timer = FALSE /\ inFlight = FALSE
    /\ sends = 0 /\ stops = 0 /\ signals = 0
    /\ heard = [m \in Inbound |-> "no"] /\ answer = "none"

Running == phase # "exited"

-----------------------------------------------------------------------------
\* The client.

\* start made its node, registers both handlers and starts it.
Created ==
    /\ phase = "creating"
    /\ phase' = "booting"
    /\ node' = "made"
    /\ UNCHANGED <<program, started, listening, task, stops, signals, streams>>

\* invokeTask: one send at a time.
Invoke ==
    IF inFlight THEN UNCHANGED <<inFlight, sends>> ELSE inFlight' = TRUE /\ sends' = sends + 1

\* start is through.  The wiki bot then dials in the background, listens and
\* sends at once; the smoke test dials first.
Booted ==
    /\ phase = "booting"
    /\ node' = "up"
    /\ started' = TRUE
    /\ IF program = "wiki"
       THEN phase' = "running" /\ listening' = TRUE /\ timer' = TRUE /\ Invoke
       ELSE phase' = "dialing" /\ UNCHANGED <<listening, task>>
    /\ UNCHANGED <<program, stops, signals, streams>>

\* The process is gone, and its node with it.
Exit ==
    /\ phase' = "exited"
    /\ stops' = 0 /\ timer' = FALSE /\ inFlight' = FALSE /\ sends' = 0

\* Mutant of Stop: the listeners are cleared before the node is stopped.
StopDeaf ==
    /\ node # "none"
    /\ stops' = stops + 1
    /\ node' = "stopping"
    /\ listening' = FALSE

\* stop without a node returns at once; otherwise it waits for the node.
Stop ==
    /\ node # "none"
    /\ stops' = stops + 1
    /\ node' = "stopping"
    /\ UNCHANGED listening

\* start throws: the wiki bot dies of it, the smoke test stops the client first.
StartFails ==
    /\ phase \in {"creating", "booting"}
    /\ \/ /\ program = "smoke" /\ phase' = "ending" /\ Stop /\ UNCHANGED task
       \/ /\ program = "wiki" \/ node = "none"
          /\ Exit
          /\ node' = "none"
          /\ UNCHANGED listening
    /\ UNCHANGED <<program, started, signals, streams>>

\* The smoke test goes on whether the dial worked or not, sends, and stops the client.
Dialed ==
    /\ phase = "dialing"
    /\ phase' = "sending"
    /\ UNCHANGED <<program, node, started, listening, task, stops, signals, streams>>

Sent ==
    /\ phase = "sending"
    /\ phase' = "ending"
    /\ Stop
    /\ UNCHANGED <<program, started, task, signals, streams>>

-----------------------------------------------------------------------------
\* The interval task.

Tick ==
    /\ timer
    /\ Invoke
    /\ UNCHANGED <<program, phase, node, started, listening, timer, stops, signals, streams>>

\* The send is written or fails: no connection, no stream, or the client was stopped.
TaskEnds ==
    /\ Running /\ sends > 0
    /\ sends' = sends - 1
    /\ inFlight' = FALSE
    /\ UNCHANGED <<program, phase, node, started, listening, timer, stops, signals, streams>>

-----------------------------------------------------------------------------
\* Shutdown.

\* SIGINT or SIGTERM: without a handler it ends the process, with one shutdown
\* stops the task and then the client, which the first call may be doing already.
Signal ==
    /\ Running /\ signals < MaxSignals
    /\ signals' = signals + 1
    /\ IF program = "wiki" /\ phase = "running"
       THEN /\ Stop
            /\ timer' = FALSE
            /\ UNCHANGED <<phase, inFlight, sends>>
       ELSE Exit /\ node' = "none" /\ UNCHANGED listening
    /\ UNCHANGED <<program, started, streams>>

\* node.stop is through, for the first call only when the node is down: the
\* client forgets it and the process exits.
Stopped ==
    /\ stops > 0
    /\ \/ node' = "down"
       \/ stops > 1 /\ UNCHANGED node
    /\ started' = FALSE /\ listening' = FALSE
    /\ Exit
    /\ UNCHANGED <<program, signals, streams>>

\* node.stop throws; nothing catches that, so the process ends with it.
StopFails ==
    /\ stops > 0
    /\ node' = "none"
    /\ Exit
    /\ UNCHANGED <<program, started, listening, signals, streams>>

-----------------------------------------------------------------------------
\* Streams from peers.

Reachable == Running /\ node \in {"made", "up", "stopping"}

\* A peer writes a message and counts it as delivered; the handler reads it ...
Receive(m) ==
    /\ Reachable /\ phase # "creating" /\ heard[m] = "no"
    /\ heard' = [heard EXCEPT ![m] = "reading"]
    /\ UNCHANGED <<program, phase, node, started, listening, task, stops, signals, answer>>

\* ... and passes it to whoever listens.
Emit(m) ==
    /\ Running /\ heard[m] = "reading"
    /\ heard' = [heard EXCEPT ![m] = IF listening THEN "yes" ELSE IF started THEN "dropped" ELSE "early"]
    /\ UNCHANGED <<program, phase, node, started, listening, task, stops, signals, answer>>

\* A profile request is answered with the profile, or with nothing while the
\* client does not know its own peer id.
Ask ==
    /\ Reachable /\ phase # "creating" /\ answer # "reading"
    /\ answer' = "reading"
    /\ UNCHANGED <<program, phase, node, started, listening, task, stops, signals, heard>>

Answer ==
    /\ Running /\ answer = "reading"
    /\ answer' = IF started THEN "profile" ELSE "empty"
    /\ UNCHANGED <<program, phase, node, started, listening, task, stops, signals, heard>>

Next ==
    \/ Created \/ Booted \/ StartFails \/ Dialed \/ Sent
    \/ Tick \/ TaskEnds
    \/ Signal \/ Stopped \/ StopFails
    \/ \E m \in Inbound : Receive(m) \/ Emit(m)
    \/ Ask \/ Answer

Spec == Init /\ [][Next]_vars

-----------------------------------------------------------------------------

\* The client knows its peer id between start and stop.
TypeOK ==
    /\ program \in {"wiki", "smoke"}
    /\ phase \in {"creating", "booting", "dialing", "sending", "running", "ending", "exited"}
    /\ program = "wiki" => phase \notin {"dialing", "sending", "ending"}
    /\ node \in {"none", "made", "up", "stopping", "down"}
    /\ {started, listening, timer, inFlight} \subseteq BOOLEAN
    /\ signals \in 0..MaxSignals /\ {sends, stops} \subseteq Nat
    /\ heard \in [Inbound -> {"no", "reading", "yes", "dropped", "early"}]
    /\ answer \in {"none", "reading", "profile", "empty"}
    /\ started /\ Running => node \in {"up", "stopping"}
    /\ phase \in {"creating", "booting"} => ~started

\* A send that hangs longer than the interval, fails, or is cut by a shutdown
\* never runs beside another one, and never leaves the schedule stuck.
ScheduleHolds == sends <= 1 /\ (inFlight <=> sends = 1)

\* A message delivered to the wiki bot is heard, unless it was handled before
\* start had returned.
MessagesAreHeard == program = "wiki" => \A m \in Inbound : heard[m] # "dropped"

\* The process does not exit in the middle of stopping its node, unless it is
\* signalled twice: the second stop need not wait for the first.
CleanExit == phase = "exited" /\ node = "stopping" => signals > 1

\* A running bot is on schedule and heard, and it ends only when it has stopped.
BotIsReliable == ScheduleHolds /\ MessagesAreHeard /\ CleanExit

\* Each stop has its cause, the end of the smoke test or a signal of its own, and
\* the wiki bot listens as long as it knows its peer id.
StopsHaveCauses ==
    /\ program = "wiki" => stops <= signals /\ (started => listening)
    /\ program = "smoke" => stops <= IF phase = "ending" THEN 1 ELSE 0
    /\ phase = "exited" => stops = 0

IInv == TypeOK /\ StopsHaveCauses /\ BotIsReliable
=============================================================================
