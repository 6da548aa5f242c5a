-------------------------- MODULE SessionLifecycle --------------------------
(***************************************************************************)
(* The life of one live session: packages/network/src/session.ts (start,   *)
(* stop) and apps/web/src/useLiveChatSession.ts, which drops a session     *)
(* when the identity changes.                                              *)
(*                                                                         *)
(* start and stop are asynchronous and share the variable "node": start    *)
(* sets it after one await and reads it after others, stop clears it after *)
(* an await.  Nothing makes one wait for the other.  What happens between  *)
(* two awaits is a step.  Recovery (recoverConnectivity) and the keepalive *)
(* start the session or dial relays; a dial changes nothing here.  What    *)
(* libp2p does with a node is external: one that is told to stop while it  *)
(* starts may go down or stay, and so may one whose stop is rejected, and  *)
(* from then on no further stop reaches it for certain.                    *)
(***************************************************************************)
EXTENDS Naturals, FiniteSets

CONSTANTS
    Nodes,      \* the nodes a session may make; bounds the number of starts
    NoNode,
    Flows,      \* calls of start and stop that may be pending at once
    MaxRefused  \* bound on the nodes whose stop is rejected

ASSUME SessionAssumption ==
    /\ NoNode \notin Nodes
    /\ IsFiniteSet(Nodes)
    /\ IsFiniteSet(Flows)
    /\ MaxRefused \in Nat

VARIABLES
    status,    \* state.status
    node,      \* the session's node
    life,      \* life[n]: what becomes of the node n
    at,        \* at[f]: what the call f waits for
    on,        \* on[f]: the node whose start or stop it waits for
    timers,    \* the retry loop and the relay keepalive run
    probe,     \* the interval in relayCheckInterval runs
    stray,     \* so does one that was overwritten
    attached,  \* the app refers to the session and listens to it
    crossed,   \* a start or a stop was called in the middle of another, or a
               \* start beside the node that a failed one left
    refused    \* the nodes whose stop was rejected

vars == <<status, node, life, at, on, timers, probe, stray, attached, crossed, refused>>

Statuses == {"idle", "starting", "running", "stopped", "error"}
Lives == {"unmade", "made", "booting", "up", "down"}

\* creating - createBrowserSkypierNode      dialing  - dialConfiguredRelays
\* handling - node.handle                   stopping - node.stop
\* booting  - node.start
Waits == {"creating", "handling", "booting", "dialing", "stopping"}
Idle == "idle"

Pending == {f \in Flows : at[f] # Idle}

\* A start that still has to set or read its node, or a stop.
Busy == {f \in Flows : at[f] \in {"creating", "handling", "booting", "stopping"}}

Init ==
    /\ status = "idle"
    /\ node = NoNode
    /\ life = [n \in Nodes |-> "unmade"]
    /\ at = [f \in Flows |-> Idle]
    /\ on = [f \in Flows |-> NoNode]
    /\ timers = FALSE
    /\ probe = FALSE
    /\ stray = FALSE
    /\ attached = TRUE
    /\ crossed = FALSE
    /\ refused = {}

Wait(f, place, n) ==
    /\ at' = [at EXCEPT ![f] = place]
    /\ on' = [on EXCEPT ![f] = n]

Return(f) == Wait(f, Idle, NoNode)

-----------------------------------------------------------------------------
\* start.

MayStart == status \notin {"starting", "running"}

\* Called by the app when it loads, by the user and by recoverConnectivity.
Start(f) ==
    /\ attached
    /\ at[f] = Idle
    /\ MayStart
    /\ Cardinality({n \in Nodes : life[n] = "unmade"}) > Cardinality({g \in Flows : at[g] = "creating"})
    /\ status' = "starting"
    /\ Wait(f, "creating", NoNode)
    /\ crossed' = (crossed \/ Busy # {} \/ node # NoNode)
    /\ UNCHANGED <<node, life, timers, probe, stray, attached, refused>>

\* The error handler of start.
StartFails(f) ==
    /\ status' = "error"
    /\ Return(f)

\* The new node replaces whatever node there is, and the handlers are registered.
Created(f, n) ==
    /\ at[f] = "creating"
    /\ life[n] = "unmade"
    /\ life' = [life EXCEPT ![n] = "made"]
    /\ node' = n
    /\ Wait(f, "handling", n)
    /\ UNCHANGED <<status, timers, probe, stray, attached, crossed, refused>>

CreateFails(f) ==
    /\ at[f] = "creating"
    /\ StartFails(f)
    /\ UNCHANGED <<node, life, timers, probe, stray, attached, crossed, refused>>

\* The session's node is started, whichever it is by now.
Handled(f) ==
    /\ at[f] = "handling"
    /\ node # NoNode
    /\ life' = [life EXCEPT ![node] = IF @ \in {"made", "down"} THEN "booting" ELSE @]
    /\ Wait(f, "booting", node)
    /\ UNCHANGED <<status, node, timers, probe, stray, attached, crossed, refused>>

\* A handler is refused, or there is no node any more to register it with.
HandleFails(f) ==
    /\ at[f] = "handling"
    /\ StartFails(f)
    /\ UNCHANGED <<node, life, timers, probe, stray, attached, crossed, refused>>

\* Mutant of Booted: the session runs, with a node or without.
BootedUnchecked(f) ==
    /\ at[f] = "booting"
    /\ life' = [life EXCEPT ![on[f]] = IF @ = "booting" THEN "up" ELSE @]
    /\ status' = "running"
    /\ Wait(f, "dialing", NoNode)
    /\ UNCHANGED <<node, timers, probe, stray, attached, crossed, refused>>

\* The node is up.  If the session has none any more, start fails.
Booted(f) ==
    /\ at[f] = "booting"
    /\ life' = [life EXCEPT ![on[f]] = IF @ = "booting" THEN "up" ELSE @]
    /\ IF node = NoNode
       THEN StartFails(f)
       ELSE status' = "running" /\ Wait(f, "dialing", NoNode)
    /\ UNCHANGED <<node, timers, probe, stray, attached, crossed, refused>>

BootFails(f) ==
    /\ at[f] = "booting"
    /\ life' = [life EXCEPT ![on[f]] = IF @ = "booting" THEN "down" ELSE @]
    /\ StartFails(f)
    /\ UNCHANGED <<node, timers, probe, stray, attached, crossed, refused>>

\* The relays were dialed: the intervals are set, whatever happened meanwhile.
Dialed(f) ==
    /\ at[f] = "dialing"
    /\ probe' = TRUE
    /\ stray' = (stray \/ probe)
    /\ timers' = TRUE
    /\ Return(f)
    /\ UNCHANGED <<status, node, life, attached, crossed, refused>>

\* With another relay to dial and no node, it throws.
DialThrows(f) ==
    /\ at[f] = "dialing"
    /\ node = NoNode
    /\ StartFails(f)
    /\ UNCHANGED <<node, life, timers, probe, stray, attached, crossed, refused>>

-----------------------------------------------------------------------------
\* stop.

StopTimers ==
    /\ timers' = FALSE
    /\ probe' = FALSE

StopSession(f) ==
    /\ at[f] = Idle
    /\ StopTimers
    /\ IF node = NoNode
       THEN status' = "stopped" /\ UNCHANGED <<at, on>>
       ELSE Wait(f, "stopping", node) /\ UNCHANGED status
    /\ crossed' = (crossed \/ Busy # {})
    /\ UNCHANGED <<node, life, stray, refused>>

\* Called by the user, and by the app when the account is gone.
Stop(f) ==
    /\ attached
    /\ StopSession(f)
    /\ UNCHANGED attached

\* The identity changes: the app stops the session and forgets it.
Discard(f) ==
    /\ attached
    /\ attached' = FALSE
    /\ StopSession(f)

\* Mutant of Stopped: the node is forgotten without being stopped.
StoppedUnawaited(f) ==
    /\ at[f] = "stopping"
    /\ node' = NoNode
    /\ status' = "stopped"
    /\ Return(f)
    /\ UNCHANGED <<life, timers, probe, stray, attached, crossed, refused>>

\* Mutant of Stopped: the session keeps the node it stopped.
StoppedKept(f) ==
    /\ at[f] = "stopping"
    /\ life' = [life EXCEPT ![on[f]] = IF @ = "up" THEN "down" ELSE @]
    /\ status' = "stopped"
    /\ Return(f)
    /\ UNCHANGED <<node, timers, probe, stray, attached, crossed, refused>>

\* What a stop does to a node that runs or is about to.
GoesDown(n) == life' = [life EXCEPT ![n] = IF @ \in {"up", "booting"} THEN "down" ELSE @]

\* node.stop is done, and the session has no node any more.
Stopped(f) ==
    /\ at[f] = "stopping"
    /\ \/ GoesDown(on[f])
       \/ (life[on[f]] = "booting" \/ on[f] \in refused) /\ UNCHANGED life
    /\ node' = NoNode
    /\ status' = "stopped"
    /\ Return(f)
    /\ UNCHANGED <<timers, probe, stray, attached, crossed, refused>>

\* node.stop is rejected, and stop with it: node and status stay what they were,
\* the timers are gone already.  No caller tries again.
StopFails(f) ==
    /\ at[f] = "stopping"
    /\ GoesDown(on[f]) \/ UNCHANGED life
    /\ refused' = refused \cup {on[f]}
    /\ Cardinality(refused') <= MaxRefused
    /\ Return(f)
    /\ UNCHANGED <<status, node, timers, probe, stray, attached, crossed>>

\* The interval that looks for a reservation finds one, or no node: it clears
\* the interval the variable names, which need not be itself.
Tick ==
    /\ probe
    /\ probe' = FALSE
    /\ UNCHANGED <<status, node, life, at, on, timers, stray, attached, crossed, refused>>

Next ==
    \/ \E f \in Flows :
          \/ Start(f) \/ CreateFails(f) \/ \E n \in Nodes : Created(f, n)
          \/ Handled(f) \/ HandleFails(f) \/ Booted(f) \/ BootFails(f)
          \/ Dialed(f) \/ DialThrows(f)
          \/ Stop(f) \/ Discard(f) \/ Stopped(f) \/ StopFails(f)
    \/ Tick

Spec == Init /\ [][Next]_vars

\* A call that was made goes on: nodes are made, start, stop and dial in
\* bounded time, well or badly.
Proceed(f) ==
    \/ CreateFails(f) \/ \E n \in Nodes : Created(f, n)
    \/ Handled(f) \/ HandleFails(f) \/ Booted(f) \/ BootFails(f)
    \/ Dialed(f) \/ DialThrows(f)
    \/ Stopped(f) \/ StopFails(f)

FairSpec == Spec /\ \A f \in Flows : WF_vars(Proceed(f))

-----------------------------------------------------------------------------

\* The state is well formed.
TypeOK ==
    /\ status \in Statuses
    /\ node \in Nodes \cup {NoNode}
    /\ life \in [Nodes -> Lives]
    /\ at \in [Flows -> Waits \cup {Idle}]
    /\ on \in [Flows -> Nodes \cup {NoNode}]
    /\ \A f \in Flows : at[f] \in {"handling", "booting", "stopping"} <=> on[f] # NoNode
    /\ timers \in BOOLEAN /\ probe \in BOOLEAN /\ stray \in BOOLEAN
    /\ attached \in BOOLEAN /\ crossed \in BOOLEAN
    /\ refused \subseteq Nodes

\* A session that says it is running has a node, through any crossing of calls:
\* no send finds a running session without one.
RunningHasNode == status = "running" => node # NoNode

\* A session that says it is starting is: if it were stuck there, start and
\* recoverConnectivity would both return at once for ever.
StartingIsPending ==
    status = "starting" => \E f \in Flows : at[f] \in {"creating", "handling", "booting"}

\* However calls cross, the status that is shown is no dead end.
SessionIsSound == TypeOK /\ RunningHasNode /\ StartingIsPending

\* No node runs behind the session's back, unless calls crossed or its stop was
\* rejected: what looks stopped is stopped, and no node is replaced while it runs.
NoOrphan == ~crossed => \A n \in Nodes : life[n] = "up" => n = node \/ n \in refused

\* At rest the status tells the truth about the node and the timers, unless
\* calls crossed: a node that is up is never shown as stopped or failed, and one
\* that is shown running runs with its timers, unless its stop was rejected.
\* (A stop while start dials its relays leaves the timers on.)
RestIsConsistent ==
    Pending = {} /\ ~crossed =>
        /\ node # NoNode /\ life[node] = "up" => status = "running"
        /\ status = "running" => node \in refused \/ (life[node] = "up" /\ timers)
        /\ status \in {"idle", "stopped"} => node = NoNode

\* A session the app has dropped goes down, unless calls crossed or the stop was
\* rejected: then nobody stops it again.
DroppedGoesDown ==
    ~attached /\ ~crossed ~> \A n \in Nodes : life[n] # "up" \/ n \in refused
=============================================================================
