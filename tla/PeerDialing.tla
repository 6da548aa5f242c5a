---------------------------- MODULE PeerDialing ----------------------------
(***************************************************************************)
(* How a live session, packages/network/src/session.ts, gets a connection  *)
(* to one peer for a send (ensureConnectionToPeer) or because the app      *)
(* wants one (dialPeerById), what a send over a limited, that is relayed,  *)
(* connection sets off (tryUpgradeLimitedConnection), and how a peer is    *)
(* asked for its profile: once by the session itself                       *)
(* (maybeFetchPeerProfile), and as often as the app wants to know it       *)
(* (requestPeerProfile).                                                   *)
(*                                                                         *)
(* Sends and upgrades run concurrently; a step is what runs between two    *)
(* awaits.  libp2p, which is external, opens and closes connections at any *)
(* moment and resolves a dial with a connection that is there or with a    *)
(* new one.  Durations are replaced by choice, except that an upgrade      *)
(* (0.5 s, and 5 s for its dial) is over before the 15 s for which it      *)
(* keeps the next from starting.  The app has one dialPeerById under way   *)
(* at most.                                                                *)
(***************************************************************************)
EXTENDS Naturals, Sequences, FiniteSets, SequencesExt, Subsequences

CONSTANTS
    ConnIds,         \* bound on connections that are open or still referred to
    Sends, Upgrades, \* bounds on calls that overlap
    MaxRequests      \* bound on the profile requests of the app

VARIABLES
    conns,     \* the peer's connections, oldest first
    redial,    \* the peer is in redialInFlight
    cooldown,  \* its redialCooldownUntil has not passed
    sends,     \* sends[s]: where a send stands, and over which connection
    recent,    \* the peer is in limitedConnectionPeers, with a recent attempt
    cleared,   \* that record was removed while an upgrade ran
    upgrades,  \* upgrades[u]: where an upgrade stands
    profile,   \* where maybeFetchPeerProfile stands
    requested, \* the app's calls of requestPeerProfile so far
    awaited,   \* those that still wait for the peer
    emitted,   \* how often the profile was handed to the app
    byId       \* where the app's call of dialPeerById stands

requests == <<requested, awaited, emitted>>
vars == <<conns, redial, cooldown, sends, recent, cleared, upgrades, profile, requests, byId>>

Conn == [id : ConnIds, limited : BOOLEAN]
Waiting == [at |-> "waiting"]
Idle == [at |-> "idle"]
\* The connections but c, and those that are limited.
Without(c) == Subsequence(conns, {i \in DOMAIN conns : conns[i] # c})
LimitedOnes == Subsequence(conns, {i \in DOMAIN conns : conns[i].limited})

Running == {u \in Upgrades : upgrades[u] # Idle}

Init ==
    /\ conns = <<>>
    /\ redial = FALSE /\ cooldown = FALSE
    /\ sends = [s \in Sends |-> Idle]
    /\ recent = FALSE /\ cleared = FALSE
    /\ upgrades = [u \in Upgrades |-> Idle]
    /\ profile = "unasked" /\ requested = 0 /\ awaited = 0 /\ emitted = 0
    /\ byId = "no"

-----------------------------------------------------------------------------
\* libp2p.

\* New connections are none of those that something still refers to.
Fresh ==
    LET referred == ToSet(conns)
                    \cup {sends[s].conn : s \in {x \in Sends : sends[x].at = "stream"}}
                    \cup UNION {ToSet(upgrades[u].todo) : u \in {x \in Upgrades : upgrades[x].at = "closing"}}
        used == {c.id : c \in referred}
    IN  {c \in Conn : c.id \notin used /\ \A i \in ConnIds \ used : c.id <= i}

\* The first connection makes the listener ask for the profile, once.
Opened(c) ==
    /\ conns' = Append(conns, c)
    /\ profile' = IF conns = <<>> /\ profile = "unasked" THEN "asking" ELSE profile

\* Inbound connections, punched holes, dials by other parts of the session.
Connect ==
    /\ \E c \in Fresh : Opened(c)
    /\ UNCHANGED <<redial, cooldown, sends, recent, cleared, upgrades, requests, byId>>

Lose(c) ==
    /\ conns' = Without(c)
    /\ UNCHANGED <<redial, cooldown, sends, recent, cleared, upgrades, profile, requests, byId>>

\* A dial resolves with c, one of the connections there are or a new one.
Dialed(c) ==
    \/ c \in ToSet(conns) /\ UNCHANGED <<conns, profile>>
    \/ c \in Fresh /\ Opened(c)

\* A stream of the peer, a message or a call, makes its handler ask as well.
InboundStream ==
    /\ conns # <<>>
    /\ profile = "unasked"
    /\ profile' = "asking"
    /\ UNCHANGED <<conns, redial, cooldown, sends, recent, cleared, upgrades, requests, byId>>

ProfileReturns(answered) ==
    /\ profile = "asking"
    /\ profile' = IF answered THEN "known" ELSE "unasked"
    /\ emitted' = IF answered THEN emitted + 1 ELSE emitted
    /\ UNCHANGED <<conns, redial, cooldown, sends, recent, cleared, upgrades, requested, awaited, byId>>

\* requestPeerProfile asks whatever is known or under way, without a connection
\* too, and hands over what it is told.
RequestProfile ==
    /\ requested < MaxRequests
    /\ requested' = requested + 1
    /\ awaited' = awaited + 1
    /\ UNCHANGED <<conns, redial, cooldown, sends, recent, cleared, upgrades, profile, emitted, byId>>

RequestReturns(answered) ==
    /\ awaited > 0
    /\ awaited' = awaited - 1
    /\ emitted' = IF answered THEN emitted + 1 ELSE emitted
    /\ UNCHANGED <<conns, redial, cooldown, sends, recent, cleared, upgrades, profile, requested, byId>>

-----------------------------------------------------------------------------
\* ensureConnectionToPeer and sendProtocolPayloadToPeer.

\* A send takes the oldest connection; without one it joins the dial that is in
\* flight or starts one.  (Without one and within the cooldown it returns false
\* and changes nothing.)
Send(s) ==
    /\ sends[s] = Idle
    /\ IF conns # <<>>
       THEN /\ sends' = [sends EXCEPT ![s] = [at |-> "stream", conn |-> conns[1]]]
            /\ UNCHANGED redial
       ELSE /\ ~cooldown
            /\ sends' = [sends EXCEPT ![s] = Waiting]
            /\ redial' = TRUE
    /\ UNCHANGED <<conns, cooldown, recent, cleared, upgrades, profile, requests, byId>>

\* The sends that wait for the dial go on to next.
Woken(next) == [s \in Sends |-> IF sends[s] = Waiting THEN next ELSE sends[s]]

RedialConnects ==
    /\ redial
    /\ \E c \in Conn : Dialed(c) /\ sends' = Woken([at |-> "stream", conn |-> c])
    /\ redial' = FALSE
    /\ cooldown' = FALSE
    /\ UNCHANGED <<recent, cleared, upgrades, requests, byId>>

\* The dial fails: the waiting sends return false, although the peer may have
\* connected by itself in the meantime.
RedialFails ==
    /\ redial
    /\ sends' = Woken(Idle)
    /\ redial' = FALSE
    /\ cooldown' = TRUE
    /\ UNCHANGED <<conns, recent, cleared, upgrades, profile, requests, byId>>

CooldownPasses ==
    /\ cooldown
    /\ cooldown' = FALSE
    /\ UNCHANGED <<conns, redial, sends, recent, cleared, upgrades, profile, requests, byId>>

\* The payload is written; over a direct connection that removes the record of
\* the last upgrade.
Written(s) ==
    /\ sends[s].at = "stream"
    /\ Contains(conns, sends[s].conn)
    /\ sends' = [sends EXCEPT ![s] = Idle]
    /\ recent' = (recent /\ sends[s].conn.limited)
    /\ cleared' = (cleared \/ (Running # {} /\ ~sends[s].conn.limited))
    /\ UNCHANGED <<conns, redial, cooldown, upgrades, profile, requests, byId>>

WriteFails(s) ==
    /\ sends[s].at = "stream"
    /\ sends' = [sends EXCEPT ![s] = Idle]
    /\ UNCHANGED <<conns, redial, cooldown, recent, cleared, upgrades, profile, requests, byId>>

-----------------------------------------------------------------------------
\* dialPeerById.

\* What is tried when the addresses that are known, the configured relays (if
\* there are any), or what peer routing found do not lead to the peer.
Fallbacks == [direct |-> {"relays", "routing"}, relay |-> {"routing"}, routing |-> {"no"}]
Ways == DOMAIN Fallbacks

\* It neither joins the dial in flight nor minds the cooldown.
DialById ==
    /\ byId = "no"
    /\ byId' = "direct"
    /\ UNCHANGED <<conns, redial, cooldown, sends, recent, cleared, upgrades, profile, requests>>

\* One of the addresses answers, by way of a relay with a limited connection.
\* (flushQueue comes next: the passes of OutboundQueue, and the sends here.)
DialByIdConnects ==
    /\ byId \in Ways
    /\ \E c \in Conn : Dialed(c) /\ (byId = "relay" => Contains(conns, c) \/ c.limited)
    /\ byId' = "no"
    /\ UNCHANGED <<redial, cooldown, sends, recent, cleared, upgrades, requests>>

\* None of them does, and it goes on to the next way or throws.
DialByIdFails ==
    /\ byId \in Ways
    /\ byId' \in Fallbacks[byId]
    /\ UNCHANGED <<conns, redial, cooldown, sends, recent, cleared, upgrades, profile, requests>>

\* The relays are dialed and a reservation at one of them is waited for; with or
\* without it the relays are the next way, unless all that throws.
RelaysPrepared ==
    /\ byId = "relays"
    /\ byId' \in {"relay", "routing"}
    /\ UNCHANGED <<conns, redial, cooldown, sends, recent, cleared, upgrades, profile, requests>>

-----------------------------------------------------------------------------
\* tryUpgradeLimitedConnection.

\* Mutant of StartUpgrade: the attempt is recorded once it has succeeded or failed.
StartUpgradeUnrecorded ==
    IF recent
    THEN UNCHANGED <<recent, upgrades>>
    ELSE \E u \in Upgrades :
            /\ upgrades[u] = Idle
            /\ recent' = recent
            /\ upgrades' = [upgrades EXCEPT ![u] = [at |-> "closing", todo |-> LimitedOnes]]

\* Unless one was tried recently, an upgrade starts, which means to close the
\* limited connections there are and to dial again.
StartUpgrade ==
    IF recent
    THEN UNCHANGED <<recent, upgrades>>
    ELSE \E u \in Upgrades :
            /\ upgrades[u] = Idle
            /\ recent' = TRUE
            /\ upgrades' = [upgrades EXCEPT ![u] = [at |-> "closing", todo |-> LimitedOnes]]

\* The stream is refused because the connection is limited: the send returns
\* 'limited' and leaves an upgrade behind.
Refused(s) ==
    /\ sends[s].at = "stream"
    /\ sends[s].conn.limited
    /\ Contains(conns, sends[s].conn)
    /\ StartUpgrade
    /\ sends' = [sends EXCEPT ![s] = Idle]
    /\ UNCHANGED <<conns, redial, cooldown, cleared, profile, requests, byId>>

UpgradeCloses(u) ==
    /\ upgrades[u].at = "closing"
    /\ LET c == Head(upgrades[u].todo)
           rest == Tail(upgrades[u].todo)
       IN  /\ conns' = Without(c)
           /\ upgrades' = [upgrades EXCEPT ![u] = IF rest = <<>> THEN [at |-> "dialing"]
                                                  ELSE [@ EXCEPT !.todo = rest]]
    /\ UNCHANGED <<redial, cooldown, sends, recent, cleared, profile, requests, byId>>

\* The upgrade is over; a removal of the record counts while another one runs.
EndUpgrade(u, direct) ==
    /\ upgrades' = [upgrades EXCEPT ![u] = Idle]
    /\ recent' = (recent /\ ~direct)
    /\ cleared' = (Running # {u} /\ (cleared \/ direct))

UpgradeDials(u) ==
    /\ upgrades[u].at = "dialing"
    /\ \E c \in Conn : Dialed(c) /\ EndUpgrade(u, ~c.limited)
    /\ UNCHANGED <<redial, cooldown, sends, requests, byId>>

\* A close throws, or the dial fails or takes too long.
UpgradeFails(u) ==
    /\ upgrades[u] # Idle
    /\ EndUpgrade(u, FALSE)
    /\ UNCHANGED <<conns, redial, cooldown, sends, profile, requests, byId>>

\* LIMITED_CONNECTION_RETRY_DELAY_MS is over.
RetryDelayPasses ==
    /\ recent
    /\ Running = {}
    /\ recent' = FALSE
    /\ UNCHANGED <<conns, redial, cooldown, sends, cleared, upgrades, profile, requests, byId>>

Next ==
    \/ Connect
    \/ \E c \in ToSet(conns) : Lose(c)
    \/ InboundStream \/ RequestProfile
    \/ \E answered \in BOOLEAN : ProfileReturns(answered) \/ RequestReturns(answered)
    \/ DialById \/ DialByIdConnects \/ DialByIdFails \/ RelaysPrepared
    \/ RedialConnects \/ RedialFails \/ CooldownPasses \/ RetryDelayPasses
    \/ \E s \in Sends : Send(s) \/ Written(s) \/ WriteFails(s) \/ Refused(s)
    \/ \E u \in Upgrades : UpgradeCloses(u) \/ UpgradeDials(u) \/ UpgradeFails(u)

Spec == Init /\ [][Next]_vars

-----------------------------------------------------------------------------

\* A send waits only for a dial that is in flight, and no dial is in flight
\* that the cooldown should hold back.
TypeOK ==
    /\ conns \in Seq(Conn)
    /\ ~(redial /\ cooldown)
    /\ sends \in [Sends -> {Idle, Waiting} \cup [at : {"stream"}, conn : Conn]]
    /\ \A s \in Sends : sends[s] = Waiting => redial
    /\ \A u \in Upgrades :
          \/ upgrades[u] \in {Idle, [at |-> "dialing"]}
          \/ upgrades[u].at = "closing" /\ upgrades[u].todo \in Seq(Conn) \ {<<>>}
    /\ {recent, cleared} \subseteq BOOLEAN /\ profile \in {"unasked", "asking", "known"}
    /\ byId \in {"no", "relays"} \cup Ways

\* Two upgrades run at the same time, each closing what the other dials, only
\* if in between a direct connection carried a message or was made, and that
\* took the record of the attempt away.
UpgradesOverlap == Cardinality(Running) > 1 => cleared

\* Beyond what the app asked for and was told, the profile reaches it once,
\* however often the peer reconnects or sends while a request is on its way.
ProfileOnce == emitted <= 1 + (requested - awaited)

\* Sends, dials and upgrades that overlap do not repeat each other's work.
EffortIsShared == UpgradesOverlap /\ ProfileOnce

\* Why they do not: a running upgrade is on record, and with it none other starts,
\* unless the record was removed; and a profile is handed over as it gets known to the
\* session, or at the return of a request of the app.
UpgradeOnRecord ==
    /\ DOMAIN upgrades = Upgrades
    /\ \A u \in Running :
          \/ upgrades[u] = [at |-> "dialing"]
          \/ upgrades[u].at = "closing" /\ DOMAIN upgrades[u] = {"at", "todo"}
    /\ ~cleared => (\A u, v \in Running : u = v) /\ (Running # {} => recent)

ProfileCounted ==
    /\ {requested, awaited, emitted} \subseteq Nat /\ awaited <= requested
    /\ emitted <= (IF profile = "known" THEN 1 ELSE 0) + (requested - awaited)

EffortInv == UpgradeOnRecord /\ ProfileCounted

IInv == TypeOK /\ EffortInv
=============================================================================
