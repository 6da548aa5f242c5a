--------------------------- MODULE ConnectionPool ---------------------------
(***************************************************************************)
(* The connections of a live session as a whole: what the peer:connect and *)
(* peer:disconnect listeners of packages/network/src/session.ts announce,  *)
(* and how trimExcessConnections closes what exceeds the limit.            *)
(*                                                                         *)
(* libp2p is external: it opens and closes connections at any moment and   *)
(* reports the first connection to a peer and the loss of the last one.    *)
(* The listeners run with the change they report (libp2p delays them only  *)
(* for RSA identities, which this code does not make).  A step is what     *)
(* runs between two awaits.                                                *)
(***************************************************************************)
EXTENDS Naturals, Sequences, FiniteSets, SequencesExt, Subsequences

CONSTANTS
    Remotes,   \* peer ids at the other end, the configured relays included
    Relays,    \* configuredRelayPeerIds
    Limit,     \* hardConnectionLimit
    ConnIds,   \* bound on connections that are open or still referred to
    Trims      \* bound on trims that overlap

VARIABLES
    conns,     \* node.getConnections(), oldest first
    seen,      \* seenPeerIds
    shown,     \* peers whose last announcement was not "offline"
    trims,     \* trims[t]: connections t has yet to close
    disturbed  \* a connection was lost otherwise since all trims were over

vars == <<conns, seen, shown, trims, disturbed>>

Conn == [id : ConnIds, peer : Remotes]
Peers(cs) == {cs[i].peer : i \in DOMAIN cs}

\* The connections of cs that a trim may close: those that are not to a relay.
Candidates(cs) == Subsequence(cs, {i \in DOMAIN cs : cs[i].peer \notin Relays})

\* How many of cs exceed the limit.
Overflow(cs) == IF Len(cs) <= Limit THEN 0 ELSE Len(cs) - Limit

\* The first n entries of s, or all of them.
Oldest(s, n) == SubSeq(s, 1, IF n < Len(s) THEN n ELSE Len(s))

Init ==
    /\ conns = <<>>
    /\ seen = {}
    /\ shown = {}
    /\ trims = [t \in Trims |-> <<>>]
    /\ disturbed = FALSE

-----------------------------------------------------------------------------
\* The listeners.

\* peer:connect: every peer not seen yet is announced.  (As direct or relayed,
\* by its oldest connection; later connections do not change that label.)
Announce(cs) ==
    /\ shown' = shown \cup (Peers(cs) \ seen)
    /\ seen' = seen \cup Peers(cs)

\* Mutant of Retract: the peers that are gone stay in seenPeerIds.
RetractKept(cs) ==
    /\ shown' = shown \ (seen \ Peers(cs))
    /\ UNCHANGED seen

\* peer:disconnect: the seen peers that are gone are announced as offline.
Retract(cs) ==
    /\ shown' = shown \ (seen \ Peers(cs))
    /\ seen' = Peers(cs)

\* Mutant of ToTrim: room is made for one more connection.
ToTrimForNext(cs) ==
    IF Overflow(cs) = 0 THEN <<>> ELSE Oldest(Candidates(cs), Overflow(cs) + 1)

\* What trimExcessConnections closes of the list it reads: the oldest
\* connections that are not to a relay, as many as exceed the limit.
ToTrim(cs) == Oldest(Candidates(cs), Overflow(cs))

StartTrim(cs) ==
    IF ToTrim(cs) = <<>>
    THEN UNCHANGED trims
    ELSE \E t \in Trims : trims[t] = <<>> /\ trims' = [trims EXCEPT ![t] = ToTrim(cs)]

-----------------------------------------------------------------------------

\* An id no connection has that is open or about to be closed.
FreshId ==
    LET used == {c.id : c \in ToSet(conns) \cup UNION {ToSet(trims[t]) : t \in Trims}}
    IN  {i \in ConnIds \ used : \A j \in ConnIds \ used : i <= j}

\* A connection is made, by whoever dialed; only the first one to a peer is news.
Connect(p) ==
    /\ \E i \in FreshId : conns' = Append(conns, [id |-> i, peer |-> p])
    /\ IF p \in Peers(conns)
       THEN UNCHANGED <<seen, shown, trims>>
       ELSE Announce(conns') /\ StartTrim(conns')
    /\ UNCHANGED disturbed

\* c is gone, which is news if it was the last one to its peer.
Removed(c) ==
    /\ conns' = Subsequence(conns, {i \in DOMAIN conns : conns[i] # c})
    /\ IF c.peer \in Peers(conns) \ Peers(conns') THEN Retract(conns') ELSE UNCHANGED <<seen, shown>>

\* The peer, the network or an upgrade closes c.
Lose(c) ==
    /\ Removed(c)
    /\ disturbed' = \E t \in Trims : trims[t] # <<>>
    /\ UNCHANGED trims

\* A trim closes the next connection of its list, or fails to.
Trim(t, closes) ==
    /\ trims[t] # <<>>
    /\ IF closes THEN Removed(Head(trims[t])) ELSE UNCHANGED <<conns, seen, shown>>
    /\ trims' = [trims EXCEPT ![t] = Tail(@)]
    /\ disturbed' = (disturbed /\ \E o \in Trims : trims'[o] # <<>>)

Next ==
    \/ \E p \in Remotes : Connect(p)
    \/ \E c \in ToSet(conns) : Lose(c)
    \/ \E t \in Trims, closes \in BOOLEAN : Trim(t, closes)

Spec == Init /\ [][Next]_vars

-----------------------------------------------------------------------------

\* The peers seen are those announced, and losses count only during a trim.
TypeOK ==
    /\ conns \in Seq(Conn)
    /\ seen \subseteq Remotes
    /\ shown = seen
    /\ trims \in [Trims -> Seq(Conn)]
    /\ disturbed \in BOOLEAN /\ (disturbed => \E t \in Trims : trims[t] # <<>>)

\* A peer is shown as reachable exactly while it has a connection, whichever
\* of its connections come and go and in whatever order: nobody stays online
\* who is gone, and nobody who came back stays offline.
ShownIsConnected == shown = Peers(conns)

\* Trims that overlap do not add up: as long as nothing else closes
\* connections, none of them goes below the limit, although each works through
\* a list it read before the others closed theirs.
TrimStep ==
    \A t \in Trims :
        Trim(t, TRUE) /\ ~disturbed => conns' = conns \/ Len(conns') >= Limit

\* TrimStep of every step.
TrimKeepsLimit == [][TrimStep]_vars

\* Why: as long as nothing else closes connections, what a trim is going to close
\* is still among the oldest that exceed the limit, if it is there at all.
Distinct == \A i, j \in DOMAIN conns : conns[i] = conns[j] => i = j

\* The connections up to the i-th that are not to a relay.
Older(cs, i) == {cs[j] : j \in {k \in 1..i : cs[k].peer \notin Relays}}

StillOver ==
    ~disturbed => \A t \in Trims : \A k \in DOMAIN trims[t] : \A i \in DOMAIN conns :
        conns[i] = trims[t][k] =>
            /\ conns[i].peer \notin Relays
            /\ Cardinality(Older(conns, i)) + Limit <= Len(conns)

IInv == TypeOK /\ ShownIsConnected /\ Distinct /\ StillOver
=============================================================================
