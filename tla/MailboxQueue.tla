--------------------------- MODULE MailboxQueue ---------------------------
(***************************************************************************)
(* One recipient's queue on the relay: the slice byRecipient[r] of         *)
(* relay/internal/mailbox/store.go.  The slice is re-sorted by SentAt with *)
(* a stable sort after every append, so it is the set of its envelopes     *)
(* ordered by <<sentAt, arrival>>, where "arrival" numbers the appends.    *)
(* A queue is that set; positions in the slice are derived from the order. *)
(***************************************************************************)
EXTENDS Naturals, FiniteSets

CONSTANT NoCursor     \* the empty cursor: an absent afterCursor or nextCursor

Ids(q) == {e.envelopeId : e \in q}

\* a stands before b in the sorted slice (equal sentAt: the earlier append first).
Precedes(a, b) ==
    \/ a.sentAt < b.sentAt
    \/ a.sentAt = b.sentAt /\ a.arrival < b.arrival

\* What cleanupLocked keeps of a queue at time t: expiresAt.After(t).
Live(q, t) == {e \in q : e.expiresAt > t}

\* Mutant of AfterCursor: a cursor that is gone ends the walk.
AfterCursorOrNothing(q, cursor) ==
    IF cursor = NoCursor
    THEN q
    ELSE {e \in q : \E c \in q : c.envelopeId = cursor /\ Precedes(c, e)}

\* The part of the slice a Pull starts from: everything after the cursor's
\* envelope, or the whole slice when the cursor is empty or no longer there.
AfterCursor(q, cursor) ==
    IF cursor \in Ids(q)
    THEN {e \in q : \E c \in q : c.envelopeId = cursor /\ Precedes(c, e)}
    ELSE q

\* The items one Pull returns: the first "limit" envelopes after the cursor.
Page(q, limit, cursor) ==
    LET rest == AfterCursor(q, cursor)
    IN  {e \in rest : Cardinality({f \in rest : Precedes(f, e)}) < limit}

\* The id of the page's last envelope while more of them follow, else nothing.
NextCursor(q, limit, cursor) ==
    LET page == Page(q, limit, cursor)
    IN  IF page = AfterCursor(q, cursor)
        THEN NoCursor
        ELSE (CHOOSE e \in page : \A f \in page \ {e} : Precedes(f, e)).envelopeId
=============================================================================
