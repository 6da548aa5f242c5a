--------------------------- MODULE MailboxStore ---------------------------
(***************************************************************************)
(* The relay's mailbox store, relay/internal/mailbox/store.go, behind the  *)
(* stream handlers of relay/internal/node/node.go.  Every operation holds  *)
(* the store's mutex from end to end, so each is one step; each begins by  *)
(* pruning expired envelopes, and between operations expired ones stay.    *)
(* A map entry that is absent and one that is empty behave alike and are   *)
(* both the empty set here.                                                *)
(***************************************************************************)
EXTENDS MailboxQueue

CONSTANTS Peers, EnvelopeIds, SentAts, Expiries, DefaultTTL,
          MaxPerRecipient, Horizon, MaxAppends

VARIABLES
    byRecipient,      \* Store.byRecipient: the queue of each recipient
    byRecipientByID,  \* Store.byRecipientByID: the envelopes indexed by id for each recipient
    now,              \* the time the handlers pass to the store
    appended,         \* appends so far: stands for the position in the slice
    answer            \* the reply to the latest request, when it was an enqueue

vars == <<byRecipient, byRecipientByID, now, appended, answer>>

\* The specification this store implements, expired envelopes left out.
Promise == INSTANCE Mailbox WITH held <- [r \in Peers |-> Live(byRecipient[r], now)]

ASSUME StoreAssumption == Promise!MailboxAssumption

\* The state is well formed.
TypeOK ==
    /\ byRecipient \in [Peers -> SUBSET Promise!Entry]
    /\ byRecipientByID \in [Peers -> SUBSET Promise!Entry]
    /\ now \in Nat
    /\ appended \in Nat
    /\ answer \in Promise!Answer \cup {Promise!NoAnswer}
    /\ \A r \in Peers : \A e \in byRecipient[r] : e.arrival <= appended

-----------------------------------------------------------------------------
\* cleanupLocked: expired envelopes leave the queue and the index, and a
\* recipient whose queue empties loses its index with it.

PrunedQueue(r) == Live(byRecipient[r], now)

\* Mutant of PrunedIndex: an expired envelope stays indexed.
PrunedIndexKeepsExpired(r) == byRecipientByID[r]

PrunedIndex(r) ==
    IF PrunedQueue(r) = {}
    THEN {}
    ELSE {e \in byRecipientByID[r] : e.envelopeId \notin Ids(byRecipient[r] \ PrunedQueue(r))}

PrunedQueues == [r \in Peers |-> PrunedQueue(r)]
PrunedIndexes == [r \in Peers |-> PrunedIndex(r)]

Init ==
    /\ byRecipient = [r \in Peers |-> {}]
    /\ byRecipientByID = [r \in Peers |-> {}]
    /\ now = 0
    /\ appended = 0
    /\ answer = Promise!NoAnswer

\* Mutant of HasRoom: expired envelopes take up room.
HasRoomUnpruned(r) == Cardinality(byRecipient[r]) < MaxPerRecipient

\* Enqueue's capacity test: len(queue) >= maxPerRecipient refuses.
HasRoom(r) == Cardinality(PrunedQueue(r)) < MaxPerRecipient

\* The envelope as it is appended to the slice.
NewEntry(id, sentAt, expiry) ==
    [envelopeId |-> id, sentAt |-> sentAt, expiresAt |-> expiry, arrival |-> appended + 1]

\* Enqueue of an id the index does not know, below the capacity: the envelope
\* is appended to the queue and indexed.
EnqueueNew(r, id, sentAt, expiry) ==
    /\ id \notin Ids(PrunedIndex(r))
    /\ HasRoom(r)
    /\ appended < MaxAppends
    /\ appended' = appended + 1
    /\ byRecipient' = [PrunedQueues EXCEPT ![r] = @ \cup {NewEntry(id, sentAt, expiry)}]
    /\ byRecipientByID' = [PrunedIndexes EXCEPT ![r] = @ \cup {NewEntry(id, sentAt, expiry)}]
    /\ answer' = Promise!Accepted(r, id, expiry)
    /\ UNCHANGED now

\* Enqueue of an indexed id: accepted with the expiry of the indexed envelope,
\* nothing stored.
EnqueueKnown(r, id) ==
    /\ \E e \in PrunedIndex(r) : e.envelopeId = id /\ answer' = Promise!Accepted(r, id, e.expiresAt)
    /\ byRecipient' = PrunedQueues
    /\ byRecipientByID' = PrunedIndexes
    /\ UNCHANGED <<now, appended>>

\* Enqueue of a new id into a full queue.
EnqueueFull(r, id) ==
    /\ id \notin Ids(PrunedIndex(r))
    /\ ~HasRoom(r)
    /\ byRecipient' = PrunedQueues
    /\ byRecipientByID' = PrunedIndexes
    /\ answer' = Promise!Refused(r, id)
    /\ UNCHANGED <<now, appended>>

\* Ack by the recipient itself (the handler refuses anyone else): the ids the
\* index knows leave the queue and the index.
Ack(r, ids) ==
    LET acked == ids \cap Ids(PrunedIndex(r))
        kept == {e \in PrunedQueue(r) : e.envelopeId \notin acked}
    IN  /\ byRecipient' = [PrunedQueues EXCEPT ![r] = kept]
        /\ byRecipientByID' = [PrunedIndexes EXCEPT ![r] = IF kept = {} THEN {}
                                                              ELSE {e \in @ : e.envelopeId \notin acked}]
        /\ answer' = Promise!NoAnswer
        /\ UNCHANGED <<now, appended>>

\* Pull, Stats, UnreadCount and an Enqueue with a missing id or a malformed
\* expiry: they change nothing but what cleanupLocked prunes.
Prune ==
    /\ byRecipient' = PrunedQueues
    /\ byRecipientByID' = PrunedIndexes
    /\ answer' = Promise!NoAnswer
    /\ UNCHANGED <<now, appended>>

\* The clock moves; nothing is pruned until the next operation.
Tick ==
    /\ now < Horizon
    /\ now' = now + 1
    /\ answer' = Promise!NoAnswer
    /\ UNCHANGED <<byRecipient, byRecipientByID, appended>>

\* The relay restarts: NewStore, and everything was in memory.
Restart ==
    /\ byRecipient' = [r \in Peers |-> {}]
    /\ byRecipientByID' = [r \in Peers |-> {}]
    /\ answer' = Promise!NoAnswer
    /\ UNCHANGED <<now, appended>>

Next ==
    \/ \E r \in Peers, id \in EnvelopeIds :
          \/ \E sentAt \in SentAts, expiry \in Promise!GrantedExpiries(now) :
                EnqueueNew(r, id, sentAt, expiry)
          \/ EnqueueKnown(r, id)
          \/ EnqueueFull(r, id)
    \/ \E r \in Peers, ids \in SUBSET EnvelopeIds : Ack(r, ids)
    \/ Prune
    \/ Tick
    \/ Restart

Spec == Init /\ [][Next]_vars

-----------------------------------------------------------------------------

\* The index and the queue of a recipient never disagree: what Enqueue and Ack
\* look up in byRecipientByID is what Pull hands out of byRecipient, whatever
\* acks, expiries and re-enqueues of the same id came before.
IndexMatchesQueue == \A r \in Peers : byRecipientByID[r] = byRecipient[r]

\* No recipient is ever handed two copies of one envelope: retried enqueues of
\* the same id leave a single entry in its queue.
UniqueEnvelopeIds ==
    \A r \in Peers : \A e, f \in byRecipient[r] : e.envelopeId = f.envelopeId => e = f

\* A queue stays within maxPerRecipient, the expired entries it still carries
\* included.
DepthBounded ==
    \A r \in Peers : IsFiniteSet(byRecipient[r]) /\ Cardinality(byRecipient[r]) <= MaxPerRecipient

\* "accepted" is a promise: the sender that reads it stops retrying, so at that
\* moment the queue holds a live copy, unless the envelope came already expired.
AcceptedIsHeld ==
    answer.accepted =>
        \/ \E e \in byRecipient[answer.recipient] :
              e.envelopeId = answer.envelopeId /\ e.expiresAt > now
        \/ answer.expiresAt <= now

\* Index and queue agree, hold no duplicate and no more than they may, and hold
\* what was accepted, after any sequence of enqueues, acks, expiries and restarts.
QueueIsSound ==
    TypeOK /\ IndexMatchesQueue /\ UniqueEnvelopeIds /\ DepthBounded /\ AcceptedIsHeld

\* Seen from outside, pruning late is pruning at once: capacity, idempotence and
\* acknowledgement never depend on an expired envelope that is still stored.
ImplementsMailbox == Promise!Spec
=============================================================================
