----------------------------- MODULE ChatState -----------------------------
(***************************************************************************)
(* The chat state of the web app, apps/web/src/useChatController.ts, and   *)
(* its copy on disk, packages/storage/src/index.ts.                        *)
(*                                                                         *)
(* The state is one immutable snapshot in stateRef.current.  Every         *)
(* operation reads it, builds the next one and hands it to persistState.   *)
(* All of them do that in one task except ingestIncomingEnvelope, which    *)
(* decrypts between the reading and the writing; several of its calls, one *)
(* per inbound stream and one per mailbox drain, can be pending together.  *)
(* persistState replaces the snapshot at once, then encrypts and writes it *)
(* to disk; nothing orders two such writes.                                *)
(*                                                                         *)
(* A snapshot is reduced to what happens to each message: how many copies  *)
(* it has, and one bit for the parts of it that change later (delivery     *)
(* status, reactions, sealed ciphertext).  Left out are texts, contacts,   *)
(* the cap of 300 messages per conversation, which these runs stay below,  *)
(* and all of a conversation but this: when both sides open one with each  *)
(* other, each under an id of its own, what arrives is filed under the     *)
(* recipient's id, while a sync replay looks it up under the sender's.     *)
(***************************************************************************)
EXTENDS Naturals, Sequences

CONSTANTS
    Incoming,  \* messages of other peers, by network id
    Renamed,   \* those of a conversation that has another id at their sender's
    Own,       \* messages written here, and entries of the call history
    Calls,     \* bound on pending ingestions
    MaxSaves   \* bound on pending writes to disk

ASSUME StateAssumption ==
    /\ Renamed \subseteq Incoming
    /\ Incoming \cap Own = {}
    /\ MaxSaves \in Nat

VARIABLES
    latest,   \* stateRef.current
    calls,    \* pending ingestions: the snapshot they read and their batch
    pending,  \* snapshots on their way to disk
    stored,   \* the snapshot on disk
    sent,     \* those of Own made so far (their ids are never reused)
    ideal,    \* the snapshot if every change had been made to the latest one
    exposed   \* messages changed while some ingestion was pending

vars == <<latest, calls, pending, stored, sent, ideal, exposed>>

Messages == Incoming \cup Own
Absent == [copies |-> 0, marked |-> FALSE]
Entry == {Absent} \cup [copies : Nat \ {0}, marked : BOOLEAN]
Snapshot == [Messages -> Entry]
Empty == [m \in Messages |-> Absent]

\* An incoming message arrives by itself, from a live stream or a mailbox drain,
\* or with others in the reply to a sync request.
Ways == {"live", "sync"}
Batches(way) == IF way = "live" THEN {{m} : m \in Incoming} ELSE (SUBSET Incoming) \ {{}}

NoCall == [batch |-> {}, way |-> "live", snap |-> Empty]

Init ==
    /\ latest = Empty
    /\ calls = [c \in Calls |-> NoCall]
    /\ pending = <<>>
    /\ stored = Empty
    /\ sent = {}
    /\ ideal = Empty
    /\ exposed = {}

-----------------------------------------------------------------------------
\* The next snapshots.

\* The duplicate check: by message id in the conversation the message is filed
\* under, but by the sender's conversation id in a sync replay.
Knows(s, m, way) == s[m].copies > 0 /\ ~(way = "sync" /\ m \in Renamed)

\* Mutant of Added: no look at what the snapshot knows.
AddedUnchecked(s, batch, way) ==
    [m \in Messages |-> IF m \in batch THEN [s[m] EXCEPT !.copies = @ + 1] ELSE s[m]]

\* The messages of the batch the snapshot does not know yet join it.
Added(s, batch, way) ==
    [m \in Messages |-> IF m \in batch /\ ~Knows(s, m, way)
                        THEN [s[m] EXCEPT !.copies = @ + 1]
                        ELSE s[m]]

Marked(s, m, v) == IF s[m].copies = 0 THEN s ELSE [s EXCEPT ![m].marked = v]

\* Mutant of Removed: reactions stay behind.
RemovedKeepsMark(s, m) == [s EXCEPT ![m].copies = 0]

Removed(s, m) == [s EXCEPT ![m] = Absent]

PendingAfter(cs) == \E c \in Calls : cs[c] # NoCall

\* A change is exposed when an ingestion that has read its snapshot will still
\* write one.
Expose(cs) ==
    exposed' = IF PendingAfter(cs)
               THEN exposed \cup {m \in Messages : ideal'[m] # ideal[m]}
               ELSE exposed

\* Mutant of Persist: the snapshot is replaced only if no write is under way.
PersistLate(next) ==
    /\ Len(pending) < MaxSaves
    /\ latest' = IF pending = <<>> THEN next ELSE latest
    /\ pending' = Append(pending, next)

\* persistState: the snapshot is replaced before anything is awaited.
Persist(next) ==
    /\ Len(pending) < MaxSaves
    /\ latest' = next
    /\ pending' = Append(pending, next)

-----------------------------------------------------------------------------
\* Operations that read and write in one task.

\* sendMessage.
Send(m) ==
    /\ m \in Own \ sent
    /\ sent' = sent \cup {m}
    /\ Persist(Added(latest, {m}, "live"))
    /\ ideal' = Added(ideal, {m}, "live")
    /\ Expose(calls)
    /\ UNCHANGED <<calls, stored>>

\* appendCallHistoryEntry: each event of a call is logged once, under an id of
\* its own, as delivered.
LogCall(m) ==
    LET Logged(s) == Marked(Added(s, {m}, "live"), m, TRUE)
    IN  /\ m \in Own \ sent
        /\ latest[m].copies = 0
        /\ sent' = sent \cup {m}
        /\ Persist(Logged(latest))
        /\ ideal' = Logged(ideal)
        /\ Expose(calls)
        /\ UNCHANGED <<calls, stored>>

\* An inbound message in plain text, or a sync batch of them.
IngestPlain(batch, way) ==
    /\ Added(latest, batch, way) # latest
    /\ Persist(Added(latest, batch, way))
    /\ ideal' = Added(ideal, batch, way)
    /\ Expose(calls)
    /\ UNCHANGED <<calls, stored, sent>>

\* updateMessageDeliveryStatus, updateMessageCiphertext, toggleReaction and an
\* inbound reaction: an unknown message, or no change, writes nothing.
Mark(m, v) ==
    /\ latest[m].copies > 0
    /\ latest[m].marked # v
    /\ Persist(Marked(latest, m, v))
    /\ ideal' = Marked(ideal, m, v)
    /\ Expose(calls)
    /\ UNCHANGED <<calls, stored, sent>>

\* deleteMessage: by id, every copy goes.  deleteConversation is this for each
\* of its messages, in any order (each conversation of these runs has one).
Delete(m) ==
    /\ latest[m].copies > 0
    /\ Persist(Removed(latest, m))
    /\ ideal' = Removed(ideal, m)
    /\ Expose(calls)
    /\ UNCHANGED <<calls, stored, sent>>

\* updateConversationConnection, updateGroupTitle: the conversations change and
\* the messages do not, but the whole snapshot is written.
Touch ==
    /\ Persist(latest)
    /\ UNCHANGED <<calls, stored, sent, ideal, exposed>>

-----------------------------------------------------------------------------
\* ingestIncomingEnvelope of an encrypted message, or of a sync batch.

\* It reads the snapshot and starts to decrypt.
Ingest(c, batch, way) ==
    /\ calls[c] = NoCall
    /\ calls' = [calls EXCEPT ![c] = [batch |-> batch, way |-> way, snap |-> latest]]
    /\ UNCHANGED <<latest, pending, stored, sent, ideal, exposed>>

\* Decryption is over: the batch is merged into the snapshot read before it,
\* which is written unless it knew all of the batch.
Ingested(c) ==
    LET call == calls[c]
        next == Added(call.snap, call.batch, call.way)
    IN  /\ call # NoCall
        /\ IF next = call.snap
           THEN UNCHANGED <<latest, pending>>
           ELSE Persist(next)
        /\ ideal' = Added(ideal, call.batch, call.way)
        /\ calls' = [calls EXCEPT ![c] = NoCall]
        /\ Expose(calls')
        /\ UNCHANGED <<stored, sent>>

-----------------------------------------------------------------------------

\* One of the pending writes reaches the disk.
Saved(i) ==
    /\ i \in DOMAIN pending
    /\ stored' = pending[i]
    /\ pending' = SubSeq(pending, 1, i - 1) \o SubSeq(pending, i + 1, Len(pending))
    /\ UNCHANGED <<latest, calls, sent, ideal, exposed>>

\* The page reloads: the state is what the disk holds.
Reload ==
    /\ latest' = stored
    /\ ideal' = stored
    /\ calls' = [c \in Calls |-> NoCall]
    /\ pending' = <<>>
    /\ exposed' = {}
    /\ UNCHANGED <<stored, sent>>

Next ==
    \/ \E m \in Messages : Send(m) \/ LogCall(m) \/ Delete(m) \/ \E v \in BOOLEAN : Mark(m, v)
    \/ Touch
    \/ \E way \in Ways : \E batch \in Batches(way) :
          \/ IngestPlain(batch, way)
          \/ \E c \in Calls : Ingest(c, batch, way)
    \/ \E c \in Calls : Ingested(c)
    \/ \E i \in 1..MaxSaves : Saved(i)
    \/ Reload

Spec == Init /\ [][Next]_vars

-----------------------------------------------------------------------------

\* Every snapshot, in memory, in flight and on disk, is well formed.
TypeOK ==
    /\ latest \in Snapshot
    /\ calls \in [Calls -> [batch : SUBSET Incoming, way : Ways, snap : Snapshot]]
    /\ pending \in Seq(Snapshot)
    /\ stored \in Snapshot
    /\ sent \subseteq Own
    /\ ideal \in Snapshot
    /\ exposed \subseteq Messages

\* A message never has two copies, although several ingestions of it (a live
\* stream, a mailbox drain, a sync replay) may check a stale snapshot for it
\* and all write: provided its conversation has one id on both sides.
NoDuplicates ==
    \A m \in Messages \ Renamed :
        /\ latest[m].copies <= 1
        /\ stored[m].copies <= 1

\* The only change that can be lost, or undone, is one made while an ingestion
\* was decrypting: about every other message the state is exactly what all the
\* changes made so far amount to.
LossNeedsOverlap == \A m \in Messages \ exposed : latest[m] = ideal[m]

\* "stateRef always holds the latest persisted snapshot so async callbacks never
\* read a stale closure even when two calls run before a re-render": then no
\* change is ever lost.
NothingLost == latest = ideal
=============================================================================
