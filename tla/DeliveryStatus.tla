--------------------------- MODULE DeliveryStatus ---------------------------
(***************************************************************************)
(* The delivery status of a message the user sent, as the chat shows it,   *)
(* against what happened to the message: apps/web/src/App.tsx over         *)
(* packages/network/src/session.ts.                                        *)
(*                                                                         *)
(* The status is written from four sides that know nothing of each other:  *)
(* the flow that sends the message, the flow of a retry, the events of the *)
(* session (sent, failed) and the receipts of the peer.  A write always    *)
(* overwrites (updateMessageDelivery), and statuses of different messages  *)
(* are independent, so one message is enough.  The queue of OutboundQueue  *)
(* is seen from here as the number of entries this message has in it: the  *)
(* tick may give one up at any time, and any other message may evict one.  *)
(* That two writes of the chat state do not lose each other is the subject *)
(* of ChatState.                                                           *)
(***************************************************************************)
EXTENDS Naturals, FiniteSets

CONSTANTS
    Flows,       \* flows that may run at once
    MaxEntries,  \* bound on the entries the message has in the queue
    MaxStreams,  \* bound on copies on their way to the peer
    MaxReceipts  \* bound on receipts under way

ASSUME DeliveryAssumption ==
    /\ IsFiniteSet(Flows)
    /\ MaxEntries \in Nat
    /\ MaxStreams \in Nat
    /\ MaxReceipts \in Nat

VARIABLES
    group,     \* the conversation is a group
    delivery,  \* ChatMessage.delivery
    flows,     \* flows[f]: where the flow f stands
    waiting,   \* entries of the message in the session's queue
    held,      \* entries a tick or a flush has taken out and is sending
    streams,   \* copies on their way to the peer
    receipts,  \* receipts on their way back
    written,   \* a stream to the peer took the message
    relayed,   \* a relay accepted the message
    reached,   \* the peer has the message
    dropped,   \* an entry was dropped: the peer does not speak the protocol
    overtaken, \* an entry left the queue while a flow was under way
    broken,    \* a flow was cut off: by an error in it or by a reload
    failed,    \* a direct attempt failed, as it has before any entry is queued
    acked      \* a receipt of the peer was read

marks == <<failed, acked>>
history == <<written, relayed, reached, dropped, overtaken, broken, marks>>
vars == <<group, delivery, flows, waiting, held, streams, receipts,
          written, relayed, reached, dropped, overtaken, broken, failed, acked>>

Statuses == {"none", "sending", "local-only", "queued", "sent", "delivered"}

\* saving  - sendMessage saves the new message     storing - the relay is asked
\* sealing - the message is encrypted              taken   - retryMessage sends
\* direct  - sendChatMessageToPeer or                       the queued entry
\*           publishGroupMessage sends   looking - a retry saves its status
Places == {"saving", "sealing", "direct", "storing", "looking", "taken"}
Idle == "idle"

Pending == {f \in Flows : flows[f] # Idle}

Init ==
    /\ group \in BOOLEAN
    /\ delivery = "none"
    /\ flows = [f \in Flows |-> Idle]
    /\ waiting = 0
    /\ held = 0
    /\ streams = 0
    /\ receipts = 0
    /\ written = FALSE
    /\ relayed = FALSE
    /\ reached = FALSE
    /\ dropped = FALSE
    /\ overtaken = FALSE
    /\ broken = FALSE
    /\ failed = FALSE
    /\ acked = FALSE

Go(f, place) == flows' = [flows EXCEPT ![f] = place]

\* An attempt opens a stream: the copy may arrive, whatever the attempt reports.
OpenStream ==
    /\ streams < MaxStreams
    /\ streams' = streams + 1

-----------------------------------------------------------------------------
\* The flow of a new message (onSendMessage, onSendImage).

\* The message is made, and shown as being sent.
Compose(f) ==
    /\ delivery = "none"
    /\ delivery' = "sending"
    /\ Go(f, "saving")
    /\ UNCHANGED <<group, waiting, held, streams, receipts, history>>

\* The browser is offline, or the conversation has no remote participant.
CannotSend(f) ==
    /\ flows[f] = "saving"
    /\ delivery' = "local-only"
    /\ Go(f, Idle)
    /\ UNCHANGED <<group, waiting, held, streams, receipts, history>>

Saved(f) ==
    /\ flows[f] = "saving"
    /\ Go(f, "sealing")
    /\ UNCHANGED <<group, delivery, waiting, held, streams, receipts, history>>

\* The message is encrypted, and sent.
Sealed(f) ==
    /\ flows[f] = "sealing"
    /\ ~group
    /\ Go(f, "direct")
    /\ OpenStream
    /\ UNCHANGED <<group, delivery, waiting, held, receipts, history>>

\* In a group it is published: nothing is queued, and nobody sends a receipt.
SealedForGroup(f) ==
    /\ flows[f] = "sealing"
    /\ group
    /\ Go(f, "direct")
    /\ UNCHANGED <<group, delivery, waiting, held, streams, receipts, history>>

Published(f) ==
    /\ flows[f] = "direct"
    /\ group
    /\ \/ delivery' = "sent" /\ written' = TRUE
       \/ delivery' = "queued" /\ UNCHANGED written
    /\ Go(f, Idle)
    /\ UNCHANGED <<group, waiting, held, streams, receipts, relayed, reached, dropped, overtaken, broken, marks>>

\* Publishing throws (nobody has joined the topic), and nothing catches it.
PublishFails(f) ==
    /\ flows[f] = "direct"
    /\ group
    /\ Go(f, Idle)
    /\ broken' = TRUE
    /\ UNCHANGED <<group, delivery, waiting, held, streams, receipts, written, relayed, reached, dropped, overtaken, marks>>

\* The encryption throws, and nothing catches it.
SealFails(f) ==
    /\ flows[f] = "sealing"
    /\ Go(f, Idle)
    /\ broken' = TRUE
    /\ UNCHANGED <<group, delivery, waiting, held, streams, receipts, written, relayed, reached, dropped, overtaken, marks>>

\* The stream took the message: the event "sent", which a retry's flow repeats.
DirectSent(f) ==
    /\ flows[f] = "direct"
    /\ ~group
    /\ delivery' = "sent"
    /\ written' = TRUE
    /\ Go(f, Idle)
    /\ UNCHANGED <<group, waiting, held, streams, receipts, relayed, reached, dropped, overtaken, broken, marks>>

\* enqueue: an entry already in the queue stays the only one.
Enqueued == IF waiting = 0 THEN 1 ELSE waiting

\* The attempt failed, or the connection is limited: the message is queued, and
\* the relay is asked to keep it.
DirectFailed(f) ==
    /\ flows[f] = "direct"
    /\ ~group
    /\ waiting' = Enqueued
    /\ waiting' + held <= MaxEntries
    /\ failed' = TRUE
    /\ Go(f, "storing")
    /\ UNCHANGED <<group, delivery, held, streams, receipts, written, relayed, reached, dropped, overtaken, broken, acked>>

\* The peer does not speak the protocol: the message is not queued.
DirectUnsupported(f) ==
    /\ flows[f] = "direct"
    /\ ~group
    /\ dropped' = TRUE
    /\ failed' = TRUE
    /\ Go(f, "storing")
    /\ UNCHANGED <<group, delivery, waiting, held, streams, receipts, written, relayed, reached, overtaken, broken, acked>>

\* Mutant of Stored: a relay that answered is taken to have accepted.
StoredAnyway(f) ==
    /\ flows[f] = "storing"
    /\ delivery' = "sent"
    /\ relayed' \in {relayed, TRUE}
    /\ Go(f, Idle)
    /\ UNCHANGED <<group, waiting, held, streams, receipts, written, reached, dropped, overtaken, broken, marks>>

\* A relay accepts the message, or none does, or its answer is lost.
Stored(f) ==
    /\ flows[f] = "storing"
    /\ \/ delivery' = "sent" /\ relayed' = TRUE
       \/ delivery' = "queued" /\ relayed' \in {relayed, TRUE}
    /\ Go(f, Idle)
    /\ UNCHANGED <<group, waiting, held, streams, receipts, written, reached, dropped, overtaken, broken, marks>>

-----------------------------------------------------------------------------
\* The flow of a retry (retryConversationMessage), offered for an unsent message.

\* Mutant of Retryable: a retry is offered for every message.
AnyRetryable == delivery \notin {"none", "sending"}

Retryable == delivery \in {"queued", "local-only"}

RetryOffline ==
    /\ Retryable
    /\ delivery' = "local-only"
    /\ UNCHANGED <<group, flows, waiting, held, streams, receipts, history>>

\* The flow says so, except in a group, and goes on with the status it was
\* started for: a queued message is looked for in the queue first.
Retry(f) ==
    /\ flows[f] = Idle
    /\ Retryable
    /\ delivery' = IF group THEN delivery ELSE "sending"
    /\ Go(f, IF delivery = "queued" /\ ~group THEN "looking" ELSE "sealing")
    /\ UNCHANGED <<group, waiting, held, streams, receipts, history>>

Found(f) ==
    /\ flows[f] = "looking"
    /\ waiting > 0
    /\ waiting' = waiting - 1
    /\ Go(f, "taken")
    /\ OpenStream
    /\ UNCHANGED <<group, delivery, held, receipts, history>>

NotFound(f) ==
    /\ flows[f] = "looking"
    /\ waiting = 0
    /\ Go(f, "sealing")
    /\ UNCHANGED <<group, delivery, waiting, held, streams, receipts, history>>

\* retryMessage succeeds, and the flow ends.
TakenSent(f) ==
    /\ flows[f] = "taken"
    /\ delivery' = "sent"
    /\ written' = TRUE
    /\ Go(f, Idle)
    /\ UNCHANGED <<group, waiting, held, streams, receipts, relayed, reached, dropped, overtaken, broken, marks>>

\* It fails: the entry is queued again, and the flow sends anew.
TakenFailed(f) ==
    /\ flows[f] = "taken"
    /\ waiting' = Enqueued
    /\ waiting' + held <= MaxEntries
    /\ Go(f, "sealing")
    /\ UNCHANGED <<group, delivery, held, streams, receipts, history>>

TakenUnsupported(f) ==
    /\ flows[f] = "taken"
    /\ dropped' = TRUE
    /\ Go(f, "sealing")
    /\ UNCHANGED <<group, delivery, waiting, held, streams, receipts, written, relayed, reached, overtaken, broken, marks>>

-----------------------------------------------------------------------------
\* The session's queue: ticks, flushes and evictions.

\* An entry leaves the queue for good while a flow is under way, which will
\* write a status without knowing.
Overtake == overtaken' = (overtaken \/ Pending # {})

Take ==
    /\ waiting > 0
    /\ waiting' = waiting - 1
    /\ held' = held + 1
    /\ OpenStream
    /\ UNCHANGED <<group, delivery, flows, receipts, history>>

HeldSent ==
    /\ held > 0
    /\ held' = held - 1
    /\ delivery' = "sent"
    /\ written' = TRUE
    /\ Overtake
    /\ UNCHANGED <<group, flows, waiting, streams, receipts, relayed, reached, dropped, broken, marks>>

HeldFailed ==
    /\ held > 0
    /\ held' = held - 1
    /\ waiting' = waiting + 1
    /\ UNCHANGED <<group, delivery, flows, streams, receipts, history>>

\* Dropped without an event.
HeldUnsupported ==
    /\ held > 0
    /\ held' = held - 1
    /\ dropped' = TRUE
    /\ Overtake
    /\ UNCHANGED <<group, delivery, flows, waiting, streams, receipts, written, relayed, reached, broken, marks>>

\* Mutant of GiveUp: the tick gives up without a word.
GiveUpSilently ==
    /\ waiting > 0
    /\ waiting' = waiting - 1
    /\ Overtake
    /\ UNCHANGED <<group, delivery, flows, held, streams, receipts, written, relayed, reached, dropped, broken, marks>>

\* After its last retry, or evicted from a full queue: the event "failed".
GiveUp ==
    /\ waiting > 0
    /\ waiting' = waiting - 1
    /\ delivery' = "local-only"
    /\ Overtake
    /\ UNCHANGED <<group, flows, held, streams, receipts, written, relayed, reached, dropped, broken, marks>>

-----------------------------------------------------------------------------
\* The peer.

\* A copy arrives, and the peer's session answers with a receipt.
Arrive ==
    /\ streams > 0
    /\ receipts < MaxReceipts
    /\ streams' = streams - 1
    /\ receipts' = receipts + 1
    /\ reached' = TRUE
    /\ UNCHANGED <<group, delivery, flows, waiting, held, written, relayed, dropped, overtaken, broken, marks>>

LoseStream ==
    /\ streams > 0
    /\ streams' = streams - 1
    /\ UNCHANGED <<group, delivery, flows, waiting, held, receipts, history>>

\* What the peer takes from its mailbox or from a sync replay is not receipted.
ArriveUnreceipted ==
    /\ delivery # "none"
    /\ reached' = TRUE
    /\ UNCHANGED <<group, delivery, flows, waiting, held, streams, receipts, written, relayed, dropped, overtaken, broken, marks>>

Receipt ==
    /\ receipts > 0
    /\ receipts' = receipts - 1
    /\ delivery' = "delivered"
    /\ acked' = TRUE
    /\ UNCHANGED <<group, flows, waiting, held, streams, written, relayed, reached, dropped, overtaken, broken, failed>>

LoseReceipt ==
    /\ receipts > 0
    /\ receipts' = receipts - 1
    /\ UNCHANGED <<group, delivery, flows, waiting, held, streams, history>>

\* The page reloads: flows and passes are gone.  What a pass held may be on disk.
Reload ==
    /\ Pending # {} \/ held > 0
    /\ flows' = [f \in Flows |-> Idle]
    /\ held' = 0
    /\ waiting' \in waiting .. (waiting + held)
    /\ broken' = TRUE
    /\ UNCHANGED <<group, delivery, streams, receipts, written, relayed, reached, dropped, overtaken, marks>>

Next ==
    \/ \E f \in Flows :
          \/ Compose(f) \/ CannotSend(f) \/ Saved(f) \/ Sealed(f) \/ SealFails(f)
          \/ DirectSent(f) \/ DirectFailed(f) \/ DirectUnsupported(f) \/ Stored(f)
          \/ SealedForGroup(f) \/ Published(f) \/ PublishFails(f)
          \/ Retry(f) \/ Found(f) \/ NotFound(f)
          \/ TakenSent(f) \/ TakenFailed(f) \/ TakenUnsupported(f)
    \/ RetryOffline
    \/ Take \/ HeldSent \/ HeldFailed \/ HeldUnsupported \/ GiveUp
    \/ Arrive \/ LoseStream \/ ArriveUnreceipted \/ Receipt \/ LoseReceipt
    \/ Reload

Spec == Init /\ [][Next]_vars

-----------------------------------------------------------------------------

\* The state is well formed.
TypeOK ==
    /\ group \in BOOLEAN
    /\ delivery \in Statuses
    /\ flows \in [Flows -> Places \cup {Idle}]
    /\ waiting \in Nat /\ held \in Nat /\ waiting + held <= MaxEntries
    /\ streams \in 0 .. MaxStreams
    /\ receipts \in 0 .. MaxReceipts
    /\ written \in BOOLEAN /\ relayed \in BOOLEAN /\ reached \in BOOLEAN
    /\ dropped \in BOOLEAN /\ overtaken \in BOOLEAN /\ broken \in BOOLEAN
    /\ failed \in BOOLEAN /\ acked \in BOOLEAN

\* One tick says that a transport took the message and two ticks that the peer
\* has it: neither is shown without it, whichever side wrote last.
StatusIsHonest ==
    /\ delivery = "sent" => written \/ relayed
    /\ delivery = "delivered" => reached

\* "The app is still trying the first live send attempt": a message shown as
\* being sent is in the hands of a flow, unless an error or a reload cut it off.
SendingIsTried == delivery = "sending" => Pending # {} \/ broken

\* What is shown is so: ticks for what happened, and "sending" while it is tried.
StatusIsSound == TypeOK /\ StatusIsHonest /\ SendingIsTried

\* "The session queued this message and will retry automatically": a message
\* shown as queued has an entry in the queue, unless an entry was dropped for a
\* peer that does not speak the protocol, or left while a flow was under way.
\* (In a group it has none.)
QueuedIsRetried ==
    delivery = "queued" /\ ~group =>
        waiting + held > 0 \/ Pending # {} \/ dropped \/ overtaken \/ broken

\* A message the peer acknowledged is never shown as unsent again, and so never
\* offered for a retry: not by the flow that still waits for its stream when the
\* receipt overtakes it, nor by a cut-off flow, a second receipt or a retry of an
\* earlier copy.  Once an attempt was reported as failed it may be: its flow and
\* its entry in the queue write their own outcome over the receipt.
AcknowledgedIsKept == acked => delivery \in {"sent", "delivered"} \/ failed
=============================================================================
