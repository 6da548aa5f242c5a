--------------------------- MODULE OutboundQueue ---------------------------
(***************************************************************************)
(* The outbound queue of a live session, packages/network/src/session.ts,  *)
(* with the copy packages/storage keeps of it in localStorage.             *)
(*                                                                         *)
(* JavaScript runs one task at a time, so a step is what happens between   *)
(* two awaits, and the only await that matters is the one on               *)
(* sendEnvelopeToPeer.  A worker is one asynchronous call that is waiting  *)
(* for a send: a first send, a user's retry, a flush or a tick of the      *)
(* retry loop.  Nothing in the code keeps two of them from overlapping.    *)
(* A queue entry is a chat message and its retry count (the recipient is   *)
(* a function of the message); when it falls due is left to the choice of  *)
(* the tick, and a send that returns false or 'limited' differs only in    *)
(* that delay, so both put the entry back in the same step here.           *)
(* localStorage takes what is written to it: savePendingQueue ignores an   *)
(* exceeded quota, and the copy is then an older one.                      *)
(***************************************************************************)
EXTENDS Naturals, Sequences, FiniteSets, Subsequences

CONSTANTS
    Messages,      \* messageIds
    Workers,       \* bound on overlapping asynchronous calls
    MaxQueueSize,  \* MAX_QUEUE_SIZE
    MaxRetries,    \* MAX_RETRIES
    MaxResends,    \* bound on how often the user sends an unsent message again
    CanReload      \* the page reloads, or the tab dies, at any moment

ASSUME QueueAssumption ==
    /\ MaxQueueSize \in Nat \ {0}
    /\ MaxRetries \in Nat
    /\ MaxResends \in Nat
    /\ CanReload \in BOOLEAN
    /\ "queue" \notin Workers  \* it names a place that is no call's

VARIABLES
    queue,      \* the in-memory queue
    persisted,  \* its copy in localStorage
    work,       \* work[w]: what w does, the entries it holds (the first is
                \* being sent) and whether that send found a node to use
    phase,      \* the node: stopped, starting (no retry loop yet), running, or
                \* halted (a stop that failed ended the retry loop)
    fate,       \* what became of each message so far
    resends,    \* how many sends repeated an earlier one
    cut         \* messages that some reload took from a call, or of which
                \* the queue and localStorage knew differently

vars == <<queue, persisted, work, phase, fate, resends, cut>>

Item == [msg : Messages, retry : 0..MaxRetries]
Ops == {"idle", "send", "retry", "flush", "tick"}
Phases == {"stopped", "starting", "running", "halted"}
Fates == {"new", "sending", "queued", "sent", "failed", "unsupported"}

Idle == [op |-> "idle", todo |-> <<>>, up |-> FALSE]
Busy(op, items) == [op |-> op, todo |-> items, up |-> phase # "stopped"]

MessagesOf(q) == {q[i].msg : i \in DOMAIN q}
InFlight == UNION {MessagesOf(work[w].todo) : w \in Workers}

Init ==
    /\ queue = <<>>
    /\ persisted = <<>>
    /\ work = [w \in Workers |-> Idle]
    /\ phase = "stopped"
    /\ fate = [m \in Messages |-> "new"]
    /\ resends = 0 /\ cut = {}

-----------------------------------------------------------------------------
\* enqueue: one entry per message; a full queue drops its oldest entry, and
\* reports that message as failed.

NewItem(m) == [msg |-> m, retry |-> 0]

Evicts(q, m) == m \notin MessagesOf(q) /\ Len(q) >= MaxQueueSize

Enqueued(q, m) ==
    IF m \in MessagesOf(q)
    THEN q
    ELSE Append(IF Evicts(q, m) THEN Tail(q) ELSE q, NewItem(m))

\* The messages of S are given up; one that has gone out stays sent.
Failing(f, S) == [m \in Messages |-> IF m \in S /\ f[m] # "sent" THEN "failed" ELSE f[m]]

FateOfEnqueueSilent(m) == [fate EXCEPT ![m] = "queued"]

FateOfEnqueue(m) ==
    LET evicted == IF Evicts(queue, m) THEN {Head(queue).msg} ELSE {}
    IN  [Failing(fate, evicted) EXCEPT ![m] = IF @ = "sent" THEN @ ELSE "queued"]

-----------------------------------------------------------------------------
\* sendChatMessageToPeer, up to its await.

SendNew(w, m) ==
    /\ work[w] = Idle
    /\ fate[m] = "new"
    /\ work' = [work EXCEPT ![w] = Busy("send", <<NewItem(m)>>)]
    /\ fate' = [fate EXCEPT ![m] = "sending"]
    /\ UNCHANGED <<queue, persisted, phase, resends, cut>>

\* The user sends a message again that the conversation shows as not sent.
Resend(w, m) ==
    /\ work[w] = Idle
    /\ resends < MaxResends
    /\ fate[m] \notin {"new", "sent"}
    /\ work' = [work EXCEPT ![w] = Busy("send", <<NewItem(m)>>)]
    /\ resends' = resends + 1
    /\ UNCHANGED <<queue, persisted, phase, fate, cut>>

\* retryMessage: takes the first entry of the message out of the queue.
Retry(w, m) ==
    /\ work[w] = Idle
    /\ \E i \in DOMAIN queue :
          /\ queue[i].msg = m
          /\ \A j \in 1..(i - 1) : queue[j].msg # m
          /\ queue' = SubSeq(queue, 1, i - 1) \o SubSeq(queue, i + 1, Len(queue))
          /\ work' = [work EXCEPT ![w] = Busy("retry", <<queue[i]>>)]
    /\ UNCHANGED <<persisted, phase, fate, resends, cut>>

\* flushQueue, called when a dial connects and when the page resumes: it
\* empties the queue.
FlushCopied(w) ==
    /\ phase # "stopped"
    /\ work[w] = Idle
    /\ queue # <<>>
    /\ work' = [work EXCEPT ![w] = Busy("flush", queue)]
    /\ UNCHANGED <<queue, persisted, phase, fate, resends, cut>>

Flush(w) ==
    /\ phase # "stopped"
    /\ work[w] = Idle
    /\ queue # <<>>
    /\ work' = [work EXCEPT ![w] = Busy("flush", queue)]
    /\ queue' = <<>>
    /\ UNCHANGED <<persisted, phase, fate, resends, cut>>

\* How many entries at the head of items are out of retries.
Exhausted(items) ==
    CHOOSE n \in 0..Len(items) :
        /\ \A i \in 1..n : items[i].retry >= MaxRetries
        /\ n < Len(items) => items[n + 1].retry < MaxRetries

\* What a pass still has to send once it has dropped the exhausted entries it
\* reaches before its next send, and the messages it drops; a flush drops none.
Remaining(op, items) ==
    IF op = "tick" THEN SubSeq(items, Exhausted(items) + 1, Len(items)) ELSE items
GivenUp(op, items) ==
    IF op = "tick" THEN MessagesOf(SubSeq(items, 1, Exhausted(items))) ELSE {}

\* A pass goes on with "items" over the queue q, or ends and persists q.
ProceedUnsaved(w, op, items, q, f) ==
    LET rest == Remaining(op, items)
    IN  /\ queue' = q
        /\ fate' = Failing(f, GivenUp(op, items))
        /\ work' = [work EXCEPT ![w] = IF rest = <<>> THEN Idle ELSE Busy(op, rest)]
        /\ persisted' = persisted

Proceed(w, op, items, q, f) ==
    LET rest == Remaining(op, items)
    IN  /\ queue' = q
        /\ fate' = Failing(f, GivenUp(op, items))
        /\ work' = [work EXCEPT ![w] = IF rest = <<>> THEN Idle ELSE Busy(op, rest)]
        /\ persisted' = IF rest = <<>> THEN q ELSE persisted

\* One tick of the retry loop: it takes the entries that are due.
Tick(w, due) ==
    /\ phase = "running"
    /\ work[w] = Idle
    /\ due # {}
    /\ Proceed(w, "tick", Subsequence(queue, due), Subsequence(queue, DOMAIN queue \ due), fate)
    /\ UNCHANGED <<phase, resends, cut>>

-----------------------------------------------------------------------------
\* The await on sendEnvelopeToPeer returns.

\* true or 'unsupported': the entry is done with.  A pass goes on; retryMessage
\* persists the queue, which is what a pass with nothing left does.
Done(w, outcome) ==
    LET op == work[w].op
        m == Head(work[w].todo).msg
        f == [fate EXCEPT ![m] = IF @ = "sent" THEN @ ELSE outcome]
    IN  /\ op # "idle"
        /\ work[w].up
        /\ IF op = "send"
           THEN /\ work' = [work EXCEPT ![w] = Idle]
                /\ fate' = f
                /\ UNCHANGED <<queue, persisted>>
           ELSE Proceed(w, op, Tail(work[w].todo), queue, f)
        /\ UNCHANGED <<phase, resends, cut>>

Delivered(w) == Done(w, "sent")

\* The peer does not speak the protocol: no retry, and no delivery status.
Unsupported(w) == Done(w, "unsupported")

\* false or 'limited' for a first send or a user's retry: enqueue, with no
\* retries counted.  enqueue persists unless it finds the message queued;
\* retryMessage persists in any case.
Requeued(w) ==
    LET op == work[w].op
        m == Head(work[w].todo).msg
    IN  /\ op \in {"send", "retry"}
        /\ queue' = Enqueued(queue, m)
        /\ persisted' = IF op = "send" /\ m \in MessagesOf(queue) THEN persisted ELSE queue'
        /\ fate' = FateOfEnqueue(m)
        /\ work' = [work EXCEPT ![w] = Idle]
        /\ UNCHANGED <<phase, resends, cut>>

\* The entry a pass pushes back: a flush as it was, a tick with one more retry.
PushedBackUncounted(op, item) == item
PushedBack(op, item) == IF op = "tick" THEN [item EXCEPT !.retry = @ + 1] ELSE item

\* false or 'limited' in a pass: the entry goes back to the end of the queue,
\* past the checks of enqueue.
PutBack(w) ==
    LET op == work[w].op
        todo == work[w].todo
    IN  /\ op \in {"flush", "tick"}
        /\ Proceed(w, op, Tail(todo), Append(queue, PushedBack(op, Head(todo))), fate)
        /\ UNCHANGED <<phase, resends, cut>>

Return(w) == Delivered(w) \/ Unsupported(w) \/ Requeued(w) \/ PutBack(w)

-----------------------------------------------------------------------------

\* start() up to the node's creation, and its end: the retry loop is on and the
\* queue is flushed.
Start ==
    /\ phase = "stopped"
    /\ phase' = "starting"
    /\ UNCHANGED <<queue, persisted, work, fate, resends, cut>>

Ready(w) ==
    /\ phase = "starting"
    /\ phase' = "running"
    /\ work[w] = Idle
    /\ work' = IF queue = <<>> THEN work ELSE [work EXCEPT ![w] = Busy("flush", queue)]
    /\ queue' = <<>>
    /\ UNCHANGED <<persisted, fate, resends, cut>>

\* stop(): the node goes, and the queue is persisted as it is at that moment.
Stop ==
    /\ phase # "stopped"
    /\ phase' = "stopped"
    /\ persisted' = queue
    /\ UNCHANGED <<queue, work, fate, resends, cut>>

\* stop() when the node refuses to: the retry loop has ended, the node stays, and
\* nothing is persisted.
StopFails ==
    /\ phase = "running"
    /\ phase' = "halted"
    /\ UNCHANGED <<queue, persisted, work, fate, resends, cut>>

\* The page reloads: every pending call is gone, and the next session's queue
\* is what loadPendingQueue finds.
Reload ==
    /\ CanReload
    /\ queue' = persisted
    /\ work' = [w \in Workers |-> Idle]
    /\ phase' = "stopped"
    /\ cut' = cut \cup InFlight
                  \cup (MessagesOf(persisted) \ MessagesOf(queue))
                  \cup (MessagesOf(queue) \ MessagesOf(persisted))
    /\ UNCHANGED <<persisted, fate, resends>>

Next ==
    \/ \E w \in Workers :
          \/ \E m \in Messages : SendNew(w, m) \/ Resend(w, m) \/ Retry(w, m)
          \/ Flush(w)
          \/ \E due \in SUBSET DOMAIN queue : Tick(w, due)
          \/ Return(w)
          \/ Ready(w)
    \/ Start
    \/ Stop
    \/ StopFails
    \/ Reload

Spec == Init /\ [][Next]_vars

\* A tick takes m: setInterval keeps firing and every delay passes, so an entry
\* that stays in the queue is due at some tick.
TickTakes(m) ==
    \E w \in Workers : \E due \in SUBSET DOMAIN queue :
        m \in MessagesOf(Subsequence(queue, due)) /\ Tick(w, due)

Fairness ==
    /\ \A w \in Workers : WF_vars(Return(w))
    /\ \A m \in Messages : SF_vars(TickTakes(m))

FairSpec == Spec /\ Fairness

-----------------------------------------------------------------------------

\* Every entry is a message with at most MaxRetries retries counted, in the
\* queue, in its persisted copy and in the hands of a pass.
TypeOK ==
    /\ queue \in Seq(Item)
    /\ persisted \in Seq(Item)
    /\ work \in [Workers -> [op : Ops, todo : Seq(Item), up : BOOLEAN]]
    /\ \A w \in Workers : work[w].todo = <<>> <=> work[w].op = "idle"
    /\ phase \in Phases
    /\ fate \in [Messages -> Fates]
    /\ resends \in 0..MaxResends

\* When no send is pending, localStorage holds the queue exactly: a reload at
\* such a moment loses nothing and repeats nothing (persistQueue is called at
\* the end of every operation, never in its middle).
QuiescentPersisted == (\A w \in Workers : work[w] = Idle) => persisted = queue

\* A message reported as queued is in the queue or in the hands of a call that
\* will deliver it, report it or put it back: no interleaving of sends, flushes,
\* ticks, retries and stops drops it silently, and a reload loses it only in the
\* middle of a pass: what waits at rest survives, as "Pending-Queue Persistence
\* (survives page reload)" says.
QueuedIsTracked ==
    \A m \in Messages : fate[m] = "queued" => m \in MessagesOf(queue) \cup InFlight \cup cut

\* A message that has gone out, was reported failed or whose peer cannot take
\* it has no copy left that some later pass would send, unless the user
\* repeated a send or the page was reloaded in the middle of a pass.
SettledIsGone ==
    resends = 0 => \A m \in Messages \ cut :
        fate[m] \in {"sent", "failed", "unsupported"} => m \notin MessagesOf(queue) \cup InFlight

\* The copies of m: the places in the queue and in the hands of calls that hold
\* an entry for it.
Places == {"queue"} \cup Workers
Held(p) == IF p = "queue" THEN queue ELSE work[p].todo
CopiesAt(p, m) == {<<p, i>> : i \in {j \in DOMAIN Held(p) : Held(p)[j].msg = m}}
Copies(m) == UNION {CopiesAt(p, m) : p \in Places}

\* Every copy beyond the first comes from a send the user repeated: sends,
\* retries, flushes and overlapping ticks by themselves never multiply a message.
CopiesBounded == \A m \in Messages : Cardinality(Copies(m)) <= 1 + resends

\* At rest memory and localStorage agree, and copies come only from the user.
QueueIsSound == TypeOK /\ QuiescentPersisted /\ CopiesBounded

\* What is said of a message is true of its copies.
FateIsTrue == QueuedIsTracked /\ SettledIsGone

\* What whoever sends a message can count on, the queue and its passes left out:
\* every message handed over stays open until one final outcome closes it.
Outbox == INSTANCE Outbox WITH open <- MessagesOf(queue) \cup InFlight, repeats <- resends
ImplementsOutbox == Outbox!Spec

\* If the session stays up and no more flushes or user retries interfere, every
\* message handed to it is sent, given up or found undeliverable: the retry
\* count ends the loop even for a peer that never answers.  Only a reload in
\* the middle of its send leaves one behind.
Open(m) == fate[m] \in {"sending", "queued"}
Undisturbed == phase = "running" /\ \A w \in Workers : work[w].op \in {"idle", "send", "tick"}
EverySendSettles == <>[]Undisturbed => \A m \in Messages : Open(m) ~> (~Open(m) \/ m \in cut)
=============================================================================
