----------------------- MODULE DeliveryStatusProofs -----------------------
(***************************************************************************)
(* Proofs about DeliveryStatus, for any number of flows, entries, streams  *)
(* and receipts: ticks are honest, a message shown as being sent or queued *)
(* is, and an acknowledged message is not shown as unsent again.           *)
(***************************************************************************)
EXTENDS DeliveryStatus, TLAPS

\* A message has no flow before it is made, and a receipt comes from a peer
\* that has the message.
Causes ==
    /\ delivery = "none" => Pending = {}
    /\ receipts > 0 => reached

\* As long as no flow was overtaken, a message has one flow at most, is offered
\* no retry beside it, and has an entry in the queue while the relay is asked.
Alone ==
    ~group /\ ~overtaken =>
        /\ \A f, g \in Pending : f = g
        /\ Pending # {} => ~Retryable
        /\ \A f \in Flows : flows[f] = "storing" => waiting + held > 0 \/ dropped \/ broken

\* As long as no attempt failed, nothing is queued, a flow that has not sent yet
\* is the first, and no copy is under way for a message it shows as unsent.
Unfailed ==
    /\ group \/ delivery = "none" => streams = 0 /\ receipts = 0 /\ ~acked
    /\ group \/ delivery = "none" => ~failed
    /\ ~failed =>
          /\ waiting = 0 /\ held = 0
          /\ \A f \in Flows : flows[f] \notin {"looking", "storing", "taken"}
    /\ ~failed /\ ~group =>
          /\ \A f, g \in Pending : f = g
          /\ \A f \in Flows : flows[f] \in {"saving", "sealing"} =>
                delivery = "sending" /\ streams = 0 /\ receipts = 0
          /\ delivery # "queued"
          /\ delivery = "local-only" => Pending = {} /\ streams = 0 /\ receipts = 0
          /\ acked => delivery \in {"sent", "delivered"}

IInv ==
    /\ TypeOK /\ StatusIsHonest /\ SendingIsTried /\ QueuedIsRetried /\ Causes /\ Alone
    /\ Unfailed

-----------------------------------------------------------------------------

\* A message that was not made satisfies the invariant.
LEMMA InitInv == Init => IInv
<1> SUFFICES ASSUME Init PROVE IInv
  OBVIOUS
<1>1. TypeOK
  <2>1. 0 \in Nat /\ 0 + 0 <= MaxEntries /\ 0 \in 0 .. MaxStreams /\ 0 \in 0 .. MaxReceipts
    BY DeliveryAssumption
  <2>2. delivery \in Statuses /\ flows \in [Flows -> Places \cup {Idle}]
    BY DEF Init, Statuses, Places, Idle
  <2>3. QED
    BY <2>1, <2>2 DEF Init, TypeOK
<1>2. Pending = {}
  BY DEF Init, Pending
<1>3. StatusIsHonest /\ SendingIsTried /\ QueuedIsRetried /\ Causes
  BY <1>2 DEF Init, StatusIsHonest, SendingIsTried, QueuedIsRetried, Causes
<1>4. Alone
  BY <1>2 DEF Init, Alone, Idle
<1>5. Unfailed
  BY <1>2 DEF Init, Unfailed, Idle
<1> QED
  BY <1>1, <1>3, <1>4, <1>5 DEF IInv

\* The first flow of a message is alone.
LEMMA ComposeInv ==
    ASSUME IInv, NEW f \in Flows, Compose(f)
    PROVE  IInv'
<1> USE DeliveryAssumption DEF Compose, Go, history, marks, Retryable, Idle
<1>1. TypeOK'
  BY DEF IInv, TypeOK, Statuses, Places
<1>2. StatusIsHonest' /\ Causes'
  BY DEF IInv, TypeOK, StatusIsHonest, Causes, Pending
<1>3. SendingIsTried'
  BY DEF IInv, TypeOK, SendingIsTried, Pending, Places
<1>4. QueuedIsRetried'
  BY DEF IInv, TypeOK, QueuedIsRetried, Alone, Pending, Places
<1>5. Alone'
  BY DEF IInv, TypeOK, Causes, Alone, Pending
<1>6. Unfailed'
  BY DEF IInv, TypeOK, Causes, Unfailed, Pending, Places
<1> QED
  BY <1>1, <1>2, <1>3, <1>4, <1>5, <1>6 DEF IInv

\* The flow says that it ends.
LEMMA CannotSendInv ==
    ASSUME IInv, NEW f \in Flows, CannotSend(f)
    PROVE  IInv'
<1> USE DeliveryAssumption DEF CannotSend, Go, history, marks, Retryable, Idle
<1>1. TypeOK'
  BY DEF IInv, TypeOK, Statuses, Places
<1>2. StatusIsHonest' /\ Causes'
  BY DEF IInv, TypeOK, StatusIsHonest, Causes, Pending
<1>3. SendingIsTried'
  BY DEF IInv, TypeOK, SendingIsTried, Pending, Places
<1>4. QueuedIsRetried'
  BY DEF IInv, TypeOK, QueuedIsRetried, Alone, Pending, Places
<1>5. Alone'
  BY DEF IInv, TypeOK, Causes, Alone, Pending
<1>6. Unfailed'
  BY DEF IInv, TypeOK, Causes, Unfailed, Pending, Places
<1> QED
  BY <1>1, <1>2, <1>3, <1>4, <1>5, <1>6 DEF IInv

\* The flow goes on.
LEMMA SavedInv ==
    ASSUME IInv, NEW f \in Flows, Saved(f)
    PROVE  IInv'
<1> USE DeliveryAssumption DEF Saved, Go, history, marks, Retryable, Idle
<1>1. TypeOK'
  BY DEF IInv, TypeOK, Statuses, Places
<1>2. StatusIsHonest' /\ Causes'
  BY DEF IInv, TypeOK, StatusIsHonest, Causes, Pending
<1>3. SendingIsTried'
  BY DEF IInv, TypeOK, SendingIsTried, Pending, Places
<1>4. QueuedIsRetried'
  BY DEF IInv, TypeOK, QueuedIsRetried, Alone, Pending, Places
<1>5. Alone'
  BY DEF IInv, TypeOK, Causes, Alone, Pending
<1>6. Unfailed'
  BY DEF IInv, TypeOK, Causes, Unfailed, Pending, Places
<1> QED
  BY <1>1, <1>2, <1>3, <1>4, <1>5, <1>6 DEF IInv

\* The flow goes on.
LEMMA SealedInv ==
    ASSUME IInv, NEW f \in Flows, Sealed(f)
    PROVE  IInv'
<1> USE DeliveryAssumption DEF Sealed, Go, OpenStream, history, marks, Retryable, Idle
<1>1. TypeOK'
  BY DEF IInv, TypeOK, Statuses, Places
<1>2. StatusIsHonest' /\ Causes'
  BY DEF IInv, TypeOK, StatusIsHonest, Causes, Pending
<1>3. SendingIsTried'
  BY DEF IInv, TypeOK, SendingIsTried, Pending, Places
<1>4. QueuedIsRetried'
  BY DEF IInv, TypeOK, QueuedIsRetried, Alone, Pending, Places
<1>5. Alone'
  BY DEF IInv, TypeOK, Causes, Alone, Pending
<1>6. Unfailed'
  BY DEF IInv, TypeOK, Causes, Unfailed, Pending, Places
<1> QED
  BY <1>1, <1>2, <1>3, <1>4, <1>5, <1>6 DEF IInv

\* The flow goes on.
LEMMA SealedForGroupInv ==
    ASSUME IInv, NEW f \in Flows, SealedForGroup(f)
    PROVE  IInv'
<1> USE DeliveryAssumption DEF SealedForGroup, Go, history, marks, Retryable, Idle
<1>1. TypeOK'
  BY DEF IInv, TypeOK, Statuses, Places
<1>2. StatusIsHonest' /\ Causes'
  BY DEF IInv, TypeOK, StatusIsHonest, Causes, Pending
<1>3. SendingIsTried'
  BY DEF IInv, TypeOK, SendingIsTried, Pending, Places
<1>4. QueuedIsRetried'
  BY DEF IInv, TypeOK, QueuedIsRetried, Alone, Pending, Places
<1>5. Alone'
  BY DEF IInv, TypeOK, Causes, Alone, Pending
<1>6. Unfailed'
  BY DEF IInv, TypeOK, Causes, Unfailed, Pending, Places
<1> QED
  BY <1>1, <1>2, <1>3, <1>4, <1>5, <1>6 DEF IInv

\* The flow says how it ends.
LEMMA PublishedInv ==
    ASSUME IInv, NEW f \in Flows, Published(f)
    PROVE  IInv'
<1> USE DeliveryAssumption DEF Published, Go, history, marks, Retryable, Idle
<1>1. TypeOK'
  BY DEF IInv, TypeOK, Statuses, Places
<1>2. StatusIsHonest' /\ Causes'
  BY DEF IInv, TypeOK, StatusIsHonest, Causes, Pending
<1>3. SendingIsTried'
  BY DEF IInv, TypeOK, SendingIsTried, Pending, Places
<1>4. QueuedIsRetried'
  BY DEF IInv, TypeOK, QueuedIsRetried, Alone, Pending, Places
<1>5. Alone'
  BY DEF IInv, TypeOK, Causes, Alone, Pending
<1>6. Unfailed'
  BY DEF IInv, TypeOK, Causes, Unfailed, Pending, Places
<1> QED
  BY <1>1, <1>2, <1>3, <1>4, <1>5, <1>6 DEF IInv

\* The flow is cut off, and known to be.
LEMMA PublishFailsInv ==
    ASSUME IInv, NEW f \in Flows, PublishFails(f)
    PROVE  IInv'
<1> USE DeliveryAssumption DEF PublishFails, Go, history, marks, Retryable, Idle
<1>1. TypeOK'
  BY DEF IInv, TypeOK, Statuses, Places
<1>2. StatusIsHonest' /\ Causes'
  BY DEF IInv, TypeOK, StatusIsHonest, Causes, Pending
<1>3. SendingIsTried'
  BY DEF IInv, TypeOK, SendingIsTried, Pending, Places
<1>4. QueuedIsRetried'
  BY DEF IInv, TypeOK, QueuedIsRetried, Alone, Pending, Places
<1>5. Alone'
  BY DEF IInv, TypeOK, Causes, Alone, Pending
<1>6. Unfailed'
  BY DEF IInv, TypeOK, Causes, Unfailed, Pending, Places
<1> QED
  BY <1>1, <1>2, <1>3, <1>4, <1>5, <1>6 DEF IInv

\* The flow is cut off, and known to be.
LEMMA SealFailsInv ==
    ASSUME IInv, NEW f \in Flows, SealFails(f)
    PROVE  IInv'
<1> USE DeliveryAssumption DEF SealFails, Go, history, marks, Retryable, Idle
<1>1. TypeOK'
  BY DEF IInv, TypeOK, Statuses, Places
<1>2. StatusIsHonest' /\ Causes'
  BY DEF IInv, TypeOK, StatusIsHonest, Causes, Pending
<1>3. SendingIsTried'
  BY DEF IInv, TypeOK, SendingIsTried, Pending, Places
<1>4. QueuedIsRetried'
  BY DEF IInv, TypeOK, QueuedIsRetried, Alone, Pending, Places
<1>5. Alone'
  BY DEF IInv, TypeOK, Causes, Alone, Pending
<1>6. Unfailed'
  BY DEF IInv, TypeOK, Causes, Unfailed, Pending, Places
<1> QED
  BY <1>1, <1>2, <1>3, <1>4, <1>5, <1>6 DEF IInv

\* The flow ends, and the stream took the message.
LEMMA DirectSentInv ==
    ASSUME IInv, NEW f \in Flows, DirectSent(f)
    PROVE  IInv'
<1> USE DeliveryAssumption DEF DirectSent, Go, history, marks, Retryable, Idle
<1>1. TypeOK'
  BY DEF IInv, TypeOK, Statuses, Places
<1>2. StatusIsHonest' /\ Causes'
  BY DEF IInv, TypeOK, StatusIsHonest, Causes, Pending
<1>3. SendingIsTried'
  BY DEF IInv, TypeOK, SendingIsTried, Pending, Places
<1>4. QueuedIsRetried'
  BY DEF IInv, TypeOK, QueuedIsRetried, Alone, Pending, Places
<1>5. Alone'
  BY DEF IInv, TypeOK, Causes, Alone, Pending
<1>6. Unfailed'
  BY DEF IInv, TypeOK, Causes, Unfailed, Pending, Places
<1> QED
  BY <1>1, <1>2, <1>3, <1>4, <1>5, <1>6 DEF IInv

\* The flow goes on with an entry in the queue.
LEMMA DirectFailedInv ==
    ASSUME IInv, NEW f \in Flows, DirectFailed(f)
    PROVE  IInv'
<1> USE DeliveryAssumption DEF DirectFailed, Go, Enqueued, history, marks, Retryable, Idle
<1>1. TypeOK'
  BY DEF IInv, TypeOK, Statuses, Places
<1>2. StatusIsHonest' /\ Causes'
  BY DEF IInv, TypeOK, StatusIsHonest, Causes, Pending
<1>3. SendingIsTried'
  BY DEF IInv, TypeOK, SendingIsTried, Pending, Places
<1>4. QueuedIsRetried'
  BY DEF IInv, TypeOK, QueuedIsRetried, Alone, Pending, Places
<1>5. Alone'
  BY DEF IInv, TypeOK, Causes, Alone, Pending
<1>6. Unfailed'
  BY DEF IInv, TypeOK, Causes, Unfailed, Pending, Places
<1> QED
  BY <1>1, <1>2, <1>3, <1>4, <1>5, <1>6 DEF IInv

\* The flow goes on without an entry, and that is known.
LEMMA DirectUnsupportedInv ==
    ASSUME IInv, NEW f \in Flows, DirectUnsupported(f)
    PROVE  IInv'
<1> USE DeliveryAssumption DEF DirectUnsupported, Go, history, marks, Retryable, Idle
<1>1. TypeOK'
  BY DEF IInv, TypeOK, Statuses, Places
<1>2. StatusIsHonest' /\ Causes'
  BY DEF IInv, TypeOK, StatusIsHonest, Causes, Pending
<1>3. SendingIsTried'
  BY DEF IInv, TypeOK, SendingIsTried, Pending, Places
<1>4. QueuedIsRetried'
  BY DEF IInv, TypeOK, QueuedIsRetried, Alone, Pending, Places
<1>5. Alone'
  BY DEF IInv, TypeOK, Causes, Alone, Pending
<1>6. Unfailed'
  BY DEF IInv, TypeOK, Causes, Unfailed, Pending, Places
<1> QED
  BY <1>1, <1>2, <1>3, <1>4, <1>5, <1>6 DEF IInv

\* Nothing took the entry out while the relay was asked.
LEMMA StoredInv ==
    ASSUME IInv, NEW f \in Flows, Stored(f)
    PROVE  IInv'
<1> USE DeliveryAssumption DEF Stored, Go, history, marks, Retryable, Idle
<1>1. TypeOK'
  BY DEF IInv, TypeOK, Statuses, Places
<1>2. StatusIsHonest' /\ Causes'
  BY DEF IInv, TypeOK, StatusIsHonest, Causes, Pending
<1>3. SendingIsTried'
  BY DEF IInv, TypeOK, SendingIsTried, Pending, Places
<1>4. QueuedIsRetried'
  BY DEF IInv, TypeOK, QueuedIsRetried, Alone, Pending, Places
<1>5. Alone'
  BY DEF IInv, TypeOK, Causes, Alone, Pending
<1>6. Unfailed'
  BY DEF IInv, TypeOK, Causes, Unfailed, Pending, Places
<1> QED
  BY <1>1, <1>2, <1>3, <1>4, <1>5, <1>6 DEF IInv

\* A message that may be retried has no flow, or was overtaken.
LEMMA RetryOfflineInv ==
    ASSUME IInv, RetryOffline
    PROVE  IInv'
<1> USE DeliveryAssumption DEF RetryOffline, history, marks, Retryable, Idle
<1>1. TypeOK'
  BY DEF IInv, TypeOK, Statuses, Places
<1>2. StatusIsHonest' /\ Causes'
  BY DEF IInv, TypeOK, StatusIsHonest, Causes, Pending
<1>3. SendingIsTried'
  BY DEF IInv, TypeOK, SendingIsTried, Pending, Places
<1>4. QueuedIsRetried'
  BY DEF IInv, TypeOK, QueuedIsRetried, Alone, Pending, Places
<1>5. Alone'
  BY DEF IInv, TypeOK, Causes, Alone, Pending
<1>6. Unfailed'
  BY DEF IInv, TypeOK, Causes, Unfailed, Pending, Places
<1> QED
  BY <1>1, <1>2, <1>3, <1>4, <1>5, <1>6 DEF IInv

\* A message that may be retried has no flow, or was overtaken.
LEMMA RetryInv ==
    ASSUME IInv, NEW f \in Flows, Retry(f)
    PROVE  IInv'
<1> USE DeliveryAssumption DEF Retry, Go, history, marks, Retryable, Idle
<1>1. TypeOK'
  BY DEF IInv, TypeOK, Statuses, Places
<1>2. StatusIsHonest' /\ Causes'
  BY DEF IInv, TypeOK, StatusIsHonest, Causes, Pending
<1>3. SendingIsTried'
  BY DEF IInv, TypeOK, SendingIsTried, Pending, Places
<1>4. QueuedIsRetried'
  BY DEF IInv, TypeOK, QueuedIsRetried, Alone, Pending, Places
<1>5. Alone'
  BY DEF IInv, TypeOK, Causes, Alone, Pending
<1>6. Unfailed'
  BY DEF IInv, TypeOK, Causes, Unfailed, Pending, Places
<1> QED
  BY <1>1, <1>2, <1>3, <1>4, <1>5, <1>6 DEF IInv

\* The entry passes from the queue to the flow.
LEMMA FoundInv ==
    ASSUME IInv, NEW f \in Flows, Found(f)
    PROVE  IInv'
<1> USE DeliveryAssumption DEF Found, Go, OpenStream, history, marks, Retryable, Idle
<1>1. TypeOK'
  BY DEF IInv, TypeOK, Statuses, Places
<1>2. StatusIsHonest' /\ Causes'
  BY DEF IInv, TypeOK, StatusIsHonest, Causes, Pending
<1>3. SendingIsTried'
  BY DEF IInv, TypeOK, SendingIsTried, Pending, Places
<1>4. QueuedIsRetried'
  BY DEF IInv, TypeOK, QueuedIsRetried, Alone, Pending, Places
<1>5. Alone'
  BY DEF IInv, TypeOK, Causes, Alone, Pending
<1>6. Unfailed'
  BY DEF IInv, TypeOK, Causes, Unfailed, Pending, Places
<1> QED
  BY <1>1, <1>2, <1>3, <1>4, <1>5, <1>6 DEF IInv

\* The flow goes on.
LEMMA NotFoundInv ==
    ASSUME IInv, NEW f \in Flows, NotFound(f)
    PROVE  IInv'
<1> USE DeliveryAssumption DEF NotFound, Go, history, marks, Retryable, Idle
<1>1. TypeOK'
  BY DEF IInv, TypeOK, Statuses, Places
<1>2. StatusIsHonest' /\ Causes'
  BY DEF IInv, TypeOK, StatusIsHonest, Causes, Pending
<1>3. SendingIsTried'
  BY DEF IInv, TypeOK, SendingIsTried, Pending, Places
<1>4. QueuedIsRetried'
  BY DEF IInv, TypeOK, QueuedIsRetried, Alone, Pending, Places
<1>5. Alone'
  BY DEF IInv, TypeOK, Causes, Alone, Pending
<1>6. Unfailed'
  BY DEF IInv, TypeOK, Causes, Unfailed, Pending, Places
<1> QED
  BY <1>1, <1>2, <1>3, <1>4, <1>5, <1>6 DEF IInv

\* The flow ends, and the stream took the message.
LEMMA TakenSentInv ==
    ASSUME IInv, NEW f \in Flows, TakenSent(f)
    PROVE  IInv'
<1> USE DeliveryAssumption DEF TakenSent, Go, history, marks, Retryable, Idle
<1>1. TypeOK'
  BY DEF IInv, TypeOK, Statuses, Places
<1>2. StatusIsHonest' /\ Causes'
  BY DEF IInv, TypeOK, StatusIsHonest, Causes, Pending
<1>3. SendingIsTried'
  BY DEF IInv, TypeOK, SendingIsTried, Pending, Places
<1>4. QueuedIsRetried'
  BY DEF IInv, TypeOK, QueuedIsRetried, Alone, Pending, Places
<1>5. Alone'
  BY DEF IInv, TypeOK, Causes, Alone, Pending
<1>6. Unfailed'
  BY DEF IInv, TypeOK, Causes, Unfailed, Pending, Places
<1> QED
  BY <1>1, <1>2, <1>3, <1>4, <1>5, <1>6 DEF IInv

\* The entry is back in the queue.
LEMMA TakenFailedInv ==
    ASSUME IInv, NEW f \in Flows, TakenFailed(f)
    PROVE  IInv'
<1> USE DeliveryAssumption DEF TakenFailed, Go, Enqueued, history, marks, Retryable, Idle
<1>1. TypeOK'
  BY DEF IInv, TypeOK, Statuses, Places
<1>2. StatusIsHonest' /\ Causes'
  BY DEF IInv, TypeOK, StatusIsHonest, Causes, Pending
<1>3. SendingIsTried'
  BY DEF IInv, TypeOK, SendingIsTried, Pending, Places
<1>4. QueuedIsRetried'
  BY DEF IInv, TypeOK, QueuedIsRetried, Alone, Pending, Places
<1>5. Alone'
  BY DEF IInv, TypeOK, Causes, Alone, Pending
<1>6. Unfailed'
  BY DEF IInv, TypeOK, Causes, Unfailed, Pending, Places
<1> QED
  BY <1>1, <1>2, <1>3, <1>4, <1>5, <1>6 DEF IInv

\* The entry is dropped, and known to be.
LEMMA TakenUnsupportedInv ==
    ASSUME IInv, NEW f \in Flows, TakenUnsupported(f)
    PROVE  IInv'
<1> USE DeliveryAssumption DEF TakenUnsupported, Go, history, marks, Retryable, Idle
<1>1. TypeOK'
  BY DEF IInv, TypeOK, Statuses, Places
<1>2. StatusIsHonest' /\ Causes'
  BY DEF IInv, TypeOK, StatusIsHonest, Causes, Pending
<1>3. SendingIsTried'
  BY DEF IInv, TypeOK, SendingIsTried, Pending, Places
<1>4. QueuedIsRetried'
  BY DEF IInv, TypeOK, QueuedIsRetried, Alone, Pending, Places
<1>5. Alone'
  BY DEF IInv, TypeOK, Causes, Alone, Pending
<1>6. Unfailed'
  BY DEF IInv, TypeOK, Causes, Unfailed, Pending, Places
<1> QED
  BY <1>1, <1>2, <1>3, <1>4, <1>5, <1>6 DEF IInv

\* The entry passes from the queue to the tick.
LEMMA TakeInv ==
    ASSUME IInv, Take
    PROVE  IInv'
<1> USE DeliveryAssumption DEF Take, OpenStream, history, marks, Retryable, Idle
<1>1. TypeOK'
  BY DEF IInv, TypeOK, Statuses, Places
<1>2. StatusIsHonest' /\ Causes'
  BY DEF IInv, TypeOK, StatusIsHonest, Causes, Pending
<1>3. SendingIsTried'
  BY DEF IInv, TypeOK, SendingIsTried, Pending, Places
<1>4. QueuedIsRetried'
  BY DEF IInv, TypeOK, QueuedIsRetried, Alone, Pending, Places
<1>5. Alone'
  BY DEF IInv, TypeOK, Causes, Alone, Pending
<1>6. Unfailed'
  BY DEF IInv, TypeOK, Causes, Unfailed, Pending, Places
<1> QED
  BY <1>1, <1>2, <1>3, <1>4, <1>5, <1>6 DEF IInv

\* The entry is gone; a flow that is under way is overtaken.
LEMMA HeldSentInv ==
    ASSUME IInv, HeldSent
    PROVE  IInv'
<1> USE DeliveryAssumption DEF HeldSent, Overtake, history, marks, Retryable, Idle
<1>1. TypeOK'
  BY DEF IInv, TypeOK, Statuses, Places
<1>2. StatusIsHonest' /\ Causes'
  BY DEF IInv, TypeOK, StatusIsHonest, Causes, Pending
<1>3. SendingIsTried'
  BY DEF IInv, TypeOK, SendingIsTried, Pending, Places
<1>4. QueuedIsRetried'
  BY DEF IInv, TypeOK, QueuedIsRetried, Alone, Pending, Places
<1>5. Alone'
  BY DEF IInv, TypeOK, Causes, Alone, Pending
<1>6. Unfailed'
  BY DEF IInv, TypeOK, Causes, Unfailed, Pending, Places
<1> QED
  BY <1>1, <1>2, <1>3, <1>4, <1>5, <1>6 DEF IInv

\* The entry is back in the queue.
LEMMA HeldFailedInv ==
    ASSUME IInv, HeldFailed
    PROVE  IInv'
<1> USE DeliveryAssumption DEF HeldFailed, history, marks, Retryable, Idle
<1>1. TypeOK'
  BY DEF IInv, TypeOK, Statuses, Places
<1>2. StatusIsHonest' /\ Causes'
  BY DEF IInv, TypeOK, StatusIsHonest, Causes, Pending
<1>3. SendingIsTried'
  BY DEF IInv, TypeOK, SendingIsTried, Pending, Places
<1>4. QueuedIsRetried'
  BY DEF IInv, TypeOK, QueuedIsRetried, Alone, Pending, Places
<1>5. Alone'
  BY DEF IInv, TypeOK, Causes, Alone, Pending
<1>6. Unfailed'
  BY DEF IInv, TypeOK, Causes, Unfailed, Pending, Places
<1> QED
  BY <1>1, <1>2, <1>3, <1>4, <1>5, <1>6 DEF IInv

\* The entry is dropped, and known to be.
LEMMA HeldUnsupportedInv ==
    ASSUME IInv, HeldUnsupported
    PROVE  IInv'
<1> USE DeliveryAssumption DEF HeldUnsupported, Overtake, history, marks, Retryable, Idle
<1>1. TypeOK'
  BY DEF IInv, TypeOK, Statuses, Places
<1>2. StatusIsHonest' /\ Causes'
  BY DEF IInv, TypeOK, StatusIsHonest, Causes, Pending
<1>3. SendingIsTried'
  BY DEF IInv, TypeOK, SendingIsTried, Pending, Places
<1>4. QueuedIsRetried'
  BY DEF IInv, TypeOK, QueuedIsRetried, Alone, Pending, Places
<1>5. Alone'
  BY DEF IInv, TypeOK, Causes, Alone, Pending
<1>6. Unfailed'
  BY DEF IInv, TypeOK, Causes, Unfailed, Pending, Places
<1> QED
  BY <1>1, <1>2, <1>3, <1>4, <1>5, <1>6 DEF IInv

\* The entry is gone, and the status says so.
LEMMA GiveUpInv ==
    ASSUME IInv, GiveUp
    PROVE  IInv'
<1> USE DeliveryAssumption DEF GiveUp, Overtake, history, marks, Retryable, Idle
<1>1. TypeOK'
  BY DEF IInv, TypeOK, Statuses, Places
<1>2. StatusIsHonest' /\ Causes'
  BY DEF IInv, TypeOK, StatusIsHonest, Causes, Pending
<1>3. SendingIsTried'
  BY DEF IInv, TypeOK, SendingIsTried, Pending, Places
<1>4. QueuedIsRetried'
  BY DEF IInv, TypeOK, QueuedIsRetried, Alone, Pending, Places
<1>5. Alone'
  BY DEF IInv, TypeOK, Causes, Alone, Pending
<1>6. Unfailed'
  BY DEF IInv, TypeOK, Causes, Unfailed, Pending, Places
<1> QED
  BY <1>1, <1>2, <1>3, <1>4, <1>5, <1>6 DEF IInv

\* The receipt is the word of a peer that has the message.
LEMMA ArriveInv ==
    ASSUME IInv, Arrive
    PROVE  IInv'
<1> USE DeliveryAssumption DEF Arrive, history, marks, Retryable, Idle
<1>1. TypeOK'
  BY DEF IInv, TypeOK, Statuses, Places
<1>2. StatusIsHonest' /\ Causes'
  BY DEF IInv, TypeOK, StatusIsHonest, Causes, Pending
<1>3. SendingIsTried'
  BY DEF IInv, TypeOK, SendingIsTried, Pending, Places
<1>4. QueuedIsRetried'
  BY DEF IInv, TypeOK, QueuedIsRetried, Alone, Pending, Places
<1>5. Alone'
  BY DEF IInv, TypeOK, Causes, Alone, Pending
<1>6. Unfailed'
  BY DEF IInv, TypeOK, Causes, Unfailed, Pending, Places
<1> QED
  BY <1>1, <1>2, <1>3, <1>4, <1>5, <1>6 DEF IInv

\* No side of the sender learns of it.
LEMMA LoseStreamInv ==
    ASSUME IInv, LoseStream
    PROVE  IInv'
<1> USE DeliveryAssumption DEF LoseStream, history, marks, Retryable, Idle
<1>1. TypeOK'
  BY DEF IInv, TypeOK, Statuses, Places
<1>2. StatusIsHonest' /\ Causes'
  BY DEF IInv, TypeOK, StatusIsHonest, Causes, Pending
<1>3. SendingIsTried'
  BY DEF IInv, TypeOK, SendingIsTried, Pending, Places
<1>4. QueuedIsRetried'
  BY DEF IInv, TypeOK, QueuedIsRetried, Alone, Pending, Places
<1>5. Alone'
  BY DEF IInv, TypeOK, Causes, Alone, Pending
<1>6. Unfailed'
  BY DEF IInv, TypeOK, Causes, Unfailed, Pending, Places
<1> QED
  BY <1>1, <1>2, <1>3, <1>4, <1>5, <1>6 DEF IInv

\* No side of the sender learns of it.
LEMMA ArriveUnreceiptedInv ==
    ASSUME IInv, ArriveUnreceipted
    PROVE  IInv'
<1> USE DeliveryAssumption DEF ArriveUnreceipted, history, marks, Retryable, Idle
<1>1. TypeOK'
  BY DEF IInv, TypeOK, Statuses, Places
<1>2. StatusIsHonest' /\ Causes'
  BY DEF IInv, TypeOK, StatusIsHonest, Causes, Pending
<1>3. SendingIsTried'
  BY DEF IInv, TypeOK, SendingIsTried, Pending, Places
<1>4. QueuedIsRetried'
  BY DEF IInv, TypeOK, QueuedIsRetried, Alone, Pending, Places
<1>5. Alone'
  BY DEF IInv, TypeOK, Causes, Alone, Pending
<1>6. Unfailed'
  BY DEF IInv, TypeOK, Causes, Unfailed, Pending, Places
<1> QED
  BY <1>1, <1>2, <1>3, <1>4, <1>5, <1>6 DEF IInv

\* The receipt is the word of a peer that has the message.
LEMMA ReceiptInv ==
    ASSUME IInv, Receipt
    PROVE  IInv'
<1> USE DeliveryAssumption DEF Receipt, history, marks, Retryable, Idle
<1>1. TypeOK'
  BY DEF IInv, TypeOK, Statuses, Places
<1>2. StatusIsHonest' /\ Causes'
  BY DEF IInv, TypeOK, StatusIsHonest, Causes, Pending
<1>3. SendingIsTried'
  BY DEF IInv, TypeOK, SendingIsTried, Pending, Places
<1>4. QueuedIsRetried'
  BY DEF IInv, TypeOK, QueuedIsRetried, Alone, Pending, Places
<1>5. Alone'
  BY DEF IInv, TypeOK, Causes, Alone, Pending
<1>6. Unfailed'
  BY DEF IInv, TypeOK, Causes, Unfailed, Pending, Places
<1> QED
  BY <1>1, <1>2, <1>3, <1>4, <1>5, <1>6 DEF IInv

\* No side of the sender learns of it.
LEMMA LoseReceiptInv ==
    ASSUME IInv, LoseReceipt
    PROVE  IInv'
<1> USE DeliveryAssumption DEF LoseReceipt, history, marks, Retryable, Idle
<1>1. TypeOK'
  BY DEF IInv, TypeOK, Statuses, Places
<1>2. StatusIsHonest' /\ Causes'
  BY DEF IInv, TypeOK, StatusIsHonest, Causes, Pending
<1>3. SendingIsTried'
  BY DEF IInv, TypeOK, SendingIsTried, Pending, Places
<1>4. QueuedIsRetried'
  BY DEF IInv, TypeOK, QueuedIsRetried, Alone, Pending, Places
<1>5. Alone'
  BY DEF IInv, TypeOK, Causes, Alone, Pending
<1>6. Unfailed'
  BY DEF IInv, TypeOK, Causes, Unfailed, Pending, Places
<1> QED
  BY <1>1, <1>2, <1>3, <1>4, <1>5, <1>6 DEF IInv

\* Every flow is cut off, and known to be.
LEMMA ReloadInv ==
    ASSUME IInv, Reload
    PROVE  IInv'
<1> USE DeliveryAssumption DEF Reload, history, marks, Retryable, Idle
<1>1. TypeOK'
  <2>1. waiting' \in Nat /\ waiting' <= waiting + held
    BY DEF IInv, TypeOK
  <2>2. flows' \in [Flows -> Places \cup {Idle}]
    OBVIOUS
  <2>3. waiting' + held' <= MaxEntries
    <3>1. waiting \in Nat /\ held \in Nat /\ waiting + held <= MaxEntries /\ held' = 0
      BY DEF IInv, TypeOK
    <3>2. \A a, b, c, d \in Nat : a <= b + c /\ b + c <= d => a + 0 <= d
      OBVIOUS
    <3>3. QED
      BY <2>1, <3>1, <3>2
  <2>4. QED
    BY <2>1, <2>2, <2>3 DEF IInv, TypeOK
<1>2. StatusIsHonest' /\ Causes'
  BY DEF IInv, TypeOK, StatusIsHonest, Causes, Pending
<1>3. SendingIsTried'
  BY DEF IInv, TypeOK, SendingIsTried, Pending, Places
<1>4. QueuedIsRetried'
  BY DEF IInv, TypeOK, QueuedIsRetried, Alone, Pending, Places
<1>5. Alone'
  BY DEF IInv, TypeOK, Causes, Alone, Pending
<1>6. Unfailed'
  BY DEF IInv, TypeOK, Causes, Unfailed, Pending, Places
<1> QED
  BY <1>1, <1>2, <1>3, <1>4, <1>5, <1>6 DEF IInv

\* Every step of the flows, of the queue and of the peer keeps the invariant.
LEMMA NextInv == IInv /\ [Next]_vars => IInv'
<1> SUFFICES ASSUME IInv, [Next]_vars
             PROVE  IInv'
  OBVIOUS
<1>1. CASE UNCHANGED vars
  BY <1>1 DEF vars, IInv, TypeOK, StatusIsHonest, SendingIsTried, QueuedIsRetried, Causes, Alone, Unfailed,
           Pending, Retryable
<1>2. ASSUME NEW f \in Flows,
             Compose(f) \/ CannotSend(f) \/ Saved(f) \/ Sealed(f) \/ SealFails(f)
      PROVE  IInv'
  BY <1>2, ComposeInv, CannotSendInv, SavedInv, SealedInv, SealFailsInv
<1>3. ASSUME NEW f \in Flows,
             DirectSent(f) \/ DirectFailed(f) \/ DirectUnsupported(f) \/ Stored(f)
      PROVE  IInv'
  BY <1>3, DirectSentInv, DirectFailedInv, DirectUnsupportedInv, StoredInv
<1>4. ASSUME NEW f \in Flows, SealedForGroup(f) \/ Published(f) \/ PublishFails(f)
      PROVE  IInv'
  BY <1>4, SealedForGroupInv, PublishedInv, PublishFailsInv
<1>5. ASSUME NEW f \in Flows,
             Retry(f) \/ Found(f) \/ NotFound(f) \/ TakenSent(f) \/ TakenFailed(f) \/ TakenUnsupported(f)
      PROVE  IInv'
  BY <1>5, RetryInv, FoundInv, NotFoundInv, TakenSentInv, TakenFailedInv, TakenUnsupportedInv
<1>6. CASE RetryOffline \/ Take \/ HeldSent \/ HeldFailed \/ HeldUnsupported \/ GiveUp
  BY <1>6, RetryOfflineInv, TakeInv, HeldSentInv, HeldFailedInv, HeldUnsupportedInv, GiveUpInv
<1>7. CASE Arrive \/ LoseStream \/ ArriveUnreceipted \/ Receipt \/ LoseReceipt \/ Reload
  BY <1>7, ArriveInv, LoseStreamInv, ArriveUnreceiptedInv, ReceiptInv, LoseReceiptInv, ReloadInv
<1>8. QED
  BY <1>1, <1>2, <1>3, <1>4, <1>5, <1>6, <1>7 DEF Next

\* The invariant holds whatever the flows, the queue and the peer do.
THEOREM DeliveryInvariant == Spec => []IInv
BY InitInv, NextInv, PTL DEF Spec

-----------------------------------------------------------------------------

\* Every variable keeps its type, and the bounds hold.
THEOREM DeliveryTypeOK == Spec => []TypeOK
<1>1. IInv => TypeOK
  BY DEF IInv
<1> QED
  BY <1>1, DeliveryInvariant, PTL

\* Whichever side writes the status last, one tick is shown only when a
\* transport took the message, and two only when the peer has it.
THEOREM HonestStatus == Spec => []StatusIsHonest
<1>1. IInv => StatusIsHonest
  BY DEF IInv
<1> QED
  BY <1>1, DeliveryInvariant, PTL

\* A message shown as being sent is in the hands of a flow, unless an error or
\* a reload cut it off.
THEOREM SendingTried == Spec => []SendingIsTried
<1>1. IInv => SendingIsTried
  BY DEF IInv
<1> QED
  BY <1>1, DeliveryInvariant, PTL

\* What the status shows is so, in every state of a message.
THEOREM StatusSound == Spec => []StatusIsSound
BY DeliveryTypeOK, HonestStatus, SendingTried, PTL DEF StatusIsSound

\* A message shown as queued has an entry in the queue or a flow, unless an
\* entry was dropped, a flow overtaken or cut off.
THEOREM QueuedRetried == Spec => []QueuedIsRetried
<1>1. IInv => QueuedIsRetried
  BY DEF IInv
<1> QED
  BY <1>1, DeliveryInvariant, PTL

\* As long as no attempt was reported as failed, a message the peer acknowledged
\* is not shown as unsent again, whichever side writes last.
THEOREM AcknowledgedKept == Spec => []AcknowledgedIsKept
<1>1. IInv => AcknowledgedIsKept
  BY DEF IInv, Unfailed, AcknowledgedIsKept
<1> QED
  BY <1>1, DeliveryInvariant, PTL
=============================================================================
