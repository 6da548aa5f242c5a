------------------------ MODULE MailboxStoreProofs ------------------------
(* Safety of the mailbox store for every number of peers, envelopes and    *)
(* every capacity, and its refinement of Mailbox.                          *)
EXTENDS MailboxStore, FiniteSetTheorems, TLAPS

\* The inductive invariant: the three safety invariants need each other.  That
\* the index agrees with the queue tells EnqueueNew that no copy of the id is
\* stored, which keeps ids unique.
IInv == TypeOK /\ IndexMatchesQueue /\ UniqueEnvelopeIds /\ DepthBounded

\* The queues and indexes after cleanupLocked still satisfy what IInv says of them.
LEMMA PrunedFacts ==
    ASSUME IInv, NEW r \in Peers
    PROVE  /\ PrunedQueue(r) \subseteq byRecipient[r]
           /\ PrunedQueue(r) \in SUBSET Promise!Entry
           /\ PrunedIndex(r) = PrunedQueue(r)
           /\ IsFiniteSet(PrunedQueue(r))
           /\ Cardinality(PrunedQueue(r)) <= MaxPerRecipient
<1>1. PrunedQueue(r) \subseteq byRecipient[r]
  BY DEF PrunedQueue, Live
<1>2. PrunedQueue(r) \in SUBSET Promise!Entry
  BY <1>1 DEF IInv, TypeOK
<1>4. PrunedIndex(r) = PrunedQueue(r)
  <2>1. CASE PrunedQueue(r) = {}
    BY <2>1 DEF PrunedIndex
  <2>2. CASE PrunedQueue(r) # {}
    <3>1. PrunedIndex(r) = {e \in byRecipient[r] :
                               e.envelopeId \notin Ids(byRecipient[r] \ PrunedQueue(r))}
      BY <2>2 DEF PrunedIndex, IInv, IndexMatchesQueue
    <3>2. ASSUME NEW e \in byRecipient[r], NEW f \in byRecipient[r], e.envelopeId = f.envelopeId
          PROVE  e = f
      BY <3>2 DEF IInv, UniqueEnvelopeIds
    <3>3. ASSUME NEW e \in byRecipient[r]
          PROVE  e \in PrunedQueue(r) <=> e.envelopeId \notin Ids(byRecipient[r] \ PrunedQueue(r))
      BY <1>1, <3>2 DEF Ids
    <3>4. QED
      BY <1>1, <3>1, <3>3
  <2>3. QED
    BY <2>1, <2>2
<1>5. IsFiniteSet(byRecipient[r]) /\ Cardinality(byRecipient[r]) <= MaxPerRecipient
  BY DEF IInv, DepthBounded
<1>6. IsFiniteSet(PrunedQueue(r)) /\ Cardinality(PrunedQueue(r)) <= Cardinality(byRecipient[r])
  BY <1>1, <1>5, FS_Subset
<1>7. MaxPerRecipient \in Nat
  BY StoreAssumption DEF Promise!MailboxAssumption
<1>8. Cardinality(PrunedQueue(r)) \in Nat /\ Cardinality(byRecipient[r]) \in Nat
  BY <1>5, <1>6, FS_CardinalityType
<1>9. QED
  BY <1>1, <1>2, <1>4, <1>5, <1>6, <1>7, <1>8

\* An operation that only prunes keeps the invariant.
LEMMA PruneKeeps ==
    ASSUME IInv, byRecipient' = PrunedQueues, byRecipientByID' = PrunedIndexes,
           UNCHANGED <<now, appended>>,
           answer' \in Promise!Answer \cup {Promise!NoAnswer}
    PROVE  IInv'
<1>1. TypeOK'
  <2>1. \A r \in Peers : PrunedIndex(r) \in SUBSET Promise!Entry
    BY PrunedFacts
  <2>2. QED
    BY <2>1, PrunedFacts DEF IInv, TypeOK, PrunedQueues, PrunedIndexes
<1>2. IndexMatchesQueue'
  BY PrunedFacts DEF IndexMatchesQueue, PrunedQueues, PrunedIndexes
<1>3. UniqueEnvelopeIds'
  BY PrunedFacts DEF IInv, UniqueEnvelopeIds, PrunedQueues
<1>4. DepthBounded'
  BY PrunedFacts DEF DepthBounded, PrunedQueues
<1>5. QED
  BY <1>1, <1>2, <1>3, <1>4 DEF IInv

\* The envelope EnqueueNew appends is the only one with its id in the queue.
LEMMA EnqueueNewKeeps ==
    ASSUME IInv, NEW r \in Peers, NEW id \in EnvelopeIds,
           NEW expiry \in Promise!GrantedExpiries(now), NEW sentAt \in SentAts,
           EnqueueNew(r, id, sentAt, expiry)
    PROVE  IInv'
<1> DEFINE new == [envelopeId |-> id, sentAt |-> sentAt, expiresAt |-> expiry,
                   arrival |-> appended + 1]
           queue == PrunedQueue(r) \cup {new}
<1>1. /\ byRecipient' = [PrunedQueues EXCEPT ![r] = queue]
      /\ byRecipientByID' = [PrunedIndexes EXCEPT ![r] = PrunedIndex(r) \cup {new}]
      /\ appended' = appended + 1
      /\ now' = now
      /\ answer' = Promise!Accepted(r, id, expiry)
      /\ id \notin Ids(PrunedIndex(r))
      /\ Cardinality(PrunedQueue(r)) < MaxPerRecipient
  BY DEF EnqueueNew, HasRoom, NewEntry, PrunedQueues, PrunedIndexes
<1>2. /\ byRecipient'[r] = queue
      /\ byRecipientByID'[r] = PrunedIndex(r) \cup {new}
      /\ \A s \in Peers \ {r} : /\ byRecipient'[s] = PrunedQueue(s)
                                /\ byRecipientByID'[s] = PrunedIndex(s)
  BY <1>1 DEF PrunedQueues, PrunedIndexes
<1>3. expiry \in Nat /\ sentAt \in Nat /\ MaxPerRecipient \in Nat
  BY StoreAssumption DEF Promise!MailboxAssumption, Promise!GrantedExpiries, IInv, TypeOK
<1>4. appended \in Nat /\ now \in Nat
  BY DEF IInv, TypeOK
<1>5. new \in Promise!Entry
  BY <1>3, <1>4 DEF Promise!Entry
<1>6. TypeOK'
  <2>1. byRecipient' \in [Peers -> SUBSET Promise!Entry]
    BY <1>1, <1>5, PrunedFacts DEF PrunedQueues
  <2>2. byRecipientByID' \in [Peers -> SUBSET Promise!Entry]
    <3>1. \A s \in Peers : PrunedIndex(s) \in SUBSET Promise!Entry
      BY PrunedFacts
    <3>2. QED
      BY <1>1, <1>5, <3>1 DEF PrunedIndexes
  <2>3. answer' \in Promise!Answer
    BY <1>1, <1>3 DEF Promise!Accepted, Promise!Answer
  <2>4. ASSUME NEW s \in Peers, NEW e \in byRecipient'[s]
        PROVE  e.arrival <= appended'
    <3>1. e = new \/ e \in byRecipient[s]
      BY <1>2, PrunedFacts
    <3>2. CASE e = new
      BY <1>1, <1>4, <3>2
    <3>3. CASE e \in byRecipient[s]
      <4>1. e \in Promise!Entry /\ e.arrival <= appended
        BY <3>3 DEF IInv, TypeOK
      <4>2. e.arrival \in Nat
        BY <4>1 DEF Promise!Entry
      <4>3. QED
        BY <1>1, <1>4, <4>1, <4>2
    <3>4. QED
      BY <3>1, <3>2, <3>3
  <2>5. now' \in Nat /\ appended' \in Nat
    BY <1>1, <1>4
  <2>6. QED
    <3> HIDE DEF new, queue
    <3>1. \A s \in Peers : \A e \in byRecipient'[s] : e.arrival <= appended'
      BY <2>4
    <3>2. QED
      BY <2>1, <2>2, <2>3, <2>5, <3>1 DEF TypeOK
<1>7. IndexMatchesQueue'
  <2> HIDE DEF new
  <2>1. QED
    BY <1>2, PrunedFacts DEF IndexMatchesQueue
<1>8. UniqueEnvelopeIds'
  <2>1. \A e \in PrunedQueue(r) : e.envelopeId # id
    BY <1>1, PrunedFacts DEF Ids
  <2>2. \A e, f \in byRecipient'[r] : e.envelopeId = f.envelopeId => e = f
    BY <1>2, <2>1, PrunedFacts DEF IInv, UniqueEnvelopeIds
  <2>3. QED
    BY <1>2, <2>2, PrunedFacts DEF IInv, UniqueEnvelopeIds
<1>9. DepthBounded'
  <2>1. IsFiniteSet(PrunedQueue(r)) /\ Cardinality(PrunedQueue(r)) \in Nat
    BY PrunedFacts, FS_CardinalityType
  <2>2. IsFiniteSet(queue) /\ Cardinality(queue) <= Cardinality(PrunedQueue(r)) + 1
    <3> HIDE DEF new
    <3>1. /\ IsFiniteSet(queue)
          /\ Cardinality(queue) = IF new \in PrunedQueue(r)
                                  THEN Cardinality(PrunedQueue(r))
                                  ELSE Cardinality(PrunedQueue(r)) + 1
      BY <2>1, FS_AddElement
    <3>2. QED
      BY <2>1, <3>1
  <2>3. Cardinality(queue) \in Nat
    BY <2>2, FS_CardinalityType
  <2>4. Cardinality(queue) <= MaxPerRecipient
    BY <1>1, <1>3, <2>1, <2>2, <2>3
  <2>5. QED
    BY <1>2, <2>2, <2>4, PrunedFacts DEF DepthBounded
<1>10. QED
  BY <1>6, <1>7, <1>8, <1>9 DEF IInv

\* Ack removes the same ids from the queue and from the index.
LEMMA AckKeeps ==
    ASSUME IInv, NEW r \in Peers, NEW ids \in SUBSET EnvelopeIds, Ack(r, ids)
    PROVE  IInv'
<1> DEFINE acked == ids \cap Ids(PrunedIndex(r))
           kept == {e \in PrunedQueue(r) : e.envelopeId \notin acked}
<1>1. /\ byRecipient' = [PrunedQueues EXCEPT ![r] = kept]
      /\ byRecipientByID' = [PrunedIndexes EXCEPT
                                ![r] = IF kept = {} THEN {}
                                ELSE {e \in PrunedIndex(r) : e.envelopeId \notin acked}]
      /\ answer' = Promise!NoAnswer
      /\ UNCHANGED <<now, appended>>
  BY DEF Ack, PrunedIndexes
<1>2. /\ byRecipient'[r] = kept
      /\ byRecipientByID'[r] = IF kept = {} THEN {}
                                ELSE {e \in PrunedIndex(r) : e.envelopeId \notin acked}
      /\ \A s \in Peers \ {r} : /\ byRecipient'[s] = PrunedQueue(s)
                                /\ byRecipientByID'[s] = PrunedIndex(s)
  BY <1>1 DEF PrunedQueues, PrunedIndexes
<1>3. kept \subseteq PrunedQueue(r) /\ kept \subseteq byRecipient[r]
  BY PrunedFacts
<1>4. TypeOK'
  <2>1. byRecipient' \in [Peers -> SUBSET Promise!Entry]
    BY <1>1, <1>3, PrunedFacts DEF PrunedQueues
  <2>2. byRecipientByID' \in [Peers -> SUBSET Promise!Entry]
    <3>1. \A s \in Peers : PrunedIndex(s) \in SUBSET Promise!Entry
      BY PrunedFacts
    <3>2. QED
      BY <1>1, <3>1 DEF PrunedIndexes
  <2>3. \A s \in Peers : byRecipient'[s] \subseteq byRecipient[s]
    BY <1>2, <1>3, PrunedFacts
  <2>4. QED
    BY <1>1, <2>1, <2>2, <2>3 DEF IInv, TypeOK
<1>5. IndexMatchesQueue'
  <2>1. byRecipientByID'[r] = byRecipient'[r]
    BY <1>2, PrunedFacts
  <2>2. QED
    BY <1>2, <2>1, PrunedFacts DEF IndexMatchesQueue
<1>6. UniqueEnvelopeIds'
  BY <1>2, <1>3, PrunedFacts DEF IInv, UniqueEnvelopeIds
<1>7. DepthBounded'
  <2>1. IsFiniteSet(kept) /\ Cardinality(kept) <= Cardinality(PrunedQueue(r))
    BY <1>3, PrunedFacts, FS_Subset
  <2>2. Cardinality(kept) \in Nat /\ Cardinality(PrunedQueue(r)) \in Nat
    BY <2>1, PrunedFacts, FS_CardinalityType
  <2>3. MaxPerRecipient \in Nat
    BY StoreAssumption DEF Promise!MailboxAssumption
  <2>4. Cardinality(kept) <= MaxPerRecipient
    BY <2>1, <2>2, <2>3, PrunedFacts
  <2>5. QED
    BY <1>2, <2>1, <2>4, PrunedFacts DEF DepthBounded
<1>8. QED
  BY <1>4, <1>5, <1>6, <1>7 DEF IInv

LEMMA InitEstablishes == Init => IInv
<1> SUFFICES ASSUME Init PROVE IInv
  OBVIOUS
<1>1. TypeOK
  BY DEF Init, TypeOK
<1>2. IndexMatchesQueue /\ UniqueEnvelopeIds
  BY DEF Init, IndexMatchesQueue, UniqueEnvelopeIds
<1>3. DepthBounded
  <2>1. MaxPerRecipient \in Nat
    BY StoreAssumption DEF Promise!MailboxAssumption
  <2>2. QED
    BY <2>1, FS_EmptySet DEF Init, DepthBounded
<1>4. QED
  BY <1>1, <1>2, <1>3 DEF IInv

LEMMA NextKeeps == IInv /\ [Next]_vars => IInv'
<1> SUFFICES ASSUME IInv, [Next]_vars PROVE IInv'
  OBVIOUS
<1>1. ASSUME NEW r \in Peers, NEW id \in EnvelopeIds,
             NEW expiry \in Promise!GrantedExpiries(now), NEW sentAt \in SentAts,
             EnqueueNew(r, id, sentAt, expiry)
      PROVE  IInv'
  BY <1>1, EnqueueNewKeeps
<1>2. ASSUME NEW r \in Peers, NEW id \in EnvelopeIds,
             EnqueueKnown(r, id) \/ EnqueueFull(r, id)
      PROVE  IInv'
  <2>1. ASSUME EnqueueKnown(r, id)
        PROVE  answer' \in Promise!Answer
    <3>1. PICK e \in PrunedIndex(r) : answer' = Promise!Accepted(r, id, e.expiresAt)
      BY <2>1 DEF EnqueueKnown
    <3>2. e \in Promise!Entry
      BY <3>1, PrunedFacts
    <3>3. e.expiresAt \in Nat
      BY <3>2 DEF Promise!Entry
    <3>4. QED
      BY <3>1, <3>3 DEF Promise!Accepted, Promise!Answer
  <2>2. ASSUME EnqueueFull(r, id)
        PROVE  answer' \in Promise!Answer
    BY <2>2 DEF EnqueueFull, Promise!Refused, Promise!Answer
  <2>3. QED
    BY <1>2, <2>1, <2>2, PruneKeeps DEF EnqueueKnown, EnqueueFull
<1>3. ASSUME NEW r \in Peers, NEW ids \in SUBSET EnvelopeIds, Ack(r, ids)
      PROVE  IInv'
  BY <1>3, AckKeeps
<1>4. CASE Prune
  BY <1>4, PruneKeeps DEF Prune
<1>5. CASE Tick
  <2>1. TypeOK'
    BY <1>5 DEF IInv, TypeOK, Tick
  <2>2. QED
    BY <1>5, <2>1 DEF IInv, Tick, IndexMatchesQueue, UniqueEnvelopeIds, DepthBounded
<1>6. CASE Restart
  <2>1. TypeOK'
    BY <1>6 DEF IInv, TypeOK, Restart
  <2>2. IndexMatchesQueue' /\ UniqueEnvelopeIds'
    BY <1>6 DEF Restart, IndexMatchesQueue, UniqueEnvelopeIds
  <2>3. MaxPerRecipient \in Nat
    BY StoreAssumption DEF Promise!MailboxAssumption
  <2>4. DepthBounded'
    BY <1>6, <2>3, FS_EmptySet DEF Restart, DepthBounded
  <2>5. QED
    BY <2>1, <2>2, <2>4 DEF IInv
<1>7. CASE UNCHANGED vars
  BY <1>7 DEF vars, IInv, TypeOK, IndexMatchesQueue, UniqueEnvelopeIds, DepthBounded
<1>8. QED
  BY <1>1, <1>2, <1>3, <1>4, <1>5, <1>6, <1>7, Zenon DEF Next

\* The inductive invariant holds in every reachable state.
THEOREM StoreInvariant == Spec => []IInv
BY InitEstablishes, NextKeeps, PTL DEF Spec

\* The variables of store.go keep their types, whatever Peers, ids and capacity are.
THEOREM StoreTypeOK == Spec => []TypeOK
<1>1. IInv => TypeOK
  BY DEF IInv
<1>2. QED
  BY <1>1, StoreInvariant, PTL

\* byRecipient and byRecipientByID always name the same envelopes.
THEOREM StoreIndexMatchesQueue == Spec => []IndexMatchesQueue
<1>1. IInv => IndexMatchesQueue
  BY DEF IInv
<1>2. QED
  BY <1>1, StoreInvariant, PTL

\* One recipient's queue never holds two entries with the same envelope id.
THEOREM StoreUniqueEnvelopeIds == Spec => []UniqueEnvelopeIds
<1>1. IInv => UniqueEnvelopeIds
  BY DEF IInv
<1>2. QED
  BY <1>1, StoreInvariant, PTL

\* No queue outgrows maxPerRecipient.
THEOREM StoreDepthBounded == Spec => []DepthBounded
<1>1. IInv => DepthBounded
  BY DEF IInv
<1>2. QED
  BY <1>1, StoreInvariant, PTL

\* An enqueue answered "accepted" leaves a live copy in the queue (or came
\* already expired): the sender may stop retrying.
THEOREM StoreAcceptedIsHeld == Spec => []AcceptedIsHeld
<1>1. Init => AcceptedIsHeld
  BY DEF Init, AcceptedIsHeld, Promise!NoAnswer
<1>2. IInv /\ AcceptedIsHeld /\ [Next]_vars => AcceptedIsHeld'
  <2> SUFFICES ASSUME IInv, AcceptedIsHeld, [Next]_vars PROVE AcceptedIsHeld'
    OBVIOUS
  <2>1. ASSUME NEW r \in Peers, NEW id \in EnvelopeIds,
               NEW expiry \in Promise!GrantedExpiries(now), NEW sentAt \in SentAts,
               EnqueueNew(r, id, sentAt, expiry)
        PROVE  AcceptedIsHeld'
    <3> DEFINE new == [envelopeId |-> id, sentAt |-> sentAt, expiresAt |-> expiry,
                       arrival |-> appended + 1]
    <3>1. new \in byRecipient'[r]
      BY <2>1 DEF EnqueueNew, NewEntry, PrunedQueues
    <3>2. /\ answer'.recipient = r
          /\ answer'.envelopeId = id
          /\ answer'.expiresAt = expiry
          /\ now' = now
      BY <2>1 DEF EnqueueNew, Promise!Accepted
    <3>3. expiry \in Nat /\ now \in Nat
      BY StoreAssumption
         DEF Promise!MailboxAssumption, Promise!GrantedExpiries, IInv, TypeOK
    <3>4. new.envelopeId = id /\ new.expiresAt = expiry
      OBVIOUS
    <3>5. QED
      <4> HIDE DEF new
      <4>1. QED
        BY <3>1, <3>2, <3>3, <3>4 DEF AcceptedIsHeld
  <2>2. ASSUME NEW r \in Peers, NEW id \in EnvelopeIds, EnqueueKnown(r, id)
        PROVE  AcceptedIsHeld'
    <3>1. PICK e \in PrunedIndex(r) : /\ e.envelopeId = id
                                      /\ answer' = Promise!Accepted(r, id, e.expiresAt)
      BY <2>2 DEF EnqueueKnown
    <3>2. e \in PrunedQueue(r)
      BY <3>1, PrunedFacts
    <3>3. e \in byRecipient'[r] /\ e.expiresAt > now' /\ now' = now
      BY <2>2, <3>2 DEF EnqueueKnown, PrunedQueues, PrunedQueue, Live
    <3>4. answer'.recipient = r /\ answer'.envelopeId = id
      BY <3>1 DEF Promise!Accepted
    <3>5. QED
      BY <3>1, <3>3, <3>4 DEF AcceptedIsHeld
  <2>3. ASSUME NEW r \in Peers, NEW id \in EnvelopeIds, EnqueueFull(r, id)
        PROVE  AcceptedIsHeld'
    BY <2>3 DEF EnqueueFull, Promise!Refused, AcceptedIsHeld
  <2>4. ASSUME NEW r \in Peers, NEW ids \in SUBSET EnvelopeIds, Ack(r, ids)
        PROVE  AcceptedIsHeld'
    BY <2>4 DEF Ack, Promise!NoAnswer, AcceptedIsHeld
  <2>5. CASE Prune \/ Tick \/ Restart
    BY <2>5 DEF Prune, Tick, Restart, Promise!NoAnswer, AcceptedIsHeld
  <2>6. CASE UNCHANGED vars
    BY <2>6 DEF vars, AcceptedIsHeld
  <2>7. QED
    BY <2>1, <2>2, <2>3, <2>4, <2>5, <2>6 DEF Next
<1>3. QED
  BY <1>1, <1>2, StoreInvariant, PTL DEF Spec

-----------------------------------------------------------------------------

\* The operators Mailbox inherits are the ones MailboxStore inherits.
LEMMA SameOperators ==
    /\ \A q : Promise!Cardinality(q) = Cardinality(q)
    /\ \A q : Promise!Ids(q) = Ids(q)
    /\ \A q, t : Promise!Live(q, t) = Live(q, t)
<1>1. \A q : Promise!Cardinality(q) = Cardinality(q)
  BY Zenon DEF Promise!Cardinality, Cardinality
<1>2. QED
  BY <1>1 DEF Promise!Ids, Ids, Promise!Live, Live

\* What a client sees of the queues once they are pruned.
Seen == [r \in Peers |-> Live(byRecipient[r], now)]

\* Pruning is invisible: it keeps exactly the live envelopes.
LEMMA PruneInvisible ==
    ASSUME IInv, byRecipient' = PrunedQueues, UNCHANGED now
    PROVE  Seen' = Seen
BY DEF Seen, PrunedQueues, PrunedQueue, Live

\* A request is answered from the pruned queue and the pruned index, which is
\* what the recipient is held.
LEMMA SeenFacts ==
    ASSUME IInv, NEW r \in Peers
    PROVE  /\ Seen[r] = PrunedQueue(r)
           /\ Seen[r] = PrunedIndex(r)
           /\ Promise!Ids(Seen[r]) = Ids(PrunedIndex(r))
           /\ Promise!Cardinality(Seen[r]) = Cardinality(PrunedQueue(r))
BY PrunedFacts, SameOperators DEF Seen, PrunedQueue

LEMMA StepRefines ==
    ASSUME IInv, Next
    PROVE  [Promise!Next]_(Promise!vars)
<1>1. ASSUME NEW r \in Peers, NEW id \in EnvelopeIds,
             NEW expiry \in Promise!GrantedExpiries(now), NEW sentAt \in SentAts,
             EnqueueNew(r, id, sentAt, expiry)
      PROVE  Promise!Accept(r, id, sentAt, expiry)
  <2> DEFINE new == [envelopeId |-> id, sentAt |-> sentAt, expiresAt |-> expiry,
                     arrival |-> appended + 1]
  <2>1. byRecipient' = [PrunedQueues EXCEPT ![r] = PrunedQueue(r) \cup {new}] /\ now' = now
    BY <1>1 DEF EnqueueNew, NewEntry, PrunedQueues
  <2>2. Seen' = [Seen EXCEPT ![r] = @ \cup Live({new}, now)]
    <3> HIDE DEF new
    <3>1. QED
      BY <2>1 DEF Seen, PrunedQueues, PrunedQueue, Live
  <2>3. /\ id \notin Promise!Ids(Seen[r])
        /\ Promise!Cardinality(Seen[r]) < MaxPerRecipient
    BY <1>1, SeenFacts DEF EnqueueNew, HasRoom
  <2>4. Seen' = [Seen EXCEPT ![r] = @ \cup Promise!Live({new}, now)]
    BY <2>2, SameOperators
  <2>5. QED
    <3> HIDE DEF new
    <3>1. /\ appended < MaxAppends
          /\ appended' = appended + 1
          /\ answer' = Promise!Accepted(r, id, expiry)
          /\ now' = now
      BY <1>1 DEF EnqueueNew
    <3>2. QED
      BY <2>3, <2>4, <3>1 DEF Promise!Accept, Seen, new
<1>2. ASSUME NEW r \in Peers, NEW id \in EnvelopeIds, EnqueueKnown(r, id)
      PROVE  Promise!AcceptAgain(r, id)
  <2>1. PICK e \in PrunedIndex(r) : /\ e.envelopeId = id
                                    /\ answer' = Promise!Accepted(r, id, e.expiresAt)
    BY <1>2 DEF EnqueueKnown
  <2>2. e \in Seen[r] /\ Seen' = Seen
    BY <1>2, <2>1, SeenFacts, PruneInvisible DEF EnqueueKnown
  <2>3. QED
    BY <1>2, <2>1, <2>2 DEF EnqueueKnown, Promise!AcceptAgain, Seen
<1>3. ASSUME NEW r \in Peers, NEW id \in EnvelopeIds, EnqueueFull(r, id)
      PROVE  Promise!Refuse(r, id)
  <2>1. id \notin Promise!Ids(Seen[r]) /\ Seen' = Seen
    BY <1>3, SeenFacts, PruneInvisible DEF EnqueueFull
  <2>2. Promise!Cardinality(Seen[r]) >= MaxPerRecipient
    <3>1. IsFiniteSet(PrunedQueue(r)) /\ MaxPerRecipient \in Nat
      BY PrunedFacts, StoreAssumption DEF Promise!MailboxAssumption
    <3>2. Cardinality(PrunedQueue(r)) \in Nat
      BY <3>1, FS_CardinalityType
    <3>3. QED
      BY <1>3, <3>1, <3>2, SeenFacts DEF EnqueueFull, HasRoom
  <2>3. QED
    BY <1>3, <2>1, <2>2 DEF EnqueueFull, Promise!Refuse, Seen
<1>4. ASSUME NEW r \in Peers, NEW ids \in SUBSET EnvelopeIds, Ack(r, ids)
      PROVE  Promise!Acknowledge(r, ids)
  <2> DEFINE acked == ids \cap Ids(PrunedIndex(r))
             kept == {e \in PrunedQueue(r) : e.envelopeId \notin acked}
  <2>1. byRecipient' = [PrunedQueues EXCEPT ![r] = kept] /\ now' = now
    BY <1>4 DEF Ack
  <2>2. kept = {e \in PrunedQueue(r) : e.envelopeId \notin ids}
    BY PrunedFacts DEF Ids
  <2>3. Seen' = [Seen EXCEPT ![r] = {e \in @ : e.envelopeId \notin ids}]
    <3> HIDE DEF kept
    <3>1. QED
      BY <2>1, <2>2 DEF Seen, PrunedQueues, PrunedQueue, Live
  <2>4. QED
    BY <1>4, <2>3 DEF Ack, Promise!Acknowledge, Seen
<1>5. CASE Prune
  BY <1>5, PruneInvisible DEF Prune, Promise!Read, Promise!Next, Seen
<1>6. CASE Tick
  <2>1. Seen' = [r \in Peers |-> Live(Seen[r], now + 1)]
    <3>1. now \in Nat /\ \A r \in Peers : \A e \in byRecipient[r] : e.expiresAt \in Nat
      BY DEF IInv, TypeOK, Promise!Entry
    <3>2. ASSUME NEW r \in Peers
          PROVE  Live(byRecipient[r], now + 1) = Live(Live(byRecipient[r], now), now + 1)
      BY <3>1 DEF Live
    <3>3. QED
      BY <1>6, <3>2 DEF Tick, Seen
  <2>2. Seen' = [r \in Peers |-> Promise!Live(Seen[r], now + 1)]
    BY <2>1, SameOperators
  <2>3. Promise!Tick
    BY <1>6, <2>2 DEF Tick, Promise!Tick, Seen
  <2>4. QED
    BY <2>3 DEF Promise!Next
<1>7. CASE Restart
  <2>1. Seen' = [r \in Peers |-> {}]
    BY <1>7 DEF Restart, Seen, Live
  <2>2. QED
    BY <1>7, <2>1 DEF Restart, Promise!Restart, Promise!Next, Seen
<1>8. QED
  BY <1>1, <1>2, <1>3, <1>4, <1>5, <1>6, <1>7 DEF Next, Promise!Next

\* The queues and the index are sound in every state of a relay.
THEOREM StoreQueueIsSound == Spec => []QueueIsSound
BY StoreTypeOK, StoreIndexMatchesQueue, StoreUniqueEnvelopeIds, StoreDepthBounded,
   StoreAcceptedIsHeld, PTL DEF QueueIsSound

\* The store implements the mailbox promise: lazy pruning and the second index
\* cannot be told from a mailbox that drops an envelope the moment it expires.
THEOREM StoreImplementsMailbox == Spec => ImplementsMailbox
<1>1. Init => Promise!Init
  <2>1. ASSUME Init PROVE Seen = [r \in Peers |-> {}]
    BY <2>1 DEF Init, Seen, Live
  <2>2. QED
    BY <2>1 DEF Init, Promise!Init, Seen
<1>2. IInv /\ [Next]_vars => [Promise!Next]_(Promise!vars)
  <2>1. ASSUME UNCHANGED vars PROVE UNCHANGED Promise!vars
    BY <2>1 DEF vars, Promise!vars
  <2>2. QED
    BY <2>1, StepRefines
<1>3. QED
  BY <1>1, <1>2, StoreInvariant, PTL DEF Spec, ImplementsMailbox, Promise!Spec
=============================================================================
