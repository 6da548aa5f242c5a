--------------------------- MODULE ComponentsProofs ---------------------------
(***************************************************************************)
(* The components of module Components: for each the inductive invariant   *)
(* of its module, and from it the properties that are stated there.  A     *)
(* section is about one component; what begins with the component's name   *)
(* is of its module or a lemma about it.                                   *)
(***************************************************************************)
EXTENDS Components, SubsequencesProofs, FiniteSetTheorems, SequenceTheorems, TLAPS

-----------------------------------------------------------------------------
\* The chat state.

\* No message whose conversation has one id on both sides has a copy too many.
StateSingle(s) == \A m \in Messages \ Renamed : s[m].copies <= 1

\* What the snapshots in flight add to the two invariants: none of them has a
\* duplicate, and a pending ingestion read what is still right about every
\* message that was not changed since.
StateInv ==
    /\ TypeOK
    /\ StateSingle(latest) /\ StateSingle(stored)
    /\ \A c \in Calls : StateSingle(calls[c].snap)
    /\ \A i \in DOMAIN pending : StateSingle(pending[i])
    /\ LossNeedsOverlap
    /\ \A c \in Calls : calls[c] # NoCall =>
          \A m \in Messages \ exposed : calls[c].snap[m] = ideal[m]

\* Entries are records: what adding and marking make of one.
LEMMA StateEntryFacts ==
    ASSUME NEW e \in Entry, NEW v \in BOOLEAN
    PROVE  /\ e.copies \in Nat
           /\ [e EXCEPT !.copies = @ + 1] \in Entry
           /\ [e EXCEPT !.copies = @ + 1].copies = e.copies + 1
           /\ e.copies # 0 => [e EXCEPT !.marked = v] \in Entry
           /\ [e EXCEPT !.marked = v].copies = e.copies
<1>1. e \in [copies : Nat, marked : BOOLEAN]
  <2>1. CASE e = Absent
    <3>1. [copies |-> 0, marked |-> FALSE] \in [copies : Nat, marked : BOOLEAN]
      OBVIOUS
    <3> QED BY <2>1, <3>1 DEF Absent
  <2>2. CASE e \in [copies : Nat \ {0}, marked : BOOLEAN]
    BY <2>2
  <2> QED BY <2>1, <2>2 DEF Entry
<1>2. [e EXCEPT !.copies = @ + 1] \in [copies : Nat \ {0}, marked : BOOLEAN]
  <2>1. e.copies + 1 \in Nat \ {0}
    BY <1>1
  <2> QED BY <1>1, <2>1
<1>3. e.copies # 0 => [e EXCEPT !.marked = v] \in [copies : Nat \ {0}, marked : BOOLEAN]
  BY <1>1
<1>4. [e EXCEPT !.copies = @ + 1].copies = e.copies + 1 /\ [e EXCEPT !.marked = v].copies = e.copies
  BY <1>1
<1> QED
  BY <1>1, <1>2, <1>3, <1>4 DEF Entry

LEMMA StateEmptyFacts == Empty \in Snapshot /\ StateSingle(Empty)
BY DEF Empty, Snapshot, Entry, Absent, StateSingle

\* The operations on snapshots yield snapshots and never a second copy.
LEMMA StateAddedFacts ==
    ASSUME NEW s \in Snapshot, NEW batch, NEW way
    PROVE  /\ Added(s, batch, way) \in Snapshot
           /\ StateSingle(s) => StateSingle(Added(s, batch, way))
           /\ \A t \in Snapshot : \A m \in Messages :
                 s[m] = t[m] => Added(s, batch, way)[m] = Added(t, batch, way)[m]
           /\ \A m \in Messages \ batch : Added(s, batch, way)[m] = s[m]
<1>1. \A m \in Messages : s[m] \in Entry
  BY DEF Snapshot
<1>2. \A m \in Messages : [s[m] EXCEPT !.copies = @ + 1] \in Entry
  BY <1>1, StateEntryFacts
<1>3. Added(s, batch, way) \in Snapshot
  BY <1>1, <1>2 DEF Added, Snapshot
<1>4. \A m \in Messages : s[m].copies \in Nat /\ [s[m] EXCEPT !.copies = @ + 1].copies = s[m].copies + 1
  BY <1>1, StateEntryFacts
<1>5. ASSUME StateSingle(s), NEW m \in Messages \ Renamed PROVE Added(s, batch, way)[m].copies <= 1
  <2>1. CASE m \in batch /\ ~Knows(s, m, way)
    <3>1. s[m].copies = 0
      BY <1>4, <1>5, <2>1 DEF Knows
    <3>2. Added(s, batch, way)[m] = [s[m] EXCEPT !.copies = @ + 1]
      BY <1>5, <2>1 DEF Added
    <3> QED BY <1>4, <1>5, <3>1, <3>2
  <2>2. CASE ~(m \in batch /\ ~Knows(s, m, way))
    <3>1. Added(s, batch, way)[m] = s[m]
      BY <1>5, <2>2 DEF Added
    <3> QED BY <1>5, <3>1 DEF StateSingle
  <2> QED BY <2>1, <2>2
<1>6. ASSUME NEW t \in Snapshot, NEW m \in Messages, s[m] = t[m]
      PROVE  Added(s, batch, way)[m] = Added(t, batch, way)[m]
  BY <1>6 DEF Added, Knows
<1>7. \A m \in Messages \ batch : Added(s, batch, way)[m] = s[m]
  BY DEF Added
<1> QED
  BY <1>3, <1>5, <1>6, <1>7 DEF StateSingle

LEMMA StateMarkedFacts ==
    ASSUME NEW s \in Snapshot, NEW m \in Messages, NEW v \in BOOLEAN
    PROVE  /\ Marked(s, m, v) \in Snapshot
           /\ StateSingle(s) => StateSingle(Marked(s, m, v))
           /\ \A t \in Snapshot : \A n \in Messages : s[n] = t[n] => Marked(s, m, v)[n] = Marked(t, m, v)[n]
<1>1. \A n \in Messages : s[n] \in Entry
  BY DEF Snapshot
<1>2. s[m].copies # 0 => [s[m] EXCEPT !.marked = v] \in Entry
  BY <1>1, StateEntryFacts
<1>3. [s[m] EXCEPT !.marked = v].copies = s[m].copies
  BY <1>1, StateEntryFacts
<1>4. Marked(s, m, v) \in Snapshot
  BY <1>1, <1>2 DEF Marked, Snapshot
<1>5. ASSUME StateSingle(s) PROVE StateSingle(Marked(s, m, v))
  BY <1>1, <1>3, <1>5 DEF StateSingle, Marked, Snapshot
<1>6. ASSUME NEW t \in Snapshot, NEW n \in Messages, s[n] = t[n]
      PROVE  Marked(s, m, v)[n] = Marked(t, m, v)[n]
  BY <1>6 DEF Marked, Snapshot
<1> QED
  BY <1>4, <1>5, <1>6

LEMMA StateRemovedFacts ==
    ASSUME NEW s \in Snapshot, NEW m \in Messages
    PROVE  /\ Removed(s, m) \in Snapshot
           /\ StateSingle(s) => StateSingle(Removed(s, m))
           /\ \A t \in Snapshot : \A n \in Messages : s[n] = t[n] => Removed(s, m)[n] = Removed(t, m)[n]
BY DEF Removed, Snapshot, Entry, Absent, StateSingle

\* Persisting a sound snapshot leaves sound snapshots.
LEMMA StatePersistFacts ==
    ASSUME TypeOK, \A i \in DOMAIN pending : StateSingle(pending[i]),
           NEW next \in Snapshot, StateSingle(next), Persist(next)
    PROVE  /\ latest' \in Snapshot /\ StateSingle(latest') /\ latest' = next
           /\ pending' \in Seq(Snapshot)
           /\ \A i \in DOMAIN pending' : StateSingle(pending'[i])
<1>1. pending \in Seq(Snapshot)
  BY DEF TypeOK
<1>2. pending' = Append(pending, next)
  BY DEF Persist
<1>3. pending' \in Seq(Snapshot)
  BY <1>1, <1>2
<1>4. DOMAIN pending = 1..Len(pending) /\ DOMAIN pending' = 1..(Len(pending) + 1) /\ Len(pending) \in Nat
  BY <1>1, <1>2
<1>5. ASSUME NEW i \in DOMAIN pending' PROVE StateSingle(pending'[i])
  <2>1. CASE i = Len(pending) + 1
    <3>1. pending'[i] = next
      BY <1>1, <1>2, <2>1
    <3> QED BY <3>1
  <2>2. CASE i # Len(pending) + 1
    <3>1. i \in DOMAIN pending
      BY <1>4, <2>2
    <3>2. pending'[i] = pending[i]
      BY <1>1, <1>2, <1>4, <3>1
    <3> QED BY <3>1, <3>2
  <2> QED BY <2>1, <2>2
<1> QED
  BY <1>3, <1>5 DEF Persist

\* An operation that changes the latest snapshot and the ideal one alike, in one
\* task, keeps the invariant.
LEMMA StateChangeKeeps ==
    ASSUME StateInv, NEW next \in Snapshot, StateSingle(next), Persist(next),
           ideal' \in Snapshot,
           \A m \in Messages : latest[m] = ideal[m] => next[m] = ideal'[m],
           Expose(calls), UNCHANGED <<calls, stored>>,
           sent' \subseteq Own
    PROVE  StateInv'
<1> USE DEF StateInv
<1>1. /\ latest' \in Snapshot /\ StateSingle(latest') /\ latest' = next
      /\ pending' \in Seq(Snapshot)
      /\ \A i \in DOMAIN pending' : StateSingle(pending'[i])
  BY StatePersistFacts
<1>2. exposed \subseteq exposed' /\ exposed' \subseteq Messages
  BY DEF Expose, TypeOK
<1>3. TypeOK'
  BY <1>1, <1>2 DEF TypeOK
<1>4. LossNeedsOverlap'
  BY <1>1, <1>2 DEF LossNeedsOverlap
<1>5. ASSUME NEW c \in Calls, calls'[c] # NoCall, NEW m \in Messages \ exposed'
      PROVE  calls'[c].snap[m] = ideal'[m]
  <2>1. PendingAfter(calls)
    BY <1>5 DEF PendingAfter
  <2>2. ideal'[m] = ideal[m]
    BY <1>5, <2>1 DEF Expose
  <2> QED BY <1>2, <1>5, <2>2
<1>6. \A c \in Calls : StateSingle(calls'[c].snap)
  OBVIOUS
<1>7. StateSingle(stored')
  BY DEF StateSingle
<1> QED
  BY <1>1, <1>3, <1>4, <1>5, <1>6, <1>7

\* An ingestion that ends: what it writes is right about every message that was
\* not changed while it decrypted.
LEMMA StateIngestedKeeps ==
    ASSUME StateInv, NEW c \in Calls, Ingested(c)
    PROVE  StateInv'
<1> DEFINE next == Added(calls[c].snap, calls[c].batch, calls[c].way)
<1>1. calls[c].snap \in Snapshot /\ ideal \in Snapshot /\ StateSingle(calls[c].snap)
  BY DEF StateInv, TypeOK
<1>2. next \in Snapshot /\ StateSingle(next) /\ ideal' \in Snapshot
  BY <1>1, StateAddedFacts DEF Ingested
<1>3. \A m \in Messages \ exposed : next[m] = ideal'[m] /\ calls[c].snap[m] = ideal[m]
  BY <1>1, StateAddedFacts DEF Ingested, StateInv
<1>4. /\ latest' \in Snapshot /\ StateSingle(latest')
      /\ pending' \in Seq(Snapshot)
      /\ \A i \in DOMAIN pending' : StateSingle(pending'[i])
      /\ latest' = next \/ (next = calls[c].snap /\ latest' = latest)
  <2>1. CASE next = calls[c].snap
    BY <2>1 DEF Ingested, StateInv, TypeOK
  <2>2. CASE next # calls[c].snap
    <3>1. Persist(next)
      BY <2>2 DEF Ingested
    <3> QED BY <1>2, <3>1, StatePersistFacts DEF StateInv
  <2> QED BY <2>1, <2>2
<1>5. exposed \subseteq exposed' /\ exposed' \subseteq Messages
  BY DEF Expose, Ingested, StateInv, TypeOK
<1>6. calls' = [calls EXCEPT ![c] = NoCall] /\ NoCall \in [batch : SUBSET Incoming, way : Ways, snap : Snapshot]
  BY StateEmptyFacts DEF Ingested, NoCall, Ways
<1>7. TypeOK'
  BY <1>2, <1>4, <1>5, <1>6 DEF StateInv, TypeOK, Ingested
<1>8. \A b \in Calls : StateSingle(calls'[b].snap)
  BY <1>6, StateEmptyFacts DEF StateInv, TypeOK, NoCall
<1>9. ASSUME NEW m \in Messages \ exposed' PROVE latest'[m] = ideal'[m]
  <2>1. CASE latest' = next
    BY <1>3, <1>5, <1>9, <2>1
  <2>2. CASE next = calls[c].snap /\ latest' = latest
    <3>1. ideal'[m] = ideal[m]
      BY <1>3, <1>5, <1>9, <2>2
    <3> QED BY <1>5, <1>9, <2>2, <3>1 DEF StateInv, LossNeedsOverlap
  <2> QED BY <1>4, <2>1, <2>2
<1>10. ASSUME NEW b \in Calls, calls'[b] # NoCall, NEW m \in Messages \ exposed'
       PROVE  calls'[b].snap[m] = ideal'[m]
  <2>1. PendingAfter(calls')
    BY <1>10 DEF PendingAfter
  <2>2. ideal'[m] = ideal[m]
    BY <1>10, <2>1 DEF Expose, Ingested
  <2>3. calls'[b] = calls[b]
    BY <1>6, <1>10 DEF StateInv, TypeOK
  <2> QED BY <1>5, <1>10, <2>2, <2>3 DEF StateInv
<1>11. StateSingle(stored')
  BY DEF Ingested, StateInv, StateSingle
<1> QED
  BY <1>4, <1>7, <1>8, <1>9, <1>10, <1>11 DEF StateInv, LossNeedsOverlap

\* A write that reaches the disk.
LEMMA StateSavedKeeps ==
    ASSUME StateInv, NEW i, Saved(i)
    PROVE  StateInv'
<1>1. pending \in Seq(Snapshot) /\ i \in 1..Len(pending) /\ Len(pending) \in Nat
  BY DEF StateInv, TypeOK, Saved
<1> DEFINE before == SubSeq(pending, 1, i - 1)
           after == SubSeq(pending, i + 1, Len(pending))
<1>2. before \in Seq(Snapshot) /\ Len(before) = i - 1 /\ \A j \in 1..(i - 1) : before[j] = pending[j]
  BY <1>1, SubSeqProperties
<1>3. /\ after \in Seq(Snapshot) /\ Len(after) = Len(pending) - i
      /\ \A j \in 1..(Len(pending) - i) : after[j] = pending[i + j]
  BY <1>1, SubSeqProperties
<1>4. pending' = before \o after
  BY DEF Saved
<1> HIDE DEF before, after
<1>5. pending' \in Seq(Snapshot) /\ DOMAIN pending' = 1..(Len(before) + Len(after))
  BY <1>2, <1>3, <1>4
<1>6. ASSUME NEW j \in DOMAIN pending' PROVE \E k \in DOMAIN pending : pending'[j] = pending[k]
  <2>1. CASE j <= i - 1
    <3>1. j \in 1..(i - 1) /\ j \in 1..Len(before) /\ j \in DOMAIN pending
      BY <1>1, <1>2, <1>3, <1>5, <1>6, <2>1
    <3>2. pending'[j] = before[j]
      BY <1>2, <1>3, <1>4, <3>1
    <3> QED BY <1>2, <3>1, <3>2
  <2>2. CASE j > i - 1
    <3>1. j - (i - 1) \in 1..(Len(pending) - i) /\ i + (j - (i - 1)) \in DOMAIN pending
      BY <1>1, <1>2, <1>3, <1>5, <2>2
    <3>2. pending'[j] = after[j - (i - 1)]
      <4>1. j \in 1..(Len(before) + Len(after)) /\ Len(before) = i - 1
        BY <1>2, <1>5
      <4>2. \A k \in 1..(Len(before) + Len(after)) :
                pending'[k] = IF k <= Len(before) THEN before[k] ELSE after[k - Len(before)]
        BY <1>2, <1>3, <1>4, ConcatProperties
      <4>3. i \in Int /\ j \in Int
        BY <1>1, <1>2, <1>3, <4>1
      <4>4. ~(j <= Len(before))
        BY <2>2, <4>1, <4>3
      <4> QED
        BY <4>1, <4>2, <4>4
    <3> QED BY <1>3, <3>1, <3>2
  <2> QED BY <1>1, <1>2, <1>3, <1>5, <2>1, <2>2
<1>7. \A j \in DOMAIN pending' : StateSingle(pending'[j])
  BY <1>6 DEF StateInv
<1>8. stored' \in Snapshot /\ StateSingle(stored')
  BY <1>1 DEF Saved, StateInv
<1>9. TypeOK'
  BY <1>5, <1>8 DEF StateInv, TypeOK, Saved
<1>10. UNCHANGED <<latest, calls, sent, ideal, exposed>>
  BY DEF Saved
<1>11. StateSingle(latest') /\ \A c \in Calls : StateSingle(calls'[c].snap)
  BY <1>10 DEF StateInv
<1>12. LossNeedsOverlap'
  BY <1>10 DEF StateInv, LossNeedsOverlap
<1>13. \A c \in Calls : calls'[c] # NoCall =>
          \A m \in Messages \ exposed' : calls'[c].snap[m] = ideal'[m]
  BY <1>10 DEF StateInv
<1> QED
  BY <1>7, <1>8, <1>9, <1>11, <1>12, <1>13, Zenon DEF StateInv, StateSingle

LEMMA StateInitInv == Init => StateInv
BY StateEmptyFacts DEF Init, StateInv, TypeOK, NoCall, Ways, LossNeedsOverlap

\* Every step keeps the invariant.
LEMMA StateNextInv == StateInv /\ [Next]_vars => StateInv'
<1> SUFFICES ASSUME StateInv, [Next]_vars PROVE StateInv'
  OBVIOUS
<1>0. latest \in Snapshot /\ ideal \in Snapshot /\ StateSingle(latest) /\ sent \subseteq Own
  BY DEF StateInv, TypeOK
<1>1. ASSUME NEW m \in Messages, Send(m) PROVE StateInv'
  <2>1. /\ Added(latest, {m}, "live") \in Snapshot /\ StateSingle(Added(latest, {m}, "live")) /\ Added(ideal, {m}, "live") \in Snapshot
        /\ \A n \in Messages : latest[n] = ideal[n] => Added(latest, {m}, "live")[n] = Added(ideal, {m}, "live")[n]
    BY <1>0, StateAddedFacts
  <2> QED BY <1>0, <1>1, <2>1, StateChangeKeeps DEF Send
<1>2. ASSUME NEW m \in Messages, Delete(m) PROVE StateInv'
  <2>1. /\ Removed(latest, m) \in Snapshot /\ StateSingle(Removed(latest, m)) /\ Removed(ideal, m) \in Snapshot
        /\ \A n \in Messages : latest[n] = ideal[n] => Removed(latest, m)[n] = Removed(ideal, m)[n]
    BY <1>0, StateRemovedFacts
  <2> QED BY <1>0, <1>2, <2>1, StateChangeKeeps DEF Delete
<1>3. ASSUME NEW m \in Messages, NEW v \in BOOLEAN, Mark(m, v) PROVE StateInv'
  <2>1. /\ Marked(latest, m, v) \in Snapshot /\ StateSingle(Marked(latest, m, v)) /\ Marked(ideal, m, v) \in Snapshot
        /\ \A n \in Messages : latest[n] = ideal[n] => Marked(latest, m, v)[n] = Marked(ideal, m, v)[n]
    BY <1>0, StateMarkedFacts
  <2> QED BY <1>0, <1>3, <2>1, StateChangeKeeps DEF Mark
<1>4. ASSUME NEW way \in Ways, NEW batch \in Batches(way), IngestPlain(batch, way) PROVE StateInv'
  <2>1. /\ Added(latest, batch, way) \in Snapshot /\ StateSingle(Added(latest, batch, way)) /\ Added(ideal, batch, way) \in Snapshot
        /\ \A n \in Messages : latest[n] = ideal[n] => Added(latest, batch, way)[n] = Added(ideal, batch, way)[n]
    BY <1>0, StateAddedFacts
  <2> QED BY <1>0, <1>4, <2>1, StateChangeKeeps DEF IngestPlain
<1>5. ASSUME NEW way \in Ways, NEW batch \in Batches(way), NEW c \in Calls, Ingest(c, batch, way) PROVE StateInv'
  <2>1. batch \in SUBSET Incoming
    BY DEF Batches
  <2> QED BY <1>5, <2>1 DEF Ingest, StateInv, TypeOK, LossNeedsOverlap, StateSingle
<1>6. ASSUME NEW c \in Calls, Ingested(c) PROVE StateInv'
  BY <1>6, StateIngestedKeeps
<1>7. ASSUME NEW i \in 1..MaxSaves, Saved(i) PROVE StateInv'
  BY <1>7, StateSavedKeeps
<1>8. CASE Reload
  BY <1>8, StateEmptyFacts DEF Reload, StateInv, TypeOK, LossNeedsOverlap, NoCall, Ways, StateSingle
<1>9. CASE Touch
  <2>1. ideal' = ideal /\ Persist(latest) /\ UNCHANGED <<calls, stored, sent, exposed>>
    BY <1>9 DEF Touch
  <2>2. Expose(calls)
    BY <2>1 DEF Expose
  <2> QED BY <1>0, <2>1, <2>2, StateChangeKeeps
<1>10. ASSUME NEW m \in Messages, LogCall(m) PROVE StateInv'
  <2> DEFINE next == Added(latest, {m}, "live")
             best == Added(ideal, {m}, "live")
  <2>1. /\ next \in Snapshot /\ StateSingle(next) /\ best \in Snapshot
        /\ \A n \in Messages : latest[n] = ideal[n] => next[n] = best[n]
    BY <1>0, StateAddedFacts
  <2>2. /\ latest[m].copies = 0 /\ Persist(Marked(next, m, TRUE)) /\ ideal' = Marked(best, m, TRUE)
        /\ Expose(calls) /\ UNCHANGED <<calls, stored>> /\ sent' \subseteq Own
    BY <1>0, <1>10 DEF LogCall
  <2> HIDE DEF next, best
  <2>3. /\ Marked(next, m, TRUE) \in Snapshot /\ StateSingle(Marked(next, m, TRUE))
        /\ Marked(best, m, TRUE) \in Snapshot
        /\ \A n \in Messages : next[n] = best[n] => Marked(next, m, TRUE)[n] = Marked(best, m, TRUE)[n]
    BY <2>1, StateMarkedFacts
  <2> QED BY <2>1, <2>2, <2>3, StateChangeKeeps
<1>11. CASE UNCHANGED vars
  BY <1>11 DEF vars, StateInv, TypeOK, LossNeedsOverlap, StateSingle
<1> QED
  BY <1>1, <1>2, <1>3, <1>4, <1>5, <1>6, <1>7, <1>8, <1>9, <1>10, <1>11 DEF Next

\* The invariant, on every behaviour.
THEOREM StateInvariant == Spec => []StateInv
BY StateInitInv, StateNextInv, PTL DEF Spec

\* Every snapshot, in memory, in flight or on disk, is well formed.
THEOREM StateTypeOK == Spec => []TypeOK
<1>1. StateInv => TypeOK
  BY DEF StateInv
<1> QED BY <1>1, StateInvariant, PTL

\* Ingestions that check stale snapshots never produce a second copy.
THEOREM StateNoDuplicates == Spec => []NoDuplicates
<1>1. StateInv => NoDuplicates
  BY DEF StateInv, NoDuplicates, StateSingle
<1> QED BY <1>1, StateInvariant, PTL

\* No change is lost unless an ingestion was decrypting when it was made.
THEOREM StateLossNeedsOverlap == Spec => []LossNeedsOverlap
<1>1. StateInv => LossNeedsOverlap
  BY DEF StateInv
<1> QED BY <1>1, StateInvariant, PTL

-----------------------------------------------------------------------------
\* Conversations.

\* A conversation with a message filed in it is one the state has, or new.
LEMMA ChatsFiledFacts ==
  ASSUME Chats!TypeOK, NEW s \in Chats!States, Chats!OneDirectIn(s), NEW i \in Chats!Ids
  PROVE  /\ Chats!Filed(s, i) \in Chats!States /\ Chats!OneDirectIn(Chats!Filed(s, i))
            /\ s.convs \subseteq Chats!Filed(s, i).convs
         /\ selected \cap s.unread = {} => selected \cap Chats!Filed(s, i).unread = {}
<1> DEFINE conv == IF Chats!Found(s, i) = {} THEN i ELSE CHOOSE j \in Chats!Found(s, i) : TRUE
<1>1. Chats!Found(s, i) \subseteq s.convs /\ s.convs \subseteq Chats!Ids /\ s.unread \subseteq s.convs
  BY DEF Chats!Found, Chats!Direct, Chats!States
<1>2. conv \in Chats!Ids
  BY <1>1
<1> DEFINE new == IF conv \in selected THEN s.unread ELSE s.unread \cup {conv}
<1>3. Chats!Filed(s, i) = [convs |-> s.convs \cup {conv}, unread |-> new]
  BY DEF Chats!Filed
<1>4. new \subseteq s.convs \cup {conv} /\ (selected \cap s.unread = {} => selected \cap new = {})
  BY <1>1
<1> HIDE DEF new
<1>5. Chats!Filed(s, i) \in Chats!States
  BY <1>1, <1>2, <1>3, <1>4 DEF Chats!States
<1>6. Chats!OneDirectIn(Chats!Filed(s, i))
  <2>1. CASE Chats!Found(s, i) = {}
    <3>1. i \notin s.convs /\ (Chats!IsDirect(i) => Chats!Direct(s, i[1]) = {})
      BY <2>1 DEF Chats!Found
    <3>2. Chats!Filed(s, i).convs = s.convs \cup {i}
      BY <1>3, <2>1
    <3> QED
      BY <3>1, <3>2 DEF Chats!OneDirectIn, Chats!Direct
  <2>2. CASE Chats!Found(s, i) # {}
    <3>1. conv \in s.convs
      BY <1>1, <2>2
    <3>2. Chats!Filed(s, i).convs = s.convs \cup {conv}
      BY <1>3
    <3>3. Chats!Filed(s, i).convs = s.convs
      <4> HIDE DEF conv
      <4> QED
        BY <3>1, <3>2
    <3> QED
      BY <3>3 DEF Chats!OneDirectIn, Chats!Direct
  <2> QED
    BY <2>1, <2>2
<1> QED
  BY <1>3, <1>4, <1>5, <1>6

\* A state with fewer conversations than another has no more chats.
LEMMA ChatsFewerKeepsOne ==
  ASSUME NEW s, Chats!OneDirectIn(s), NEW u, u.convs \subseteq s.convs
  PROVE  Chats!OneDirectIn(u)
  BY DEF Chats!OneDirectIn, Chats!Direct

\* Conversations that are added leave every chat there is.
LEMMA ChatsMoreKeepsChats ==
  ASSUME NEW s, NEW u, s.convs \subseteq u.convs
  PROVE  \A p : Chats!Direct(s, p) # {} => Chats!Direct(u, p) # {}
  BY DEF Chats!Direct

\* Selecting keeps the conversations, and what is selected is read.
LEMMA ChatsSelectFacts ==
  ASSUME Chats!IInv, NEW x \in Chats!AtMostOne(Chats!Ids), Chats!Select(x, state)
  PROVE  /\ state' \in Chats!States /\ state'.convs = state.convs /\ Chats!OneDirectIn(state')
         /\ selected' \in Chats!AtMostOne(Chats!Ids)
         /\ chatsCrossed \/ selected' \cap state'.unread = {}
<1>1. state' \in Chats!States /\ state'.convs = state.convs
  BY DEF Chats!IInv, Chats!TypeOK, Chats!Select, Chats!States
<1>2. Chats!OneDirectIn(state')
  BY <1>1, ChatsFewerKeepsOne DEF Chats!IInv, Chats!OneDirect
<1>3. chatsCrossed \/ selected' \cap state'.unread = {}
  BY DEF Chats!IInv, Chats!TypeOK, Chats!OpenChatIsRead, Chats!Select, Chats!States
<1> QED
  BY <1>1, <1>2, <1>3 DEF Chats!Select

\* The address bar stands for one conversation at most.
LEMMA ChatsMatchedFacts ==
  ASSUME Chats!IInv
  PROVE  Chats!Matched \in Chats!AtMostOne(Chats!Ids)
<1>1. state.convs \subseteq Chats!Ids
  BY DEF Chats!IInv, Chats!TypeOK, Chats!States
<1>2. CASE route = Chats!Home
  BY <1>2 DEF Chats!Matched, Chats!Home, Chats!AtMostOne
<1>3. ASSUME NEW p \in ChatPeers, route = Chats!PeerPage(p)
      PROVE Chats!Matched \in Chats!AtMostOne(Chats!Ids)
  <2>1. Chats!Matched = Chats!Direct(state, p)
    BY <1>3 DEF Chats!Matched, Chats!PeerPage
  <2>2. Chats!Matched \subseteq Chats!Ids /\ \A i, j \in Chats!Matched : i = j
    BY <1>1, <2>1 DEF Chats!Direct, Chats!IInv, Chats!OneDirect, Chats!OneDirectIn
  <2> QED
    BY <2>2 DEF Chats!AtMostOne
<1>4. ASSUME NEW i \in Chats!Ids, route = Chats!ChatPage(i)
      PROVE Chats!Matched \in Chats!AtMostOne(Chats!Ids)
  <2>1. Chats!Matched = state.convs \cap {i}
    BY <1>4 DEF Chats!Matched, Chats!ChatPage
  <2> QED
    BY <2>1 DEF Chats!AtMostOne
<1> QED
  BY <1>2, <1>3, <1>4 DEF Chats!IInv, Chats!TypeOK, Chats!Routes

\* Only what is read or written of the state matters to the invariant.
LEMMA ChatsKeepsIInv ==
  ASSUME Chats!IInv, Chats!TypeOK', Chats!OneDirectIn(state'), Chats!OpenChatIsRead',
         \A c \in Decryptions : chatsCalls'[c] # Chats!None => chatsCalls'[c] = chatsCalls[c]
               \/ Chats!OneDirectIn(chatsCalls'[c].snap),
         \A p \in creating' : p \in creating \/ Chats!Direct(state', p) # {},
         \A p \in creating' : p \in creating /\ p \in removed => p \in removed'
               \/ Chats!Direct(state', p) # {},
         \A p \in creating' : Chats!Direct(state, p) # {} => p \in removed'
               \/ Chats!Direct(state', p) # {}
  PROVE  Chats!IInv'
<1>1. Chats!SnapsOneDirect'
  BY DEF Chats!IInv, Chats!SnapsOneDirect
<1>2. Chats!MarkedHasChat'
  <2>1. \A p : Chats!Direct(state, p)' = Chats!Direct(state', p)
    BY DEF Chats!Direct
  <2> QED
    BY <2>1 DEF Chats!IInv, Chats!MarkedHasChat
<1>3. Chats!OneDirect'
  BY DEF Chats!OneDirect, Chats!OneDirectIn, Chats!Direct
<1> QED
  BY <1>1, <1>2, <1>3 DEF Chats!IInv

LEMMA ChatsInitInv == Chats!Init => Chats!IInv
<1> SUFFICES ASSUME Chats!Init PROVE Chats!IInv
  OBVIOUS
<1>1. Chats!TypeOK
  BY DEF Chats!Init, Chats!TypeOK, Chats!States, Chats!Routes, Chats!AtMostOne
<1>2. Chats!OneDirect /\ Chats!SnapsOneDirect /\ Chats!OpenChatIsRead /\ Chats!MarkedHasChat
  BY DEF Chats!Init, Chats!OneDirect, Chats!OneDirectIn, Chats!Direct, Chats!SnapsOneDirect,
     Chats!OpenChatIsRead, Chats!MarkedHasChat
<1> QED
  BY <1>1, <1>2 DEF Chats!IInv

LEMMA ChatsFollowRouteInv == ASSUME Chats!IInv, Chats!FollowRoute PROVE Chats!IInv'
<1>1. /\ state' \in Chats!States /\ state'.convs = state.convs /\ Chats!OneDirectIn(state')
      /\ selected' \in Chats!AtMostOne(Chats!Ids)
      /\ chatsCrossed \/ selected' \cap state'.unread = {}
  BY ChatsMatchedFacts, ChatsSelectFacts DEF Chats!FollowRoute
<1>2. \A p : Chats!Direct(state', p) = Chats!Direct(state, p)
  BY <1>1 DEF Chats!Direct
<1>3. Chats!TypeOK' /\ Chats!OpenChatIsRead'
  BY <1>1 DEF Chats!FollowRoute, Chats!IInv, Chats!TypeOK, Chats!OpenChatIsRead
<1> QED
  BY <1>1, <1>2, <1>3, ChatsKeepsIInv DEF Chats!FollowRoute

LEMMA ChatsVisitInv == ASSUME Chats!IInv, NEW r \in Chats!Routes, Chats!Visit(r) PROVE Chats!IInv'
<1>1. Chats!TypeOK' /\ Chats!OpenChatIsRead' /\ Chats!OneDirectIn(state')
  BY DEF Chats!Visit, Chats!IInv, Chats!TypeOK, Chats!OpenChatIsRead, Chats!OneDirect
<1> QED
  BY <1>1, ChatsKeepsIInv DEF Chats!Visit

LEMMA ChatsClickInv == ASSUME Chats!IInv, NEW i \in Chats!Ids, Chats!Click(i) PROVE Chats!IInv'
<1>1. /\ state' \in Chats!States /\ state'.convs = state.convs /\ Chats!OneDirectIn(state')
      /\ selected' \in Chats!AtMostOne(Chats!Ids)
      /\ chatsCrossed \/ selected' \cap state'.unread = {}
  BY ChatsSelectFacts DEF Chats!Click, Chats!AtMostOne
<1>2. \A p : Chats!Direct(state', p) = Chats!Direct(state, p)
  BY <1>1 DEF Chats!Direct
<1>3. Chats!TypeOK' /\ Chats!OpenChatIsRead'
  BY <1>1 DEF Chats!Click, Chats!IInv, Chats!TypeOK, Chats!OpenChatIsRead, Chats!Routes
<1> QED
  BY <1>1, <1>2, <1>3, ChatsKeepsIInv DEF Chats!Click

\* A deletion notes whose chat goes away.
LEMMA ChatsDeleteInv == ASSUME Chats!IInv, NEW i \in Chats!Ids, Chats!Delete(i) PROVE Chats!IInv'
<1>1. state' \in Chats!States /\ state'.convs = state.convs \ {i} /\ state'.unread = state.unread \ {i}
  BY DEF Chats!IInv, Chats!TypeOK, Chats!Delete, Chats!States
<1>2. Chats!OneDirectIn(state')
  BY <1>1, ChatsFewerKeepsOne DEF Chats!IInv, Chats!OneDirect
<1>3. removed' \in SUBSET ChatPeers /\ removed \subseteq removed'
  BY DEF Chats!IInv, Chats!TypeOK, Chats!Delete, Chats!IsDirect, Chats!Ids
<1>4. selected' \in Chats!AtMostOne(Chats!Ids)
  BY DEF Chats!IInv, Chats!TypeOK, Chats!Delete, Chats!AtMostOne
<1>5. Chats!TypeOK' /\ Chats!OpenChatIsRead'
  BY <1>1, <1>3, <1>4 DEF Chats!Delete, Chats!IInv, Chats!TypeOK, Chats!OpenChatIsRead
<1>6. \A p : Chats!Direct(state, p) # {} => p \in removed' \/ Chats!Direct(state', p) # {}
  BY <1>1 DEF Chats!Direct, Chats!Delete
<1> QED
  BY <1>2, <1>3, <1>5, <1>6, ChatsKeepsIInv DEF Chats!Delete

\* A creation adds a chat only where there is none.
LEMMA ChatsAddFacts ==
  ASSUME NEW t \in Creations, NEW i \in Chats!Ids, NEW r \in Chats!Routes, Chats!IInv,
        Chats!Add(t, i, r),
         Chats!IsDirect(i) => Chats!Direct(state, i[1]) = {}
  PROVE  /\ state' \in Chats!States /\ Chats!OneDirectIn(state')
         /\ state'.convs = state.convs \cup {i} /\ state'.unread = state.unread
         /\ chatsTasks' \in [Creations -> {Chats!None} \cup [kind : {"saving"}, conv : Chats!Ids,
               next : Chats!Routes]]
<1>1. state' \in Chats!States /\ state'.convs = state.convs \cup {i} /\ state'.unread = state.unread
  BY DEF Chats!IInv, Chats!TypeOK, Chats!Add, Chats!States
<1>2. Chats!OneDirectIn(state')
  BY <1>1 DEF Chats!IInv, Chats!OneDirect, Chats!OneDirectIn, Chats!Direct
<1>3. chatsTasks' \in [Creations -> {Chats!None} \cup [kind : {"saving"}, conv : Chats!Ids,
      next : Chats!Routes]]
  BY DEF Chats!IInv, Chats!TypeOK, Chats!Add
<1> QED
  BY <1>1, <1>2, <1>3

LEMMA ChatsStartInv == ASSUME Chats!IInv, NEW t \in Creations, NEW p \in ChatPeers,
      Chats!Start(t, p) PROVE Chats!IInv'
<1>1. Chats!PeerPage(p) \in Chats!Routes /\ <<p, "ours">> \in Chats!Ids
  BY DEF Chats!Routes, Chats!Ids
<1>2. CASE Chats!Direct(state, p) # {}
  <2>1. PICK i \in Chats!Direct(state, p) : Chats!Select({i}, state)
    BY <1>2 DEF Chats!Start
  <2>2. {i} \in Chats!AtMostOne(Chats!Ids)
    BY DEF Chats!Direct, Chats!IInv, Chats!TypeOK, Chats!States, Chats!AtMostOne
  <2>3. /\ state' \in Chats!States /\ state'.convs = state.convs /\ Chats!OneDirectIn(state')
        /\ selected' \in Chats!AtMostOne(Chats!Ids)
        /\ chatsCrossed \/ selected' \cap state'.unread = {}
    BY <2>1, <2>2, ChatsSelectFacts
  <2>4. \A q : Chats!Direct(state', q) = Chats!Direct(state, q)
    BY <2>3 DEF Chats!Direct
  <2>5. Chats!TypeOK' /\ Chats!OpenChatIsRead'
    BY <1>1, <1>2, <2>3 DEF Chats!Start, Chats!IInv, Chats!TypeOK, Chats!OpenChatIsRead
  <2> QED
    BY <2>3, <2>4, <2>5, ChatsKeepsIInv DEF Chats!Start
<1>3. CASE Chats!Direct(state, p) = {}
  <2>1. Chats!Add(t, <<p, "ours">>, Chats!PeerPage(p)) /\ UNCHANGED <<selected, route, creating,
        chatsCalls, removed, chatsCrossed>>
    BY <1>3 DEF Chats!Start
  <2>2. /\ state' \in Chats!States /\ Chats!OneDirectIn(state')
        /\ state.convs \subseteq state'.convs /\ state'.unread = state.unread
        /\ chatsTasks' \in [Creations -> {Chats!None} \cup [kind : {"saving"}, conv : Chats!Ids,
              next : Chats!Routes]]
    BY <1>1, <1>3, <2>1, ChatsAddFacts
  <2>3. Chats!TypeOK' /\ Chats!OpenChatIsRead'
    BY <2>1, <2>2 DEF Chats!IInv, Chats!TypeOK, Chats!OpenChatIsRead
  <2> QED
    BY <2>1, <2>2, <2>3, ChatsMoreKeepsChats, ChatsKeepsIInv
<1> QED
  BY <1>2, <1>3

LEMMA ChatsStartGroupInv == ASSUME Chats!IInv, NEW t \in Creations, NEW g \in ChatGroups,
      Chats!StartGroup(t, g) PROVE Chats!IInv'
<1>1. <<g, "group">> \in Chats!Ids /\ ~Chats!IsDirect(<<g, "group">>)
      /\ Chats!ChatPage(<<g, "group">>) \in Chats!Routes
  BY DEF Chats!Ids, Chats!IsDirect, Chats!Routes
<1>2. /\ state' \in Chats!States /\ Chats!OneDirectIn(state')
      /\ state.convs \subseteq state'.convs /\ state'.unread = state.unread
      /\ chatsTasks' \in [Creations -> {Chats!None} \cup [kind : {"saving"}, conv : Chats!Ids,
            next : Chats!Routes]]
  BY <1>1, ChatsAddFacts DEF Chats!StartGroup
<1>3. Chats!TypeOK' /\ Chats!OpenChatIsRead'
  BY <1>2 DEF Chats!StartGroup, Chats!IInv, Chats!TypeOK, Chats!OpenChatIsRead
<1> QED
  BY <1>2, <1>3, ChatsMoreKeepsChats, ChatsKeepsIInv DEF Chats!StartGroup

\* The peer that is marked has the chat from then on.
LEMMA ChatsOpenLinkedInv == ASSUME Chats!IInv, NEW t \in Creations, Chats!OpenLinked(t) PROVE Chats!IInv'
<1>1. route.peer \in ChatPeers /\ route.at = "peer"
  BY DEF Chats!IInv, Chats!TypeOK, Chats!OpenLinked, Chats!Routes, Chats!Home, Chats!PeerPage,
     Chats!ChatPage
<1>2. Chats!Direct(state, route.peer) = {}
  BY <1>1 DEF Chats!OpenLinked, Chats!Matched
<1>3. <<route.peer, "ours">> \in Chats!Ids /\ Chats!Home \in Chats!Routes
  BY <1>1 DEF Chats!Ids, Chats!Routes
<1>4. /\ state' \in Chats!States /\ Chats!OneDirectIn(state')
      /\ state'.convs = state.convs \cup {<<route.peer, "ours">>} /\ state'.unread = state.unread
      /\ chatsTasks' \in [Creations -> {Chats!None} \cup [kind : {"saving"}, conv : Chats!Ids,
            next : Chats!Routes]]
  BY <1>2, <1>3, ChatsAddFacts DEF Chats!OpenLinked
<1>5. creating' = {route.peer} /\ Chats!Direct(state', route.peer) # {}
  BY <1>4 DEF Chats!OpenLinked, Chats!Direct, Chats!IsDirect
<1>6. Chats!TypeOK' /\ Chats!OpenChatIsRead'
  BY <1>1, <1>4 DEF Chats!OpenLinked, Chats!IInv, Chats!TypeOK, Chats!OpenChatIsRead,
     Chats!AtMostOne
<1> QED
  BY <1>4, <1>5, <1>6, ChatsKeepsIInv DEF Chats!OpenLinked

LEMMA ChatsCreatedInv == ASSUME Chats!IInv, NEW t \in Creations, Chats!Created(t) PROVE Chats!IInv'
<1>1. chatsTasks[t].conv \in Chats!Ids /\ chatsTasks[t].next \in Chats!Routes
  BY DEF Chats!IInv, Chats!TypeOK, Chats!Created
<1>2. /\ state' \in Chats!States /\ state'.convs = state.convs /\ Chats!OneDirectIn(state')
      /\ selected' \in Chats!AtMostOne(Chats!Ids)
      /\ chatsCrossed \/ selected' \cap state'.unread = {}
  BY <1>1, ChatsSelectFacts DEF Chats!Created, Chats!AtMostOne
<1>3. \A p : Chats!Direct(state', p) = Chats!Direct(state, p)
  BY <1>2 DEF Chats!Direct
<1>4. Chats!TypeOK' /\ Chats!OpenChatIsRead'
  BY <1>1, <1>2 DEF Chats!Created, Chats!IInv, Chats!TypeOK, Chats!OpenChatIsRead
<1> QED
  BY <1>2, <1>3, <1>4, ChatsKeepsIInv DEF Chats!Created

LEMMA ChatsCreateFailsInv == ASSUME Chats!IInv, NEW t \in Creations, Chats!CreateFails(t)
      PROVE Chats!IInv'
<1>1. Chats!TypeOK' /\ Chats!OpenChatIsRead' /\ Chats!OneDirectIn(state')
  BY DEF Chats!CreateFails, Chats!IInv, Chats!TypeOK, Chats!OpenChatIsRead, Chats!OneDirect
<1> QED
  BY <1>1, ChatsKeepsIInv DEF Chats!CreateFails

LEMMA ChatsReceiveInv == ASSUME Chats!IInv, NEW i \in Chats!Ids, Chats!Receive(i) PROVE Chats!IInv'
<1>1. /\ state' \in Chats!States /\ Chats!OneDirectIn(state') /\ state.convs \subseteq state'.convs
      /\ selected \cap state.unread = {} => selected \cap state'.unread = {}
  BY ChatsFiledFacts DEF Chats!IInv, Chats!TypeOK, Chats!OneDirect, Chats!Receive
<1>2. Chats!TypeOK' /\ Chats!OpenChatIsRead'
  BY <1>1 DEF Chats!Receive, Chats!IInv, Chats!TypeOK, Chats!OpenChatIsRead
<1> QED
  BY <1>1, <1>2, ChatsMoreKeepsChats, ChatsKeepsIInv DEF Chats!Receive

LEMMA ChatsDecryptInv == ASSUME Chats!IInv, NEW c \in Decryptions, NEW i \in Chats!Ids,
      Chats!Decrypt(c, i) PROVE Chats!IInv'
<1>1. Chats!TypeOK' /\ Chats!OpenChatIsRead' /\ Chats!OneDirectIn(state')
  BY DEF Chats!Decrypt, Chats!IInv, Chats!TypeOK, Chats!OpenChatIsRead, Chats!OneDirect
<1>2. \A d \in Decryptions : chatsCalls'[d] # Chats!None => chatsCalls'[d] = chatsCalls[d]
      \/ Chats!OneDirectIn(chatsCalls'[d].snap)
  BY DEF Chats!Decrypt, Chats!IInv, Chats!TypeOK, Chats!OneDirect
<1> QED
  BY <1>1, <1>2, ChatsKeepsIInv DEF Chats!Decrypt

\* What an old state brings back or takes away is noted.
LEMMA ChatsDecryptedInv == ASSUME Chats!IInv, NEW c \in Decryptions, Chats!Decrypted(c) PROVE Chats!IInv'
<1> DEFINE old == chatsCalls[c].snap
<1>1. chatsCalls[c] # Chats!None /\ chatsCalls[c].id \in Chats!Ids /\ old \in Chats!States
      /\ Chats!OneDirectIn(old)
  BY DEF Chats!IInv, Chats!TypeOK, Chats!SnapsOneDirect, Chats!Decrypted
<1>2. state' = Chats!Filed(old, chatsCalls[c].id)
  BY DEF Chats!Decrypted
<1>3. /\ state' \in Chats!States /\ Chats!OneDirectIn(state')
      /\ selected \cap old.unread = {} => selected \cap state'.unread = {}
  BY <1>1, <1>2, ChatsFiledFacts DEF Chats!IInv
<1>4. Chats!OpenChatIsRead'
  BY <1>3 DEF Chats!Decrypted, Chats!IInv, Chats!OpenChatIsRead
<1>5. Chats!TypeOK'
  BY <1>3 DEF Chats!Decrypted, Chats!IInv, Chats!TypeOK
<1>6. \A d \in Decryptions : chatsCalls'[d] # Chats!None => chatsCalls'[d] = chatsCalls[d]
  BY DEF Chats!Decrypted, Chats!IInv, Chats!TypeOK
<1>7. \A p \in ChatPeers : Chats!Direct(state, p) # {} => p \in removed' \/ Chats!Direct(state', p) # {}
  BY DEF Chats!Decrypted
<1>8. creating' = creating /\ creating \subseteq ChatPeers /\ removed \subseteq removed'
  BY DEF Chats!Decrypted, Chats!IInv, Chats!TypeOK, Chats!AtMostOne
<1> QED
  BY <1>3, <1>4, <1>5, <1>6, <1>7, <1>8, ChatsKeepsIInv

LEMMA ChatsNextInv == Chats!IInv /\ [Chats!Next]_(Chats!vars) => Chats!IInv'
<1> SUFFICES ASSUME Chats!IInv, [Chats!Next]_(Chats!vars) PROVE Chats!IInv'
  OBVIOUS
<1>1. CASE UNCHANGED Chats!vars
  BY <1>1 DEF Chats!IInv, Chats!TypeOK, Chats!OneDirect, Chats!OneDirectIn, Chats!Direct,
     Chats!SnapsOneDirect, Chats!OpenChatIsRead,
     Chats!MarkedHasChat, Chats!vars
<1>2. CASE Chats!Next
  BY <1>2, ChatsFollowRouteInv, ChatsVisitInv, ChatsClickInv, ChatsDeleteInv, ChatsStartInv,
     ChatsStartGroupInv,
     ChatsOpenLinkedInv, ChatsCreatedInv, ChatsCreateFailsInv, ChatsReceiveInv, ChatsDecryptInv,
     ChatsDecryptedInv DEF Chats!Next
<1> QED
  BY <1>1, <1>2

\* A page that waits for a creation has a mark whose chat went away.
LEMMA ChatsLinkFacts == Chats!IInv => Chats!LinkOpensChat
  BY DEF Chats!IInv, Chats!LinkOpensChat, Chats!MarkedHasChat, Chats!Matched

-----------------------------------------------------------------------------
\* ContactBook.

BookGood(c, heard) == c.confirmed => (c.moved \/ <<c.peer, c.ens>> \in heard)

LEMMA BookGoodContacts ==
  ASSUME NEW heard, contacts' \in SUBSET Book!Contacts, \A c \in contacts' : BookGood(c, heard),
         heard \subseteq echoed'
  PROVE  Book!LabelIsEchoed'
  BY DEF Book!LabelIsEchoed, Book!Echoed, BookGood

LEMMA BookMergedIsGood ==
  ASSUME NEW c \in Book!Contacts, NEW p \in BookPeers, NEW n \in Book!Labels, BookGood(c, echoed)
  PROVE  Book!Merged(c, p, n) \in Book!Contacts /\ BookGood(Book!Merged(c, p, n), echoed)
<1> DEFINE ens == IF n = Book!NoName THEN c.ens ELSE n
<1>1. ens \in Book!Labels /\ c.peer \in BookPeers /\ c.ens \in Book!Labels /\ c.id \in BookPeers
      /\ c.confirmed \in BOOLEAN /\ c.moved \in BOOLEAN
  BY DEF Book!Contacts
<1>2. Book!Merged(c, p, n) =
        [id |-> c.id, peer |-> p, ens |-> ens, confirmed |-> c.confirmed,
         moved |-> (c.moved \/ <<p, ens>> # <<c.peer, c.ens>>)]
  BY DEF Book!Merged, Book!Contact
<1> HIDE DEF ens
<1>3. (c.moved \/ <<p, ens>> # <<c.peer, c.ens>>) \in BOOLEAN
  OBVIOUS
<1>4. Book!Merged(c, p, n) \in Book!Contacts
  BY <1>1, <1>2, <1>3 DEF Book!Contacts
<1> DEFINE m == Book!Merged(c, p, n)
<1>5. /\ m.confirmed = c.confirmed /\ m.peer = p /\ m.ens = ens
      /\ m.moved = (c.moved \/ <<p, ens>> # <<c.peer, c.ens>>)
  BY <1>2
<1> HIDE DEF m
<1>6. ASSUME <<p, ens>> = <<c.peer, c.ens>> PROVE BookGood(m, echoed)
  <2>1. m.peer = c.peer /\ m.ens = c.ens /\ m.moved = c.moved
    BY <1>1, <1>5, <1>6
  <2> QED
    BY <1>5, <2>1 DEF BookGood
<1>7. ASSUME <<p, ens>> # <<c.peer, c.ens>> PROVE BookGood(m, echoed)
  <2>1. m.moved = TRUE
    BY <1>5, <1>7
  <2> QED
    BY <2>1 DEF BookGood
<1>8. BookGood(m, echoed)
  BY <1>6, <1>7
<1> QED
  BY <1>4, <1>8 DEF m

LEMMA BookUpdatedIsGood ==
  ASSUME Book!TypeOK, NEW c \in Book!Contacts, NEW n \in Book!Labels, BookGood(c, echoed)
  PROVE  /\ Book!Updated(c, n) \in Book!Contacts
         /\ BookGood(Book!Updated(c, n), IF n = Book!NoName THEN echoed ELSE echoed \cup {<<c.peer, n>>})
<1>1. CASE n = Book!NoName
  BY <1>1 DEF Book!Updated, BookGood
<1>2. CASE n # Book!NoName
  <2>1. Book!Updated(c, n) = [id |-> c.id, peer |-> c.peer, ens |-> n,
                              confirmed |-> (IF c.ens = Book!NoName THEN c.confirmed ELSE c.ens = n),
                              moved |-> FALSE]
    BY <1>2 DEF Book!Updated, Book!Contact
  <2>2. (IF c.ens = Book!NoName THEN c.confirmed ELSE c.ens = n) \in BOOLEAN
    BY DEF Book!Contacts
  <2>3. Book!Updated(c, n) \in Book!Contacts
    BY <2>1, <2>2 DEF Book!Contacts
  <2> QED
    BY <1>2, <2>1, <2>3 DEF BookGood
<1> QED
  BY <1>1, <1>2

LEMMA BookSaveInv ==
  ASSUME Book!IInv, NEW i \in BookPeers, NEW p \in BookPeers, NEW n \in Book!Labels,
        Book!Save(i, p, n), echoed' = echoed
  PROVE  contacts' \in SUBSET Book!Contacts /\ Book!LabelIsEchoed'
<1>1. contacts \in SUBSET Book!Contacts /\ \A c \in contacts : BookGood(c, echoed)
  BY DEF Book!IInv, Book!TypeOK, Book!LabelIsEchoed, Book!Echoed, BookGood
<1>2. CASE Book!WithId(i) = {} /\ contacts' = contacts \cup {Book!Contact(i, p, n, FALSE, FALSE)}
  <2>1. Book!Contact(i, p, n, FALSE, FALSE) \in Book!Contacts
        /\ BookGood(Book!Contact(i, p, n, FALSE, FALSE), echoed)
    BY DEF Book!Contact, Book!Contacts, BookGood
  <2> QED
    BY <1>1, <1>2, <2>1, BookGoodContacts
<1>3. CASE \E c \in Book!WithId(i) : contacts' = (contacts \ Book!WithId(i)) \cup {Book!Merged(c, p, n)}
  <2>1. PICK c \in Book!WithId(i) : contacts' = (contacts \ Book!WithId(i)) \cup {Book!Merged(c, p, n)}
    BY <1>3
  <2>2. c \in Book!Contacts /\ BookGood(c, echoed)
    BY <1>1 DEF Book!WithId
  <2>3. Book!Merged(c, p, n) \in Book!Contacts /\ BookGood(Book!Merged(c, p, n), echoed)
    BY <2>2, BookMergedIsGood
  <2> QED
    BY <1>1, <2>1, <2>3, BookGoodContacts
<1> QED
  BY <1>2, <1>3 DEF Book!Save

LEMMA BookSameInv ==
  ASSUME Book!IInv, contacts' \subseteq contacts, echoed' = echoed, chats' \in SUBSET BookPeers,
         marker' \in Book!AtMostOne(BookPeers \X BookNames)
  PROVE  Book!IInv'
  BY DEF Book!IInv, Book!TypeOK, Book!LabelIsEchoed, Book!Echoed

LEMMA BookEditInv == ASSUME Book!IInv, NEW i \in BookPeers, NEW p \in BookPeers,
      NEW n \in Book!Labels, Book!Edit(i, p, n) PROVE Book!IInv'
  BY BookSaveInv DEF Book!Edit, Book!IInv, Book!TypeOK

LEMMA BookStartChatInv == ASSUME Book!IInv, NEW p \in BookPeers, NEW n \in Book!Labels,
      Book!StartChat(p, n) PROVE Book!IInv'
<1>1. chats' \in SUBSET BookPeers /\ echoed' = echoed /\ marker' \in Book!AtMostOne(BookPeers \X BookNames)
  BY DEF Book!StartChat, Book!IInv, Book!TypeOK
<1>2. CASE n = Book!NoName
  BY <1>1, <1>2, BookSameInv DEF Book!StartChat
<1>3. CASE n # Book!NoName
  BY <1>1, <1>3, BookSaveInv DEF Book!StartChat, Book!IInv, Book!TypeOK
<1> QED
  BY <1>2, <1>3

LEMMA BookArriveInv == ASSUME Book!IInv, NEW p \in BookPeers, NEW n \in BookNames,
      Book!Arrive(p, n) PROVE Book!IInv'
<1>1. /\ chats' \in SUBSET BookPeers /\ echoed' = echoed /\ n \in Book!Labels
      /\ marker' \in Book!AtMostOne(BookPeers \X BookNames)
  BY DEF Book!Arrive, Book!IInv, Book!TypeOK, Book!Labels, Book!AtMostOne
<1>2. CASE <<p, n>> \in marker
  BY <1>1, <1>2, BookSameInv DEF Book!Arrive
<1>3. CASE <<p, n>> \notin marker
  BY <1>1, <1>3, BookSaveInv DEF Book!Arrive, Book!IInv, Book!TypeOK
<1> QED
  BY <1>2, <1>3

LEMMA BookProfileInv == ASSUME Book!IInv, NEW p \in BookPeers, NEW n \in Book!Labels,
      Book!Profile(p, n) PROVE Book!IInv'
<1> DEFINE heard == IF n = Book!NoName THEN echoed ELSE echoed \cup {<<p, n>>}
<1>1. echoed' = heard /\ chats' = chats /\ marker' = marker
  BY DEF Book!Profile
<1>2. contacts \in SUBSET Book!Contacts /\ \A c \in contacts : BookGood(c, echoed)
  BY DEF Book!IInv, Book!TypeOK, Book!LabelIsEchoed, Book!Echoed, BookGood
<1>3. heard \in SUBSET (BookPeers \X BookNames) /\ echoed \subseteq heard
  BY DEF Book!IInv, Book!TypeOK, Book!Labels
<1>4. \A c \in contacts : BookGood(c, heard)
  BY <1>2, <1>3 DEF BookGood
<1>5. CASE Book!Of(p) = {} /\ contacts' = contacts \cup {Book!Contact(p, p, n, FALSE, FALSE)}
  <2>1. Book!Contact(p, p, n, FALSE, FALSE) \in Book!Contacts
        /\ BookGood(Book!Contact(p, p, n, FALSE, FALSE), heard)
    BY DEF Book!Contact, Book!Contacts, BookGood
  <2> HIDE DEF heard
  <2> QED
    BY <1>1, <1>2, <1>3, <1>4, <1>5, <2>1, BookGoodContacts DEF Book!IInv, Book!TypeOK
<1>6. CASE contacts' = contacts
  <2> HIDE DEF heard
  <2> QED
    BY <1>1, <1>2, <1>3, <1>4, <1>6, BookGoodContacts DEF Book!IInv, Book!TypeOK
<1>7. CASE contacts' = (contacts \ Book!Of(p)) \cup {Book!Updated(d, n) : d \in Book!Of(p)}
  <2>1. \A d \in Book!Of(p) : Book!Updated(d, n) \in Book!Contacts /\ BookGood(Book!Updated(d, n), heard)
    <3> SUFFICES ASSUME NEW d \in Book!Of(p) PROVE Book!Updated(d, n) \in Book!Contacts
          /\ BookGood(Book!Updated(d, n), heard)
      OBVIOUS
    <3>1. d \in Book!Contacts /\ BookGood(d, echoed) /\ d.peer = p
      BY <1>2 DEF Book!Of
    <3> QED
      BY <3>1, BookUpdatedIsGood DEF Book!IInv
  <2> HIDE DEF heard
  <2> QED
    BY <1>1, <1>2, <1>3, <1>4, <1>7, <2>1, BookGoodContacts DEF Book!IInv, Book!TypeOK
<1>8. \/ Book!Of(p) = {} /\ contacts' = contacts \cup {Book!Contact(p, p, n, FALSE, FALSE)}
      \/ contacts' = contacts
      \/ contacts' = (contacts \ Book!Of(p)) \cup {Book!Updated(d, n) : d \in Book!Of(p)}
  BY DEF Book!Profile
<1> QED
  BY <1>5, <1>6, <1>7, <1>8

LEMMA BookNextInv == Book!IInv /\ [Book!Next]_(Book!vars) => Book!IInv'
<1> SUFFICES ASSUME Book!IInv, [Book!Next]_(Book!vars) PROVE Book!IInv'
  OBVIOUS
<1>1. CASE UNCHANGED Book!vars
  BY <1>1, BookSameInv DEF Book!vars, Book!IInv, Book!TypeOK
<1>2. CASE \E p \in BookPeers : Book!Delete(p) \/ Book!DeleteChat(p)
  BY <1>2, BookSameInv DEF Book!Delete, Book!DeleteChat, Book!IInv, Book!TypeOK
<1>3. CASE \E p \in BookPeers : \E n \in BookNames : Book!Arrive(p, n)
  BY <1>3, BookArriveInv
<1>4. CASE \E p \in BookPeers : \E n \in Book!Labels : Book!StartChat(p, n) \/ Book!Profile(p, n)
      \/ \E i \in BookPeers : Book!Edit(i, p, n)
  BY <1>4, BookStartChatInv, BookProfileInv, BookEditInv
<1> QED
  BY <1>1, <1>2, <1>3, <1>4 DEF Book!Next

LEMMA BookInitInv == Book!Init => Book!IInv
  BY DEF Book!Init, Book!IInv, Book!TypeOK, Book!LabelIsEchoed, Book!AtMostOne

\* A confirmed label was named by the peer's own profile, or moved since, for
\* any peers and names.
THEOREM BookLabelIsEchoedHolds == Book!Spec => []Book!LabelIsEchoed
<1>1. Book!IInv => Book!LabelIsEchoed
  BY DEF Book!IInv
<1> QED
  BY BookInitInv, BookNextInv, <1>1, PTL DEF Book!Spec

-----------------------------------------------------------------------------
\* GroupTopics.

\* The effect leaves the old group, joins the next, and touches nothing else.
LEMMA TopicsRerunInv ==
  ASSUME Topics!IInv, NEW next \in Topics!AtMostOne, Topics!Rerun(next), topicsOpen' = next,
        topicsNode' = topicsNode,
         late' = (IF topicsNode = "stopping" THEN late \cup (active' \ active) ELSE late) \cap active',
         missed' \in BOOLEAN, topicsNode # "off", next = topicsOpen => missed'
  PROVE  Topics!IInv'
<1>1. next \in SUBSET TopicNames /\ topicsOpen \in SUBSET TopicNames
  BY DEF Topics!IInv, Topics!TypeOK, Topics!AtMostOne
<1>2. Topics!TypeOK'
  BY <1>1 DEF Topics!IInv, Topics!TypeOK, Topics!Rerun
<1>3. ASSUME topicsNode = "up"
      PROVE  /\ sub' \subseteq active'
             /\ active' \ sub' \subseteq late'
             /\ topicsOpen' \subseteq sub' \/ missed' \/ topicsOpen' \subseteq late'
  <2>1. sub \subseteq active /\ active \ sub \subseteq late
    BY <1>3 DEF Topics!IInv, Topics!OpenGroupIsHeard
  <2>2. late' = late \cap active'
    BY <1>3
  <2>3. sub' \subseteq active' /\ active' \ sub' \subseteq late'
    BY <2>1, <2>2 DEF Topics!Rerun
  <2>4. CASE next = topicsOpen
    BY <2>4, <2>3
  <2>5. CASE next # topicsOpen /\ next \cap topicsOpen = {}
    BY <2>1, <2>2, <2>3, <2>5 DEF Topics!Rerun, Topics!AtMostOne
  <2>6. next = topicsOpen \/ next \cap topicsOpen = {}
    BY DEF Topics!IInv, Topics!TypeOK, Topics!AtMostOne
  <2> QED
    BY <2>3, <2>4, <2>5, <2>6
<1> QED
  BY <1>2, <1>3 DEF Topics!IInv, Topics!OpenGroupIsHeard

LEMMA TopicsSelectInv ==
  ASSUME Topics!IInv, NEW next \in Topics!AtMostOne, Topics!Select(next), missed' \in BOOLEAN,
         next = topicsOpen /\ topicsNode # "off" => missed'
  PROVE  Topics!IInv'
<1>1. CASE topicsNode # "off" /\ Topics!Rerun(next)
  BY <1>1, TopicsRerunInv DEF Topics!Select
<1>2. CASE topicsNode # "up" /\ UNCHANGED <<sub, active>>
  <2>1. Topics!TypeOK'
    BY <1>2 DEF Topics!Select, Topics!IInv, Topics!TypeOK
  <2> QED
    BY <1>2, <2>1 DEF Topics!Select, Topics!IInv, Topics!OpenGroupIsHeard
<1> QED
  BY <1>1, <1>2 DEF Topics!Select, Topics!IInv, Topics!TypeOK

LEMMA TopicsNextInv == Topics!IInv /\ [Topics!Next]_(Topics!vars) => Topics!IInv'
<1> SUFFICES ASSUME Topics!IInv, [Topics!Next]_(Topics!vars) PROVE Topics!IInv'
  OBVIOUS
<1>1. ASSUME NEW next \in Topics!AtMostOne, Topics!Open(next) PROVE Topics!IInv'
  BY <1>1, TopicsSelectInv DEF Topics!Open
<1>2. CASE Topics!Change
  <2>1. topicsOpen \in Topics!AtMostOne /\ missed' \in BOOLEAN
    BY <1>2 DEF Topics!Change, Topics!IInv, Topics!TypeOK
  <2> QED
    BY <1>2, <2>1, TopicsSelectInv DEF Topics!Change
<1>3. ASSUME NEW t \in TopicNames, Topics!Publish(t) PROVE Topics!IInv'
  <2>1. Topics!TypeOK'
    BY <1>3 DEF Topics!Publish, Topics!IInv, Topics!TypeOK
  <2> QED
    BY <1>3, <2>1 DEF Topics!Publish, Topics!IInv, Topics!TypeOK, Topics!OpenGroupIsHeard
<1>4. CASE Topics!Start
  <2>1. topicsOpen \in SUBSET TopicNames /\ (topicsOpen \cap active = {} \/ topicsOpen \subseteq active)
    BY DEF Topics!IInv, Topics!TypeOK, Topics!AtMostOne
  <2>2. Topics!TypeOK'
    BY <1>4, <2>1 DEF Topics!Start, Topics!IInv, Topics!TypeOK
  <2> QED
    BY <1>4, <2>1, <2>2 DEF Topics!Start, Topics!IInv, Topics!TypeOK, Topics!OpenGroupIsHeard
<1>5. CASE Topics!Stop
  BY <1>5 DEF Topics!Stop, Topics!IInv, Topics!TypeOK, Topics!OpenGroupIsHeard
<1>6. CASE Topics!Stopped
  <2>1. topicsOpen \in SUBSET TopicNames
    BY DEF Topics!IInv, Topics!TypeOK, Topics!AtMostOne
  <2>2. Topics!TypeOK'
    BY <1>6, <2>1 DEF Topics!Stopped, Topics!IInv, Topics!TypeOK
  <2> QED
    BY <1>6, <2>2 DEF Topics!Stopped, Topics!IInv, Topics!OpenGroupIsHeard
<1>7. CASE UNCHANGED Topics!vars
  BY <1>7 DEF Topics!vars, Topics!IInv, Topics!TypeOK, Topics!OpenGroupIsHeard
<1> QED
  BY <1>1, <1>2, <1>3, <1>4, <1>5, <1>6, <1>7 DEF Topics!Next

LEMMA TopicsInitInv == Topics!Init => Topics!IInv
  BY DEF Topics!Init, Topics!IInv, Topics!TypeOK, Topics!OpenGroupIsHeard, Topics!AtMostOne

-----------------------------------------------------------------------------
\* PeerDialing.

\* The module counts as FiniteSets does.
LEMMA DialingCounts == \A S : (Dialing!IsFiniteSet(S) <=> IsFiniteSet(S))
      /\ Dialing!Cardinality(S) = Cardinality(S)
<1>1. \A S : Dialing!IsFiniteSet(S) <=> IsFiniteSet(S)
  BY DEF Dialing!IsFiniteSet, IsFiniteSet
<1>2. \A S : Dialing!Cardinality(S) = Cardinality(S)
  BY Zenon DEF Dialing!Cardinality, Cardinality
<1> QED
  BY <1>1, <1>2

LEMMA DialingNotIdle ==
  /\ [at |-> "dialing"] # Dialing!Idle
  /\ \A x : x.at = "closing" => x # Dialing!Idle
<1>1. Dialing!Idle.at = "idle" /\ [at |-> "dialing"].at = "dialing"
  BY DEF Dialing!Idle
<1> QED
  BY <1>1

\* One upgrade takes a step and goes on, or is over.
LEMMA DialingRunningMoves ==
  ASSUME Dialing!UpgradeOnRecord, NEW u \in Upgrades, NEW x, upgrades' = [upgrades EXCEPT ![u] = x]
  PROVE  /\ DOMAIN upgrades' = Upgrades
         /\ upgrades'[u] = x /\ \A v \in Upgrades \ {u} : upgrades'[v] = upgrades[v]
         /\ Dialing!Running' = IF x = Dialing!Idle THEN Dialing!Running \ {u} ELSE Dialing!Running \cup {u}
<1>1. /\ DOMAIN upgrades' = Upgrades
      /\ upgrades'[u] = x /\ \A v \in Upgrades \ {u} : upgrades'[v] = upgrades[v]
  BY DEF Dialing!UpgradeOnRecord
<1>2. Dialing!Running' = IF x = Dialing!Idle THEN Dialing!Running \ {u} ELSE Dialing!Running \cup {u}
  BY <1>1 DEF Dialing!Running
<1> QED
  BY <1>1, <1>2

\* A step that moves no upgrade and takes no record away that one needs.
LEMMA DialingUpgradesStay ==
  ASSUME Dialing!UpgradeOnRecord, upgrades' = upgrades, cleared'
        \/ (~cleared /\ (Dialing!Running # {} /\ recent => recent'))
  PROVE  Dialing!UpgradeOnRecord'
<1>1. Dialing!Running' = Dialing!Running
  BY DEF Dialing!Running
<1> QED
  BY <1>1 DEF Dialing!UpgradeOnRecord

\* An upgrade starts only if none is on record.
LEMMA DialingStartKeeps ==
  ASSUME Dialing!UpgradeOnRecord, Dialing!StartUpgrade, cleared' = cleared
  PROVE  Dialing!UpgradeOnRecord'
<1>1. CASE recent
  <2>1. recent' = recent /\ upgrades' = upgrades
    BY <1>1 DEF Dialing!StartUpgrade
  <2> QED
    BY <2>1, DialingUpgradesStay
<1>2. CASE ~recent
  <2> DEFINE x == [at |-> "closing", todo |-> Dialing!LimitedOnes]
  <2>1. PICK u \in Upgrades : upgrades[u] = Dialing!Idle /\ recent' = TRUE
        /\ upgrades' = [upgrades EXCEPT ![u] = x]
    BY <1>2 DEF Dialing!StartUpgrade
  <2>2. x.at = "closing" /\ DOMAIN x = {"at", "todo"} /\ x # Dialing!Idle
    <3>1. x.at = "closing" /\ DOMAIN x = {"at", "todo"}
      OBVIOUS
    <3> QED
      BY <3>1, DialingNotIdle
  <2> HIDE DEF x
  <2>3. /\ DOMAIN upgrades' = Upgrades
        /\ upgrades'[u] = x /\ \A v \in Upgrades \ {u} : upgrades'[v] = upgrades[v]
        /\ Dialing!Running' = Dialing!Running \cup {u}
    BY <2>1, <2>2, DialingRunningMoves
  <2>4. ~cleared => Dialing!Running = {}
    BY <1>2 DEF Dialing!UpgradeOnRecord
  <2>5. \A v \in Dialing!Running' : upgrades'[v] = [at |-> "dialing"]
                                    \/ (upgrades'[v].at = "closing"
                                          /\ DOMAIN upgrades'[v] = {"at", "todo"})
    BY <2>2, <2>3 DEF Dialing!UpgradeOnRecord, Dialing!Running
  <2> QED
    BY <2>1, <2>3, <2>4, <2>5 DEF Dialing!UpgradeOnRecord
<1> QED
  BY <1>1, <1>2

\* The record that an upgrade leaves behind is needed by none but itself.
LEMMA DialingEndKeeps ==
  ASSUME Dialing!UpgradeOnRecord, NEW u \in Dialing!Running, NEW direct \in BOOLEAN,
        Dialing!EndUpgrade(u, direct)
  PROVE  Dialing!UpgradeOnRecord'
<1>1. /\ upgrades' = [upgrades EXCEPT ![u] = Dialing!Idle]
      /\ recent' = (recent /\ ~direct) /\ cleared' = (Dialing!Running # {u} /\ (cleared \/ direct))
  BY DEF Dialing!EndUpgrade
<1>2. u \in Upgrades
  BY DEF Dialing!Running
<1>3. /\ DOMAIN upgrades' = Upgrades
      /\ \A v \in Upgrades \ {u} : upgrades'[v] = upgrades[v]
      /\ Dialing!Running' = Dialing!Running \ {u}
  BY <1>1, <1>2, DialingRunningMoves
<1>4. Dialing!Running \subseteq Upgrades
  BY DEF Dialing!Running
<1>5. \A v \in Dialing!Running' : upgrades'[v] = [at |-> "dialing"]
                                  \/ (upgrades'[v].at = "closing"
                                        /\ DOMAIN upgrades'[v] = {"at", "todo"})
  BY <1>3, <1>4 DEF Dialing!UpgradeOnRecord
<1>6. ~cleared' => (\A v, w \in Dialing!Running' : v = w) /\ (Dialing!Running' # {} => recent')
  <2>1. CASE Dialing!Running = {u}
    BY <2>1, <1>3
  <2>2. CASE ~cleared /\ ~direct
    BY <2>2, <1>1, <1>3 DEF Dialing!UpgradeOnRecord
  <2> QED
    BY <1>1, <2>1, <2>2
<1> QED
  BY <1>3, <1>5, <1>6 DEF Dialing!UpgradeOnRecord

\* What concerns a profile leaves the connections, sends and upgrades alone.
DialingAsks ==
    \/ Dialing!InboundStream \/ Dialing!RequestProfile
    \/ \E answered \in BOOLEAN : Dialing!ProfileReturns(answered) \/ Dialing!RequestReturns(answered)

LEMMA DialingAsksOnly ==
    ASSUME DialingAsks
    PROVE  /\ UNCHANGED <<dialingConns, redial, cooldown, dialingSends, recent, cleared, upgrades, byId>>
           /\ profile' \in {profile, "unasked", "asking", "known"}
<1>1. CASE Dialing!InboundStream
  BY <1>1 DEF Dialing!InboundStream
<1>2. CASE Dialing!RequestProfile
  BY <1>2 DEF Dialing!RequestProfile
<1>3. ASSUME NEW answered \in BOOLEAN, Dialing!ProfileReturns(answered) \/ Dialing!RequestReturns(answered)
      PROVE  /\ UNCHANGED <<dialingConns, redial, cooldown, dialingSends, recent, cleared, upgrades, byId>>
             /\ profile' \in {profile, "unasked", "asking", "known"}
  BY <1>3 DEF Dialing!ProfileReturns, Dialing!RequestReturns
<1> QED
  BY <1>1, <1>2, <1>3 DEF DialingAsks

\* The profile is handed over as it gets known, or to a request that returns.
LEMMA DialingAsksCounted ==
    ASSUME Dialing!ProfileCounted, DialingAsks
    PROVE  Dialing!ProfileCounted'
<1>0. /\ requested \in Nat /\ awaited \in Nat /\ emitted \in Nat /\ awaited <= requested
      /\ emitted <= (IF profile = "known" THEN 1 ELSE 0) + (requested - awaited)
  BY DEF Dialing!ProfileCounted
<1>1. CASE Dialing!InboundStream
  BY <1>0, <1>1 DEF Dialing!InboundStream, Dialing!requests, Dialing!ProfileCounted
<1>2. CASE Dialing!RequestProfile
  BY <1>0, <1>2 DEF Dialing!RequestProfile, Dialing!ProfileCounted
<1>3. ASSUME NEW answered \in BOOLEAN, Dialing!ProfileReturns(answered)
      PROVE  Dialing!ProfileCounted'
  BY <1>0, <1>3 DEF Dialing!ProfileReturns, Dialing!ProfileCounted
<1>4. ASSUME NEW answered \in BOOLEAN, Dialing!RequestReturns(answered)
      PROVE  Dialing!ProfileCounted'
  BY <1>0, <1>4 DEF Dialing!RequestReturns, Dialing!ProfileCounted
<1> QED
  BY <1>1, <1>2, <1>3, <1>4 DEF DialingAsks

LEMMA DialingEffortNext == Dialing!EffortInv /\ [Dialing!Next]_(Dialing!vars) => Dialing!EffortInv'
<1> SUFFICES ASSUME Dialing!EffortInv, [Dialing!Next]_(Dialing!vars) PROVE Dialing!EffortInv'
  OBVIOUS
<1>t. Dialing!UpgradeOnRecord /\ Dialing!ProfileCounted
  BY DEF Dialing!EffortInv
\* The profile.
<1>o. ASSUME NEW c, Dialing!Opened(c) \/ UNCHANGED profile, UNCHANGED Dialing!requests
      PROVE Dialing!ProfileCounted'
  BY <1>o, <1>t DEF Dialing!Opened, Dialing!requests, Dialing!ProfileCounted
<1>d. \A c : Dialing!Dialed(c) => Dialing!Opened(c) \/ UNCHANGED profile
  BY DEF Dialing!Dialed
<1>1. CASE Dialing!Connect
  <2>1. PICK c \in Dialing!Fresh : Dialing!Opened(c)
    BY <1>1 DEF Dialing!Connect
  <2>2. UNCHANGED <<recent, cleared, upgrades, Dialing!requests>>
    BY <1>1 DEF Dialing!Connect
  <2> QED
    BY <2>1, <2>2, <1>o, <1>t, DialingUpgradesStay DEF Dialing!EffortInv
<1>2. ASSUME NEW c \in Dialing!ToSet(dialingConns), Dialing!Lose(c) PROVE Dialing!EffortInv'
  <2>1. UNCHANGED <<recent, cleared, upgrades, Dialing!requests, profile>>
    BY <1>2 DEF Dialing!Lose
  <2> QED
    BY <2>1, <1>o, <1>t, DialingUpgradesStay DEF Dialing!EffortInv
<1>3. CASE DialingAsks
  <2>1. Dialing!ProfileCounted'
    BY <1>3, <1>t, DialingAsksCounted
  <2>2. UNCHANGED <<recent, cleared, upgrades>>
    BY <1>3, DialingAsksOnly
  <2> QED
    BY <2>1, <2>2, <1>t, DialingUpgradesStay DEF Dialing!EffortInv
<1>4. CASE Dialing!RedialConnects
  <2>1. PICK c \in Dialing!Conn : Dialing!Dialed(c)
    BY <1>4 DEF Dialing!RedialConnects
  <2>2. UNCHANGED <<recent, cleared, upgrades, Dialing!requests>>
    BY <1>4 DEF Dialing!RedialConnects
  <2> QED
    BY <2>1, <2>2, <1>d, <1>o, <1>t, DialingUpgradesStay DEF Dialing!EffortInv
<1>5. CASE Dialing!RedialFails \/ Dialing!CooldownPasses
  <2>1. UNCHANGED <<recent, cleared, upgrades, Dialing!requests, profile>>
    BY <1>5 DEF Dialing!RedialFails, Dialing!CooldownPasses
  <2> QED
    BY <2>1, <1>o, <1>t, DialingUpgradesStay DEF Dialing!EffortInv
<1>6. CASE Dialing!RetryDelayPasses
  <2>1. Dialing!Running = {} /\ UNCHANGED <<cleared, upgrades, Dialing!requests, profile>>
    BY <1>6 DEF Dialing!RetryDelayPasses
  <2> QED
    BY <2>1, <1>o, <1>t, DialingUpgradesStay DEF Dialing!EffortInv
<1>7. ASSUME NEW s \in Sends, Dialing!Send(s) \/ Dialing!WriteFails(s) PROVE Dialing!EffortInv'
  <2>1. UNCHANGED <<recent, cleared, upgrades, Dialing!requests, profile>>
    BY <1>7 DEF Dialing!Send, Dialing!WriteFails
  <2> QED
    BY <2>1, <1>o, <1>t, DialingUpgradesStay DEF Dialing!EffortInv
<1>8. ASSUME NEW s \in Sends, Dialing!Written(s) PROVE Dialing!EffortInv'
  <2>1. /\ recent' = (recent /\ dialingSends[s].conn.limited)
        /\ cleared' = (cleared \/ (Dialing!Running # {} /\ ~dialingSends[s].conn.limited))
        /\ UNCHANGED <<upgrades, Dialing!requests, profile>>
    BY <1>8 DEF Dialing!Written
  <2>2. cleared' \/ (~cleared /\ (Dialing!Running # {} /\ recent => recent'))
    BY <2>1
  <2> QED
    BY <2>1, <2>2, <1>o, <1>t, DialingUpgradesStay DEF Dialing!EffortInv
<1>9. ASSUME NEW s \in Sends, Dialing!Refused(s) PROVE Dialing!EffortInv'
  <2>1. Dialing!StartUpgrade /\ UNCHANGED <<cleared, Dialing!requests, profile>>
    BY <1>9 DEF Dialing!Refused
  <2> QED
    BY <2>1, <1>o, <1>t, DialingStartKeeps DEF Dialing!EffortInv
<1>10. ASSUME NEW u \in Upgrades, Dialing!UpgradeCloses(u) PROVE Dialing!EffortInv'
  <2> DEFINE rest == Tail(upgrades[u].todo)
             x == IF rest = <<>> THEN [at |-> "dialing"] ELSE [upgrades[u] EXCEPT !.todo = rest]
  <2>1. /\ upgrades[u].at = "closing" /\ upgrades' = [upgrades EXCEPT ![u] = x]
        /\ UNCHANGED <<recent, cleared, Dialing!requests, profile>>
    BY <1>10 DEF Dialing!UpgradeCloses
  <2>2. u \in Dialing!Running
    BY <2>1, DialingNotIdle DEF Dialing!Running
  <2>3. DOMAIN upgrades[u] = {"at", "todo"}
    <3>1. upgrades[u] # [at |-> "dialing"]
      <4>1. [at |-> "dialing"].at = "dialing"
        OBVIOUS
      <4> QED
        BY <4>1, <2>1
    <3> QED
      BY <3>1, <2>2, <1>t DEF Dialing!UpgradeOnRecord
  <2>4. x = [at |-> "dialing"] \/ (x.at = "closing" /\ DOMAIN x = {"at", "todo"})
    BY <2>1, <2>3
  <2>5. x # Dialing!Idle
    BY <2>4, DialingNotIdle
  <2> HIDE DEF x
  <2>6. /\ DOMAIN upgrades' = Upgrades
        /\ upgrades'[u] = x /\ \A v \in Upgrades \ {u} : upgrades'[v] = upgrades[v]
        /\ Dialing!Running' = Dialing!Running
    <3>1. Dialing!Running \cup {u} = Dialing!Running
      BY <2>2
    <3>2. upgrades' = [upgrades EXCEPT ![u] = x]
      BY <2>1
    <3>3. /\ DOMAIN upgrades' = Upgrades
          /\ upgrades'[u] = x /\ \A v \in Upgrades \ {u} : upgrades'[v] = upgrades[v]
          /\ Dialing!Running' = IF x = Dialing!Idle THEN Dialing!Running \ {u} ELSE Dialing!Running \cup {u}
      BY <3>2, <1>t, DialingRunningMoves
    <3> QED
      BY <2>5, <3>1, <3>3
  <2>7. Dialing!UpgradeOnRecord'
    <3>1. \A v \in Dialing!Running' : upgrades'[v] = [at |-> "dialing"]
                                      \/ (upgrades'[v].at = "closing"
                                            /\ DOMAIN upgrades'[v] = {"at", "todo"})
      BY <2>4, <2>6, <1>t DEF Dialing!UpgradeOnRecord, Dialing!Running
    <3> QED
      BY <2>1, <2>6, <3>1, <1>t DEF Dialing!UpgradeOnRecord
  <2> QED
    BY <2>1, <2>7, <1>o, <1>t DEF Dialing!EffortInv
<1>11. ASSUME NEW u \in Upgrades, Dialing!UpgradeDials(u) PROVE Dialing!EffortInv'
  <2>1. PICK c \in Dialing!Conn : Dialing!Dialed(c) /\ Dialing!EndUpgrade(u, ~c.limited)
    BY <1>11 DEF Dialing!UpgradeDials
  <2>2. u \in Dialing!Running /\ UNCHANGED Dialing!requests
    <3>1. upgrades[u].at = "dialing" /\ Dialing!Idle.at = "idle" /\ UNCHANGED Dialing!requests
      BY <1>11 DEF Dialing!UpgradeDials, Dialing!Idle
    <3> QED
      BY <3>1 DEF Dialing!Running
  <2>3. (~c.limited) \in BOOLEAN
    OBVIOUS
  <2>4. Dialing!UpgradeOnRecord'
    BY <2>1, <2>2, <2>3, <1>t, DialingEndKeeps
  <2> QED
    BY <2>1, <2>2, <2>4, <1>d, <1>o DEF Dialing!EffortInv
<1>12. ASSUME NEW u \in Upgrades, Dialing!UpgradeFails(u) PROVE Dialing!EffortInv'
  <2>1. u \in Dialing!Running /\ Dialing!EndUpgrade(u, FALSE) /\ UNCHANGED <<Dialing!requests, profile>>
    BY <1>12 DEF Dialing!UpgradeFails, Dialing!Running
  <2>2. Dialing!UpgradeOnRecord'
    BY <2>1, <1>t, DialingEndKeeps
  <2> QED
    BY <2>1, <2>2, <1>o DEF Dialing!EffortInv
<1>13. CASE Dialing!DialByIdConnects
  <2>1. PICK c \in Dialing!Conn : Dialing!Dialed(c)
    BY <1>13 DEF Dialing!DialByIdConnects
  <2>2. UNCHANGED <<recent, cleared, upgrades, Dialing!requests>>
    BY <1>13 DEF Dialing!DialByIdConnects
  <2> QED
    BY <2>1, <2>2, <1>d, <1>o, <1>t, DialingUpgradesStay DEF Dialing!EffortInv
<1>14. CASE Dialing!DialById \/ Dialing!DialByIdFails \/ Dialing!RelaysPrepared
  <2>1. UNCHANGED <<recent, cleared, upgrades, Dialing!requests, profile>>
    BY <1>14 DEF Dialing!DialById, Dialing!DialByIdFails, Dialing!RelaysPrepared
  <2> QED
    BY <2>1, <1>o, <1>t, DialingUpgradesStay DEF Dialing!EffortInv
<1>15. CASE UNCHANGED Dialing!vars
  BY <1>15, <1>o, <1>t, DialingUpgradesStay DEF Dialing!vars, Dialing!EffortInv
<1> QED
  BY <1>1, <1>2, <1>3, <1>4, <1>5, <1>6, <1>7, <1>8, <1>9, <1>10, <1>11, <1>12,
     <1>13, <1>14, <1>15 DEF Dialing!Next, DialingAsks

LEMMA DialingEffortInit == Dialing!Init => Dialing!EffortInv
<1> SUFFICES ASSUME Dialing!Init PROVE Dialing!EffortInv
  OBVIOUS
<1>1. Dialing!Running = {} /\ DOMAIN upgrades = Upgrades
  BY DEF Dialing!Init, Dialing!Running
<1>2. requested = 0 /\ awaited = 0 /\ emitted = 0 /\ profile = "unasked"
  BY DEF Dialing!Init
<1> QED
  BY <1>1, <1>2 DEF Dialing!EffortInv, Dialing!UpgradeOnRecord, Dialing!ProfileCounted

\* What is taken out of the connections are connections.
LEMMA DialingTaken ==
    ASSUME dialingConns \in Seq(Dialing!Conn), NEW I \in SUBSET DOMAIN dialingConns
    PROVE  /\ Dialing!Subsequence(dialingConns, I) \in Seq(Dialing!Conn)
           /\ I # {} => Dialing!Subsequence(dialingConns, I) # <<>>
<1>1. Dialing!Subsequence(dialingConns, I) = Subsequence(dialingConns, I)
  <2>1. Dialing!Ascending(I) = Ascending(I) /\ Dialing!Cardinality(I) = Cardinality(I)
    BY DialingCounts DEF Dialing!Ascending, Ascending
  <2> QED
    BY <2>1 DEF Dialing!Subsequence, Subsequence
<1> DEFINE t == Subsequence(dialingConns, I)
<1>2. PICK at : t \in Seq(Dialing!Conn) /\ Selects(at, t, dialingConns, I)
  BY SubsequenceFacts
<1> HIDE DEF t
<1>3. I # {} => t # <<>>
  BY <1>2 DEF Selects
<1> QED
  BY <1>1, <1>2, <1>3 DEF t

LEMMA DialingConnsType ==
    ASSUME Dialing!TypeOK, Dialing!Next
    PROVE  /\ dialingConns' \in Seq(Dialing!Conn)
           /\ profile' \in {"unasked", "asking", "known"}
<1>1. dialingConns \in Seq(Dialing!Conn) /\ profile \in {"unasked", "asking", "known"}
  BY DEF Dialing!TypeOK
<1>2. ASSUME NEW c \in Dialing!Conn, Dialing!Opened(c)
      PROVE  dialingConns' \in Seq(Dialing!Conn) /\ profile' \in {"unasked", "asking", "known"}
  BY <1>1, <1>2 DEF Dialing!Opened
<1>3. ASSUME NEW c \in Dialing!Conn, Dialing!Dialed(c)
      PROVE  dialingConns' \in Seq(Dialing!Conn) /\ profile' \in {"unasked", "asking", "known"}
  BY <1>1, <1>2, <1>3 DEF Dialing!Dialed
<1>4. \A c : Dialing!Without(c) \in Seq(Dialing!Conn)
  <2> TAKE c
  <2> DEFINE I == {i \in DOMAIN dialingConns : dialingConns[i] # c}
  <2>1. I \in SUBSET DOMAIN dialingConns
    OBVIOUS
  <2> HIDE DEF I
  <2>2. Dialing!Subsequence(dialingConns, I) \in Seq(Dialing!Conn)
    BY <1>1, <2>1, DialingTaken
  <2> QED
    BY <2>2 DEF I, Dialing!Without
<1>5. CASE Dialing!Connect
  BY <1>2, <1>5 DEF Dialing!Connect, Dialing!Fresh
<1>6. CASE \/ Dialing!RedialConnects \/ Dialing!DialByIdConnects
           \/ \E u \in Upgrades : Dialing!UpgradeDials(u)
  BY <1>3, <1>6 DEF Dialing!RedialConnects, Dialing!DialByIdConnects, Dialing!UpgradeDials
<1>7. CASE \/ \E c \in Dialing!ToSet(dialingConns) : Dialing!Lose(c)
           \/ \E u \in Upgrades : Dialing!UpgradeCloses(u)
  BY <1>1, <1>4, <1>7 DEF Dialing!Lose, Dialing!UpgradeCloses
<1>8. CASE DialingAsks
  BY <1>1, <1>8, DialingAsksOnly
<1>9. CASE \/ Dialing!RedialFails \/ Dialing!CooldownPasses \/ Dialing!RetryDelayPasses
           \/ Dialing!DialById \/ Dialing!DialByIdFails \/ Dialing!RelaysPrepared
           \/ \E s \in Sends : \/ Dialing!Send(s) \/ Dialing!Written(s)
                               \/ Dialing!WriteFails(s) \/ Dialing!Refused(s)
           \/ \E u \in Upgrades : Dialing!UpgradeFails(u)
  <2>1. UNCHANGED <<dialingConns, profile>>
    BY <1>9 DEF Dialing!RedialFails, Dialing!CooldownPasses, Dialing!RetryDelayPasses,
       Dialing!DialById, Dialing!DialByIdFails, Dialing!RelaysPrepared, Dialing!Send, Dialing!Written, Dialing!WriteFails, Dialing!Refused, Dialing!UpgradeFails
  <2> QED
    BY <1>1, <2>1
<1> QED
  BY <1>5, <1>6, <1>7, <1>8, <1>9 DEF Dialing!Next, DialingAsks

\* The states a send can be in, and what they mean for the dial.
DialingSending == {Dialing!Idle, Dialing!Waiting} \cup [at : {"stream"}, conn : Dialing!Conn]

LEMMA DialingSendsType ==
    ASSUME Dialing!TypeOK, Dialing!Next
    PROVE  /\ dialingSends' \in [Sends -> DialingSending]
           /\ ~(redial' /\ cooldown')
           /\ \A s \in Sends : dialingSends'[s] = Dialing!Waiting => redial'
<1>1. /\ dialingConns \in Seq(Dialing!Conn)
      /\ dialingSends \in [Sends -> DialingSending] /\ ~(redial /\ cooldown)
      /\ \A s \in Sends : dialingSends[s] = Dialing!Waiting => redial
  BY DEF Dialing!TypeOK, DialingSending
<1>2. /\ Dialing!Idle \in DialingSending /\ Dialing!Waiting \in DialingSending
      /\ Dialing!Idle # Dialing!Waiting
      /\ \A c \in Dialing!Conn : /\ [at |-> "stream", conn |-> c] \in DialingSending
                                 /\ [at |-> "stream", conn |-> c] # Dialing!Waiting
  <2>1. Dialing!Idle.at = "idle" /\ Dialing!Waiting.at = "waiting"
    BY DEF Dialing!Idle, Dialing!Waiting
  <2>2. \A c : [at |-> "stream", conn |-> c].at = "stream"
    OBVIOUS
  <2> QED
    BY <2>1, <2>2 DEF DialingSending
<1>3. ASSUME NEW s \in Sends, NEW x \in DialingSending, dialingSends' = [dialingSends EXCEPT ![s] = x],
             x = Dialing!Waiting => redial', redial => redial', ~(redial' /\ cooldown')
      PROVE  /\ dialingSends' \in [Sends -> DialingSending]
             /\ ~(redial' /\ cooldown')
             /\ \A t \in Sends : dialingSends'[t] = Dialing!Waiting => redial'
  BY <1>1, <1>3
<1>4. ASSUME NEW x \in DialingSending, x # Dialing!Waiting, dialingSends' = Dialing!Woken(x), ~redial'
      PROVE  /\ dialingSends' \in [Sends -> DialingSending]
             /\ \A t \in Sends : dialingSends'[t] # Dialing!Waiting
  BY <1>1, <1>4 DEF Dialing!Woken
<1>5. ASSUME NEW s \in Sends, Dialing!Send(s)
      PROVE  /\ dialingSends' \in [Sends -> DialingSending]
             /\ ~(redial' /\ cooldown')
             /\ \A t \in Sends : dialingSends'[t] = Dialing!Waiting => redial'
  <2>1. CASE dialingConns # <<>>
    <3>1. dialingConns[1] \in Dialing!Conn
      BY <1>1, <2>1
    <3>2. /\ dialingSends' = [dialingSends EXCEPT ![s] = [at |-> "stream", conn |-> dialingConns[1]]]
          /\ UNCHANGED <<redial, cooldown>>
      BY <1>5, <2>1 DEF Dialing!Send
    <3> QED
      BY <1>1, <1>2, <1>3, <3>1, <3>2
  <2>2. CASE dialingConns = <<>>
    <3>1. /\ dialingSends' = [dialingSends EXCEPT ![s] = Dialing!Waiting]
          /\ redial' /\ ~cooldown /\ UNCHANGED cooldown
      BY <1>5, <2>2 DEF Dialing!Send
    <3> QED
      BY <1>2, <1>3, <3>1
  <2> QED
    BY <2>1, <2>2
<1>6. CASE Dialing!RedialConnects
  <2>1. PICK c \in Dialing!Conn : dialingSends' = Dialing!Woken([at |-> "stream", conn |-> c])
    BY <1>6 DEF Dialing!RedialConnects
  <2>2. ~redial'
    BY <1>6 DEF Dialing!RedialConnects
  <2> QED
    BY <1>2, <1>4, <2>1, <2>2
<1>7. CASE Dialing!RedialFails
  <2>1. dialingSends' = Dialing!Woken(Dialing!Idle) /\ ~redial'
    BY <1>7 DEF Dialing!RedialFails
  <2> QED
    BY <1>2, <1>4, <2>1
<1>8. ASSUME NEW s \in Sends, Dialing!Written(s) \/ Dialing!WriteFails(s) \/ Dialing!Refused(s)
      PROVE  /\ dialingSends' \in [Sends -> DialingSending]
             /\ ~(redial' /\ cooldown')
             /\ \A t \in Sends : dialingSends'[t] = Dialing!Waiting => redial'
  <2>1. dialingSends' = [dialingSends EXCEPT ![s] = Dialing!Idle] /\ UNCHANGED <<redial, cooldown>>
    BY <1>8 DEF Dialing!Written, Dialing!WriteFails, Dialing!Refused
  <2> QED
    BY <1>1, <1>2, <1>3, <2>1
<1>9. CASE \/ Dialing!Connect \/ \E c \in Dialing!ToSet(dialingConns) : Dialing!Lose(c)
           \/ DialingAsks
           \/ Dialing!DialById \/ Dialing!DialByIdConnects \/ Dialing!DialByIdFails \/ Dialing!RelaysPrepared
           \/ Dialing!CooldownPasses \/ Dialing!RetryDelayPasses
           \/ \E u \in Upgrades : \/ Dialing!UpgradeCloses(u) \/ Dialing!UpgradeDials(u)
                                  \/ Dialing!UpgradeFails(u)
  <2>1. UNCHANGED <<dialingSends, redial>> /\ (cooldown' => cooldown)
    <3>1. ASSUME Dialing!Connect \/ \E c \in Dialing!ToSet(dialingConns) : Dialing!Lose(c)
          PROVE  UNCHANGED <<dialingSends, redial, cooldown>>
      BY <3>1, Zenon DEF Dialing!Connect, Dialing!Lose
    <3>2. ASSUME DialingAsks
          PROVE  UNCHANGED <<dialingSends, redial, cooldown>>
      BY <3>2, DialingAsksOnly
    <3>3. ASSUME Dialing!CooldownPasses
          PROVE  UNCHANGED <<dialingSends, redial>> /\ ~cooldown'
      BY <3>3 DEF Dialing!CooldownPasses
    <3>4. ASSUME Dialing!RetryDelayPasses
          PROVE  UNCHANGED <<dialingSends, redial, cooldown>>
      BY <3>4, Zenon DEF Dialing!RetryDelayPasses
    <3>5. ASSUME NEW u \in Upgrades, Dialing!UpgradeCloses(u) \/ Dialing!UpgradeDials(u) \/ Dialing!UpgradeFails(u)
          PROVE  UNCHANGED <<dialingSends, redial, cooldown>>
      <4>1. CASE Dialing!UpgradeCloses(u)
        BY <4>1, Zenon DEF Dialing!UpgradeCloses
      <4>2. CASE Dialing!UpgradeDials(u)
        BY <4>2, Zenon DEF Dialing!UpgradeDials
      <4>3. CASE Dialing!UpgradeFails(u)
        BY <4>3, Zenon DEF Dialing!UpgradeFails
      <4> QED
        BY <3>5, <4>1, <4>2, <4>3
    <3>6. ASSUME Dialing!DialById \/ Dialing!DialByIdConnects \/ Dialing!DialByIdFails
                 \/ Dialing!RelaysPrepared
          PROVE  UNCHANGED <<dialingSends, redial, cooldown>>
      BY <3>6, Zenon DEF Dialing!DialById, Dialing!DialByIdConnects, Dialing!DialByIdFails,
         Dialing!RelaysPrepared
    <3> QED
      BY <1>9, <3>1, <3>2, <3>3, <3>4, <3>5, <3>6
  <2> QED
    BY <1>1, <2>1
<1> QED
  BY <1>5, <1>6, <1>7, <1>8, <1>9 DEF Dialing!Next, DialingAsks

\* What an upgrade may be, and one that moves.
DialingUpgrade(x) ==
    \/ x \in {Dialing!Idle, [at |-> "dialing"]}
    \/ x.at = "closing" /\ x.todo \in Seq(Dialing!Conn) \ {<<>>}

LEMMA DialingUpgradesType ==
    ASSUME Dialing!TypeOK, Dialing!UpgradeOnRecord, Dialing!Next
    PROVE  \A u \in Upgrades : DialingUpgrade(upgrades'[u])
<1>1. /\ dialingConns \in Seq(Dialing!Conn) /\ DOMAIN upgrades = Upgrades
      /\ \A u \in Upgrades : DialingUpgrade(upgrades[u])
  BY DEF Dialing!TypeOK, DialingUpgrade, Dialing!UpgradeOnRecord
<1>2. ASSUME NEW u \in Upgrades, NEW x, DialingUpgrade(x), upgrades' = [upgrades EXCEPT ![u] = x]
      PROVE  \A v \in Upgrades : DialingUpgrade(upgrades'[v])
  <2>1. upgrades'[u] = x /\ \A v \in Upgrades \ {u} : upgrades'[v] = upgrades[v]
    BY <1>1, <1>2
  <2> QED
    BY <1>1, <1>2, <2>1
<1>3. ASSUME NEW s \in Sends, Dialing!Refused(s)
      PROVE  \A v \in Upgrades : DialingUpgrade(upgrades'[v])
  <2>1. CASE recent
    <3>1. upgrades' = upgrades
      BY <1>3, <2>1 DEF Dialing!Refused, Dialing!StartUpgrade
    <3> QED
      BY <1>1, <3>1
  <2>2. CASE ~recent
    <3> DEFINE x == [at |-> "closing", todo |-> Dialing!LimitedOnes]
               I == {i \in DOMAIN dialingConns : dialingConns[i].limited}
    <3>1. PICK u \in Upgrades : upgrades' = [upgrades EXCEPT ![u] = x]
      BY <1>3, <2>2 DEF Dialing!Refused, Dialing!StartUpgrade
    <3>2. I \in SUBSET DOMAIN dialingConns /\ I # {}
      BY <1>3 DEF Dialing!Refused, Dialing!Contains
    <3> HIDE DEF I
    <3>3. Dialing!Subsequence(dialingConns, I) \in Seq(Dialing!Conn) \ {<<>>}
      BY <1>1, <3>2, DialingTaken
    <3>4. Dialing!LimitedOnes \in Seq(Dialing!Conn) \ {<<>>}
      BY <3>3 DEF I, Dialing!LimitedOnes
    <3>5. x.at = "closing" /\ x.todo = Dialing!LimitedOnes
      OBVIOUS
    <3> HIDE DEF x
    <3>6. DialingUpgrade(x)
      BY <3>4, <3>5 DEF DialingUpgrade
    <3> QED
      BY <1>2, <3>1, <3>6
  <2> QED
    BY <2>1, <2>2
<1>4. ASSUME NEW u \in Upgrades, Dialing!UpgradeCloses(u)
      PROVE  \A v \in Upgrades : DialingUpgrade(upgrades'[v])
  <2> DEFINE rest == Tail(upgrades[u].todo)
             x == IF rest = <<>> THEN [at |-> "dialing"] ELSE [upgrades[u] EXCEPT !.todo = rest]
  <2>1. upgrades[u].at = "closing" /\ upgrades' = [upgrades EXCEPT ![u] = x]
    BY <1>4 DEF Dialing!UpgradeCloses
  <2>2. /\ upgrades[u] # Dialing!Idle /\ upgrades[u] # [at |-> "dialing"]
        /\ upgrades[u].todo \in Seq(Dialing!Conn) \ {<<>>}
    <3>1. Dialing!Idle.at = "idle" /\ [at |-> "dialing"].at = "dialing"
      BY DEF Dialing!Idle
    <3> QED
      BY <1>1, <2>1, <3>1 DEF DialingUpgrade
  <2>3. rest \in Seq(Dialing!Conn)
    BY <2>2
  <2>4. DOMAIN upgrades[u] = {"at", "todo"}
    BY <2>2 DEF Dialing!UpgradeOnRecord, Dialing!Running
  <2>5. DialingUpgrade(x)
    <3>1. CASE rest = <<>>
      BY <3>1 DEF DialingUpgrade
    <3>2. CASE rest # <<>>
      <4>1. x.at = "closing" /\ x.todo = rest
        BY <2>1, <2>4, <3>2
      <4> HIDE DEF x, rest
      <4> QED
        BY <2>3, <3>2, <4>1 DEF DialingUpgrade
    <3> QED
      BY <3>1, <3>2
  <2> HIDE DEF x
  <2> QED
    BY <1>2, <2>1, <2>5
<1>5. ASSUME NEW u \in Upgrades, Dialing!UpgradeDials(u) \/ Dialing!UpgradeFails(u)
      PROVE  \A v \in Upgrades : DialingUpgrade(upgrades'[v])
  <2>1. upgrades' = [upgrades EXCEPT ![u] = Dialing!Idle]
    BY <1>5 DEF Dialing!UpgradeDials, Dialing!UpgradeFails, Dialing!EndUpgrade
  <2>2. DialingUpgrade(Dialing!Idle)
    BY DEF DialingUpgrade
  <2> QED
    BY <1>2, <2>1, <2>2
<1>6. CASE \/ Dialing!Connect \/ \E c \in Dialing!ToSet(dialingConns) : Dialing!Lose(c)
           \/ DialingAsks
           \/ Dialing!DialById \/ Dialing!DialByIdConnects \/ Dialing!DialByIdFails \/ Dialing!RelaysPrepared
           \/ Dialing!RedialConnects \/ Dialing!RedialFails
           \/ Dialing!CooldownPasses \/ Dialing!RetryDelayPasses
           \/ \E s \in Sends : Dialing!Send(s) \/ Dialing!Written(s) \/ Dialing!WriteFails(s)
  <2>1. upgrades' = upgrades
    BY <1>6, DialingAsksOnly DEF Dialing!Connect, Dialing!Lose, Dialing!DialById,
       Dialing!DialByIdConnects, Dialing!DialByIdFails, Dialing!RelaysPrepared, Dialing!CooldownPasses,
       Dialing!RetryDelayPasses, Dialing!RedialConnects, Dialing!RedialFails, Dialing!Send,
       Dialing!Written, Dialing!WriteFails
  <2> QED
    BY <1>1, <2>1
<1> QED
  BY <1>3, <1>4, <1>5, <1>6 DEF Dialing!Next, DialingAsks

\* A dial by id goes from one way to the next.
LEMMA DialingByIdType ==
    ASSUME Dialing!TypeOK, Dialing!Next
    PROVE  byId' \in {"no", "relays"} \cup Dialing!Ways
<1>1. byId \in {"no", "relays", "direct", "relay", "routing"}
  BY DEF Dialing!TypeOK, Dialing!Ways, Dialing!Fallbacks
<1>2. CASE Dialing!DialById \/ Dialing!DialByIdConnects
  BY <1>2 DEF Dialing!DialById, Dialing!DialByIdConnects, Dialing!Ways, Dialing!Fallbacks
<1>3. CASE Dialing!DialByIdFails \/ Dialing!RelaysPrepared
  BY <1>1, <1>3 DEF Dialing!DialByIdFails, Dialing!RelaysPrepared, Dialing!Ways, Dialing!Fallbacks
<1>4. CASE \/ DialingAsks \/ Dialing!Connect \/ \E c \in Dialing!ToSet(dialingConns) : Dialing!Lose(c)
           \/ Dialing!RedialConnects \/ Dialing!RedialFails
           \/ Dialing!CooldownPasses \/ Dialing!RetryDelayPasses
           \/ \E s \in Sends : \/ Dialing!Send(s) \/ Dialing!Written(s)
                               \/ Dialing!WriteFails(s) \/ Dialing!Refused(s)
           \/ \E u \in Upgrades : \/ Dialing!UpgradeCloses(u) \/ Dialing!UpgradeDials(u)
                                  \/ Dialing!UpgradeFails(u)
  <2>1. byId' = byId
    BY <1>4, DialingAsksOnly DEF Dialing!Connect, Dialing!Lose, Dialing!RedialConnects,
       Dialing!RedialFails, Dialing!CooldownPasses, Dialing!RetryDelayPasses, Dialing!Send,
       Dialing!Written, Dialing!WriteFails, Dialing!Refused, Dialing!UpgradeCloses,
       Dialing!UpgradeDials, Dialing!UpgradeFails
  <2> QED
    BY <2>1 DEF Dialing!TypeOK
<1> QED
  BY <1>2, <1>3, <1>4 DEF Dialing!Next, DialingAsks

LEMMA DialingNextInv == Dialing!IInv /\ [Dialing!Next]_(Dialing!vars) => Dialing!IInv'
<1> SUFFICES ASSUME Dialing!IInv, [Dialing!Next]_(Dialing!vars) PROVE Dialing!IInv'
  OBVIOUS
<1>1. Dialing!TypeOK /\ Dialing!EffortInv /\ Dialing!UpgradeOnRecord
  BY DEF Dialing!IInv, Dialing!EffortInv
<1>2. Dialing!EffortInv'
  BY <1>1, DialingEffortNext
<1>3. CASE UNCHANGED Dialing!vars
  <2>1. Dialing!TypeOK'
    BY <1>1, <1>3 DEF Dialing!vars, Dialing!TypeOK
  <2> QED
    BY <1>2, <2>1 DEF Dialing!IInv
<1>4. CASE Dialing!Next
  <2>1. /\ dialingConns' \in Seq(Dialing!Conn) /\ profile' \in {"unasked", "asking", "known"}
    BY <1>1, <1>4, DialingConnsType
  <2>2. /\ dialingSends' \in [Sends -> DialingSending] /\ ~(redial' /\ cooldown')
        /\ \A s \in Sends : dialingSends'[s] = Dialing!Waiting => redial'
    BY <1>1, <1>4, DialingSendsType
  <2>3. \A u \in Upgrades : DialingUpgrade(upgrades'[u])
    BY <1>1, <1>4, DialingUpgradesType
  <2>4. recent' \in BOOLEAN /\ cleared' \in BOOLEAN
    <3>1. recent \in BOOLEAN /\ cleared \in BOOLEAN
      BY <1>1 DEF Dialing!TypeOK
    <3>2. DialingAsks => UNCHANGED <<recent, cleared>>
      BY DialingAsksOnly
    <3> QED
      BY <1>4, <3>1, <3>2 DEF Dialing!Next, DialingAsks, Dialing!Connect, Dialing!Lose,
         Dialing!DialById, Dialing!DialByIdConnects, Dialing!DialByIdFails, Dialing!RelaysPrepared, Dialing!CooldownPasses,
       Dialing!RetryDelayPasses, Dialing!RedialConnects,
         Dialing!RedialFails, Dialing!Send, Dialing!Written, Dialing!WriteFails, Dialing!Refused,
         Dialing!StartUpgrade, Dialing!UpgradeCloses, Dialing!UpgradeDials, Dialing!UpgradeFails,
         Dialing!EndUpgrade
  <2>5. Dialing!TypeOK'
    BY <1>1, <1>4, <2>1, <2>2, <2>3, <2>4, DialingByIdType
    DEF Dialing!TypeOK, DialingSending, DialingUpgrade
  <2> QED
    BY <1>2, <2>5 DEF Dialing!IInv
<1> QED
  BY <1>3, <1>4

LEMMA DialingInitInv == Dialing!Init => Dialing!IInv
<1> SUFFICES ASSUME Dialing!Init PROVE Dialing!IInv
  OBVIOUS
<1>1. dialingConns \in Seq(Dialing!Conn)
  BY DEF Dialing!Init
<1>2. Dialing!Idle # Dialing!Waiting
  <2>1. Dialing!Idle.at = "idle" /\ Dialing!Waiting.at = "waiting"
    BY DEF Dialing!Idle, Dialing!Waiting
  <2> QED
    BY <2>1
<1>3. Dialing!TypeOK
  BY <1>1, <1>2 DEF Dialing!Init, Dialing!TypeOK
<1> QED
  BY <1>3, DialingEffortInit DEF Dialing!IInv

LEMMA DialingConsequence == Dialing!IInv => Dialing!EffortIsShared
<1> SUFFICES ASSUME Dialing!IInv PROVE Dialing!EffortIsShared
  OBVIOUS
<1>1. Dialing!UpgradesOverlap
  <2> SUFFICES ASSUME ~cleared PROVE ~(Cardinality(Dialing!Running) > 1)
    BY DialingCounts DEF Dialing!UpgradesOverlap
  <2>1. CASE Dialing!Running = {}
    BY <2>1, FS_EmptySet
  <2>2. ASSUME NEW u \in Dialing!Running PROVE Dialing!Running = {u}
    BY <2>2 DEF Dialing!IInv, Dialing!EffortInv, Dialing!UpgradeOnRecord
  <2>3. CASE Dialing!Running # {}
    <3>1. PICK u : Dialing!Running = {u}
      BY <2>2, <2>3
    <3>2. Cardinality(Dialing!Running) = 1
      BY <3>1, FS_Singleton
    <3> QED
      BY <3>2
  <2> QED
    BY <2>1, <2>3
<1>2. Dialing!ProfileOnce
  <2>1. /\ requested \in Nat /\ awaited \in Nat /\ emitted \in Nat
        /\ emitted <= (IF profile = "known" THEN 1 ELSE 0) + (requested - awaited)
    BY DEF Dialing!IInv, Dialing!EffortInv, Dialing!ProfileCounted
  <2> QED
    BY <2>1 DEF Dialing!ProfileOnce
<1> QED
  BY <1>1, <1>2 DEF Dialing!EffortIsShared

-----------------------------------------------------------------------------
\* CallEarcons.

\* The module counts as FiniteSets does.
LEMMA EarconsCounts == \A S : (Earcons!IsFiniteSet(S) <=> IsFiniteSet(S))
      /\ Earcons!Cardinality(S) = Cardinality(S)
<1>1. \A S : Earcons!IsFiniteSet(S) <=> IsFiniteSet(S)
  BY DEF Earcons!IsFiniteSet, IsFiniteSet
<1>2. \A S : Earcons!Cardinality(S) = Cardinality(S)
  BY Zenon DEF Earcons!Cardinality, Cardinality
<1> QED
  BY <1>1, <1>2

\* What the tones do in a step whose flows and phase are well formed: nothing,
\* a play, or a stop that may be followed by one.
EarconsTones(tone) ==
    \/ UNCHANGED <<waiting, loops>>
    \/ Earcons!Play(tone)
    \/ Earcons!StopAndPlay(tone)

LEMMA EarconsFlowsType ==
  ASSUME Earcons!TypeOK, NEW f \in Earcons!Flows
  PROVE  /\ Earcons!Flow(f, 1) /\ flows[f] < MaxFlows => flows' \in [Earcons!Flows -> 0..MaxFlows]
         /\ Earcons!FlowEnds(f) => flows' \in [Earcons!Flows -> 0..MaxFlows]
  BY FlowsAssumption DEF Earcons!TypeOK, Earcons!Flow, Earcons!FlowEnds

LEMMA EarconsTonesType ==
  ASSUME Earcons!TypeOK, NEW tone \in Earcons!Looping \cup {"once"}, EarconsTones(tone), ctx' = ctx
  PROVE  /\ waiting' \in Earcons!Looping \cup {"none", "once"} /\ loops' \in SUBSET Earcons!Looping
         /\ ctx' # "suspended" => waiting' = "none"
  BY DEF Earcons!TypeOK, EarconsTones, Earcons!Play, Earcons!StopAndPlay, Earcons!AfterWaiting,
     Earcons!Begun

LEMMA EarconsTonesSingle ==
  ASSUME Earcons!IInv, NEW tone, EarconsTones(tone)
  PROVE  \A s, t \in loops' : s = t
  BY DEF Earcons!IInv, EarconsTones, Earcons!Play, Earcons!StopAndPlay, Earcons!Begun

\* What repeats or waits after a step did before, or is the tone that was played.
LEMMA EarconsTonesFrom ==
  ASSUME NEW tone, EarconsTones(tone), NEW t \in loops' \cup ({waiting'} \cap Earcons!Looping)
  PROVE  t \in loops \cup ({waiting} \cap Earcons!Looping) \/ t = tone
  BY DEF EarconsTones, Earcons!Play, Earcons!StopAndPlay, Earcons!AfterWaiting, Earcons!Begun

\* Only what waited before is left by a stop.
LEMMA EarconsStopLeaves ==
  ASSUME Earcons!TypeOK, NEW tone, Earcons!StopAndPlay(tone),
        NEW t \in loops' \cup ({waiting'} \cap Earcons!Looping)
  PROVE  t = tone /\ ctx = "suspended"
  BY DEF Earcons!TypeOK, Earcons!StopAndPlay, Earcons!AfterWaiting, Earcons!Looping

LEMMA EarconsNextInv == Earcons!IInv /\ [Earcons!Next]_(Earcons!vars) => Earcons!IInv'
<1> SUFFICES ASSUME Earcons!IInv, [Earcons!Next]_(Earcons!vars) PROVE Earcons!IInv'
  OBVIOUS
<1> DEFINE Rest == loops \cup ({waiting} \cap Earcons!Looping)
<1>t. Earcons!TypeOK
  BY DEF Earcons!IInv
<1>b. earconsCrossed \/ \A t \in Rest : Earcons!Belongs(t)
  BY DEF Earcons!IInv
<1> HIDE DEF Rest
<1>f. {"start", "accept", "reject"} = Earcons!Flows
  BY DEF Earcons!Flows
\* A step that plays tone keeps the invariant if what it leaves belongs to the call.
<1>k. ASSUME NEW tone \in Earcons!Looping \cup {"once"}, EarconsTones(tone), ctx' = ctx,
             call' \in {"none", "calling", "ringing", "incoming", "answering", "connected", "over"},
             mine' \in BOOLEAN, abort' \in BOOLEAN, earconsCrossed' \in BOOLEAN,
             flows' \in [Earcons!Flows -> 0..MaxFlows],
             earconsCrossed' \/ \A t \in loops' \cup ({waiting'} \cap Earcons!Looping) : Earcons!Belongs(t)'
      PROVE  Earcons!IInv'
  <2>1. /\ waiting' \in Earcons!Looping \cup {"none", "once"} /\ loops' \in SUBSET Earcons!Looping
        /\ ctx' # "suspended" => waiting' = "none"
    BY <1>k, <1>t, EarconsTonesType
  <2>2. \A s, t \in loops' : s = t
    BY <1>k, EarconsTonesSingle
  <2>3. Earcons!TypeOK'
    BY <1>k, <1>t, <2>1 DEF Earcons!TypeOK
  <2> QED
    BY <1>k, <2>2, <2>3 DEF Earcons!IInv
\* A step that plays no repeating tone and leaves the call and crossed as they are.
<1>u. ASSUME NEW tone, EarconsTones(tone), tone \notin Earcons!Looping, earconsCrossed' = earconsCrossed,
             \A t \in Earcons!Looping : Earcons!Belongs(t) => Earcons!Belongs(t)'
      PROVE  earconsCrossed' \/ \A t \in loops' \cup ({waiting'} \cap Earcons!Looping) : Earcons!Belongs(t)'
  <2> SUFFICES ASSUME ~earconsCrossed', NEW t \in loops' \cup ({waiting'} \cap Earcons!Looping)
        PROVE Earcons!Belongs(t)'
    OBVIOUS
  <2>1. Earcons!Belongs(t) \/ t = tone
    BY <1>b, <1>u, EarconsTonesFrom DEF Rest
  <2>2. loops' \subseteq Earcons!Looping
    BY <1>t, <1>u DEF Earcons!TypeOK, EarconsTones, Earcons!Play, Earcons!StopAndPlay, Earcons!Begun
  <2> QED
    BY <1>u, <2>1, <2>2
\* A stop leaves nothing that repeats.
<1>s. ASSUME NEW tone, Earcons!StopAndPlay(tone), tone \notin Earcons!Looping
      PROVE  earconsCrossed' \/ \A t \in loops' \cup ({waiting'} \cap Earcons!Looping) : Earcons!Belongs(t)'
  BY <1>s, <1>t, EarconsStopLeaves DEF Earcons!TypeOK, Earcons!StopAndPlay
<1>o. "once" \notin Earcons!Looping /\ "once" \in Earcons!Looping \cup {"once"}
  BY DEF Earcons!Looping
<1>1. CASE Earcons!Dial
  <2>1. flows' \in [Earcons!Flows -> 0..MaxFlows]
    BY <1>1, <1>t, EarconsFlowsType DEF Earcons!Dial, Earcons!Flows
  <2>2. EarconsTones("once") /\ earconsCrossed' = earconsCrossed
    BY <1>1 DEF Earcons!Dial, EarconsTones
  <2>3. \A t \in Earcons!Looping : ~Earcons!Belongs(t)
    BY <1>1 DEF Earcons!Dial, Earcons!Belongs
  <2>4. earconsCrossed' \/ \A t \in loops' \cup ({waiting'} \cap Earcons!Looping) : Earcons!Belongs(t)'
    BY <2>2, <2>3, <1>u, <1>o
  <2> QED
    BY <1>1, <1>k, <1>o, <1>t, <2>1, <2>2, <2>4 DEF Earcons!Dial, Earcons!TypeOK
<1>2. CASE Earcons!Delivered
  <2>1. flows' \in [Earcons!Flows -> 0..MaxFlows]
    BY <1>2, <1>t, EarconsFlowsType DEF Earcons!Delivered, Earcons!Flows
  <2>2. EarconsTones("ringing-outbound")
    BY <1>2 DEF Earcons!Delivered, EarconsTones
  <2>3. ASSUME ~earconsCrossed', NEW t \in loops' \cup ({waiting'} \cap Earcons!Looping)
        PROVE Earcons!Belongs(t)'
    <3>1. CASE abort
      BY <3>1, <1>2, <1>b, <2>3 DEF Earcons!Delivered, Earcons!Belongs, Rest
    <3>2. CASE ~abort
      <4>1. ~earconsCrossed /\ call \in {"calling", "ringing"} /\ call' = "ringing"
        BY <3>2, <1>2, <1>t, <2>3 DEF Earcons!Delivered, Earcons!TypeOK
      <4>2. t \in Rest \/ t = "ringing-outbound"
        BY <2>2, <2>3, EarconsTonesFrom DEF Rest
      <4>3. t = "ringing-outbound"
        BY <4>1, <4>2, <1>b DEF Earcons!Belongs
      <4> QED
        BY <4>1, <4>3 DEF Earcons!Belongs
    <3> QED
      BY <3>1, <3>2
  <2>4. "ringing-outbound" \in Earcons!Looping
    BY DEF Earcons!Looping
  <2>5. /\ call' \in {"none", "calling", "ringing", "incoming", "answering", "connected", "over"}
        /\ mine' \in BOOLEAN /\ abort' \in BOOLEAN /\ earconsCrossed' \in BOOLEAN /\ ctx' = ctx
    BY <1>2, <1>t DEF Earcons!Delivered, Earcons!TypeOK
  <2> QED
    BY <1>k, <2>1, <2>2, <2>3, <2>4, <2>5
<1>3. CASE Earcons!StartFails \/ Earcons!AnswerFails \/ Earcons!Answered \/ Earcons!RejectClicked
  <2>1. flows' \in [Earcons!Flows -> 0..MaxFlows]
    BY <1>3, <1>t, EarconsFlowsType DEF Earcons!StartFails, Earcons!AnswerFails, Earcons!Answered,
       Earcons!RejectClicked, Earcons!Flows
  <2>2. Earcons!StopAndPlay("once") /\ EarconsTones("once")
    BY <1>3 DEF Earcons!StartFails, Earcons!AnswerFails, Earcons!Answered, Earcons!RejectClicked,
       EarconsTones
  <2>3. /\ call' \in {"none", "calling", "ringing", "incoming", "answering", "connected", "over"}
        /\ mine' \in BOOLEAN /\ abort' \in BOOLEAN /\ earconsCrossed' \in BOOLEAN /\ ctx' = ctx
    BY <1>3, <1>t DEF Earcons!StartFails, Earcons!AnswerFails, Earcons!Answered,
       Earcons!RejectClicked, Earcons!Over, Earcons!TypeOK
  <2> QED
    BY <1>k, <1>o, <1>s, <2>1, <2>2, <2>3
<1>4. CASE Earcons!AcceptClicked
  <2>1. flows' \in [Earcons!Flows -> 0..MaxFlows]
    BY <1>4, <1>t, EarconsFlowsType DEF Earcons!AcceptClicked, Earcons!Flows
  <2>2. EarconsTones("once") /\ earconsCrossed' = earconsCrossed
    BY <1>4 DEF Earcons!AcceptClicked, EarconsTones
  <2>3. \A t \in Earcons!Looping : Earcons!Belongs(t) => Earcons!Belongs(t)'
    BY <1>4 DEF Earcons!AcceptClicked, Earcons!Belongs
  <2>4. earconsCrossed' \/ \A t \in loops' \cup ({waiting'} \cap Earcons!Looping) : Earcons!Belongs(t)'
    BY <2>2, <2>3, <1>u, <1>o
  <2> QED
    BY <1>4, <1>k, <1>o, <1>t, <2>1, <2>2, <2>4 DEF Earcons!AcceptClicked, Earcons!TypeOK
<1>5. CASE Earcons!Rejected
  <2>1. flows' \in [Earcons!Flows -> 0..MaxFlows]
    BY <1>5, <1>t, EarconsFlowsType DEF Earcons!Rejected, Earcons!Flows
  <2>2. /\ waiting' = waiting /\ loops' = {} /\ ctx' = ctx
        /\ earconsCrossed' = (earconsCrossed \/ waiting \in Earcons!Looping)
        /\ abort' = TRUE /\ mine' = mine
        /\ call' \in {"none", "over"}
    BY <1>5 DEF Earcons!Rejected, Earcons!Over
  <2>3. Earcons!TypeOK'
    BY <2>1, <2>2, <1>t DEF Earcons!TypeOK
  <2> QED
    BY <2>2, <2>3 DEF Earcons!IInv
<1>6. CASE Earcons!EndClicked \/ Earcons!SignalOver \/ Earcons!SignalAccept
  <2>1. Earcons!StopAndPlay("once") /\ EarconsTones("once") /\ flows' = flows
    BY <1>6 DEF Earcons!EndClicked, Earcons!SignalOver, Earcons!SignalAccept, EarconsTones
  <2>2. /\ call' \in {"none", "calling", "ringing", "incoming", "answering", "connected", "over"}
        /\ mine' \in BOOLEAN /\ abort' \in BOOLEAN /\ earconsCrossed' \in BOOLEAN /\ ctx' = ctx
    BY <1>6, <1>t DEF Earcons!EndClicked, Earcons!SignalOver, Earcons!SignalAccept, Earcons!Over,
       Earcons!TypeOK
  <2>3. flows' \in [Earcons!Flows -> 0..MaxFlows]
    BY <2>1, <1>t DEF Earcons!TypeOK
  <2> QED
    BY <1>k, <1>o, <1>s, <2>1, <2>2, <2>3
<1>7. CASE Earcons!Dismiss \/ Earcons!ToggleMute \/ Earcons!SignalRinging
  <2>1. EarconsTones("once") /\ flows' = flows /\ earconsCrossed' = earconsCrossed /\ ctx' = ctx
    BY <1>7 DEF Earcons!Dismiss, Earcons!ToggleMute, Earcons!SignalRinging, EarconsTones
  <2>2. /\ call' \in {"none", "calling", "ringing", "incoming", "answering", "connected", "over"}
        /\ mine' \in BOOLEAN /\ abort' \in BOOLEAN /\ earconsCrossed' \in BOOLEAN
    BY <1>7, <1>t DEF Earcons!Dismiss, Earcons!ToggleMute, Earcons!SignalRinging, Earcons!TypeOK
  <2>3. \A t \in Earcons!Looping : Earcons!Belongs(t) => Earcons!Belongs(t)'
    BY <1>7 DEF Earcons!Dismiss, Earcons!ToggleMute, Earcons!SignalRinging, Earcons!Belongs
  <2>4. earconsCrossed' \/ \A t \in loops' \cup ({waiting'} \cap Earcons!Looping) : Earcons!Belongs(t)'
    BY <2>1, <2>3, <1>u, <1>o
  <2>5. flows' \in [Earcons!Flows -> 0..MaxFlows]
    BY <2>1, <1>t DEF Earcons!TypeOK
  <2> QED
    BY <1>k, <1>o, <2>1, <2>2, <2>4, <2>5
<1>8. CASE Earcons!Offer
  <2>1. EarconsTones("ring") /\ flows' = flows /\ earconsCrossed' = earconsCrossed /\ ctx' = ctx
        /\ call' = "incoming" /\ mine' = FALSE /\ abort' = abort
    BY <1>8 DEF Earcons!Offer, EarconsTones
  <2>2. ASSUME ~earconsCrossed', NEW t \in loops' \cup ({waiting'} \cap Earcons!Looping)
        PROVE Earcons!Belongs(t)'
    <3>1. t \in Rest \/ t = "ring"
      BY <2>1, <2>2, EarconsTonesFrom DEF Rest
    <3>2. t = "ring"
      BY <3>1, <2>1, <2>2, <1>b, <1>8 DEF Earcons!Offer, Earcons!Belongs
    <3> QED
      BY <3>2, <2>1 DEF Earcons!Belongs
  <2>3. "ring" \in Earcons!Looping
    BY DEF Earcons!Looping
  <2> QED
    BY <1>k, <1>t, <2>1, <2>2, <2>3 DEF Earcons!TypeOK
<1>9. CASE Earcons!SignalBusy
  <2>1. /\ Earcons!StopAndPlay("busy") /\ EarconsTones("busy") /\ flows' = flows /\ ctx' = ctx
        /\ earconsCrossed' = (earconsCrossed \/ ctx = "suspended")
        /\ call' \in {"none", "over"} /\ mine' = mine /\ abort' = TRUE
    BY <1>9 DEF Earcons!SignalBusy, EarconsTones, Earcons!Over
  <2>2. ASSUME ~earconsCrossed', NEW t \in loops' \cup ({waiting'} \cap Earcons!Looping)
        PROVE Earcons!Belongs(t)'
    BY <2>1, <2>2, <1>t, EarconsStopLeaves
  <2>3. "busy" \in Earcons!Looping
    BY DEF Earcons!Looping
  <2> QED
    BY <1>k, <1>t, <2>1, <2>2, <2>3 DEF Earcons!TypeOK
<1>10. CASE Earcons!Click \/ Earcons!Blocked \/ Earcons!Suspended
  <2>1. Earcons!TypeOK'
    BY <1>10, <1>t DEF Earcons!Click, Earcons!Blocked, Earcons!Suspended, Earcons!TypeOK
  <2>2. /\ loops' = loops /\ waiting' \in {waiting, "none"}
        /\ UNCHANGED <<call, mine, earconsCrossed>>
    BY <1>10 DEF Earcons!Click, Earcons!Blocked, Earcons!Suspended
  <2>3. "none" \notin Earcons!Looping
    BY DEF Earcons!Looping
  <2> QED
    BY <2>1, <2>2, <2>3, <1>b DEF Earcons!IInv, Earcons!Belongs, Rest
<1>11. CASE Earcons!Resumed
  <2>1. Earcons!TypeOK'
    BY <1>11, <1>t DEF Earcons!Resumed, Earcons!Begun, Earcons!TypeOK
  <2>2. "none" \notin Earcons!Looping /\ waiting' = "none" /\ UNCHANGED <<call, mine, earconsCrossed>>
    BY <1>11 DEF Earcons!Resumed, Earcons!Looping
  <2>3. loops' \subseteq Rest /\ \A s, t \in loops' : s = t
    BY <1>11 DEF Earcons!Resumed, Earcons!Begun, Earcons!IInv, Rest
  <2> QED
    BY <2>1, <2>2, <2>3, <1>b DEF Earcons!IInv, Earcons!Belongs
<1>12. CASE UNCHANGED Earcons!vars
  BY <1>12 DEF Earcons!vars, Earcons!IInv, Earcons!TypeOK, Earcons!Belongs
<1> QED
  BY <1>1, <1>2, <1>3, <1>4, <1>5, <1>6, <1>7, <1>8, <1>9, <1>10, <1>11, <1>12 DEF Earcons!Next

LEMMA EarconsInitInv == Earcons!Init => Earcons!IInv
<1> SUFFICES ASSUME Earcons!Init PROVE Earcons!IInv
  OBVIOUS
<1>1. flows \in [Earcons!Flows -> 0..MaxFlows]
  BY FlowsAssumption DEF Earcons!Init
<1>2. Earcons!TypeOK
  BY <1>1 DEF Earcons!Init, Earcons!TypeOK
<1> QED
  BY <1>2 DEF Earcons!Init, Earcons!IInv, Earcons!Looping

LEMMA EarconsConsequence == Earcons!IInv => Earcons!NothingRingsOn
<1> SUFFICES ASSUME Earcons!IInv PROVE Earcons!NothingRingsOn
  OBVIOUS
<1>1. Cardinality(loops) <= 1
  <2>1. CASE loops = {}
    BY <2>1, FS_EmptySet
  <2>2. ASSUME NEW t \in loops PROVE loops = {t}
    BY <2>2 DEF Earcons!IInv
  <2>3. CASE loops # {}
    <3>1. PICK t : loops = {t}
      BY <2>2, <2>3
    <3>2. Cardinality(loops) = 1
      BY <3>1, FS_Singleton
    <3> QED
      BY <3>2
  <2> QED
    BY <2>1, <2>3
<1> QED
  BY <1>1, EarconsCounts DEF Earcons!IInv, Earcons!Belongs, Earcons!NothingRingsOn

-----------------------------------------------------------------------------
\* CameraCapture.

\* A stop leaves nothing open that the drawer knows, and nothing at all unless
\* something was overtaken.
LEMMA CameraStopEnds ==
  ASSUME Camera!IInv, Camera!StopCamera
  PROVE  /\ cameraHeld' = FALSE /\ live' \in 0..MaxStreams /\ cameraCrossed' \in BOOLEAN
         /\ ~cameraCrossed' => ~Camera!Waiting /\ live' = 0
<1>1. cameraHeld' = FALSE /\ live' = Camera!Stopped /\ cameraCrossed' = (Camera!Waiting
      \/ (cameraCrossed /\ live' # 0))
  BY DEF Camera!StopCamera
<1>2. live' \in 0..MaxStreams
  BY <1>1, StreamsAssumption DEF Camera!IInv, Camera!TypeOK, Camera!Stopped
<1>3. ~cameraCrossed => live' = 0
  BY <1>1 DEF Camera!IInv, Camera!TypeOK, Camera!CameraIsOff, Camera!Stopped
<1> QED
  BY <1>1, <1>2, <1>3 DEF Camera!IInv, Camera!TypeOK, Camera!Waiting

\* After startCamera its call is the only one that waits, unless others did.
LEMMA CameraStartAsks ==
  ASSUME Camera!IInv, Camera!StartCamera, cameraOpen' = TRUE, photo' = FALSE, shot' = shot
  PROVE  Camera!IInv'
<1>1. /\ cameraHeld' = FALSE /\ live' \in 0..MaxStreams /\ cameraCrossed' \in BOOLEAN
      /\ ~cameraCrossed' => ~Camera!Waiting /\ live' = 0
  BY CameraStopEnds DEF Camera!StartCamera
<1>2. PICK s \in Starts : starts[s] = "idle" /\ starts' = [starts EXCEPT ![s] = "asking"]
  BY DEF Camera!StartCamera
<1>3. starting' = TRUE /\ failed' = FALSE
  BY DEF Camera!StartCamera
<1>4. starts \in [Starts -> {"idle", "asking", "playing", "orphan"}] /\ shot \in BOOLEAN
  BY DEF Camera!IInv, Camera!TypeOK
<1>5. starts' \in [Starts -> {"idle", "asking", "playing", "orphan"}]
  BY <1>2, <1>4
<1>6. Camera!TypeOK'
  BY <1>1, <1>3, <1>4, <1>5 DEF Camera!TypeOK
<1>7. ~Camera!Waiting => \A u \in Starts : starts'[u] # "orphan" /\ (starts'[u] = "asking" => u = s)
  BY <1>2, <1>4 DEF Camera!Waiting
<1>8. Camera!OneAsks'
  BY <1>1, <1>7 DEF Camera!OneAsks
<1>9. Camera!CameraIsOff'
  BY <1>1 DEF Camera!CameraIsOff
<1> QED
  BY <1>6, <1>8, <1>9 DEF Camera!IInv

LEMMA CameraNextInv == Camera!IInv /\ [Camera!Next]_(Camera!vars) => Camera!IInv'
<1> SUFFICES ASSUME Camera!IInv, [Camera!Next]_(Camera!vars) PROVE Camera!IInv'
  OBVIOUS
<1>t. Camera!TypeOK
  BY DEF Camera!IInv
<1>f. starts \in [Starts -> {"idle", "asking", "playing", "orphan"}]
  BY <1>t DEF Camera!TypeOK
\* What stops the camera and starts it not.
<1>s. ASSUME Camera!StopCamera, Camera!TypeOK', \A s \in Starts : starts'[s] \in {"asking",
      "orphan"} => starts[s] \in {"asking", "orphan"}
      PROVE  Camera!IInv'
  <2>1. ~cameraCrossed' => ~Camera!Waiting /\ live' = 0
    BY <1>s, CameraStopEnds
  <2>2. ~cameraCrossed' => \A s \in Starts : starts'[s] \notin {"asking", "orphan"}
    BY <1>s, <2>1 DEF Camera!Waiting
  <2> QED
    BY <1>s, <2>1, <2>2 DEF Camera!IInv, Camera!OneAsks, Camera!CameraIsOff
<1>1. CASE Camera!Open
  <2>1. CASE photo
    <3>1. Camera!TypeOK'
      BY <1>1, <2>1, <1>t DEF Camera!Open, Camera!TypeOK
    <3> QED
      BY <1>1, <2>1, <3>1 DEF Camera!Open, Camera!IInv, Camera!OneAsks, Camera!CameraIsOff
  <2>2. CASE ~photo
    <3>1. cameraOpen' = TRUE /\ photo' = FALSE /\ shot' = shot /\ Camera!StartCamera
      BY <1>1, <2>2, <1>t DEF Camera!Open, Camera!TypeOK
    <3> QED
      BY <3>1, CameraStartAsks
  <2> QED
    BY <2>1, <2>2
<1>2. CASE Camera!Close
  <2>1. Camera!StopCamera /\ starts' = starts
    BY <1>2 DEF Camera!Close
  <2>2. /\ cameraHeld' = FALSE /\ live' \in 0..MaxStreams /\ cameraCrossed' \in BOOLEAN
    BY <2>1, CameraStopEnds
  <2>3. Camera!TypeOK'
    BY <1>2, <2>2, <1>t DEF Camera!Close, Camera!TypeOK
  <2> QED
    BY <2>1, <2>3, <1>s
<1>3. CASE Camera!Restart
  <2>1. cameraOpen' = TRUE /\ photo' = FALSE /\ shot' = shot /\ Camera!StartCamera
    BY <1>3, <1>t DEF Camera!Restart, Camera!TypeOK
  <2> QED
    BY <2>1, CameraStartAsks
<1>4. CASE Camera!Unmount
  <2>1. Camera!StopCamera
    BY <1>4 DEF Camera!Unmount
  <2>2. /\ cameraHeld' = FALSE /\ live' \in 0..MaxStreams /\ cameraCrossed' \in BOOLEAN
    BY <2>1, CameraStopEnds
  <2>3. /\ starts' \in [Starts -> {"idle", "asking", "playing", "orphan"}]
        /\ \A s \in Starts : starts'[s] \in {"asking", "orphan"} => starts[s] \in {"asking", "orphan"}
    BY <1>4, <1>f DEF Camera!Unmount
  <2>4. Camera!TypeOK'
    BY <1>4, <2>2, <2>3 DEF Camera!Unmount, Camera!TypeOK
  <2> QED
    BY <2>1, <2>3, <2>4, <1>s
<1>5. ASSUME NEW s \in Starts, Camera!Granted(s) PROVE Camera!IInv'
  <2>1. /\ starts[s] = "asking" /\ live < MaxStreams /\ cameraHeld' = TRUE /\ live' = live + 1
        /\ UNCHANGED <<cameraOpen, photo, failed, shot, cameraCrossed>>
    BY <1>5 DEF Camera!Granted
  <2>2. /\ starts' \in [Starts -> {"idle", "asking", "playing", "orphan"}]
        /\ starts'[s] # "asking" /\ starts'[s] # "orphan"
        /\ \A u \in Starts \ {s} : starts'[u] = starts[u]
        /\ starting' \in BOOLEAN
    BY <1>5, <1>f, <1>t DEF Camera!Granted, Camera!TypeOK
  <2>3. Camera!TypeOK'
    BY <2>1, <2>2, <1>t, StreamsAssumption DEF Camera!TypeOK
  <2>4. ~cameraCrossed => cameraOpen /\ ~photo /\ live = 0
        /\ \A u \in Starts \ {s} : starts[u] \notin {"asking", "orphan"}
    BY <2>1 DEF Camera!IInv, Camera!OneAsks
  <2>5. Camera!OneAsks'
    BY <2>1, <2>2, <2>4 DEF Camera!OneAsks
  <2>6. Camera!CameraIsOff'
    BY <2>1, <2>4 DEF Camera!CameraIsOff
  <2> QED
    BY <2>3, <2>5, <2>6 DEF Camera!IInv
<1>6. ASSUME NEW s \in Starts, Camera!GrantedLate(s) PROVE Camera!IInv'
  <2>1. Camera!TypeOK'
    BY <1>6, <1>t, StreamsAssumption DEF Camera!GrantedLate, Camera!TypeOK
  <2> QED
    BY <1>6, <2>1 DEF Camera!GrantedLate, Camera!IInv, Camera!OneAsks, Camera!CameraIsOff
<1>7. ASSUME NEW s \in Starts, Camera!Denied(s) \/ \E ok \in BOOLEAN : Camera!Plays(s, ok)
      PROVE Camera!IInv'
  <2>1. /\ starts' = [starts EXCEPT ![s] = "idle"]
        /\ starting' \in BOOLEAN /\ failed' \in BOOLEAN
        /\ UNCHANGED <<cameraOpen, photo, shot, cameraHeld, live, cameraCrossed>>
    BY <1>7, <1>t DEF Camera!Denied, Camera!Plays, Camera!TypeOK
  <2>2. Camera!TypeOK'
    BY <2>1, <1>t DEF Camera!TypeOK
  <2>3. Camera!OneAsks'
    BY <2>1, <1>f DEF Camera!IInv, Camera!OneAsks
  <2> QED
    BY <2>1, <2>2, <2>3 DEF Camera!IInv, Camera!CameraIsOff
<1>8. CASE Camera!Capture \/ Camera!CaptureFails
  <2>1. shot' \in BOOLEAN /\ failed' \in BOOLEAN /\ UNCHANGED <<cameraOpen, photo, starting,
        starts, cameraHeld, live, cameraCrossed>>
    BY <1>8, <1>t DEF Camera!Capture, Camera!CaptureFails, Camera!TypeOK
  <2>2. Camera!TypeOK'
    BY <2>1, <1>t DEF Camera!TypeOK
  <2> QED
    BY <2>1, <2>2 DEF Camera!IInv, Camera!OneAsks, Camera!CameraIsOff
<1>9. CASE Camera!Captured
  <2>1. Camera!StopCamera /\ starts' = starts
    BY <1>9 DEF Camera!Captured
  <2>2. /\ cameraHeld' = FALSE /\ live' \in 0..MaxStreams /\ cameraCrossed' \in BOOLEAN
    BY <2>1, CameraStopEnds
  <2>3. Camera!TypeOK'
    BY <1>9, <2>2, <1>t DEF Camera!Captured, Camera!TypeOK
  <2> QED
    BY <2>1, <2>3, <1>s
<1>10. CASE UNCHANGED Camera!vars
  BY <1>10 DEF Camera!vars, Camera!IInv, Camera!TypeOK, Camera!OneAsks, Camera!CameraIsOff
<1> QED
  BY <1>1, <1>2, <1>3, <1>4, <1>5, <1>6, <1>7, <1>8, <1>9, <1>10 DEF Camera!Next

LEMMA CameraInitInv == Camera!Init => Camera!IInv
<1> SUFFICES ASSUME Camera!Init PROVE Camera!IInv
  OBVIOUS
<1>1. starts \in [Starts -> {"idle", "asking", "playing", "orphan"}]
  BY DEF Camera!Init
<1>2. /\ {cameraOpen, photo, starting, failed, shot, cameraHeld, cameraCrossed} \subseteq BOOLEAN
      /\ live = 0 /\ ~cameraHeld
  BY DEF Camera!Init
<1>3. Camera!TypeOK
  BY <1>1, <1>2, StreamsAssumption DEF Camera!TypeOK
<1> QED
  BY <1>3 DEF Camera!Init, Camera!IInv, Camera!OneAsks, Camera!CameraIsOff

-----------------------------------------------------------------------------
\* Onboarding.

\* What Set leaves of the wizard.
LEMMA WizardSetFields ==
  ASSUME wizard \in Wizard!Wizards, NEW fields, Wizard!Set(fields),
         DOMAIN fields \subseteq {"step", "made", "making", "saved", "import", "resolved", "wallet"},
         "step" \in DOMAIN fields => fields["step"] \in 0..3,
         "made" \in DOMAIN fields => fields["made"] \in Identities \cup {NoIdentity},
         "making" \in DOMAIN fields => fields["making"] \in BOOLEAN,
         "saved" \in DOMAIN fields => fields["saved"] \in BOOLEAN,
         "import" \in DOMAIN fields => fields["import"] \in BOOLEAN,
         "resolved" \in DOMAIN fields => fields["resolved"] \in Identities \cup {NoIdentity},
         "wallet" \in DOMAIN fields => fields["wallet"] \in Identities \cup {NoIdentity}
  PROVE  /\ wizard' \in Wizard!Wizards
         /\ wizard'.resolved = IF "resolved" \in DOMAIN fields THEN fields["resolved"] ELSE wizard.resolved
         /\ wizard'.wallet = IF "wallet" \in DOMAIN fields THEN fields["wallet"] ELSE wizard.wallet
<1>1. DOMAIN wizard = {"step", "made", "making", "saved", "import", "resolved", "wallet"}
  BY DEF Wizard!Wizards
<1>2. DOMAIN wizard' = {"step", "made", "making", "saved", "import", "resolved", "wallet"}
  BY <1>1 DEF Wizard!Set
<1>3. \A f \in DOMAIN wizard : wizard'[f] = IF f \in DOMAIN fields THEN fields[f] ELSE wizard[f]
  BY DEF Wizard!Set
<1>4. wizard' = [step |-> wizard'.step, made |-> wizard'.made, making |-> wizard'.making,
      saved |-> wizard'.saved,
                 import |-> wizard'.import, resolved |-> wizard'.resolved, wallet |-> wizard'.wallet]
  BY <1>1, <1>2 DEF Wizard!Set
<1>5. /\ wizard'.step \in 0..3 /\ wizard'.made \in Identities \cup {NoIdentity}
         /\ wizard'.making \in BOOLEAN
      /\ wizard'.saved \in BOOLEAN /\ wizard'.import \in BOOLEAN
      /\ wizard'.resolved \in Identities \cup {NoIdentity}
            /\ wizard'.wallet \in Identities \cup {NoIdentity}
  BY <1>1, <1>3 DEF Wizard!Wizards
<1>6. wizard' \in Wizard!Wizards
  BY <1>4, <1>5 DEF Wizard!Wizards
<1> QED
  BY <1>1, <1>3, <1>6

\* A step of the gate: the page changes, and with it perhaps a wizard that was
\* left is opened anew, which happens only while there is no identity.
LEMMA WizardGateStep ==
  ASSUME Wizard!IInv, path' \in Wizard!Pages, returnTo' \in {"link", "chats"},
        inject' \in {"due", "timer", "done", "none"},
         {loaded, unlocked}' \subseteq BOOLEAN,
         UNCHANGED <<account, wizardCrossed>>, finish' \in {finish, Wizard!NotFinishing},
         \/ UNCHANGED wizard /\ linking' \in {linking, NoIdentity}
         \/ account.id = NoIdentity /\ wizard' = Wizard!Fresh /\ linking' = NoIdentity
  PROVE  Wizard!IInv'
<1>1. wizard' \in Wizard!Wizards /\ linking' \in Identities \cup {NoIdentity}
  <2>1. CASE UNCHANGED wizard /\ linking' \in {linking, NoIdentity}
    BY <2>1 DEF Wizard!IInv, Wizard!TypeOK
  <2>2. CASE wizard' = Wizard!Fresh /\ linking' = NoIdentity
    <3>1. Wizard!Fresh \in Wizard!Wizards
      BY DEF Wizard!Fresh, Wizard!Wizards
    <3> QED
      BY <2>2, <3>1
  <2> QED
    BY <2>1, <2>2
<1>2. Wizard!TypeOK'
  <2>1. {loaded, unlocked, wizardCrossed}' \subseteq BOOLEAN
    BY DEF Wizard!IInv, Wizard!TypeOK
  <2> QED
    BY <1>1, <2>1 DEF Wizard!IInv, Wizard!TypeOK
<1>3. finish' # Wizard!NotFinishing => UNCHANGED wizard
  BY DEF Wizard!IInv, Wizard!TypeOK
<1>4. wizardCrossed' \/ {wizard'.wallet, linking'} \subseteq {NoIdentity, wizard'.resolved}
  <2>1. CASE UNCHANGED wizard /\ linking' \in {linking, NoIdentity}
    BY <2>1 DEF Wizard!IInv, Wizard!WalletFollowsIdentity
  <2>2. CASE wizard' = Wizard!Fresh /\ linking' = NoIdentity
    BY <2>2 DEF Wizard!Fresh
  <2> QED
    BY <2>1, <2>2
<1>5. Wizard!WalletFollowsIdentity'
  BY <1>3, <1>4 DEF Wizard!IInv, Wizard!WalletFollowsIdentity
<1> QED
  BY <1>2, <1>5 DEF Wizard!IInv, Wizard!ProofIsForIdentity

\* A step of the wizard, which is there only while there is no identity.
LEMMA WizardWizardStep ==
  ASSUME Wizard!IInv, account.id = NoIdentity, UNCHANGED <<path, returnTo, inject, loaded,
        unlocked, account, finish>>,
         wizard' \in Wizard!Wizards, linking' \in Identities \cup {NoIdentity},
               wizardCrossed' \in BOOLEAN, wizardCrossed => wizardCrossed',
         wizardCrossed' \/ {wizard'.wallet, linking'} \subseteq {NoIdentity, wizard'.resolved}
  PROVE  Wizard!IInv'
<1>1. finish' = Wizard!NotFinishing /\ account' = account /\ account.wallet = NoIdentity
  BY DEF Wizard!IInv, Wizard!TypeOK, Wizard!WalletFollowsIdentity
<1>2. Wizard!TypeOK'
  <2>1. {loaded, unlocked, wizardCrossed}' \subseteq BOOLEAN
    BY DEF Wizard!IInv, Wizard!TypeOK
  <2> QED
    BY <1>1, <2>1 DEF Wizard!IInv, Wizard!TypeOK
<1> QED
  BY <1>1, <1>2 DEF Wizard!IInv, Wizard!WalletFollowsIdentity, Wizard!ProofIsForIdentity

\* The wizard is there.
LEMMA WizardOpenMeans == Wizard!IInv /\ Wizard!Open => account.id = NoIdentity
  BY DEF Wizard!IInv, Wizard!TypeOK, Wizard!Open, Wizard!Wanted

LEMMA WizardGateInv ==
  ASSUME Wizard!IInv, \/ Wizard!InjectBase \/ Wizard!Reopen \/ Wizard!Gate \/ Wizard!Load
        \/ Wizard!ToggleLock
                      \/ \E cancelled \in BOOLEAN : Wizard!Unlock(cancelled)
  PROVE  Wizard!IInv'
<1>t. /\ path \in Wizard!Pages /\ returnTo \in {"link", "chats"}
         /\ inject \in {"due", "timer", "done", "none"}
      /\ {loaded, unlocked, wizardCrossed} \subseteq BOOLEAN
      /\ {"link", "chats"} \subseteq Wizard!Pages
      /\ Wizard!Gates = {"splash", "onboarding", "unlock"} /\ Wizard!Gates \subseteq Wizard!Pages
  BY DEF Wizard!IInv, Wizard!TypeOK, Wizard!Pages, Wizard!Gates
<1>1. CASE Wizard!InjectBase \/ Wizard!Reopen
  BY <1>1, <1>t, WizardGateStep DEF Wizard!InjectBase, Wizard!Reopen, Wizard!Go
<1>2. CASE Wizard!Gate
  <2>1. Wizard!Sanitized(path) \in {"link", "chats"}
    BY <1>t DEF Wizard!Sanitized, Wizard!Pages
  <2>2. CASE Wizard!Wanted # "open" /\ Wizard!Go(Wizard!Wanted, Wizard!Sanitized(path))
    <3>1. Wizard!Wanted \in Wizard!Gates /\ (Wizard!Wanted = "onboarding" => account.id = NoIdentity)
      BY <2>2, <1>t DEF Wizard!Wanted
    <3>2. /\ path' = Wizard!Wanted /\ returnTo' = Wizard!Sanitized(path)
          /\ UNCHANGED <<inject, loaded, account, unlocked, finish, wizardCrossed>>
      BY <1>2, <2>2 DEF Wizard!Gate, Wizard!Go
    <3>3. UNCHANGED <<wizard, linking>> \/ (account.id = NoIdentity /\ wizard' = Wizard!Fresh
          /\ linking' = NoIdentity)
      BY <1>2, <3>1, <3>2 DEF Wizard!Gate, Wizard!Reopened
    <3> HIDE DEF Wizard!Wanted
    <3> QED
      BY <1>t, <2>1, <3>1, <3>2, <3>3, WizardGateStep
  <2>3. CASE Wizard!Go(returnTo, "chats")
    <3>1. /\ path' = returnTo /\ returnTo' = "chats"
          /\ UNCHANGED <<inject, loaded, account, unlocked, finish, wizardCrossed>>
      BY <1>2, <2>3 DEF Wizard!Gate, Wizard!Go
    <3>2. UNCHANGED <<wizard, linking>>
      BY <1>2, <3>1, <1>t DEF Wizard!Gate, Wizard!Reopened
    <3> QED
      BY <1>t, <3>1, <3>2, WizardGateStep
  <2> QED
    BY <1>2, <2>2, <2>3 DEF Wizard!Gate
<1>3. CASE Wizard!Load
  BY <1>3, <1>t, WizardGateStep DEF Wizard!Load
<1>4. CASE Wizard!ToggleLock
  <2>1. /\ account' = [account EXCEPT !.lock = ~@]
        /\ unlocked' = (unlocked /\ account'.lock)
        /\ UNCHANGED <<path, returnTo, inject, loaded, wizard, linking, finish, wizardCrossed>>
    BY <1>4 DEF Wizard!ToggleLock
  <2>2. /\ account' \in [id : Identities \cup {NoIdentity}, wallet : Identities \cup {NoIdentity},
           lock : BOOLEAN]
        /\ account'.id = account.id /\ account'.wallet = account.wallet
    BY <2>1 DEF Wizard!IInv, Wizard!TypeOK
  <2>3. unlocked' \in BOOLEAN
    BY <2>1, <2>2
  <2>4. Wizard!TypeOK'
    BY <1>t, <2>1, <2>2, <2>3 DEF Wizard!IInv, Wizard!TypeOK
  <2> QED
    BY <2>1, <2>2, <2>4 DEF Wizard!IInv, Wizard!WalletFollowsIdentity, Wizard!ProofIsForIdentity
<1>5. ASSUME NEW cancelled \in BOOLEAN, Wizard!Unlock(cancelled) PROVE Wizard!IInv'
  <2>1. /\ unlocked' = TRUE /\ path' \in {"chats", returnTo} /\ returnTo' = "chats"
        /\ UNCHANGED <<inject, loaded, account, wizard, linking, finish, wizardCrossed>>
    BY <1>5 DEF Wizard!Unlock, Wizard!Go
  <2>2. {loaded, unlocked}' \subseteq BOOLEAN
    BY <2>1, <1>t
  <2> QED
    BY <1>t, <2>1, <2>2, WizardGateStep
<1> QED
  BY <1>1, <1>2, <1>3, <1>4, <1>5

LEMMA WizardWizardInv ==
  ASSUME Wizard!IInv,
         \/ Wizard!Next1 \/ Wizard!Next3 \/ Wizard!Back \/ Wizard!Generate \/ Wizard!GenerateFails
               \/ Wizard!Acknowledge \/ Wizard!ToggleImport
         \/ \E id \in Identities : Wizard!Generated(id) \/ Wizard!Next2(id)
         \/ Wizard!LinkWallet \/ Wizard!Linked \/ Wizard!ClearLink
  PROVE  Wizard!IInv'
<1>w. /\ wizard \in Wizard!Wizards /\ linking \in Identities \cup {NoIdentity}
         /\ wizardCrossed \in BOOLEAN
      /\ wizardCrossed \/ {wizard.wallet, linking} \subseteq {NoIdentity, wizard.resolved}
      /\ wizard.resolved \in Identities \cup {NoIdentity}
            /\ wizard.wallet \in Identities \cup {NoIdentity} /\ wizard.step \in 0..3
      /\ wizard.saved \in BOOLEAN /\ wizard.import \in BOOLEAN
  BY DEF Wizard!IInv, Wizard!TypeOK, Wizard!WalletFollowsIdentity, Wizard!Wizards
<1>g. Wizard!Stay => UNCHANGED <<path, returnTo, inject, loaded, unlocked, account, finish>>
  BY DEF Wizard!Stay, Wizard!gate
\* A step that sets neither the identity nor the wallet.
<1>s. ASSUME NEW fields, Wizard!Set(fields), account.id = NoIdentity, Wizard!Stay,
      UNCHANGED <<linking, wizardCrossed>>,
             DOMAIN fields \subseteq {"step", "made", "making", "saved", "import"},
             "step" \in DOMAIN fields => fields["step"] \in 0..3,
             "made" \in DOMAIN fields => fields["made"] \in Identities \cup {NoIdentity},
             "making" \in DOMAIN fields => fields["making"] \in BOOLEAN,
             "saved" \in DOMAIN fields => fields["saved"] \in BOOLEAN,
             "import" \in DOMAIN fields => fields["import"] \in BOOLEAN
      PROVE  Wizard!IInv'
  <2>1. "resolved" \notin DOMAIN fields /\ "wallet" \notin DOMAIN fields
    BY <1>s
  <2>2. wizard' \in Wizard!Wizards /\ wizard'.resolved = wizard.resolved
        /\ wizard'.wallet = wizard.wallet
    BY <1>s, <1>w, <2>1, WizardSetFields
  <2> QED
    BY <1>s, <1>w, <1>g, <2>2, WizardWizardStep
<1>1. CASE Wizard!Next1 \/ Wizard!Next3
  <2>1. account.id = NoIdentity /\ Wizard!Stay /\ UNCHANGED <<linking, wizardCrossed>>
    BY <1>1, WizardOpenMeans DEF Wizard!Next1, Wizard!Next3, Wizard!At
  <2>2. ASSUME NEW n \in 0..3, Wizard!Set([step |-> n]) PROVE Wizard!IInv'
    BY <2>1, <2>2, <1>s
  <2> QED
    BY <1>1, <2>2 DEF Wizard!Next1, Wizard!Next3
<1>2. CASE Wizard!Back
  <2>1. account.id = NoIdentity /\ Wizard!Stay /\ UNCHANGED <<linking, wizardCrossed>>
        /\ Wizard!Set([step |-> wizard.step - 1])
        /\ wizard.step - 1 \in 0..3
    BY <1>2, <1>w, WizardOpenMeans DEF Wizard!Back
  <2> QED
    BY <2>1, <1>s
<1>3. CASE Wizard!Generate \/ Wizard!GenerateFails
  <2>1. account.id = NoIdentity /\ Wizard!Stay /\ UNCHANGED <<linking, wizardCrossed>>
    BY <1>3, WizardOpenMeans DEF Wizard!Generate, Wizard!GenerateFails, Wizard!At
  <2>2. ASSUME NEW b \in BOOLEAN, Wizard!Set([making |-> b]) PROVE Wizard!IInv'
    BY <2>1, <2>2, <1>s
  <2> QED
    BY <1>3, <2>2 DEF Wizard!Generate, Wizard!GenerateFails
<1>4. CASE Wizard!Acknowledge
  <2>1. account.id = NoIdentity /\ Wizard!Stay /\ UNCHANGED <<linking, wizardCrossed>>
        /\ Wizard!Set([saved |-> ~wizard.saved])
        /\ (~wizard.saved) \in BOOLEAN
    BY <1>4, WizardOpenMeans DEF Wizard!Acknowledge, Wizard!At
  <2> QED
    BY <2>1, <1>s
<1>5. CASE Wizard!ToggleImport
  <2>1. account.id = NoIdentity /\ Wizard!Stay /\ UNCHANGED <<linking, wizardCrossed>>
        /\ Wizard!Set([import |-> ~wizard.import])
        /\ (~wizard.import) \in BOOLEAN
    BY <1>5, WizardOpenMeans DEF Wizard!ToggleImport, Wizard!At
  <2> QED
    BY <2>1, <1>s
<1>6. ASSUME NEW id \in Identities, Wizard!Generated(id) PROVE Wizard!IInv'
  <2> DEFINE fields == [making |-> FALSE, made |-> id, saved |-> FALSE]
  <2>1. account.id = NoIdentity /\ Wizard!Stay /\ UNCHANGED <<linking, wizardCrossed>>
        /\ Wizard!Set(fields)
    BY <1>6, WizardOpenMeans DEF Wizard!Generated
  <2>2. /\ DOMAIN fields = {"making", "made", "saved"}
        /\ fields["making"] \in BOOLEAN /\ fields["made"] \in Identities \cup {NoIdentity}
              /\ fields["saved"] \in BOOLEAN
    OBVIOUS
  <2> HIDE DEF fields
  <2> QED
    BY <2>1, <2>2, <1>s
<1>7. ASSUME NEW id \in Identities, Wizard!Next2(id) PROVE Wizard!IInv'
  <2> DEFINE fields == [step |-> 2, resolved |-> id,
                        wallet |-> IF wizard.resolved \in {NoIdentity,
                              id} THEN wizard.wallet ELSE NoIdentity]
  <2>1. /\ account.id = NoIdentity /\ Wizard!Stay /\ linking' = linking /\ Wizard!Set(fields)
        /\ wizardCrossed' = (wizardCrossed \/ linking \notin {NoIdentity, id})
    BY <1>7, WizardOpenMeans DEF Wizard!Next2, Wizard!At, Wizard!ApplyResolved
  <2>2. /\ DOMAIN fields = {"step", "resolved", "wallet"}
        /\ fields["step"] \in 0..3 /\ fields["resolved"] = id
        /\ fields["wallet"] = IF wizard.resolved \in {NoIdentity, id} THEN wizard.wallet ELSE NoIdentity
    OBVIOUS
  <2> HIDE DEF fields
  <2>3. fields["wallet"] \in Identities \cup {NoIdentity}
    BY <2>2, <1>w
  <2>4. wizard' \in Wizard!Wizards /\ wizard'.resolved = id /\ wizard'.wallet = fields["wallet"]
    BY <2>1, <2>2, <2>3, <1>w, WizardSetFields
  <2>5. wizardCrossed' \/ {wizard'.wallet, linking'} \subseteq {NoIdentity, wizard'.resolved}
    BY <2>1, <2>2, <2>4, <1>w
  <2>6. wizardCrossed' \in BOOLEAN /\ (wizardCrossed => wizardCrossed')
    BY <2>1, <1>w
  <2> QED
    BY <2>1, <2>4, <2>5, <2>6, <1>w, <1>g, WizardWizardStep
<1>8. CASE Wizard!LinkWallet
  <2>1. account.id = NoIdentity /\ Wizard!Stay /\ linking' = wizard.resolved
        /\ UNCHANGED <<wizard, wizardCrossed>>
    BY <1>8, WizardOpenMeans DEF Wizard!LinkWallet, Wizard!At
  <2> QED
    BY <2>1, <1>w, <1>g, WizardWizardStep
\* A step that sets the wallet.
<1>k. ASSUME NEW id \in Identities \cup {NoIdentity}, Wizard!Set([wallet |-> id]),
      account.id = NoIdentity, Wizard!Stay, wizardCrossed' = wizardCrossed,
             linking' \in {NoIdentity, linking}, wizardCrossed \/ id \in {NoIdentity, wizard.resolved}
      PROVE  Wizard!IInv'
  <2> DEFINE fields == [wallet |-> id]
  <2>1. Wizard!Set(fields) /\ DOMAIN fields = {"wallet"} /\ fields["wallet"] = id
    BY <1>k
  <2> HIDE DEF fields
  <2>2. wizard' \in Wizard!Wizards /\ wizard'.resolved = wizard.resolved /\ wizard'.wallet = id
    BY <2>1, <1>w, WizardSetFields
  <2> QED
    BY <2>2, <1>k, <1>w, <1>g, WizardWizardStep
<1>9. CASE Wizard!Linked
  BY <1>9, <1>k, <1>w, WizardOpenMeans DEF Wizard!Linked
<1>10. CASE Wizard!ClearLink
  BY <1>10, <1>k, <1>w, WizardOpenMeans DEF Wizard!ClearLink, Wizard!At
<1> QED
  BY <1>1, <1>2, <1>3, <1>4, <1>5, <1>6, <1>7, <1>8, <1>9, <1>10

LEMMA WizardFinishInv ==
  ASSUME Wizard!IInv, Wizard!Finish \/ Wizard!Saved \/ Wizard!WalletSaved \/ Wizard!SaveFails
        \/ Wizard!LinkFails
  PROVE  Wizard!IInv'
<1>t. /\ account \in [id : Identities \cup {NoIdentity}, wallet : Identities \cup {NoIdentity},
         lock : BOOLEAN]
      /\ wizard \in Wizard!Wizards /\ wizard.resolved \in Identities \cup {NoIdentity}
            /\ wizard.wallet \in Identities \cup {NoIdentity}
      /\ returnTo \in {"link", "chats"} /\ path \in Wizard!Pages
      /\ finish \in {Wizard!NotFinishing} \cup [at : {"saving", "linking"}, back : {"link", "chats"}]
      /\ inject \in {"due", "timer", "done", "none"}
      /\ {loaded, unlocked} \subseteq BOOLEAN
      /\ {"link", "chats"} \subseteq Wizard!Pages
  BY DEF Wizard!IInv, Wizard!TypeOK, Wizard!Wizards, Wizard!Pages
<1>n. \A f \in [at : {"saving", "linking"}, back : {"link", "chats"}] : f # Wizard!NotFinishing
  BY DEF Wizard!NotFinishing
<1>f. finish # Wizard!NotFinishing => finish.back \in {"link", "chats"}
  BY <1>t
<1>1. CASE Wizard!Finish
  <2>1. /\ account.id = NoIdentity /\ wizard.resolved # NoIdentity
        /\ account' = [account EXCEPT !.id = wizard.resolved]
        /\ finish' = [at |-> "saving", back |-> returnTo]
        /\ UNCHANGED <<path, returnTo, inject, loaded, unlocked, wizard, linking, wizardCrossed>>
    BY <1>1, WizardOpenMeans DEF Wizard!Finish, Wizard!At, Wizard!gate
  <2>2. /\ account' \in [id : Identities \cup {NoIdentity}, wallet : Identities \cup {NoIdentity},
           lock : BOOLEAN]
        /\ account'.id = wizard.resolved /\ account'.wallet = NoIdentity
    BY <2>1, <1>t DEF Wizard!IInv, Wizard!WalletFollowsIdentity
  <2>3. finish' \in [at : {"saving", "linking"}, back : {"link", "chats"}]
    BY <2>1, <1>t
  <2>4. Wizard!TypeOK'
    BY <2>1, <2>2, <2>3 DEF Wizard!IInv, Wizard!TypeOK
  <2> QED
    BY <2>1, <2>2, <2>4 DEF Wizard!IInv, Wizard!WalletFollowsIdentity, Wizard!ProofIsForIdentity
<1>2. CASE Wizard!Saved
  <2>1. /\ finish.at = "saving" /\ UNCHANGED <<inject, loaded, unlocked, wizard, linking, wizardCrossed>>
    BY <1>2 DEF Wizard!Saved
  <2>2. finish # Wizard!NotFinishing
    BY <2>1 DEF Wizard!NotFinishing
  <2>3. CASE wizard.wallet = NoIdentity
    <3>1. finish' = Wizard!NotFinishing /\ path' = finish.back /\ returnTo' = "chats"
          /\ account' = account
      BY <1>2, <2>3 DEF Wizard!Saved, Wizard!Go
    <3> QED
      BY <1>t, <1>f, <2>1, <2>2, <3>1, WizardGateStep
  <2>4. CASE wizard.wallet # NoIdentity
    <3>1. /\ finish' = [finish EXCEPT !.at = "linking"]
          /\ account' = [account EXCEPT !.wallet = wizard.wallet]
          /\ UNCHANGED <<path, returnTo>>
      BY <1>2, <2>4 DEF Wizard!Saved
    <3>2. /\ account' \in [id : Identities \cup {NoIdentity},
             wallet : Identities \cup {NoIdentity}, lock : BOOLEAN]
          /\ account'.id = account.id /\ account'.wallet = wizard.wallet
      BY <3>1, <1>t
    <3>3. finish' \in [at : {"saving", "linking"}, back : {"link", "chats"}]
      BY <3>1, <2>2, <1>t
    <3>4. account.id # NoIdentity /\ wizard.resolved = account.id
      BY <2>2 DEF Wizard!IInv, Wizard!TypeOK, Wizard!WalletFollowsIdentity
    <3>5. Wizard!TypeOK'
      BY <2>1, <3>1, <3>2, <3>3, <3>4 DEF Wizard!IInv, Wizard!TypeOK
    <3> QED
      BY <2>1, <3>1, <3>2, <3>4, <3>5 DEF Wizard!IInv, Wizard!WalletFollowsIdentity,
         Wizard!ProofIsForIdentity
  <2> QED
    BY <2>3, <2>4
<1>3. CASE Wizard!WalletSaved
  <2>1. /\ finish.at = "linking" /\ finish' = Wizard!NotFinishing /\ path' = finish.back
           /\ returnTo' = "chats"
        /\ UNCHANGED <<inject, loaded, account, unlocked, wizard, linking, wizardCrossed>>
    BY <1>3 DEF Wizard!WalletSaved, Wizard!Go
  <2>2. finish # Wizard!NotFinishing
    BY <2>1 DEF Wizard!NotFinishing
  <2> QED
    BY <1>t, <1>f, <2>1, <2>2, WizardGateStep
<1>4. CASE Wizard!SaveFails \/ Wizard!LinkFails
  BY <1>4, <1>t, WizardGateStep DEF Wizard!SaveFails, Wizard!LinkFails, Wizard!Stay, Wizard!gate
<1> QED
  BY <1>1, <1>2, <1>3, <1>4

LEMMA WizardNextInv == Wizard!IInv /\ [Wizard!Next]_(Wizard!vars) => Wizard!IInv'
<1> SUFFICES ASSUME Wizard!IInv, [Wizard!Next]_(Wizard!vars) PROVE Wizard!IInv'
  OBVIOUS
<1>1. CASE UNCHANGED Wizard!vars
  BY <1>1 DEF Wizard!vars, Wizard!gate, Wizard!IInv, Wizard!TypeOK, Wizard!WalletFollowsIdentity,
     Wizard!ProofIsForIdentity
<1>2. CASE Wizard!Next
  BY <1>2, WizardGateInv, WizardWizardInv, WizardFinishInv DEF Wizard!Next
<1> QED
  BY <1>1, <1>2

LEMMA WizardInitInv == Wizard!Init => Wizard!IInv
<1> SUFFICES ASSUME Wizard!Init PROVE Wizard!IInv
  OBVIOUS
<1>1. /\ account \in [id : Identities \cup {NoIdentity}, wallet : Identities \cup {NoIdentity},
         lock : BOOLEAN]
      /\ account.wallet = NoIdentity
  BY DEF Wizard!Init
<1>2. wizard \in Wizard!Wizards /\ wizard.wallet = NoIdentity
  BY DEF Wizard!Init, Wizard!Fresh, Wizard!Wizards
<1>3. {loaded, unlocked, wizardCrossed} \subseteq BOOLEAN
  BY DEF Wizard!Init
<1>4. Wizard!TypeOK
  BY <1>1, <1>2, <1>3 DEF Wizard!Init, Wizard!TypeOK, Wizard!Pages
<1> QED
  BY <1>1, <1>2, <1>4 DEF Wizard!Init, Wizard!IInv, Wizard!WalletFollowsIdentity,
     Wizard!ProofIsForIdentity

-----------------------------------------------------------------------------
\* EnsHandles.

\* The type invariant, part by part, for what concerns the chain, the cache, the
\* requests, the publication and the page.
HandlesChainType == chain \in [HandleNames -> Handles!Records]
      /\ floor \in [HandleNames -> Handles!Records]
                    /\ \A n \in HandleNames : floor[n] <= chain[n]
HandlesCacheType == cache \in [HandleNames -> Handles!Entries]
      /\ handlesStored \in [HandleNames -> Handles!Entries] /\ handlesCrossed \in SUBSET HandleNames
                    /\ \A n \in HandleNames \ handlesCrossed : \A r \in Handles!Records : Handles!Found(r) \in {cache[n], handlesStored[n]} => r >= floor[n]
HandlesLoadType == /\ inflight \in [HandleNames -> Handles!Requests] /\ hydrated \in BOOLEAN
                   /\ \A n \in HandleNames : inflight[n] # Handles!None => hydrated
                   /\ ~hydrated => \A n \in HandleNames : cache[n] = Handles!Missing
HandlesPublishType == publish \in {Handles!None} \cup [at : {"signing", "mined"}, name : HandleNames]
HandlesPageType == /\ token \in Handles!AtMostOne /\ resolving \in Handles!AtMostOne
                      /\ visits \in [HandleNames -> {"none", "heeded", "disposed"}]
                   /\ returned \in BOOLEAN /\ handlesShown \in {"idle", "resolving", "error", "failed"}
                   /\ \A n \in HandleNames : visits[n] = "heeded" => n \in token /\ n \in resolving
                   /\ \A n \in resolving : visits[n] # "none"
                   /\ \A n \in token : handlesShown \notin {"error", "failed"}
                         => visits[n] = "heeded" \/ returned
HandlesWaited == \A n \in HandleNames : visits[n] = "heeded" => inflight[n] # Handles!None

LEMMA HandlesParts == Handles!IInv <=> HandlesChainType /\ HandlesCacheType /\ HandlesLoadType
      /\ HandlesPublishType /\ HandlesPageType /\ HandlesWaited
<1>1. Handles!IInv => HandlesChainType /\ HandlesCacheType /\ HandlesLoadType /\ HandlesPublishType
      /\ HandlesPageType /\ HandlesWaited
  BY DEF Handles!IInv, Handles!TypeOK, Handles!FloorsAndVisits, Handles!HandleIsCurrent,
     Handles!PublishedIsVisible, Handles!VisitIsHeeded,
         HandlesChainType, HandlesCacheType, HandlesLoadType, HandlesPublishType, HandlesPageType,
         HandlesWaited
<1>2. HandlesChainType /\ HandlesCacheType /\ HandlesLoadType /\ HandlesPublishType
      /\ HandlesPageType /\ HandlesWaited => Handles!IInv
  BY DEF Handles!IInv, Handles!TypeOK, Handles!FloorsAndVisits, Handles!HandleIsCurrent,
     Handles!PublishedIsVisible, Handles!VisitIsHeeded,
         HandlesChainType, HandlesCacheType, HandlesLoadType, HandlesPublishType, HandlesPageType,
         HandlesWaited
<1> QED
  BY <1>1, <1>2

LEMMA HandlesFoundFacts ==
  /\ \A r \in Handles!Records : Handles!Found(r) # Handles!Missing /\ Handles!Found(r).rec = r
  /\ Handles!Missing \in Handles!Entries /\ \A r \in Handles!Records : Handles!Found(r) \in Handles!Entries
  /\ \A e \in Handles!Entries : e # Handles!Missing => e.rec \in Handles!Records
<1>1. ASSUME NEW r \in Handles!Records PROVE Handles!Found(r) # Handles!Missing
      /\ Handles!Found(r).rec = r
  <2>1. "rec" \in DOMAIN Handles!Found(r) /\ "rec" \notin DOMAIN Handles!Missing
    BY DEF Handles!Found, Handles!Missing
  <2> QED
    BY <2>1 DEF Handles!Found
<1>2. Handles!Missing \in Handles!Entries /\ \A r \in Handles!Records : Handles!Found(r) \in Handles!Entries
  BY DEF Handles!Entries
<1>3. ASSUME NEW e \in Handles!Entries, e # Handles!Missing PROVE e.rec \in Handles!Records
  BY <1>1, <1>3 DEF Handles!Entries
<1> QED
  BY <1>1, <1>2, <1>3

\* What the cache says once localStorage was read.
LEMMA HandlesHydratedFacts ==
  ASSUME HandlesCacheType, HandlesLoadType
  PROVE  /\ Handles!Hydrated \in [HandleNames -> Handles!Entries]
         /\ \A n \in HandleNames \ handlesCrossed : \A r \in Handles!Records : Handles!Hydrated[n] = Handles!Found(r) => r >= floor[n]
<1>1. CASE hydrated
  BY <1>1 DEF Handles!Hydrated, HandlesCacheType
<1>2. CASE ~hydrated
  <2>1. Handles!Hydrated = [n \in HandleNames |-> IF handlesStored[n] # Handles!Missing THEN handlesStored[n] ELSE cache[n]]
    BY <1>2 DEF Handles!Hydrated
  <2> QED
    BY <2>1 DEF HandlesCacheType
<1> QED
  BY <1>1, <1>2 DEF HandlesLoadType

LEMMA HandlesAskParts ==
  ASSUME HandlesCacheType, HandlesLoadType, NEW n \in HandleNames, Handles!Ask(n)
  PROVE  /\ HandlesCacheType' /\ HandlesLoadType'
         /\ Handles!Hydrated[n] = Handles!Missing => inflight'[n] # Handles!None
         /\ \A m \in HandleNames : inflight[m] # Handles!None => inflight'[m] # Handles!None
<1>1. /\ cache' = Handles!Hydrated /\ hydrated' = TRUE /\ UNCHANGED <<handlesStored, floor,
         handlesCrossed>>
      /\ inflight' = IF Handles!Hydrated[n] = Handles!Missing /\ inflight[n] = Handles!None
                     THEN [inflight EXCEPT ![n] = [at |-> "asked"]] ELSE inflight
  BY DEF Handles!Ask
<1> DEFINE asked == [at |-> "asked"]
<1>2. asked \in Handles!Requests /\ asked # Handles!None
  <2>1. asked.at # Handles!None.at
    BY DEF Handles!None
  <2> QED
    BY <2>1 DEF Handles!Requests
<1>3. inflight' = inflight \/ (inflight' = [inflight EXCEPT ![n] = asked] /\ inflight[n] = Handles!None)
  BY <1>1
<1> HIDE DEF asked
<1>4. /\ inflight' \in [HandleNames -> Handles!Requests]
      /\ \A m \in HandleNames : inflight[m] # Handles!None => inflight'[m] # Handles!None
  BY <1>2, <1>3 DEF HandlesLoadType
<1>5. Handles!Hydrated[n] = Handles!Missing => inflight'[n] # Handles!None
  <2>1. CASE Handles!Hydrated[n] = Handles!Missing /\ inflight[n] = Handles!None
    BY <1>1, <1>2, <2>1 DEF HandlesLoadType, asked
  <2> QED
    BY <1>4, <2>1
<1>6. HandlesCacheType'
  <2>1. \A m \in HandleNames \ handlesCrossed : \A r \in Handles!Records : Handles!Found(r) \in {Handles!Hydrated[m], handlesStored[m]} => r >= floor[m]
    BY HandlesHydratedFacts DEF HandlesCacheType
  <2> QED
    BY <1>1, <2>1, HandlesHydratedFacts DEF HandlesCacheType
<1>7. HandlesLoadType'
  BY <1>1, <1>4 DEF HandlesLoadType
<1> QED
  BY <1>4, <1>5, <1>6, <1>7

LEMMA HandlesLeavePage ==
  ASSUME HandlesPageType, NEW n \in HandleNames, NEW outcome \in {"idle", "error", "failed"},
        Handles!Leave(n, outcome)
  PROVE  /\ HandlesPageType'
         /\ \A m \in HandleNames : visits'[m] = "heeded" => visits[m] = "heeded" /\ m # n
<1>1. /\ visits' = [visits EXCEPT ![n] = "none"] /\ resolving' = resolving \ {n} /\ returned' = returned
      /\ IF visits[n] = "heeded"
         THEN token' = (IF outcome = "idle" THEN {} ELSE token) /\ handlesShown' = outcome
         ELSE UNCHANGED <<token, handlesShown>>
  BY DEF Handles!Leave
<1>2. /\ visits' \in [HandleNames -> {"none", "heeded", "disposed"}] /\ visits'[n] = "none"
      /\ \A m \in HandleNames \ {n} : visits'[m] = visits[m]
  BY <1>1 DEF HandlesPageType
<1>3. resolving' \in Handles!AtMostOne /\ token' \in Handles!AtMostOne
      /\ token \subseteq HandleNames /\ resolving \subseteq HandleNames
  BY <1>1 DEF HandlesPageType, Handles!AtMostOne
<1>4. CASE visits[n] = "heeded"
  <2>1. token = {n} /\ resolving = {n}
    BY <1>4 DEF HandlesPageType, Handles!AtMostOne
  <2>2. \A m \in HandleNames : visits'[m] # "heeded"
    BY <1>2, <2>1 DEF HandlesPageType
  <2>3. resolving' = {} /\ handlesShown' = outcome /\ (outcome = "idle" => token' = {})
    BY <1>1, <1>4, <2>1
  <2> QED
    BY <1>1, <1>2, <1>3, <2>2, <2>3 DEF HandlesPageType
<1>5. CASE visits[n] # "heeded"
  <2>1. UNCHANGED <<token, handlesShown>>
    BY <1>1, <1>5
  <2>2. \A m \in HandleNames : visits'[m] = "heeded" <=> visits[m] = "heeded"
    BY <1>2, <1>5
  <2>3. \A m \in HandleNames : visits'[m] = "heeded" => m \in token' /\ m \in resolving'
    BY <1>1, <1>2, <2>1, <2>2 DEF HandlesPageType
  <2>4. \A m \in resolving' : visits'[m] # "none"
    BY <1>1, <1>2, <1>3 DEF HandlesPageType
  <2>5. \A m \in token' : handlesShown' \notin {"error", "failed"} => visits'[m] = "heeded" \/ returned'
    BY <1>1, <1>3, <2>1, <2>2 DEF HandlesPageType
  <2> QED
    BY <1>1, <1>2, <1>3, <1>5, <2>1, <2>2, <2>3, <2>4, <2>5 DEF HandlesPageType
<1> QED
  BY <1>4, <1>5

LEMMA HandlesDisposedFacts ==
  ASSUME HandlesPageType
  PROVE  /\ Handles!Disposed \in [HandleNames -> {"none", "heeded", "disposed"}]
         /\ \A m \in HandleNames : Handles!Disposed[m] # "heeded"
               /\ (Handles!Disposed[m] = "none" <=> visits[m] = "none")
  BY DEF HandlesPageType, Handles!Disposed

\* The effect looks a name up.
LEMMA HandlesEnterParts ==
  ASSUME HandlesCacheType, HandlesLoadType, HandlesPageType, NEW n \in HandleNames, Handles!Enter(n)
  PROVE  HandlesCacheType' /\ HandlesLoadType' /\ HandlesPageType' /\ HandlesWaited'
<1>1. /\ HandlesCacheType' /\ HandlesLoadType'
      /\ Handles!Hydrated[n] = Handles!Missing => inflight'[n] # Handles!None
  BY HandlesAskParts DEF Handles!Enter
<1>2. {n} \in Handles!AtMostOne /\ {} \in Handles!AtMostOne
  BY DEF Handles!AtMostOne
<1>3. CASE Handles!Hydrated[n] = Handles!Missing
  <2>1. /\ token' = {n} /\ resolving' = {n} /\ handlesShown' = "resolving" /\ returned' = FALSE
        /\ visits' = [Handles!Disposed EXCEPT ![n] = "heeded"]
    BY <1>3 DEF Handles!Enter
  <2>2. /\ visits' \in [HandleNames -> {"none", "heeded", "disposed"}] /\ visits'[n] = "heeded"
        /\ \A m \in HandleNames \ {n} : visits'[m] # "heeded"
    BY <2>1, HandlesDisposedFacts
  <2>3. HandlesPageType'
    BY <1>2, <2>1, <2>2 DEF HandlesPageType
  <2> QED
    BY <1>1, <1>3, <2>2, <2>3 DEF HandlesWaited
<1>4. CASE Handles!Hydrated[n] # Handles!Missing
  <2>1. /\ handlesShown' = Handles!Outcome(Handles!Hydrated[n].rec)
           /\ token' = (IF handlesShown' = "idle" THEN {} ELSE {n})
        /\ resolving' = {} /\ visits' = Handles!Disposed /\ returned' = FALSE
    BY <1>4 DEF Handles!Enter
  <2>2. handlesShown' \in {"idle", "error"}
    BY <2>1 DEF Handles!Outcome
  <2>3. HandlesPageType'
    BY <1>2, <2>1, <2>2, HandlesDisposedFacts DEF HandlesPageType
  <2> QED
    BY <1>1, <2>1, <2>3, HandlesDisposedFacts DEF HandlesWaited
<1> QED
  BY <1>3, <1>4

LEMMA HandlesNextInv == Handles!IInv /\ [Handles!Next]_(Handles!vars) => Handles!IInv'
<1> SUFFICES ASSUME Handles!IInv, [Handles!Next]_(Handles!vars) PROVE Handles!IInv'
  OBVIOUS
<1>t. HandlesChainType /\ HandlesCacheType /\ HandlesLoadType /\ HandlesPublishType
      /\ HandlesPageType /\ HandlesWaited
  BY HandlesParts
<1>p. HandlesChainType' /\ HandlesCacheType' /\ HandlesLoadType' /\ HandlesPublishType'
      /\ HandlesPageType' /\ HandlesWaited' => Handles!IInv'
  BY DEF Handles!IInv, Handles!TypeOK, Handles!FloorsAndVisits, Handles!HandleIsCurrent,
     Handles!PublishedIsVisible, Handles!VisitIsHeeded,
         HandlesChainType, HandlesCacheType, HandlesLoadType, HandlesPublishType, HandlesPageType,
         HandlesWaited
<1>v. UNCHANGED Handles!page => HandlesPageType' /\ UNCHANGED visits
  BY <1>t DEF Handles!page, HandlesPageType
<1>1. ASSUME NEW n \in HandleNames, Handles!Lookup(n) PROVE Handles!IInv'
  <2>1. Handles!Ask(n) /\ UNCHANGED chain /\ UNCHANGED publish /\ UNCHANGED Handles!page
        /\ UNCHANGED floor
    BY <1>1 DEF Handles!Lookup, Handles!Ask
  <2>2. HandlesCacheType' /\ HandlesLoadType' /\ \A m \in HandleNames : inflight[m] # Handles!None
        => inflight'[m] # Handles!None
    BY <2>1, <1>t, HandlesAskParts
  <2>3. HandlesWaited'
    BY <2>1, <2>2, <1>t, <1>v DEF HandlesWaited
  <2>4. HandlesChainType' /\ HandlesPublishType'
    BY <2>1, <1>t DEF HandlesChainType, HandlesPublishType
  <2> QED
    BY <2>1, <2>2, <2>3, <2>4, <1>p, <1>v
<1>2. ASSUME NEW n \in HandleNames, Handles!Read(n) PROVE Handles!IInv'
  <2> DEFINE read == [at |-> "read", rec |-> chain[n]]
  <2>1. /\ inflight[n].at = "asked" /\ inflight' = [inflight EXCEPT ![n] = read]
        /\ UNCHANGED <<chain, cache, handlesStored, hydrated, floor, handlesCrossed, publish>>
              /\ UNCHANGED Handles!page
    BY <1>2 DEF Handles!Read
  <2>2. read \in Handles!Requests /\ read # Handles!None
    <3>1. read.at # Handles!None.at
      BY DEF Handles!None
    <3>2. chain[n] \in Handles!Records
      BY <1>t DEF HandlesChainType
    <3> QED
      BY <3>1, <3>2 DEF Handles!Requests
  <2> HIDE DEF read
  <2>3. inflight[n] # Handles!None
    BY <2>1 DEF Handles!None
  <2>4. HandlesLoadType'
    BY <2>1, <2>2, <2>3, <1>t DEF HandlesLoadType
  <2>5. HandlesWaited'
    BY <2>1, <2>2, <1>t, <1>v DEF HandlesWaited, HandlesLoadType
  <2>6. HandlesChainType' /\ HandlesPublishType' /\ HandlesCacheType'
    BY <2>1, <1>t DEF HandlesChainType, HandlesPublishType, HandlesCacheType
  <2> QED
    BY <2>1, <2>4, <2>5, <2>6, <1>p, <1>v
\* A request that is over, answered or not, and the visit with it.
<1>e. ASSUME NEW n \in HandleNames, NEW outcome \in {"idle", "error", "failed"},
      Handles!Leave(n, outcome),
             inflight' = [inflight EXCEPT ![n] = Handles!None]
      PROVE  HandlesPageType' /\ HandlesWaited'
  <2>1. HandlesPageType' /\ \A m \in HandleNames : visits'[m] = "heeded" => visits[m] = "heeded" /\ m # n
    BY <1>e, <1>t, HandlesLeavePage
  <2> QED
    BY <2>1, <1>e, <1>t DEF HandlesWaited, HandlesLoadType
<1>3. ASSUME NEW n \in HandleNames, Handles!Answered(n) PROVE Handles!IInv'
  <2> DEFINE r == inflight[n].rec
  <2>1. /\ inflight[n].at = "read" /\ inflight' = [inflight EXCEPT ![n] = Handles!None]
        /\ cache' = [cache EXCEPT ![n] = Handles!Found(r)] /\ handlesStored' = cache'
        /\ handlesCrossed' = (IF r < floor[n] THEN handlesCrossed \cup {n} ELSE handlesCrossed \ {n})
        /\ Handles!Leave(n, Handles!Outcome(r))
        /\ UNCHANGED <<chain, hydrated, floor, publish>>
    BY <1>3 DEF Handles!Answered
  <2>2. r \in Handles!Records /\ inflight[n] # Handles!None
    <3>1. inflight[n] \in Handles!Requests
      BY <1>t DEF HandlesLoadType
    <3> QED
      BY <2>1, <3>1 DEF Handles!Requests, Handles!None
  <2> HIDE DEF r
  <2>3. Handles!Outcome(r) \in {"idle", "error", "failed"}
    BY DEF Handles!Outcome
  <2>4. HandlesPageType' /\ HandlesWaited'
    BY <2>1, <2>3, <1>e
  <2>5. hydrated /\ Handles!None \in Handles!Requests
    BY <2>2, <1>t DEF HandlesLoadType, Handles!Requests
  <2>6. HandlesLoadType'
    BY <2>1, <2>5, <1>t DEF HandlesLoadType
  <2>7. HandlesCacheType'
    <3>1. /\ Handles!Found(r) \in Handles!Entries
          /\ cache' \in [HandleNames -> Handles!Entries] /\ cache'[n] = Handles!Found(r)
          /\ \A m \in HandleNames \ {n} : cache'[m] = cache[m]
      BY <2>1, <2>2, <1>t, HandlesFoundFacts DEF HandlesCacheType
    <3>2. ASSUME NEW m \in HandleNames \ handlesCrossed', NEW s \in Handles!Records,
          Handles!Found(s) = cache'[m]
          PROVE  s >= floor[m]
      <4>1. CASE m = n
        <5>1. s = r
          BY <3>1, <3>2, <4>1, <2>2, HandlesFoundFacts
        <5>2. ~(r < floor[n]) /\ floor[n] \in Handles!Records
          BY <2>1, <3>2, <4>1, <1>t DEF HandlesChainType
        <5> QED
          BY <4>1, <5>1, <5>2, <2>2, RecordsAssumption DEF Handles!Records
      <4>2. CASE m # n
        BY <2>1, <3>1, <3>2, <4>2, <1>t DEF HandlesCacheType
      <4> QED
        BY <4>1, <4>2
    <3>3. handlesCrossed' \in SUBSET HandleNames
      BY <2>1, <1>t DEF HandlesCacheType
    <3> QED
      BY <2>1, <3>1, <3>2, <3>3 DEF HandlesCacheType
  <2>8. HandlesChainType' /\ HandlesPublishType'
    BY <2>1, <1>t DEF HandlesChainType, HandlesPublishType
  <2> QED
    BY <2>4, <2>6, <2>7, <2>8, <1>p
<1>4. ASSUME NEW n \in HandleNames, Handles!Fails(n) PROVE Handles!IInv'
  <2>1. /\ inflight[n] # Handles!None /\ inflight' = [inflight EXCEPT ![n] = Handles!None]
           /\ Handles!Leave(n, "failed")
        /\ UNCHANGED <<chain, cache, handlesStored, hydrated, floor, handlesCrossed, publish>>
    BY <1>4 DEF Handles!Fails
  <2>2. HandlesPageType' /\ HandlesWaited'
    BY <2>1, <1>e
  <2>3. Handles!None \in Handles!Requests
    BY DEF Handles!Requests
  <2>4. HandlesChainType' /\ HandlesPublishType' /\ HandlesCacheType' /\ HandlesLoadType'
    BY <2>1, <2>3, <1>t DEF HandlesChainType, HandlesPublishType, HandlesCacheType, HandlesLoadType
  <2> QED
    BY <2>2, <2>4, <1>p
<1>5. ASSUME NEW n \in HandleNames, Handles!Expire(n) PROVE Handles!IInv'
  <2>1. /\ UNCHANGED <<chain, hydrated, inflight, floor, handlesCrossed, publish>>
           /\ UNCHANGED Handles!page
        /\ \/ cache' = [cache EXCEPT ![n] = Handles!Missing] /\ handlesStored' = handlesStored
           \/ handlesStored' = [handlesStored EXCEPT ![n] = Handles!Missing] /\ cache' = cache
    BY <1>5 DEF Handles!Expire
  <2>2. \A m \in HandleNames : cache'[m] \in {cache[m], Handles!Missing}
        /\ handlesStored'[m] \in {handlesStored[m], Handles!Missing}
    BY <2>1, <1>t DEF HandlesCacheType
  <2>3. HandlesCacheType'
    <3>1. cache' \in [HandleNames -> Handles!Entries] /\ handlesStored' \in [HandleNames -> Handles!Entries]
      BY <2>1, <1>t, HandlesFoundFacts DEF HandlesCacheType
    <3>2. \A m \in HandleNames \ handlesCrossed : \A s \in Handles!Records : Handles!Found(s) \in {cache'[m], handlesStored'[m]} => s >= floor[m]
      BY <2>2, <1>t, HandlesFoundFacts DEF HandlesCacheType
    <3> QED
      BY <2>1, <3>1, <3>2, <1>t DEF HandlesCacheType
  <2>4. HandlesLoadType'
    BY <2>1, <2>2, <1>t DEF HandlesLoadType
  <2>5. HandlesChainType' /\ HandlesPublishType' /\ HandlesWaited'
    BY <2>1, <1>t, <1>v DEF HandlesChainType, HandlesPublishType, HandlesWaited
  <2> QED
    BY <2>1, <2>3, <2>4, <2>5, <1>p, <1>v
<1>6. ASSUME NEW n \in HandleNames, Handles!Publish(n) PROVE Handles!IInv'
  <2>1. UNCHANGED <<chain, cache, handlesStored, hydrated, inflight, floor, handlesCrossed>>
        /\ UNCHANGED Handles!page
    BY <1>6 DEF Handles!Publish, Handles!lookups
  <2>2. HandlesPublishType'
    BY <1>6 DEF Handles!Publish, HandlesPublishType
  <2>3. HandlesChainType' /\ HandlesCacheType' /\ HandlesLoadType' /\ HandlesWaited'
    BY <2>1, <1>t, <1>v DEF HandlesChainType, HandlesCacheType, HandlesLoadType, HandlesWaited
  <2> QED
    BY <2>1, <2>2, <2>3, <1>p, <1>v
<1>7. ASSUME NEW n \in HandleNames, Handles!Write(n) PROVE Handles!IInv'
  <2>1. /\ chain[n] < MaxRecord /\ chain' = [chain EXCEPT ![n] = chain[n] + 1]
        /\ UNCHANGED <<cache, handlesStored, hydrated, inflight, floor, handlesCrossed>>
              /\ UNCHANGED Handles!page
    BY <1>7 DEF Handles!Write, Handles!lookups
  <2>2. HandlesChainType'
    BY <2>1, <1>t, RecordsAssumption DEF HandlesChainType, Handles!Records
  <2>3. HandlesPublishType'
    <3>1. CASE publish = [at |-> "signing", name |-> n]
      <4>1. publish' = publish \/ publish' = [publish EXCEPT !.at = "mined"]
        BY <1>7, <3>1 DEF Handles!Write
      <4>2. publish' \in [at : {"signing", "mined"}, name : HandleNames]
        BY <3>1, <4>1
      <4> QED
        BY <4>2 DEF HandlesPublishType
    <3>2. CASE publish # [at |-> "signing", name |-> n]
      BY <1>7, <3>2, <1>t DEF Handles!Write, HandlesPublishType
    <3> QED
      BY <3>1, <3>2
  <2>4. HandlesCacheType' /\ HandlesLoadType' /\ HandlesWaited'
    BY <2>1, <1>t, <1>v DEF HandlesCacheType, HandlesLoadType, HandlesWaited
  <2> QED
    BY <2>1, <2>2, <2>3, <2>4, <1>p, <1>v
<1>8. ASSUME NEW next \in Handles!AtMostOne, Handles!Visit(next) PROVE Handles!IInv'
  <2>1. UNCHANGED chain /\ UNCHANGED publish
    BY <1>8 DEF Handles!Visit
  <2>2. CASE next = {} \/ next = resolving
    <3>1. /\ token' = next /\ visits' = Handles!Disposed /\ resolving' = resolving
          /\ handlesShown' = (IF next = {} THEN "idle" ELSE handlesShown)
          /\ returned' = (\E n \in next : visits[n] # "none")
          /\ UNCHANGED <<cache, handlesStored, hydrated, inflight, floor, handlesCrossed>>
      BY <1>8, <2>2 DEF Handles!Visit, Handles!lookups
    <3>2. \A n \in next : returned'
      <4>1. CASE next = {}
        BY <4>1
      <4>2. CASE next = resolving
        BY <3>1, <4>2, <1>t DEF HandlesPageType
      <4> QED
        BY <2>2, <4>1, <4>2
    <3>3. returned' \in BOOLEAN
      BY <3>1
    <3>4. resolving \subseteq HandleNames
      BY <1>t DEF HandlesPageType, Handles!AtMostOne
    <3>5. HandlesPageType'
      BY <3>1, <3>2, <3>3, <3>4, <1>t, HandlesDisposedFacts DEF HandlesPageType
    <3>6. HandlesWaited'
      BY <3>1, <1>t, HandlesDisposedFacts DEF HandlesWaited
    <3>7. HandlesChainType' /\ HandlesCacheType' /\ HandlesLoadType' /\ HandlesPublishType'
      BY <2>1, <3>1, <1>t DEF HandlesChainType, HandlesCacheType, HandlesLoadType,
         HandlesPublishType
    <3> QED
      BY <3>5, <3>6, <3>7, <1>p
  <2>3. ASSUME NEW n \in next, Handles!Enter(n) PROVE Handles!IInv'
    <3>1. n \in HandleNames
      BY DEF Handles!AtMostOne
    <3>2. HandlesCacheType' /\ HandlesLoadType' /\ HandlesPageType' /\ HandlesWaited'
      BY <2>3, <3>1, <1>t, HandlesEnterParts
    <3>3. floor' = floor
      BY <2>3 DEF Handles!Enter, Handles!Ask
    <3>4. HandlesChainType' /\ HandlesPublishType'
      BY <2>1, <3>3, <1>t DEF HandlesChainType, HandlesPublishType
    <3> QED
      BY <3>2, <3>4, <1>p
  <2> QED
    BY <1>8, <2>2, <2>3 DEF Handles!Visit
<1>9. CASE Handles!Retry
  <2>1. PICK n \in token : Handles!Enter(n)
    BY <1>9 DEF Handles!Retry
  <2>2. n \in HandleNames
    BY <1>t DEF HandlesPageType, Handles!AtMostOne
  <2>3. HandlesCacheType' /\ HandlesLoadType' /\ HandlesPageType' /\ HandlesWaited'
    BY <2>1, <2>2, <1>t, HandlesEnterParts
  <2>4. floor' = floor
    BY <2>1 DEF Handles!Enter, Handles!Ask
  <2>5. HandlesChainType' /\ HandlesPublishType'
    BY <1>9, <2>4, <1>t DEF Handles!Retry, HandlesChainType, HandlesPublishType
  <2> QED
    BY <2>3, <2>5, <1>p
<1>10. CASE Handles!Published
  <2> DEFINE n == publish.name
  <2>1. /\ publish.at = "mined" /\ cache' = Handles!Dropped(n) /\ handlesStored' = Handles!Dropped(n)
        /\ floor' = [floor EXCEPT ![n] = chain[n]] /\ handlesCrossed' = handlesCrossed \ {n}
        /\ publish' = Handles!None
        /\ UNCHANGED <<chain, hydrated, inflight>> /\ UNCHANGED Handles!page
    BY <1>10 DEF Handles!Published
  <2>2. n \in HandleNames
    BY <2>1, <1>t DEF HandlesPublishType, Handles!None
  <2> HIDE DEF n
  <2>3. HandlesChainType'
    BY <2>1, <2>2, <1>t, RecordsAssumption DEF HandlesChainType, Handles!Records
  <2>4. /\ cache' \in [HandleNames -> Handles!Entries] /\ handlesStored' = cache'
           /\ cache'[n] = Handles!Missing
        /\ \A m \in HandleNames \ {n} : cache'[m] = cache[m] /\ floor'[m] = floor[m]
    BY <2>1, <2>2, <1>t, HandlesFoundFacts DEF HandlesCacheType, HandlesChainType, Handles!Dropped
  <2>5. HandlesCacheType'
    <3>1. ASSUME NEW m \in HandleNames \ handlesCrossed', NEW s \in Handles!Records,
          Handles!Found(s) = cache'[m]
          PROVE  s >= floor'[m]
      <4>1. m # n
        BY <2>4, <3>1, HandlesFoundFacts
      <4> QED
        BY <2>1, <2>4, <3>1, <4>1, <1>t DEF HandlesCacheType
    <3> QED
      BY <2>1, <2>4, <3>1, <1>t DEF HandlesCacheType
  <2>6. HandlesLoadType'
    BY <2>1, <2>4, <1>t DEF HandlesLoadType
  <2>7. HandlesPublishType' /\ HandlesWaited'
    BY <2>1, <1>t, <1>v DEF HandlesPublishType, HandlesWaited
  <2> QED
    BY <2>1, <2>3, <2>5, <2>6, <2>7, <1>p, <1>v
<1>11. CASE Handles!Reload
  <2>1. /\ cache' = [n \in HandleNames |-> Handles!Missing] /\ hydrated' = FALSE
        /\ inflight' = [n \in HandleNames |-> Handles!None] /\ publish' = Handles!None
        /\ token' = {} /\ resolving' = {} /\ visits' = [n \in HandleNames |-> "none"]
        /\ handlesShown' = "idle" /\ returned' = FALSE
        /\ UNCHANGED <<chain, handlesStored, floor, handlesCrossed>>
    BY <1>11 DEF Handles!Reload
  <2>2. HandlesChainType' /\ HandlesPublishType'
    BY <2>1, <1>t DEF HandlesChainType, HandlesPublishType
  <2>3. HandlesCacheType'
    <3>1. cache' \in [HandleNames -> Handles!Entries] /\ \A n \in HandleNames : cache'[n] = Handles!Missing
      BY <2>1, HandlesFoundFacts
    <3> QED
      BY <2>1, <3>1, <1>t, HandlesFoundFacts DEF HandlesCacheType
  <2>4. HandlesLoadType' /\ HandlesWaited'
    <3>1. inflight' \in [HandleNames -> Handles!Requests] /\ hydrated' \in BOOLEAN
      BY <2>1 DEF Handles!Requests
    <3> QED
      BY <2>1, <3>1 DEF HandlesLoadType, HandlesWaited
  <2>5. HandlesPageType'
    <3>1. returned' \in BOOLEAN
      BY <2>1
    <3> QED
      BY <2>1, <3>1 DEF HandlesPageType, Handles!AtMostOne
  <2> QED
    BY <2>2, <2>3, <2>4, <2>5, <1>p
<1>12. CASE UNCHANGED Handles!vars
  <2>1. UNCHANGED <<chain, cache, handlesStored, hydrated, inflight, floor, handlesCrossed,
        publish>> /\ UNCHANGED Handles!page
    BY <1>12 DEF Handles!vars, Handles!lookups
  <2>2. HandlesChainType' /\ HandlesCacheType' /\ HandlesLoadType' /\ HandlesPublishType'
        /\ HandlesWaited'
    BY <2>1, <1>t, <1>v DEF HandlesChainType, HandlesCacheType, HandlesLoadType,
       HandlesPublishType, HandlesWaited
  <2> QED
    BY <2>1, <2>2, <1>p, <1>v
<1>13. CASE Handles!PublishFails
  <2>1. UNCHANGED <<chain, cache, handlesStored, hydrated, inflight, floor, handlesCrossed>>
        /\ UNCHANGED Handles!page
    BY <1>13 DEF Handles!PublishFails, Handles!lookups
  <2>2. HandlesPublishType'
    BY <1>13 DEF Handles!PublishFails, HandlesPublishType
  <2>3. HandlesChainType' /\ HandlesCacheType' /\ HandlesLoadType' /\ HandlesWaited'
    BY <2>1, <1>t, <1>v DEF HandlesChainType, HandlesCacheType, HandlesLoadType, HandlesWaited
  <2> QED
    BY <2>1, <2>2, <2>3, <1>p, <1>v
<1> QED
  BY <1>1, <1>2, <1>3, <1>4, <1>5, <1>6, <1>7, <1>8, <1>9, <1>10, <1>11, <1>12,
     <1>13 DEF Handles!Next

LEMMA HandlesInitInv == Handles!Init => Handles!IInv
<1> SUFFICES ASSUME Handles!Init PROVE Handles!IInv
  OBVIOUS
<1>1. chain \in [HandleNames -> Handles!Records] /\ floor = chain
      /\ \A n \in HandleNames : floor[n] <= chain[n]
  BY RecordsAssumption DEF Handles!Init, Handles!Records
<1>2. cache \in [HandleNames -> Handles!Entries] /\ handlesStored = cache
      /\ \A n \in HandleNames : cache[n] = Handles!Missing
  BY HandlesFoundFacts DEF Handles!Init
<1>3. inflight \in [HandleNames -> Handles!Requests] /\ \A n \in HandleNames : inflight[n] = Handles!None
  BY DEF Handles!Init, Handles!Requests
<1>4. hydrated \in BOOLEAN /\ returned \in BOOLEAN
  BY DEF Handles!Init
<1>5. HandlesChainType
  BY <1>1 DEF HandlesChainType
<1>6. HandlesCacheType
  BY <1>2, HandlesFoundFacts DEF Handles!Init, HandlesCacheType
<1>7. HandlesLoadType
  BY <1>2, <1>3, <1>4 DEF HandlesLoadType
<1>8. HandlesPublishType
  BY DEF Handles!Init, HandlesPublishType
<1>9. HandlesPageType
  BY <1>4 DEF Handles!Init, HandlesPageType, Handles!AtMostOne
<1>10. HandlesWaited
  BY DEF Handles!Init, HandlesWaited
<1> QED
  BY <1>5, <1>6, <1>7, <1>8, <1>9, <1>10, HandlesParts

-----------------------------------------------------------------------------
\* UnreadCheck.

\* What is saved, or read, is None or one of the worker's memories.
LEMMA WorkerRecentSaved ==
  ASSUME NEW data \in Worker!Memory \cup {Worker!None}
  PROVE  /\ data = Worker!None => ~Worker!Recent(data)
         /\ data # Worker!None => data \in Worker!Memory /\ (Worker!Recent(data) <=> data.recent)
         /\ data \in Worker!Memory => data # Worker!None
<1>1. ASSUME NEW m \in Worker!Memory PROVE m # Worker!None
  <2>1. "config" \in DOMAIN m /\ "config" \notin DOMAIN Worker!None
    BY DEF Worker!Memory, Worker!None
  <2> QED
    BY <2>1
<1> QED
  BY <1>1 DEF Worker!Recent

LEMMA WorkerNoneNotRecent == ~Worker!Recent(Worker!None)
  BY DEF Worker!Recent

\* A step of one task leaves the others where they are.
LEMMA WorkerOneMoves ==
  ASSUME Worker!TypeOK, NEW t \in Events, NEW x \in Worker!Task, Worker!To(t, x)
  PROVE  /\ workerTasks' \in [Events -> Worker!Task] /\ workerTasks'[t] = x
         /\ \A u \in Events \ {t} : workerTasks'[u] = workerTasks[u]
  BY DEF Worker!TypeOK, Worker!To

\* What to look at in a task.
LEMMA WorkerTaskShape ==
  ASSUME NEW x \in Worker!Task
  PROVE  /\ x.at \in {"idle", "configuring", "asking", "loading", "answered", "counted",
            "alerting", "showing"}
         /\ x.at = "loading" => x.data \in Worker!Memory \cup {Worker!None}
         /\ x.at = "answered" => x.count \in 0..MaxUnread
         /\ x.at = "counted" => x.more \in BOOLEAN
         /\ x.at \in {"alerting", "showing"} => x.push \in BOOLEAN
  BY DEF Worker!Task

LEMMA WorkerTaskMake ==
  /\ \A at \in {"idle", "configuring", "asking"} : [at |-> at] \in Worker!Task
  /\ Worker!Idle \in Worker!Task
  /\ \A d \in Worker!Memory \cup {Worker!None} : [at |-> "loading", data |-> d] \in Worker!Task
  /\ \A n \in 0..MaxUnread : [at |-> "answered", count |-> n] \in Worker!Task
  /\ \A b \in BOOLEAN : [at |-> "counted", more |-> b] \in Worker!Task
  /\ \A b \in BOOLEAN : [at |-> "alerting", push |-> b] \in Worker!Task
  /\ \A b \in BOOLEAN : [at |-> "showing", push |-> b] \in Worker!Task
  BY DEF Worker!Task, Worker!Idle

\* A step of one task keeps the types if what it writes is typed and the
\* configuration stays.
LEMMA WorkerTypeStep ==
  ASSUME Worker!TypeOK, NEW t \in Events, NEW x \in Worker!Task, Worker!To(t, x),
         unread' \in 0..MaxUnread, pushes' \in 0..MaxPushes,
         mem' \in Worker!Memory, saved' \in Worker!Memory \cup {Worker!None}, alerts' \in 0..2,
         {page, granted, subscribed, configured, forgot}' \subseteq BOOLEAN,
         mem.config => mem'.config,
         x.at \in {"configuring", "asking", "answered", "counted"} => mem'.config
  PROVE  Worker!TypeOK'
<1>1. /\ workerTasks' \in [Events -> Worker!Task] /\ workerTasks'[t] = x
      /\ \A u \in Events \ {t} : workerTasks'[u] = workerTasks[u]
  BY WorkerOneMoves
<1>2. \A u \in Events : workerTasks'[u].at \in {"configuring", "asking", "answered", "counted"}
      => mem'.config
  BY <1>1 DEF Worker!TypeOK
<1> QED
  BY <1>1, <1>2 DEF Worker!TypeOK

\* A step of one task keeps the time of the last alert: it forgets nothing, saves
\* what is in memory only where that is enough, and alerts only on its turn.
LEMMA WorkerKeptStep ==
  ASSUME Worker!TypeOK, Worker!TypeOK', Worker!TimeIsKept, NEW t \in Events, NEW x \in Worker!Task,
        Worker!To(t, x),
         forgot => forgot',
         ~forgot' =>
            /\ mem.recent => mem'.recent
            /\ saved' = saved \/ (saved' = mem' /\ (mem.config \/ mem'.recent))
            /\ saved' = saved /\ mem'.config /\ Worker!Recent(saved) => mem.config \/ mem'.recent
            /\ x.at = "loading" => x.data = saved /\ saved' = saved
            /\ x.at \in {"alerting", "showing"} => mem'.recent
            /\ x.at \in {"alerting", "showing"} /\ ~x.push =>
                  t \in Worker!OwnAlerts \/ (Worker!OwnAlerts = {} /\ alerts = 0)
            /\ alerts' = alerts \/ (alerts' = alerts + 1 /\ t \in Worker!OwnAlerts /\ x = Worker!Idle)
  PROVE  Worker!TimeIsKept'
<1> SUFFICES ASSUME ~forgot'
             PROVE  /\ Worker!Alerting' # {} => mem'.recent
                    /\ alerts' > 0 => mem'.recent \/ Worker!Recent(saved')
                    /\ Worker!Recent(saved') /\ mem'.config => mem'.recent
                    /\ \A u \in Events : workerTasks'[u].at = "loading" /\ Worker!Recent(saved') =>
                          Worker!Recent(workerTasks'[u].data) \/ mem'.recent
                    /\ \A u, w \in Worker!OwnAlerts' : u = w
                    /\ alerts' > 0 => Worker!OwnAlerts' = {}
  BY DEF Worker!TimeIsKept, Worker!Recent
<1>1. /\ workerTasks' \in [Events -> Worker!Task] /\ workerTasks'[t] = x
      /\ \A u \in Events \ {t} : workerTasks'[u] = workerTasks[u]
  BY WorkerOneMoves
<1>2. ~forgot
  OBVIOUS
<1>3. /\ Worker!Alerting # {} => mem.recent
      /\ alerts > 0 => mem.recent \/ Worker!Recent(saved)
      /\ Worker!Recent(saved) /\ mem.config => mem.recent
      /\ \A u \in Events : workerTasks[u].at = "loading" /\ Worker!Recent(saved)
            => Worker!Recent(workerTasks[u].data) \/ mem.recent
      /\ \A u, w \in Worker!OwnAlerts : u = w
      /\ alerts > 0 => Worker!OwnAlerts = {}
  BY <1>2 DEF Worker!TimeIsKept
<1>4. /\ mem.recent => mem'.recent
      /\ saved' = saved \/ (saved' = mem' /\ (mem.config \/ mem'.recent))
      /\ saved' = saved /\ mem'.config /\ Worker!Recent(saved) => mem.config \/ mem'.recent
      /\ x.at = "loading" => x.data = saved /\ saved' = saved
      /\ x.at \in {"alerting", "showing"} => mem'.recent
      /\ x.at \in {"alerting", "showing"} /\ ~x.push =>
            t \in Worker!OwnAlerts \/ (Worker!OwnAlerts = {} /\ alerts = 0)
      /\ alerts' = alerts \/ (alerts' = alerts + 1 /\ t \in Worker!OwnAlerts /\ x = Worker!Idle)
  OBVIOUS
<1>5. /\ mem' \in Worker!Memory
      /\ saved' = mem' => (Worker!Recent(saved') <=> mem'.recent)
  BY WorkerRecentSaved DEF Worker!TypeOK
<1>6. Worker!Alerting' \subseteq Worker!Alerting \cup {t}
      /\ (t \in Worker!Alerting' => x.at \in {"alerting", "showing"})
  BY <1>1 DEF Worker!Alerting
<1>7. Worker!OwnAlerts' \subseteq Worker!OwnAlerts \cup {t}
      /\ (t \in Worker!OwnAlerts' => x.at \in {"alerting", "showing"} /\ ~x.push)
  BY <1>1 DEF Worker!Alerting, Worker!OwnAlerts
<1>8. Worker!Alerting' # {} => mem'.recent
  BY <1>3, <1>4, <1>6
<1>9. Worker!Recent(saved') /\ mem'.config => mem'.recent
  BY <1>3, <1>4, <1>5
<1>10. ASSUME NEW u \in Events, workerTasks'[u].at = "loading", Worker!Recent(saved')
       PROVE  Worker!Recent(workerTasks'[u].data) \/ mem'.recent
  <2>1. CASE u = t
    BY <2>1, <1>1, <1>4, <1>10
  <2>2. CASE u # t /\ saved' = saved
    BY <2>2, <1>1, <1>3, <1>4, <1>10
  <2>3. CASE saved' = mem'
    BY <2>3, <1>5, <1>10
  <2> QED
    BY <2>1, <2>2, <2>3, <1>4
<1>11. Worker!OwnAlerts \subseteq Worker!Alerting /\ Worker!OwnAlerts \subseteq Events
  BY DEF Worker!OwnAlerts, Worker!Alerting
<1>12. x = Worker!Idle => t \notin Worker!OwnAlerts'
  BY <1>7 DEF Worker!Idle
<1>13. \A u, w \in Worker!OwnAlerts' : u = w
  BY <1>3, <1>4, <1>7
<1>14. CASE alerts' = alerts
  <2>1. alerts > 0 => mem'.recent \/ Worker!Recent(saved')
    BY <1>3, <1>4, <1>5
  <2>2. alerts > 0 => Worker!OwnAlerts' = {}
    BY <1>3, <1>4, <1>7
  <2> QED
    BY <2>1, <2>2, <1>8, <1>9, <1>10, <1>13, <1>14
<1>15. CASE alerts' = alerts + 1 /\ t \in Worker!OwnAlerts /\ x = Worker!Idle
  <2>1. mem'.recent
    BY <1>15, <1>3, <1>4, <1>11
  <2>2. Worker!OwnAlerts' = {}
    BY <1>15, <1>3, <1>7, <1>12
  <2> QED
    BY <2>1, <2>2, <1>8, <1>9, <1>10, <1>13
<1> QED
  BY <1>4, <1>14, <1>15

LEMMA WorkerAlertStep ==
  ASSUME Worker!TypeOK, Worker!TimeIsKept, Worker!OneAlert, forgot => forgot',
         alerts' = alerts \/ (alerts' = alerts + 1 /\ Worker!OwnAlerts # {})
  PROVE  Worker!OneAlert'
  BY DEF Worker!TypeOK, Worker!TimeIsKept, Worker!OneAlert

\* Nothing of the worker moves.
LEMMA WorkerStillStep ==
  ASSUME Worker!IInv, Worker!TypeOK', UNCHANGED <<mem, saved, workerTasks, configured, alerts, forgot>>
  PROVE  Worker!IInv'
<1>1. Worker!Alerting' = Worker!Alerting /\ Worker!OwnAlerts' = Worker!OwnAlerts
  BY DEF Worker!Alerting, Worker!OwnAlerts
<1> QED
  BY <1>1 DEF Worker!IInv, Worker!TimeIsKept, Worker!OneAlert, Worker!Recent

LEMMA WorkerHandleInv ==
  ASSUME Worker!IInv, NEW t \in Events, Worker!Handle(t)
  PROVE  Worker!IInv'
<1>t. /\ Worker!TypeOK /\ Worker!TimeIsKept /\ Worker!OneAlert
  BY DEF Worker!IInv
<1>m. /\ mem \in Worker!Memory /\ saved \in Worker!Memory \cup {Worker!None}
         /\ workerTasks[t] \in Worker!Task /\ alerts \in 0..2
      /\ unread \in 0..MaxUnread /\ pushes \in 0..MaxPushes
      /\ {page, granted, subscribed, configured, forgot} \subseteq BOOLEAN
      /\ workerTasks[t].at \in {"configuring", "asking", "answered", "counted"} => mem.config
      /\ mem.config \in BOOLEAN /\ mem.recent \in BOOLEAN
  BY <1>t DEF Worker!TypeOK, Worker!Memory
<1>i. Worker!Idle \in Worker!Task /\ Worker!Idle.at = "idle"
  BY WorkerTaskMake DEF Worker!Idle
\* A step that leaves the variables alone and starts no alert.
<1>q. ASSUME NEW x \in Worker!Task, Worker!To(t, x), UNCHANGED <<Worker!relay, page, granted, mem,
      saved, alerts, forgot>>,
             configured' = configured,
             x.at \in {"configuring", "asking", "answered", "counted"} => mem.config,
             x.at = "loading" => x.data = saved,
             x.at \notin {"alerting", "showing"}
      PROVE  Worker!IInv'
  <2>1. Worker!TypeOK'
    BY <1>q, <1>m, <1>t, WorkerTypeStep DEF Worker!relay
  <2>2. Worker!TimeIsKept'
    BY <1>q, <2>1, <1>t, WorkerKeptStep
  <2> QED
    BY <2>1, <2>2, <1>q, <1>t, WorkerAlertStep DEF Worker!IInv
<1>c. ASSUME mem.config PROVE Worker!Check(t, mem) => Worker!To(t, [at |-> "asking"])
  BY <1>c DEF Worker!Check
<1>1. CASE Worker!Begin(t)
  <2> DEFINE x == IF mem.config THEN [at |-> "asking"] ELSE [at |-> "loading", data |-> saved]
  <2>1. x \in Worker!Task /\ (x.at \in {"configuring", "asking", "answered", "counted"} => mem.config)
        /\ (x.at = "loading" => x.data = saved) /\ x.at \notin {"alerting", "showing"}
    BY <1>m, WorkerTaskMake
  <2>2. Worker!To(t, x) /\ UNCHANGED <<Worker!relay, page, granted, mem, saved, alerts, forgot>>
        /\ configured' = configured
    BY <1>1 DEF Worker!Begin, Worker!Check
  <2> HIDE DEF x
  <2> QED
    BY <2>1, <2>2, <1>q
<1>2. CASE Worker!Configure(t)
  <2> DEFINE x == [at |-> "configuring"]
  <2>1. /\ Worker!To(t, x) /\ mem' = [mem EXCEPT !.config = TRUE]
        /\ forgot' = (forgot \/ (saved # Worker!None /\ saved.recent /\ ~mem.recent))
        /\ UNCHANGED <<Worker!relay, page, granted, saved, configured, alerts>>
    BY <1>2 DEF Worker!Configure
  <2>2. x \in Worker!Task /\ x.at = "configuring"
    BY WorkerTaskMake
  <2>3. /\ mem' \in Worker!Memory /\ mem'.config /\ mem'.recent = mem.recent
        /\ forgot' \in BOOLEAN
    BY <2>1, <1>m, WorkerRecentSaved DEF Worker!Memory
  <2> HIDE DEF x
  <2>4. Worker!TypeOK'
    BY <2>1, <2>2, <2>3, <1>m, <1>t, WorkerTypeStep DEF Worker!relay
  <2>5. ~forgot' /\ Worker!Recent(saved) => mem.recent
    BY <2>1 DEF Worker!Recent
  <2>6. Worker!TimeIsKept'
    BY <2>1, <2>2, <2>3, <2>4, <2>5, <1>t, WorkerKeptStep
  <2> QED
    BY <2>1, <2>4, <2>6, <1>t, WorkerAlertStep DEF Worker!IInv
<1>3. CASE Worker!Configured(t)
  <2> DEFINE x == [at |-> "asking"]
  <2>1. /\ Worker!To(t, x) /\ saved' = mem /\ configured' = TRUE /\ mem.config
        /\ UNCHANGED <<Worker!relay, page, granted, mem, alerts, forgot>>
    BY <1>3, <1>m DEF Worker!Configured, Worker!Check
  <2>2. x \in Worker!Task /\ x.at = "asking"
    BY WorkerTaskMake
  <2> HIDE DEF x
  <2>4. Worker!TypeOK'
    BY <2>1, <2>2, <1>m, <1>t, WorkerTypeStep DEF Worker!relay
  <2>6. Worker!TimeIsKept'
    BY <2>1, <2>2, <2>4, <1>t, WorkerKeptStep
  <2> QED
    BY <2>1, <2>4, <2>6, <1>t, WorkerAlertStep DEF Worker!IInv
<1>4. CASE Worker!Loaded(t)
  <2> DEFINE data == workerTasks[t].data
             woken == IF data = Worker!None THEN mem ELSE [data EXCEPT !.config = @ \/ mem.config]
             x == IF woken.config THEN [at |-> "asking"] ELSE Worker!Idle
  <2>1. /\ workerTasks[t].at = "loading" /\ Worker!To(t, x) /\ mem' = woken
        /\ forgot' = (forgot \/ (mem.recent /\ ~woken.recent))
        /\ UNCHANGED <<Worker!relay, page, granted, saved, configured, alerts>>
    BY <1>4 DEF Worker!Loaded
  <2>2. data \in Worker!Memory \cup {Worker!None}
    BY <2>1, <1>m, WorkerTaskShape
  <2>3. /\ woken \in Worker!Memory /\ (mem.config => woken.config)
        /\ Worker!Recent(data) => woken.recent
        /\ data = Worker!None => woken = mem
    BY <2>2, <1>m, WorkerRecentSaved DEF Worker!Memory
  <2>4. x \in Worker!Task /\ (x.at = "asking" => woken.config) /\ x.at \in {"asking", "idle"}
    BY <1>i, WorkerTaskMake
  <2>5. ~forgot' => (Worker!Recent(saved) => woken.recent) /\ (mem.recent => woken.recent)
    BY <2>1, <2>3, <1>t DEF Worker!TimeIsKept
  <2>6. forgot' \in BOOLEAN
    BY <2>1, <2>3, <1>m DEF Worker!Memory
  <2> HIDE DEF x, woken, data
  <2>7. Worker!TypeOK'
    BY <2>1, <2>3, <2>4, <2>6, <1>m, <1>t, WorkerTypeStep DEF Worker!relay
  <2>8. Worker!TimeIsKept'
    BY <2>1, <2>4, <2>5, <2>7, <1>t, WorkerKeptStep
  <2> QED
    BY <2>1, <2>7, <2>8, <1>t, WorkerAlertStep DEF Worker!IInv
<1>5. CASE Worker!Answer(t)
  <2> DEFINE x == [at |-> "answered", count |-> unread]
  <2>1. x \in Worker!Task /\ x.at = "answered"
    BY <1>m, WorkerTaskMake
  <2>2. /\ Worker!To(t, x) /\ UNCHANGED <<Worker!relay, page, granted, mem, saved, alerts, forgot>>
           /\ configured' = configured
        /\ mem.config
    BY <1>5, <1>m DEF Worker!Answer
  <2> HIDE DEF x
  <2> QED
    BY <2>1, <2>2, <1>q
<1>6. CASE Worker!AnswerFails(t)
  <2>2. /\ Worker!To(t, Worker!Idle) /\ UNCHANGED <<Worker!relay, page, granted, mem, saved,
           alerts, forgot>> /\ configured' = configured
    BY <1>6 DEF Worker!AnswerFails
  <2> QED
    BY <2>2, <1>i, <1>q
<1>7. CASE Worker!Answered(t)
  <2> DEFINE x == [at |-> "counted", more |-> workerTasks[t].count > mem.count]
  <2>1. /\ Worker!To(t, x) /\ mem' = [mem EXCEPT !.count = workerTasks[t].count]
           /\ workerTasks[t].at = "answered"
        /\ UNCHANGED <<Worker!relay, page, granted, saved, configured, alerts, forgot>>
    BY <1>7 DEF Worker!Answered
  <2>2. workerTasks[t].count \in 0..MaxUnread /\ mem.config
    BY <2>1, <1>m, WorkerTaskShape
  <2>3. /\ mem' \in Worker!Memory /\ mem'.config = mem.config /\ mem'.recent = mem.recent
    BY <2>1, <2>2, <1>m DEF Worker!Memory
  <2>4. x \in Worker!Task /\ x.at = "counted"
    <3>1. (workerTasks[t].count > mem.count) \in BOOLEAN
      BY <2>2, <1>m DEF Worker!Memory
    <3> QED
      BY <3>1, WorkerTaskMake
  <2> HIDE DEF x
  <2>5. Worker!TypeOK'
    BY <2>1, <2>2, <2>3, <2>4, <1>m, <1>t, WorkerTypeStep DEF Worker!relay
  <2>6. Worker!TimeIsKept'
    BY <2>1, <2>2, <2>3, <2>4, <2>5, <1>t, WorkerKeptStep
  <2> QED
    BY <2>1, <2>5, <2>6, <1>t, WorkerAlertStep DEF Worker!IInv
<1>8. CASE Worker!Counted(t)
  <2> DEFINE y == [at |-> "alerting", push |-> FALSE]
  <2>1. /\ saved' = mem /\ mem.config
        /\ UNCHANGED <<Worker!relay, page, granted, configured, alerts, forgot>>
    BY <1>8, <1>m DEF Worker!Counted
  <2>2. CASE workerTasks[t].more /\ ~mem.recent
    <3>1. Worker!To(t, y) /\ mem' = [mem EXCEPT !.recent = TRUE]
      BY <2>2, <1>8 DEF Worker!Counted
    <3>2. mem' \in Worker!Memory /\ mem'.config /\ mem'.recent
      BY <2>1, <3>1, <1>m DEF Worker!Memory
    <3>3. y \in Worker!Task /\ y.at = "alerting"
      BY WorkerTaskMake
    <3> HIDE DEF y
    <3>4. Worker!TypeOK'
      BY <2>1, <3>1, <3>2, <3>3, <1>m, <1>t, WorkerTypeStep DEF Worker!relay
    <3>5. ~forgot => Worker!OwnAlerts = {} /\ alerts = 0 /\ Worker!Alerting = {} /\ ~Worker!Recent(saved)
      BY <2>1, <2>2, <1>m, <1>t DEF Worker!TimeIsKept, Worker!OwnAlerts
    <3>6. Worker!TimeIsKept'
      <4> SUFFICES ASSUME ~forgot' PROVE Worker!TimeIsKept'
        BY DEF Worker!TimeIsKept
      <4>1. ~Worker!Recent(saved') /\ alerts' = 0
        BY <2>1, <2>2, <3>5, <1>m, WorkerRecentSaved
      <4>2. /\ workerTasks' \in [Events -> Worker!Task] /\ workerTasks'[t] = y
            /\ \A u \in Events \ {t} : workerTasks'[u] = workerTasks[u]
        BY <3>1, <3>3, <1>t, WorkerOneMoves
      <4>3. Worker!OwnAlerts' \subseteq {t}
        BY <4>2, <3>5, <2>1 DEF Worker!OwnAlerts, Worker!Alerting
      <4>4. ~Worker!Recent(saved)'
        BY <4>1 DEF Worker!Recent
      <4> QED
        BY <4>1, <4>3, <4>4, <3>2 DEF Worker!TimeIsKept
    <3> QED
      BY <2>1, <3>4, <3>6, <1>t, WorkerAlertStep DEF Worker!IInv
  <2>3. CASE ~(workerTasks[t].more /\ ~mem.recent)
    <3>1. Worker!To(t, Worker!Idle) /\ mem' = mem
      BY <2>3, <1>8 DEF Worker!Counted
    <3>2. Worker!TypeOK'
      BY <2>1, <3>1, <1>i, <1>m, <1>t, WorkerTypeStep DEF Worker!relay
    <3>3. Worker!TimeIsKept'
      BY <2>1, <3>1, <3>2, <1>i, <1>t, WorkerKeptStep
    <3> QED
      BY <2>1, <3>2, <3>3, <1>t, WorkerAlertStep DEF Worker!IInv
  <2> QED
    BY <2>2, <2>3
<1>9. CASE Worker!Push(t)
  <2> DEFINE y == [at |-> "alerting", push |-> TRUE]
  <2>1. /\ pushes > 0 /\ pushes' = pushes - 1
        /\ Worker!To(t, y) /\ mem' = [mem EXCEPT !.recent = TRUE]
        /\ UNCHANGED <<unread, subscribed, page, granted, saved, configured, alerts, forgot>>
    BY <1>9 DEF Worker!Push
  <2>2. mem' \in Worker!Memory /\ mem'.config = mem.config /\ mem'.recent
    BY <2>1, <1>m DEF Worker!Memory
  <2>3. y \in Worker!Task /\ y.at = "alerting" /\ y.push
    <3>1. y \in Worker!Task
      BY WorkerTaskMake
    <3>2. y.at = "alerting" /\ y.push = TRUE
      OBVIOUS
    <3> QED
      BY <3>1, <3>2
  <2>4. pushes' \in 0..MaxPushes
    BY <2>1, <1>m, UnreadAssumption
  <2> HIDE DEF y
  <2>5. Worker!TypeOK'
    BY <2>1, <2>2, <2>3, <2>4, <1>m, <1>t, WorkerTypeStep
  <2>6. Worker!TimeIsKept'
    BY <2>1, <2>2, <2>3, <2>5, <1>t, WorkerKeptStep
  <2> QED
    BY <2>1, <2>5, <2>6, <1>t, WorkerAlertStep DEF Worker!IInv
<1>10. CASE Worker!Alert(t)
  <2> DEFINE y == [workerTasks[t] EXCEPT !.at = "showing"]
  <2>1. /\ workerTasks[t].at = "alerting" /\ saved' = mem /\ Worker!To(t, y)
        /\ UNCHANGED <<Worker!relay, page, granted, mem, configured, alerts, forgot>>
    BY <1>10 DEF Worker!Alert
  <2>2. y \in Worker!Task /\ y.at = "showing" /\ y.push = workerTasks[t].push
    BY <2>1, <1>m DEF Worker!Task
  <2>3. t \in Worker!Alerting /\ (~workerTasks[t].push => t \in Worker!OwnAlerts)
    BY <2>1 DEF Worker!Alerting, Worker!OwnAlerts
  <2>4. ~forgot => mem.recent
    BY <2>3, <1>t DEF Worker!TimeIsKept
  <2> HIDE DEF y
  <2>5. Worker!TypeOK'
    BY <2>1, <2>2, <1>m, <1>t, WorkerTypeStep DEF Worker!relay
  <2>6. Worker!TimeIsKept'
    BY <2>1, <2>2, <2>3, <2>4, <2>5, <1>t, WorkerKeptStep
  <2> QED
    BY <2>1, <2>5, <2>6, <1>t, WorkerAlertStep DEF Worker!IInv
<1>11. CASE Worker!Shown(t)
  <2>1. /\ workerTasks[t].at = "showing" /\ Worker!To(t, Worker!Idle)
        /\ alerts' = (IF workerTasks[t].push \/ ~granted \/ alerts = 2 THEN alerts ELSE alerts + 1)
        /\ UNCHANGED <<Worker!relay, page, granted, mem, saved, configured, forgot>>
    BY <1>11 DEF Worker!Shown
  <2>2. /\ alerts' = alerts \/ (alerts' = alerts + 1 /\ t \in Worker!OwnAlerts)
        /\ alerts' \in 0..2
    BY <2>1, <1>m DEF Worker!OwnAlerts, Worker!Alerting
  <2>5. Worker!TypeOK'
    BY <2>1, <2>2, <1>i, <1>m, <1>t, WorkerTypeStep DEF Worker!relay
  <2>6. Worker!TimeIsKept'
    BY <2>1, <2>2, <2>5, <1>i, <1>t, WorkerKeptStep
  <2> QED
    BY <2>1, <2>2, <2>5, <2>6, <1>t, WorkerAlertStep DEF Worker!IInv
<1> QED
  BY <1>1, <1>2, <1>3, <1>4, <1>5, <1>6, <1>7, <1>8, <1>9, <1>10, <1>11 DEF Worker!Handle

LEMMA WorkerNextInv == Worker!IInv /\ [Worker!Next]_(Worker!vars) => Worker!IInv'
<1> SUFFICES ASSUME Worker!IInv, [Worker!Next]_(Worker!vars) PROVE Worker!IInv'
  OBVIOUS
<1>t. Worker!TypeOK
  BY DEF Worker!IInv
<1>1. ASSUME NEW new \in BOOLEAN, Worker!Enqueue(new) PROVE Worker!IInv'
  <2>1. unread' \in 0..MaxUnread /\ pushes' \in 0..MaxPushes
    BY <1>1, <1>t, UnreadAssumption DEF Worker!Enqueue, Worker!TypeOK
  <2>2. UNCHANGED <<subscribed, page, granted, mem, saved, workerTasks, configured, alerts, forgot>>
    BY <1>1 DEF Worker!Enqueue
  <2>3. Worker!TypeOK'
    BY <1>t, <2>1, <2>2 DEF Worker!TypeOK
  <2> QED
    BY <2>2, <2>3, WorkerStillStep
<1>2. CASE Worker!Dwindle \/ Worker!RelayRestart
  <2>1. unread' \in 0..MaxUnread /\ subscribed' \in BOOLEAN
    <3>1. CASE Worker!Dwindle
      BY <3>1, <1>t, UnreadAssumption DEF Worker!Dwindle, Worker!TypeOK
    <3>2. CASE Worker!RelayRestart
      <4>1. subscribed' \in BOOLEAN
        BY <3>2 DEF Worker!RelayRestart
      <4>2. unread' \in 0..MaxUnread
        BY <3>2, UnreadAssumption DEF Worker!RelayRestart
      <4>3. pushes' \in 0..MaxPushes
        BY <3>2, <1>t DEF Worker!RelayRestart, Worker!TypeOK
      <4> QED
        BY <4>1, <4>2, <4>3
    <3> QED
      BY <1>2, <3>1, <3>2
  <2>2. UNCHANGED <<pushes, page, granted, mem, saved, workerTasks, configured, alerts, forgot>>
    BY <1>2 DEF Worker!Dwindle, Worker!RelayRestart
  <2>3. Worker!TypeOK'
    BY <1>t, <2>1, <2>2 DEF Worker!TypeOK
  <2> QED
    BY <2>2, <2>3, WorkerStillStep
<1>3. CASE Worker!Open \/ Worker!Close \/ Worker!Subscribe
  <2>1. page' \in BOOLEAN /\ granted' \in BOOLEAN /\ subscribed' \in BOOLEAN
    BY <1>3, <1>t DEF Worker!Open, Worker!Close, Worker!Subscribe, Worker!TypeOK, Worker!relay
  <2>2. UNCHANGED <<unread, pushes, mem, saved, workerTasks, configured, alerts, forgot>>
    BY <1>3 DEF Worker!Open, Worker!Close, Worker!Subscribe, Worker!relay
  <2>3. Worker!TypeOK'
    BY <1>t, <2>1, <2>2 DEF Worker!TypeOK
  <2> QED
    BY <2>2, <2>3, WorkerStillStep
<1>4. ASSUME NEW t \in Events, Worker!Handle(t) PROVE Worker!IInv'
  BY <1>4, WorkerHandleInv
<1>5. CASE Worker!Kill
  <2>1. /\ mem' = Worker!Blank /\ workerTasks' = [t \in Events |-> Worker!Idle]
        /\ forgot' = (forgot \/ (mem.recent /\ (saved = Worker!None \/ ~saved.recent)))
        /\ UNCHANGED <<unread, subscribed, pushes, page, granted, saved, configured, alerts>>
    BY <1>5 DEF Worker!Kill, Worker!relay
  <2>2. mem' \in Worker!Memory /\ ~mem'.config
    BY <2>1, UnreadAssumption DEF Worker!Blank, Worker!Memory
  <2>3. /\ workerTasks' \in [Events -> Worker!Task]
        /\ \A t \in Events : workerTasks'[t].at = "idle"
    BY <2>1, WorkerTaskMake DEF Worker!Idle
  <2>4. mem.recent \in BOOLEAN /\ forgot' \in BOOLEAN
    BY <2>1, <1>t, WorkerRecentSaved DEF Worker!TypeOK, Worker!Memory
  <2>5. Worker!TypeOK'
    BY <2>1, <2>2, <2>3, <2>4, <1>t DEF Worker!TypeOK
  <2>6. Worker!Alerting' = {} /\ Worker!OwnAlerts' = {}
    BY <2>3 DEF Worker!Alerting, Worker!OwnAlerts
  <2>7. ~forgot' => ~forgot /\ (alerts > 0 => Worker!Recent(saved))
    BY <2>1 DEF Worker!Recent, Worker!IInv, Worker!TimeIsKept
  <2>8. Worker!TimeIsKept'
    BY <2>1, <2>2, <2>3, <2>6, <2>7 DEF Worker!TimeIsKept, Worker!Recent
  <2> QED
    BY <2>1, <2>5, <2>7, <2>8 DEF Worker!IInv, Worker!OneAlert
<1>6. CASE Worker!TwoMinutesPass
  <2>1. /\ \A t \in Events : workerTasks[t].at \notin {"alerting", "showing"}
        /\ mem' = Worker!Old(mem) /\ saved' = Worker!Old(saved)
        /\ workerTasks' = [t \in Events |-> IF workerTasks[t].at = "loading" THEN [workerTasks[t] EXCEPT !.data = Worker!Old(@)] ELSE workerTasks[t]]
        /\ alerts' = 0 /\ forgot' = FALSE
        /\ UNCHANGED <<unread, subscribed, pushes, page, granted, configured>>
    BY <1>6 DEF Worker!TwoMinutesPass, Worker!relay
  <2>2. ASSUME NEW d \in Worker!Memory \cup {Worker!None}
        PROVE  /\ Worker!Old(d) \in Worker!Memory \cup {Worker!None} /\ ~Worker!Recent(Worker!Old(d))
               /\ d \in Worker!Memory => Worker!Old(d) \in Worker!Memory
                     /\ Worker!Old(d).config = d.config
    <3>1. CASE d = Worker!None
      BY <3>1, WorkerRecentSaved DEF Worker!Old
    <3>2. CASE d # Worker!None
      <4>1. d \in Worker!Memory /\ Worker!Old(d) = [d EXCEPT !.recent = FALSE]
        BY <3>2 DEF Worker!Old
      <4>2. Worker!Old(d) \in Worker!Memory /\ Worker!Old(d).config = d.config /\ ~Worker!Old(d).recent
        BY <4>1 DEF Worker!Memory
      <4> QED
        BY <4>1, <4>2 DEF Worker!Recent
    <3> QED
      BY <3>1, <3>2
  <2>3. mem' \in Worker!Memory /\ mem'.config = mem.config
        /\ saved' \in Worker!Memory \cup {Worker!None} /\ ~Worker!Recent(saved)'
    <3>1. ~Worker!Recent(saved')
      BY <2>1, <2>2, <1>t DEF Worker!TypeOK
    <3>2. ~Worker!Recent(saved)'
      BY <3>1 DEF Worker!Recent
    <3> QED
      BY <2>1, <2>2, <3>2, <1>t DEF Worker!TypeOK
  <2>4. ASSUME NEW t \in Events PROVE workerTasks'[t] \in Worker!Task
        /\ workerTasks'[t].at = workerTasks[t].at
    <3>1. workerTasks[t] \in Worker!Task
      BY <1>t DEF Worker!TypeOK
    <3>2. CASE workerTasks[t].at = "loading"
      <4>1. workerTasks[t] \in [at : {"loading"}, data : Worker!Memory \cup {Worker!None}]
        BY <3>1, <3>2 DEF Worker!Task
      <4>2. workerTasks'[t] = [workerTasks[t] EXCEPT !.data = Worker!Old(workerTasks[t].data)]
        BY <2>1, <3>2
      <4>3. workerTasks'[t] \in [at : {"loading"}, data : Worker!Memory \cup {Worker!None}]
        BY <4>1, <4>2, <2>2
      <4> QED
        BY <4>3, <3>2 DEF Worker!Task
    <3>3. CASE workerTasks[t].at # "loading"
      BY <3>1, <3>3, <2>1
    <3> QED
      BY <3>2, <3>3
  <2>5. workerTasks' \in [Events -> Worker!Task]
    BY <2>1, <2>4
  <2>6. Worker!TypeOK'
    <3>1. \A t \in Events : workerTasks'[t].at \in {"configuring", "asking", "answered", "counted"}
          => mem'.config
      BY <2>3, <2>4, <1>t DEF Worker!TypeOK
    <3>2. /\ {page, granted, subscribed, configured, forgot}' \subseteq BOOLEAN
          /\ alerts' \in 0..2 /\ unread' \in 0..MaxUnread /\ pushes' \in 0..MaxPushes
      <4>1. {page, granted, subscribed, configured, forgot}' \subseteq BOOLEAN
        BY <2>1, <1>t DEF Worker!TypeOK
      <4>2. alerts' \in 0..2 /\ unread' \in 0..MaxUnread /\ pushes' \in 0..MaxPushes
        BY <2>1, <1>t DEF Worker!TypeOK
      <4> QED
        BY <4>1, <4>2
    <3> QED
      BY <2>3, <2>5, <3>1, <3>2 DEF Worker!TypeOK
  <2>7. Worker!Alerting' = {} /\ Worker!OwnAlerts' = {}
    BY <2>1, <2>4 DEF Worker!Alerting, Worker!OwnAlerts
  <2>8. Worker!TimeIsKept'
    BY <2>1, <2>3, <2>7 DEF Worker!TimeIsKept
  <2> QED
    BY <2>1, <2>6, <2>8 DEF Worker!IInv, Worker!OneAlert
<1>7. CASE UNCHANGED Worker!vars
  <2>1. Worker!TypeOK'
    BY <1>7, <1>t DEF Worker!vars, Worker!relay, Worker!TypeOK
  <2> QED
    BY <1>7, <2>1, WorkerStillStep DEF Worker!vars
<1> QED
  BY <1>1, <1>2, <1>3, <1>4, <1>5, <1>6, <1>7 DEF Worker!Next

LEMMA WorkerInitInv == Worker!Init => Worker!IInv
<1> SUFFICES ASSUME Worker!Init PROVE Worker!IInv
  OBVIOUS
<1>1. mem \in Worker!Memory /\ saved = Worker!None
  BY UnreadAssumption DEF Worker!Init, Worker!Blank, Worker!Memory
<1>2. workerTasks \in [Events -> Worker!Task] /\ \A t \in Events : workerTasks[t].at = "idle"
  BY WorkerTaskMake DEF Worker!Init, Worker!Idle
<1>3. Worker!TypeOK
  <2>1. /\ {page, granted, subscribed, configured, forgot} \subseteq BOOLEAN
        /\ alerts \in 0..2 /\ unread \in 0..MaxUnread /\ pushes \in 0..MaxPushes
    <3>1. {page, granted, subscribed, configured, forgot} \subseteq BOOLEAN
      BY DEF Worker!Init
    <3>2. alerts \in 0..2 /\ unread \in 0..MaxUnread /\ pushes \in 0..MaxPushes
      BY UnreadAssumption DEF Worker!Init
    <3> QED
      BY <3>1, <3>2
  <2> QED
    BY <1>1, <1>2, <2>1 DEF Worker!TypeOK
<1>4. Worker!Alerting = {} /\ Worker!OwnAlerts = {}
  BY <1>2 DEF Worker!Alerting, Worker!OwnAlerts
<1> QED
  BY <1>1, <1>2, <1>3, <1>4, WorkerNoneNotRecent DEF Worker!Init, Worker!IInv, Worker!TimeIsKept,
     Worker!OneAlert

-----------------------------------------------------------------------------
\* RelayProcess.

\* The module counts as FiniteSets does.
LEMMA RelayCounts == \A S : (Relay!IsFiniteSet(S) <=> IsFiniteSet(S))
      /\ Relay!Cardinality(S) = Cardinality(S)
<1>1. \A S : Relay!IsFiniteSet(S) <=> IsFiniteSet(S)
  BY DEF Relay!IsFiniteSet, IsFiniteSet
<1>2. \A S : Relay!Cardinality(S) = Cardinality(S)
  BY Zenon DEF Relay!Cardinality, Cardinality
<1> QED
  BY <1>1, <1>2

\* A callback under way is one of AddReservations.
LEMMA RelayCallShape ==
  ASSUME NEW c \in Relay!Callback
  PROVE  \/ c = Relay!None
         \/ c # Relay!None /\ c.at = "load" /\ c.delta \in Relay!Deltas
         \/ c # Relay!None /\ c.at = "swap" /\ c.delta \in Relay!Deltas /\ c.current \in Nat
  BY DEF Relay!Callback, Relay!None

\* Sets that share nothing.
LEMMA RelayDisjointUnion ==
  ASSUME NEW S, NEW T, IsFiniteSet(S), IsFiniteSet(T), S \cap T = {}
  PROVE  IsFiniteSet(S \cup T) /\ Cardinality(S \cup T) = Cardinality(S) + Cardinality(T)
<1>1. Cardinality(S \cap T) = 0
  BY FS_EmptySet
<1>2. /\ IsFiniteSet(S \cup T)
      /\ Cardinality(S \cup T) = Cardinality(S) + Cardinality(T) - Cardinality(S \cap T)
  BY FS_Union
<1> QED
  BY <1>1, <1>2, FS_CardinalityType

LEMMA RelayCallMake ==
  ASSUME NEW d \in Relay!Deltas
  PROVE  /\ [at |-> "load", delta |-> d] \in Relay!Callback
         /\ \A n \in Nat : [at |-> "swap", delta |-> d, current |-> n] \in Relay!Callback
         /\ Relay!None \in Relay!Callback
  BY DEF Relay!Callback

\* A set of n pairs.
LEMMA RelayPairs ==
  ASSUME NEW w, NEW n \in Nat
  PROVE  IsFiniteSet({w} \X (1..n)) /\ Cardinality({w} \X (1..n)) = n
<1>1. IsFiniteSet({w}) /\ Cardinality({w}) = 1
  BY FS_Singleton
<1>2. IsFiniteSet(1..n) /\ Cardinality(1..n) = n
  BY FS_Interval
<1> DEFINE S == {w}
           T == 1..n
<1>3. IsFiniteSet(S) /\ IsFiniteSet(T)
  BY <1>1, <1>2
<1> HIDE DEF S, T
<1>4. IsFiniteSet(S \X T) /\ Cardinality(S \X T) = Cardinality(S) * Cardinality(T)
  BY <1>3, FS_Product
<1> USE DEF S, T
<1>5. Cardinality(S) * Cardinality(T) = n
  BY <1>1, <1>2
<1> QED
  BY <1>4, <1>5

\* A callback that begins with a grant, or a release of n reservations.
LEMMA RelayCallBegins ==
  ASSUME Relay!TypeOK, NEW w \in Callbacks, Relay!Free(w), NEW d \in Relay!Deltas,
         relayCalls' = [relayCalls EXCEPT ![w] = [at |-> "load", delta |-> d]],
         IsFiniteSet(Relay!Releasing), IsFiniteSet(Relay!Granting)
  PROVE  /\ relayCalls' \in [Callbacks -> Relay!Callback]
         /\ IsFiniteSet(Relay!Releasing)' /\ IsFiniteSet(Relay!Granting)'
         /\ Cardinality(Relay!Releasing') - Cardinality(Relay!Granting') = Cardinality(Relay!Releasing) - Cardinality(Relay!Granting) - d
<1>1. /\ relayCalls' \in [Callbacks -> Relay!Callback]
      /\ relayCalls'[w].delta = d /\ relayCalls'[w] # Relay!None
      /\ \A u \in Callbacks \ {w} : relayCalls'[u] = relayCalls[u]
  BY RelayCallMake DEF Relay!TypeOK, Relay!None
<1>2. w \in Callbacks /\ w \notin Relay!Busy /\ Relay!Busy' = Relay!Busy \cup {w}
  BY <1>1 DEF Relay!Busy, Relay!Free
<1>3. CASE d = 1
  <2>1. Relay!Granting' = Relay!Granting \cup {w} /\ w \notin Relay!Granting
    BY <1>1, <1>2, <1>3 DEF Relay!Granting, Relay!Busy
  <2>2. Relay!Releasing' = Relay!Releasing
    BY <1>1, <1>2, <1>3 DEF Relay!Releasing, Relay!Busy
  <2>3. IsFiniteSet(Relay!Granting') /\ Cardinality(Relay!Granting') = Cardinality(Relay!Granting) + 1
    BY <2>1, FS_AddElement
  <2> QED
    BY <1>1, <1>3, <2>2, <2>3, FS_CardinalityType
<1>4. CASE d < 0
  <2>1. Relay!Granting' = Relay!Granting
    BY <1>1, <1>2, <1>4 DEF Relay!Granting, Relay!Busy
  <2>2. PICK n \in Nat : n = -d
    BY <1>4 DEF Relay!Deltas
  <2>3. Relay!Releasing' = Relay!Releasing \cup ({w} \X (1..n))
    <3>1. Relay!Releasing' = UNION {{u} \X (1..-relayCalls'[u].delta) : u \in Relay!Busy'}
      BY DEF Relay!Releasing
    <3>2. \A u \in Relay!Busy : relayCalls'[u] = relayCalls[u]
      BY <1>1, <1>2 DEF Relay!Busy
    <3> QED
      BY <1>1, <1>2, <2>2, <3>1, <3>2 DEF Relay!Releasing
  <2>4. Relay!Releasing \cap ({w} \X (1..n)) = {}
    BY <1>2 DEF Relay!Releasing
  <2>5. IsFiniteSet({w} \X (1..n)) /\ Cardinality({w} \X (1..n)) = n
    BY RelayPairs
  <2>6. IsFiniteSet(Relay!Releasing') /\ Cardinality(Relay!Releasing') = Cardinality(Relay!Releasing) + n
    BY <2>3, <2>4, <2>5, RelayDisjointUnion
  <2>7. /\ Cardinality(Relay!Releasing) \in Nat /\ Cardinality(Relay!Granting) \in Nat
        /\ Cardinality(Relay!Granting') = Cardinality(Relay!Granting)
    BY <2>1, FS_CardinalityType
  <2> QED
    BY <1>1, <2>1, <2>2, <2>6, <2>7 DEF Relay!Deltas
<1> QED
  BY <1>3, <1>4 DEF Relay!Deltas

\* A callback that is through.
LEMMA RelayCallEnds ==
  ASSUME Relay!TypeOK, NEW w \in Callbacks, ~Relay!Free(w),
        relayCalls' = [relayCalls EXCEPT ![w] = Relay!None],
         IsFiniteSet(Relay!Releasing), IsFiniteSet(Relay!Granting)
  PROVE  /\ relayCalls' \in [Callbacks -> Relay!Callback]
         /\ IsFiniteSet(Relay!Releasing)' /\ IsFiniteSet(Relay!Granting)'
         /\ Cardinality(Relay!Releasing') - Cardinality(Relay!Granting')
              = Cardinality(Relay!Releasing) - Cardinality(Relay!Granting) + relayCalls[w].delta
<1>1. /\ relayCalls' \in [Callbacks -> Relay!Callback] /\ relayCalls'[w] = Relay!None
      /\ \A u \in Callbacks \ {w} : relayCalls'[u] = relayCalls[u]
  BY DEF Relay!TypeOK, Relay!Callback
<1>2. w \in Relay!Busy /\ Relay!Busy' = Relay!Busy \ {w} /\ Relay!Busy \subseteq Callbacks
  BY <1>1 DEF Relay!Busy, Relay!Free
<1>3. relayCalls[w].delta \in Relay!Deltas
  BY RelayCallShape DEF Relay!TypeOK, Relay!Free
<1>4. CASE relayCalls[w].delta = 1
  <2>1. Relay!Granting' = Relay!Granting \ {w} /\ w \in Relay!Granting
    BY <1>1, <1>2, <1>4 DEF Relay!Granting
  <2>2. Relay!Releasing' = Relay!Releasing
    <3>1. Relay!Releasing' = UNION {{u} \X (1..-relayCalls'[u].delta) : u \in Relay!Busy'}
      BY DEF Relay!Releasing
    <3>2. \A u \in Relay!Busy' : relayCalls'[u] = relayCalls[u]
      BY <1>1, <1>2
    <3>3. {w} \X (1..-relayCalls[w].delta) = {}
      BY <1>4
    <3> QED
      BY <1>2, <3>1, <3>2, <3>3 DEF Relay!Releasing
  <2>3. IsFiniteSet(Relay!Granting') /\ Cardinality(Relay!Granting') = Cardinality(Relay!Granting) - 1
    BY <2>1, FS_RemoveElement
  <2> QED
    BY <1>1, <1>4, <2>2, <2>3, FS_CardinalityType
<1>5. CASE relayCalls[w].delta < 0
  <2>1. Relay!Granting' = Relay!Granting
    BY <1>1, <1>2, <1>5 DEF Relay!Granting
  <2>2. PICK n \in Nat : n = -relayCalls[w].delta
    BY <1>3, <1>5 DEF Relay!Deltas
  <2>3. Relay!Releasing = Relay!Releasing' \cup ({w} \X (1..n))
    <3>1. Relay!Releasing' = UNION {{u} \X (1..-relayCalls'[u].delta) : u \in Relay!Busy'}
      BY DEF Relay!Releasing
    <3>2. \A u \in Relay!Busy' : relayCalls'[u] = relayCalls[u]
      BY <1>1, <1>2
    <3> QED
      BY <1>2, <2>2, <3>1, <3>2 DEF Relay!Releasing
  <2>4. Relay!Releasing' \cap ({w} \X (1..n)) = {}
    BY <1>2 DEF Relay!Releasing
  <2>5. IsFiniteSet({w} \X (1..n)) /\ Cardinality({w} \X (1..n)) = n
    BY RelayPairs
  <2>6. IsFiniteSet(Relay!Releasing')
    BY <2>3, FS_Subset
  <2>7. Cardinality(Relay!Releasing) = Cardinality(Relay!Releasing') + n
    BY <2>3, <2>4, <2>5, <2>6, RelayDisjointUnion
  <2>8. /\ Cardinality(Relay!Releasing') \in Nat /\ Cardinality(Relay!Granting) \in Nat
        /\ Cardinality(Relay!Granting') = Cardinality(Relay!Granting)
    BY <2>1, <2>6, FS_CardinalityType
  <2> QED
    BY <1>1, <1>3, <2>1, <2>2, <2>6, <2>7, <2>8 DEF Relay!Deltas
<1> QED
  BY <1>3, <1>4, <1>5 DEF Relay!Deltas

\* A callback that goes on with its round.
LEMMA RelayCallMoves ==
  ASSUME Relay!TypeOK, NEW w \in Callbacks, ~Relay!Free(w), NEW c \in Relay!Callback,
        c # Relay!None, c.delta = relayCalls[w].delta,
         relayCalls' = [relayCalls EXCEPT ![w] = c]
  PROVE  /\ relayCalls' \in [Callbacks -> Relay!Callback]
         /\ Relay!Releasing' = Relay!Releasing /\ Relay!Granting' = Relay!Granting
<1>1. /\ relayCalls' \in [Callbacks -> Relay!Callback] /\ relayCalls'[w] = c
      /\ \A u \in Callbacks \ {w} : relayCalls'[u] = relayCalls[u]
  BY DEF Relay!TypeOK
<1>2. Relay!Busy' = Relay!Busy /\ \A u \in Relay!Busy : relayCalls'[u].delta = relayCalls[u].delta
  BY <1>1 DEF Relay!Busy, Relay!Free
<1> QED
  BY <1>1, <1>2 DEF Relay!Releasing, Relay!Granting

LEMMA RelayNoCalls ==
  ASSUME Relay!Busy = {} PROVE Relay!Releasing = {} /\ Relay!Granting = {} /\ IsFiniteSet({})
        /\ Cardinality({}) = 0
  BY FS_EmptySet DEF Relay!Releasing, Relay!Granting

LEMMA RelayHeldFinite == Relay!TypeOK => IsFiniteSet(relayHeld) /\ Cardinality(relayHeld) \in Nat
  BY RelayAssumption, FS_Subset, FS_CardinalityType DEF Relay!TypeOK

\* A step that neither counts nor changes who holds a reservation.
LEMMA RelayCountingKept ==
  ASSUME Relay!GaugeAdvances, UNCHANGED Relay!counting
  PROVE  Relay!GaugeAdvances'
<1>1. /\ relayHeld' = relayHeld /\ gauge' = gauge /\ swallowed' = swallowed
      /\ Relay!Releasing' = Relay!Releasing /\ Relay!Granting' = Relay!Granting
  BY DEF Relay!counting, Relay!Releasing, Relay!Granting, Relay!Busy, Relay!Free
<1> QED
  BY <1>1, RelayCounts DEF Relay!GaugeAdvances

\* Load to Serve count nothing, and leave the status file alone.
LEMMA RelayStartInv ==
  ASSUME Relay!IInv, Relay!Load \/ Relay!EnsureIdentity \/ Relay!Truncate \/ Relay!Save
        \/ Relay!Boot \/ Relay!Serve
  PROVE  Relay!IInv'
<1>t. Relay!TypeOK /\ Relay!IdentityIsKept
  BY DEF Relay!IInv
<1>1. UNCHANGED Relay!counting /\ status' = status /\ temp' = temp /\ writer' = writer
  BY DEF Relay!Load, Relay!EnsureIdentity, Relay!Truncate, Relay!Save, Relay!Boot, Relay!Serve,
     Relay!snapshot
<1>2. Relay!GaugeAdvances' /\ Relay!SnapshotIsWritten'
  BY <1>1, RelayCountingKept DEF Relay!IInv, Relay!SnapshotIsWritten, Relay!StatusIsWhole
<1>3. /\ gauge' = gauge /\ relayHeld' = relayHeld /\ relayCalls' = relayCalls /\ swallowed' = swallowed
      /\ Relay!Busy' = Relay!Busy
  BY <1>1 DEF Relay!counting, Relay!Busy, Relay!Free
<1>4. /\ file \in {Relay!Unset, Relay!Broken} \cup 1..keys /\ keys \in 0..MaxKeys
         /\ served \subseteq 1..keys
      /\ key \in 0..keys
      /\ gauge \in Nat /\ relayHeld \subseteq RelayPeers
            /\ relayCalls \in [Callbacks -> Relay!Callback] /\ swallowed \in BOOLEAN
      /\ Relay!Unset = 0 /\ Relay!Broken = -1
  BY <1>t DEF Relay!TypeOK, Relay!Unset, Relay!Broken
\* The part of the state that these steps change.
<1>5. ASSUME file' \in {Relay!Unset, Relay!Broken} \cup 1..keys', keys' \in 0..MaxKeys,
      served' \subseteq 1..keys',
             key' \in 0..keys',
             proc' \in {"down", "loaded", "creating", "writing", "ready", "hosting", "serving"},
             proc' \notin {"down", "loaded"} => key' # Relay!Unset,
             ~Relay!Up' => ~Relay!Up \/ proc' = proc,
             Relay!IdentityIsKept'
      PROVE  Relay!IInv'
  <2>1. Relay!TypeOK'
    BY <1>1, <1>3, <1>4, <1>5, <1>t DEF Relay!TypeOK, Relay!Up
  <2> QED
    BY <2>1, <1>2, <1>5 DEF Relay!IInv
<1>6. CASE Relay!Load
  BY <1>6, <1>4, <1>5, <1>t DEF Relay!Load, Relay!IdentityIsKept, Relay!Up
<1>7. CASE Relay!EnsureIdentity
  BY <1>7, <1>4, <1>5, <1>t, RelayAssumption DEF Relay!EnsureIdentity, Relay!IdentityIsKept,
     Relay!Up
<1>8. CASE Relay!Truncate
  BY <1>8, <1>4, <1>5, <1>t DEF Relay!Truncate, Relay!IdentityIsKept, Relay!Up, Relay!TypeOK
<1>9. CASE Relay!Save
  BY <1>9, <1>4, <1>5, <1>t DEF Relay!Save, Relay!IdentityIsKept, Relay!Up, Relay!TypeOK
<1>10. CASE Relay!Boot
  <2>1. /\ proc = "ready" /\ file = key /\ key # Relay!Unset /\ served \subseteq {key}
        /\ UNCHANGED <<file, key, keys>>
    BY <1>10, <1>t DEF Relay!Boot, Relay!IdentityIsKept, Relay!TypeOK
  <2>2. CASE proc' = "hosting" /\ served' = served \cup {key}
    <3>1. served' = {key} /\ served' \subseteq 1..keys
      <4>1. served' = {key}
        BY <2>1, <2>2
      <4>2. key \in 1..keys
        BY <1>4, <2>1
      <4> QED
        BY <4>1, <4>2
    <3>2. Relay!IdentityIsKept'
      BY <2>1, <2>2, <3>1 DEF Relay!IdentityIsKept, Relay!Up
    <3> QED
      BY <1>4, <1>5, <2>1, <2>2, <3>1, <3>2 DEF Relay!Up
  <2>3. CASE proc' = "down" /\ served' = served
    <3>1. Relay!IdentityIsKept'
      BY <2>1, <2>3 DEF Relay!IdentityIsKept, Relay!Up
    <3> QED
      BY <1>4, <1>5, <2>1, <2>3, <3>1 DEF Relay!Up
  <2> QED
    BY <1>10, <2>2, <2>3 DEF Relay!Boot
<1>11. CASE Relay!Serve
  BY <1>11, <1>4, <1>5, <1>t DEF Relay!Serve, Relay!identity, Relay!IdentityIsKept, Relay!Up,
     Relay!TypeOK
<1> QED
  BY <1>6, <1>7, <1>8, <1>9, <1>10, <1>11

LEMMA RelayDieInv == ASSUME Relay!IInv, Relay!Die PROVE Relay!IInv'
<1>t. Relay!TypeOK /\ Relay!IdentityIsKept
  BY DEF Relay!IInv
<1>1. /\ proc' = "down" /\ key' = Relay!Unset /\ keys' = keys /\ served' = served
      /\ status' = status /\ temp' = temp
      /\ relayHeld' = {} /\ gauge' = 0 /\ swallowed' = FALSE /\ writer' = "idle"
      /\ relayCalls' = [w \in Callbacks |-> Relay!None]
      /\ file' \in IF proc = "writing" THEN {Relay!Unset, Relay!Broken, key} ELSE {file}
  BY DEF Relay!Die
<1>2. relayCalls' \in [Callbacks -> Relay!Callback] /\ Relay!Busy' = {}
  BY <1>1 DEF Relay!Callback, Relay!Busy, Relay!Free
<1>3. /\ file \in {Relay!Unset, Relay!Broken} \cup 1..keys /\ keys \in 0..MaxKeys
         /\ served \subseteq 1..keys
      /\ key \in 0..keys /\ Relay!Unset = 0 /\ Relay!Broken = -1
  BY <1>t DEF Relay!TypeOK, Relay!Unset, Relay!Broken
<1>4. file' \in {Relay!Unset, Relay!Broken} \cup 1..keys
  BY <1>1, <1>3
<1>5. Relay!TypeOK'
  <2>1. swallowed' \in BOOLEAN
    BY <1>1
  <2> QED
    BY <1>1, <1>2, <1>3, <1>4, <1>t, <2>1 DEF Relay!TypeOK, Relay!Up
<1>6. Relay!IdentityIsKept'
  <2>1. served' \subseteq {file'}
    BY <1>1, <1>t DEF Relay!IdentityIsKept
  <2> QED
    BY <1>1, <2>1 DEF Relay!IdentityIsKept, Relay!Up
<1>7. Relay!Releasing' = {} /\ Relay!Granting' = {} /\ IsFiniteSet({}) /\ Cardinality({}) = 0
  BY <1>2, FS_EmptySet DEF Relay!Releasing, Relay!Granting
<1>8. Relay!GaugeAdvances'
  BY <1>1, <1>7, RelayCounts DEF Relay!GaugeAdvances
<1> QED
  BY <1>1, <1>5, <1>6, <1>8 DEF Relay!IInv, Relay!SnapshotIsWritten, Relay!StatusIsWhole

\* A step of a callback: the identity and the status file stay as they are.
LEMMA RelayCountInv ==
  ASSUME Relay!IInv, UNCHANGED <<Relay!identity, Relay!snapshot, proc>>, Relay!Up,
         relayHeld' \in SUBSET RelayPeers, gauge' \in Nat,
               relayCalls' \in [Callbacks -> Relay!Callback], swallowed' \in BOOLEAN,
         Relay!GaugeAdvances'
  PROVE  Relay!IInv'
<1>1. /\ file' = file /\ key' = key /\ keys' = keys /\ served' = served
      /\ status' = status /\ temp' = temp /\ proc' = proc /\ writer' = writer /\ Relay!Up'
  BY DEF Relay!identity, Relay!snapshot, Relay!Up
<1>2. Relay!TypeOK'
  BY <1>1 DEF Relay!IInv, Relay!TypeOK
<1>3. Relay!IdentityIsKept' /\ Relay!SnapshotIsWritten'
  BY <1>1 DEF Relay!IInv, Relay!IdentityIsKept, Relay!SnapshotIsWritten, Relay!StatusIsWhole,
     Relay!Up
<1> QED
  BY <1>2, <1>3 DEF Relay!IInv

LEMMA RelayNextInv == Relay!IInv /\ [Relay!Next]_(Relay!vars) => Relay!IInv'
<1> SUFFICES ASSUME Relay!IInv, [Relay!Next]_(Relay!vars) PROVE Relay!IInv'
  OBVIOUS
<1>t. /\ Relay!TypeOK /\ Relay!GaugeAdvances
      /\ gauge \in Nat /\ relayHeld \subseteq RelayPeers
            /\ relayCalls \in [Callbacks -> Relay!Callback] /\ swallowed \in BOOLEAN
  BY DEF Relay!IInv, Relay!TypeOK
<1>f. /\ IsFiniteSet(relayHeld) /\ Cardinality(relayHeld) \in Nat
      /\ IsFiniteSet(Relay!Releasing) /\ IsFiniteSet(Relay!Granting)
      /\ Cardinality(Relay!Releasing) \in Nat /\ Cardinality(Relay!Granting) \in Nat
  BY <1>t, RelayHeldFinite, FS_CardinalityType, RelayCounts DEF Relay!GaugeAdvances
<1>g. IF swallowed THEN gauge > Cardinality(relayHeld) + Cardinality(Relay!Releasing) - Cardinality(Relay!Granting)
                   ELSE gauge = Cardinality(relayHeld) + Cardinality(Relay!Releasing) - Cardinality(Relay!Granting)
  BY <1>t, RelayCounts DEF Relay!GaugeAdvances
<1>1. CASE Relay!Load \/ Relay!EnsureIdentity \/ Relay!Truncate \/ Relay!Save \/ Relay!Boot
      \/ Relay!Serve
  BY <1>1, RelayStartInv
<1>2. CASE Relay!Die
  BY <1>2, RelayDieInv
<1>3. ASSUME NEW w \in Callbacks, NEW p \in RelayPeers, Relay!Reserve(p, w) PROVE Relay!IInv'
  <2>1. /\ Relay!Up /\ p \notin relayHeld /\ Relay!Free(w) /\ relayHeld' = relayHeld \cup {p}
        /\ relayCalls' = [relayCalls EXCEPT ![w] = [at |-> "load", delta |-> 1]]
        /\ gauge' = gauge /\ swallowed' = swallowed
        /\ UNCHANGED <<Relay!identity, Relay!snapshot, proc>>
    BY <1>3 DEF Relay!Reserve, Relay!Up
  <2>2. 1 \in Relay!Deltas
    BY DEF Relay!Deltas
  <2>3. /\ relayCalls' \in [Callbacks -> Relay!Callback]
        /\ IsFiniteSet(Relay!Releasing)' /\ IsFiniteSet(Relay!Granting)'
        /\ Cardinality(Relay!Releasing') - Cardinality(Relay!Granting') = Cardinality(Relay!Releasing) - Cardinality(Relay!Granting) - 1
    BY <2>1, <2>2, <1>t, <1>f, RelayCallBegins
  <2>4. Cardinality(relayHeld') = Cardinality(relayHeld) + 1
    BY <2>1, <1>f, FS_AddElement
  <2>5. Cardinality(Relay!Releasing') \in Nat /\ Cardinality(Relay!Granting') \in Nat
    BY <2>3, FS_CardinalityType
  <2>6. Relay!GaugeAdvances'
    BY <2>1, <2>3, <2>4, <2>5, <1>f, <1>g, RelayCounts DEF Relay!GaugeAdvances
  <2> QED
    BY <2>1, <2>3, <2>6, <1>t, RelayCountInv
<1>4. ASSUME NEW w \in Callbacks, NEW ps \in SUBSET RelayPeers, Relay!Release(ps, w) PROVE Relay!IInv'
  <2>1. /\ Relay!Up /\ ps # {} /\ ps \subseteq relayHeld /\ Relay!Free(w) /\ relayHeld' = relayHeld \ ps
        /\ relayCalls' = [relayCalls EXCEPT ![w] = [at |-> "load", delta |-> -Cardinality(ps)]]
        /\ gauge' = gauge /\ swallowed' = swallowed
        /\ UNCHANGED <<Relay!identity, Relay!snapshot, proc>>
    BY <1>4, RelayCounts DEF Relay!Release
  <2>2. /\ Cardinality(ps) \in Nat /\ Cardinality(ps) # 0
        /\ IsFiniteSet(relayHeld') /\ Cardinality(relayHeld') = Cardinality(relayHeld) - Cardinality(ps)
    <3>1. IsFiniteSet(ps)
      BY <2>1, <1>f, FS_Subset
    <3>2. Cardinality(relayHeld') = Cardinality(relayHeld) - Cardinality(relayHeld \cap ps)
          /\ IsFiniteSet(relayHeld')
      BY <2>1, <1>f, FS_Difference
    <3>3. relayHeld \cap ps = ps
      BY <2>1
    <3> QED
      BY <2>1, <3>1, <3>2, <3>3, FS_EmptySet, FS_CardinalityType
  <2> DEFINE d == -Cardinality(ps)
  <2>3. d \in Relay!Deltas /\ d = -Cardinality(ps)
    BY <2>2 DEF Relay!Deltas
  <2> HIDE DEF d
  <2>4. /\ relayCalls' \in [Callbacks -> Relay!Callback]
        /\ IsFiniteSet(Relay!Releasing)' /\ IsFiniteSet(Relay!Granting)'
        /\ Cardinality(Relay!Releasing') - Cardinality(Relay!Granting') = Cardinality(Relay!Releasing) - Cardinality(Relay!Granting) - d
    BY <2>1, <2>3, <1>t, <1>f, RelayCallBegins
  <2>5. Cardinality(Relay!Releasing') \in Nat /\ Cardinality(Relay!Granting') \in Nat
    BY <2>4, FS_CardinalityType
  <2>6. Relay!GaugeAdvances'
    BY <2>1, <2>2, <2>3, <2>4, <2>5, <1>f, <1>g, RelayCounts DEF Relay!GaugeAdvances
  <2> QED
    BY <2>1, <2>4, <2>6, <1>t, RelayCountInv
<1>5. ASSUME NEW w \in Callbacks, Relay!LoadGauge(w) PROVE Relay!IInv'
  <2>1. /\ Relay!Up /\ relayCalls[w].at = "load"
        /\ relayCalls' = [relayCalls EXCEPT ![w] = [at |-> "swap", delta |-> relayCalls[w].delta,
              current |-> gauge]]
        /\ gauge' = gauge /\ swallowed' = swallowed /\ relayHeld' = relayHeld
        /\ UNCHANGED <<Relay!identity, Relay!snapshot, proc>>
    BY <1>5 DEF Relay!LoadGauge
  <2>2. ~Relay!Free(w) /\ relayCalls[w].delta \in Relay!Deltas
    BY <2>1, <1>t, RelayCallShape DEF Relay!Free, Relay!None
  <2> DEFINE c == [at |-> "swap", delta |-> relayCalls[w].delta, current |-> gauge]
  <2>3. c \in Relay!Callback /\ c # Relay!None /\ c.delta = relayCalls[w].delta
    <3>1. c.at # Relay!None.at
      BY DEF Relay!None
    <3> QED
      BY <3>1, <2>2, <1>t, RelayCallMake
  <2>4. relayCalls' = [relayCalls EXCEPT ![w] = c]
    BY <2>1
  <2> HIDE DEF c
  <2>5. relayCalls' \in [Callbacks -> Relay!Callback] /\ Relay!Releasing' = Relay!Releasing
        /\ Relay!Granting' = Relay!Granting
    BY <2>2, <2>3, <2>4, <1>t, RelayCallMoves
  <2>6. Relay!GaugeAdvances'
    BY <2>1, <2>5, <1>t, RelayCounts DEF Relay!GaugeAdvances
  <2> QED
    BY <2>1, <2>5, <2>6, <1>t, RelayCountInv
<1>6. ASSUME NEW w \in Callbacks, Relay!Swap(w) PROVE Relay!IInv'
  <2>1. /\ Relay!Up /\ relayCalls[w].at = "swap" /\ relayHeld' = relayHeld
        /\ UNCHANGED <<Relay!identity, Relay!snapshot, proc>>
    BY <1>6 DEF Relay!Swap
  <2>2. ~Relay!Free(w) /\ relayCalls[w].delta \in Relay!Deltas /\ relayCalls[w].current \in Nat
    BY <2>1, <1>t, RelayCallShape DEF Relay!Free, Relay!None
  <2>3. CASE gauge = relayCalls[w].current
    <3> DEFINE next == gauge + relayCalls[w].delta
    <3>1. /\ gauge' = Relay!Clamped(next) /\ relayCalls' = [relayCalls EXCEPT ![w] = Relay!None]
          /\ swallowed' = (swallowed \/ next < 0)
      BY <2>3, <1>6 DEF Relay!Swap
    <3>2. /\ relayCalls' \in [Callbacks -> Relay!Callback]
          /\ IsFiniteSet(Relay!Releasing)' /\ IsFiniteSet(Relay!Granting)'
          /\ Cardinality(Relay!Releasing') - Cardinality(Relay!Granting')
               = Cardinality(Relay!Releasing) - Cardinality(Relay!Granting) + relayCalls[w].delta
      BY <2>2, <3>1, <1>t, <1>f, RelayCallEnds
    <3>3. Cardinality(Relay!Releasing') \in Nat /\ Cardinality(Relay!Granting') \in Nat
      BY <3>2, FS_CardinalityType
    <3>4. next \in Int /\ next = gauge + relayCalls[w].delta /\ relayCalls[w].delta \in Int
      BY <2>2, <1>t DEF Relay!Deltas
    <3> HIDE DEF next
    <3>5. gauge' \in Nat /\ swallowed' \in BOOLEAN /\ gauge' = (IF next < 0 THEN 0 ELSE next)
      BY <3>1, <3>4, <1>t DEF Relay!Clamped
    <3>6. Relay!GaugeAdvances'
      <4>1. CASE swallowed'
        BY <4>1, <2>1, <3>1, <3>2, <3>3, <3>4, <3>5, <1>f, <1>g, <1>t,
           RelayCounts DEF Relay!GaugeAdvances
      <4>2. CASE ~swallowed'
        <5>1. ~swallowed /\ ~(next < 0)
          BY <4>2, <3>1
        <5> QED
          BY <5>1, <4>2, <2>1, <3>1, <3>2, <3>3, <3>4, <3>5, <1>f, <1>g, <1>t,
             RelayCounts DEF Relay!GaugeAdvances
      <4> QED
        BY <4>1, <4>2
    <3> QED
      BY <2>1, <3>2, <3>5, <3>6, <1>t, RelayCountInv
  <2>4. CASE gauge # relayCalls[w].current
    <3> DEFINE c == [at |-> "load", delta |-> relayCalls[w].delta]
    <3>1. relayCalls' = [relayCalls EXCEPT ![w] = c] /\ gauge' = gauge /\ swallowed' = swallowed
      BY <2>4, <1>6 DEF Relay!Swap
    <3>2. c \in Relay!Callback /\ c # Relay!None /\ c.delta = relayCalls[w].delta
      <4>1. c.at # Relay!None.at
        BY DEF Relay!None
      <4> QED
        BY <4>1, <2>2, RelayCallMake
    <3> HIDE DEF c
    <3>3. relayCalls' \in [Callbacks -> Relay!Callback] /\ Relay!Releasing' = Relay!Releasing
          /\ Relay!Granting' = Relay!Granting
      BY <2>2, <3>1, <3>2, <1>t, RelayCallMoves
    <3>4. Relay!GaugeAdvances'
      BY <2>1, <3>1, <3>3, <1>t, RelayCounts DEF Relay!GaugeAdvances
    <3> QED
      BY <2>1, <3>1, <3>3, <3>4, <1>t, RelayCountInv
  <2> QED
    BY <2>3, <2>4
<1>7. CASE Relay!WriteStatus \/ Relay!Written \/ Relay!Rename
  <2>1. /\ UNCHANGED <<Relay!identity, proc, Relay!counting>> /\ Relay!Up
        /\ writer' \in {"idle", "writing", "renaming"}
        /\ {status', temp'} \subseteq {"none", "torn", "whole"}
    BY <1>7, <1>t DEF Relay!WriteStatus, Relay!Written, Relay!Rename, Relay!TypeOK, Relay!Up
  <2>2. Relay!GaugeAdvances'
    BY <2>1, <1>t, RelayCountingKept
  <2>3. Relay!TypeOK'
    BY <2>1, <1>t DEF Relay!TypeOK, Relay!identity, Relay!counting, Relay!Up
  <2>4. Relay!SnapshotIsWritten'
    BY <1>7 DEF Relay!IInv, Relay!SnapshotIsWritten, Relay!StatusIsWhole, Relay!WriteStatus,
       Relay!Written, Relay!Rename
  <2> QED
    BY <2>1, <2>2, <2>3, <2>4 DEF Relay!IInv, Relay!IdentityIsKept, Relay!identity, Relay!Up
<1>8. CASE UNCHANGED Relay!vars
  <2>1. UNCHANGED Relay!counting
        /\ UNCHANGED <<file, status, temp, proc, key, keys, served, writer>>
    BY <1>8 DEF Relay!vars, Relay!counting
  <2>2. Relay!GaugeAdvances'
    BY <2>1, <1>t, RelayCountingKept
  <2>3. Relay!TypeOK'
    BY <2>1, <1>t DEF Relay!TypeOK, Relay!counting, Relay!Up, Relay!Busy, Relay!Free
  <2> QED
    BY <2>1, <2>2, <2>3 DEF Relay!IInv, Relay!IdentityIsKept, Relay!SnapshotIsWritten,
       Relay!StatusIsWhole, Relay!Up
<1> QED
  BY <1>1, <1>2, <1>3, <1>4, <1>5, <1>6, <1>7, <1>8 DEF Relay!Next

LEMMA RelayInitInv == Relay!Init => Relay!IInv
<1> SUFFICES ASSUME Relay!Init PROVE Relay!IInv
  OBVIOUS
<1>1. relayCalls \in [Callbacks -> Relay!Callback] /\ Relay!Busy = {}
  BY DEF Relay!Init, Relay!Callback, Relay!Busy, Relay!Free
<1>2. Relay!Releasing = {} /\ Relay!Granting = {} /\ IsFiniteSet({}) /\ Cardinality({}) = 0
  BY <1>1, RelayNoCalls
<1>3. Relay!TypeOK
  <2>1. swallowed \in BOOLEAN
    BY DEF Relay!Init
  <2> QED
    BY <1>1, <2>1, RelayAssumption DEF Relay!Init, Relay!TypeOK, Relay!Unset, Relay!Up
<1> QED
  BY <1>2, <1>3, RelayCounts DEF Relay!Init, Relay!IInv, Relay!IdentityIsKept,
     Relay!SnapshotIsWritten, Relay!StatusIsWhole, Relay!GaugeAdvances, Relay!Unset, Relay!Up

LEMMA RelayConsequences == Relay!IInv => Relay!FilesSurviveCrashes /\ Relay!GaugeIsExact
<1> SUFFICES ASSUME Relay!IInv PROVE Relay!FilesSurviveCrashes /\ Relay!GaugeIsExact
  OBVIOUS
<1>1. Cardinality(served) <= 1
  <2>1. served = {} \/ served = {file}
    BY DEF Relay!IInv, Relay!IdentityIsKept
  <2> QED
    <3>1. Cardinality({file}) = 1 /\ Cardinality({}) = 0
      BY FS_EmptySet, FS_Singleton
    <3> QED
      BY <2>1, <3>1
<1>2. /\ served \subseteq {file} /\ (Relay!Up => served = {key})
      /\ Relay!StatusIsWhole
  BY DEF Relay!IInv, Relay!IdentityIsKept, Relay!SnapshotIsWritten
<1>3. Relay!GaugeIsExact
  <2> SUFFICES ASSUME Relay!Busy = {}
               PROVE IF swallowed THEN gauge > Cardinality(relayHeld) ELSE gauge = Cardinality(relayHeld)
    BY RelayCounts DEF Relay!GaugeIsExact
  <2>1. Cardinality(Relay!Releasing) = 0 /\ Cardinality(Relay!Granting) = 0
        /\ Cardinality(relayHeld) \in Nat
    BY RelayNoCalls, RelayHeldFinite DEF Relay!IInv
  <2> QED
    BY <2>1, RelayCounts DEF Relay!IInv, Relay!GaugeAdvances
<1> QED
  BY <1>1, <1>2, <1>3, RelayCounts DEF Relay!FilesSurviveCrashes, Relay!OneIdentity, Relay!IInv

-----------------------------------------------------------------------------
\* Bot.

LEMMA ClientNextInv == Client!IInv /\ [Client!Next]_(Client!vars) => Client!IInv'
<1> SUFFICES ASSUME Client!IInv, [Client!Next]_(Client!vars) PROVE Client!IInv'
  OBVIOUS
<1>t. /\ Client!TypeOK /\ Client!StopsHaveCauses /\ Client!ScheduleHolds /\ Client!MessagesAreHeard
         /\ Client!CleanExit
  BY DEF Client!IInv, Client!BotIsReliable
<1> USE DEF Client!Running
\* invokeTask keeps to one send.
<1>k. ASSUME (inFlight' = TRUE /\ clientSends' = clientSends + 1 /\ ~inFlight)
      \/ (inFlight' = inFlight /\ clientSends' = clientSends)
      PROVE  Client!ScheduleHolds' /\ inFlight' \in BOOLEAN /\ clientSends' \in Nat
  <2>1. clientSends \in Nat /\ clientSends <= 1 /\ (inFlight <=> clientSends = 1) /\ inFlight \in BOOLEAN
    BY <1>t DEF Client!TypeOK, Client!ScheduleHolds
  <2>2. CASE inFlight' = TRUE /\ clientSends' = clientSends + 1 /\ ~inFlight
    <3>1. clientSends = 0
      BY <2>1, <2>2
    <3>2. clientSends' = 1
      BY <2>2, <3>1
    <3> QED
      BY <2>2, <3>2 DEF Client!ScheduleHolds
  <2>3. CASE inFlight' = inFlight /\ clientSends' = clientSends
    BY <2>1, <2>3 DEF Client!ScheduleHolds
  <2> QED
    BY <1>k, <2>2, <2>3
\* The four facts of a step that hears nothing.
<1>q. ASSUME clientHeard' = clientHeard, Client!TypeOK', Client!StopsHaveCauses',
      Client!ScheduleHolds', Client!CleanExit', program' = program
      PROVE  Client!IInv'
  BY <1>q, <1>t DEF Client!IInv, Client!BotIsReliable, Client!MessagesAreHeard
<1>1. CASE Client!Created
  <2>1. Client!TypeOK'
    BY <1>1, <1>t DEF Client!Created, Client!TypeOK, Client!task, Client!streams
  <2> QED
    BY <1>1, <1>t, <1>q, <2>1 DEF Client!Created, Client!task, Client!streams,
       Client!StopsHaveCauses, Client!ScheduleHolds, Client!CleanExit
<1>2. CASE Client!Booted
  <2>1. /\ clientPhase = "booting" /\ clientPhase' \in {"running", "dialing"} /\ clientNode' = "up"
           /\ started' = TRUE
        /\ program = "wiki" => listening' = TRUE /\ clientPhase' = "running"
        /\ listening' \in BOOLEAN /\ timer' \in BOOLEAN
        /\ UNCHANGED <<program, stops, clientSignals, clientHeard, answer>>
    BY <1>2, <1>t DEF Client!Booted, Client!streams, Client!task, Client!TypeOK
  <2>2. Client!ScheduleHolds' /\ inFlight' \in BOOLEAN /\ clientSends' \in Nat
    <3>1. (inFlight' = TRUE /\ clientSends' = clientSends + 1 /\ ~inFlight)
          \/ (inFlight' = inFlight /\ clientSends' = clientSends)
      BY <1>2 DEF Client!Booted, Client!Invoke, Client!task
    <3> QED
      BY <3>1, <1>k
  <2>b. {started, listening, timer, inFlight}' \subseteq BOOLEAN
    BY <2>1, <2>2
  <2>3. Client!TypeOK'
    BY <2>1, <2>2, <2>b, <1>t DEF Client!TypeOK
  <2> QED
    BY <2>1, <2>2, <2>3, <1>t, <1>q DEF Client!StopsHaveCauses, Client!CleanExit
\* An exit, with the node gone.
<1>e. ASSUME Client!Exit, clientNode' \in {"none", "down"},
      UNCHANGED <<program, clientHeard, answer>>, clientSignals' \in 0..MaxSignals,
             started' \in BOOLEAN, listening' \in BOOLEAN,
             program = "wiki" => (started' => listening')
      PROVE  Client!IInv'
  <2>1. /\ clientPhase' = "exited" /\ stops' = 0 /\ timer' = FALSE /\ inFlight' = FALSE
           /\ clientSends' = 0
    BY <1>e DEF Client!Exit
  <2>b. {started, listening, timer, inFlight}' \subseteq BOOLEAN
    BY <1>e, <2>1
  <2>2. Client!TypeOK'
    BY <1>e, <1>t, <2>1, <2>b DEF Client!TypeOK
  <2>3. Client!ScheduleHolds'
    BY <2>1 DEF Client!ScheduleHolds
  <2>4. Client!StopsHaveCauses' /\ Client!CleanExit'
    BY <1>e, <2>1, SignalsAssumption DEF Client!StopsHaveCauses, Client!CleanExit
  <2> QED
    BY <1>e, <1>q, <2>2, <2>3, <2>4
\* The smoke test stops its client, in the phase before the end.
<1>s. ASSUME program = "smoke", clientPhase # "ending", clientPhase' = "ending", Client!Stop,
      UNCHANGED Client!task,
             UNCHANGED <<program, started, clientSignals, clientHeard, answer>>
      PROVE  Client!IInv'
  <2>1. stops = 0 /\ stops' = 1 /\ clientNode' = "stopping" /\ listening' = listening
    BY <1>s, <1>t DEF Client!Stop, Client!StopsHaveCauses, Client!TypeOK
  <2>2. Client!TypeOK'
    BY <1>s, <1>t, <2>1 DEF Client!TypeOK, Client!task
  <2> QED
    BY <1>s, <1>t, <1>q, <2>1, <2>2 DEF Client!StopsHaveCauses, Client!ScheduleHolds,
       Client!CleanExit, Client!task
<1>3. CASE Client!StartFails
  <2>1. CASE program = "smoke" /\ clientPhase' = "ending" /\ Client!Stop /\ UNCHANGED Client!task
    BY <1>3, <2>1, <1>s DEF Client!StartFails, Client!streams
  <2>2. CASE Client!Exit /\ clientNode' = "none" /\ UNCHANGED listening
    BY <1>3, <2>2, <1>e, <1>t DEF Client!StartFails, Client!streams, Client!TypeOK,
       Client!StopsHaveCauses
  <2> QED
    BY <1>3, <2>1, <2>2 DEF Client!StartFails
<1>4. CASE Client!Dialed
  <2>1. Client!TypeOK'
    BY <1>4, <1>t DEF Client!Dialed, Client!TypeOK, Client!task, Client!streams
  <2> QED
    BY <1>4, <1>t, <1>q, <2>1 DEF Client!Dialed, Client!task, Client!streams,
       Client!StopsHaveCauses, Client!ScheduleHolds, Client!CleanExit
<1>5. CASE Client!Sent
  <2>1. program = "smoke"
    BY <1>5, <1>t DEF Client!Sent, Client!TypeOK, Client!StopsHaveCauses
  <2> QED
    BY <1>5, <2>1, <1>s DEF Client!Sent, Client!streams
<1>6. CASE Client!Tick
  <2>1. Client!ScheduleHolds' /\ inFlight' \in BOOLEAN /\ clientSends' \in Nat
    <3>1. (inFlight' = TRUE /\ clientSends' = clientSends + 1 /\ ~inFlight)
          \/ (inFlight' = inFlight /\ clientSends' = clientSends)
      BY <1>6 DEF Client!Tick, Client!Invoke
    <3> QED
      BY <3>1, <1>k
  <2>2. UNCHANGED <<program, clientPhase, clientNode, started, listening, timer, stops,
  clientSignals, clientHeard, answer>>
    BY <1>6 DEF Client!Tick, Client!streams
  <2>3. Client!TypeOK'
    BY <2>1, <2>2, <1>t DEF Client!TypeOK
  <2> QED
    BY <2>1, <2>2, <2>3, <1>q, <1>t DEF Client!StopsHaveCauses, Client!CleanExit
<1>7. CASE Client!TaskEnds
  <2>1. Client!ScheduleHolds' /\ inFlight' = FALSE /\ clientSends' \in Nat
    BY <1>7, <1>t DEF Client!TaskEnds, Client!ScheduleHolds, Client!TypeOK
  <2>2. UNCHANGED <<program, clientPhase, clientNode, started, listening, timer, stops,
  clientSignals, clientHeard, answer>>
    BY <1>7 DEF Client!TaskEnds, Client!streams
  <2>3. Client!TypeOK'
    BY <2>1, <2>2, <1>t DEF Client!TypeOK
  <2> QED
    BY <2>1, <2>2, <2>3, <1>q, <1>t DEF Client!StopsHaveCauses, Client!CleanExit
<1>8. CASE Client!Signal
  <2>1. clientPhase # "exited" /\ clientSignals' = clientSignals + 1 /\ clientSignals' \in 0..MaxSignals
        /\ UNCHANGED <<program, started, clientHeard, answer>>
    BY <1>8, <1>t, SignalsAssumption DEF Client!Signal, Client!TypeOK, Client!streams
  <2>2. CASE program = "wiki" /\ clientPhase = "running"
    <3>1. /\ stops' = stops + 1 /\ clientNode' = "stopping" /\ listening' = listening
          /\ timer' = FALSE /\ UNCHANGED <<clientPhase, inFlight, clientSends>>
      BY <1>8, <2>2 DEF Client!Signal, Client!Stop
    <3>b. {started, listening, timer, inFlight}' \subseteq BOOLEAN
      BY <2>1, <3>1, <1>t DEF Client!TypeOK
    <3>2. Client!TypeOK'
      BY <2>1, <3>1, <3>b, <1>t DEF Client!TypeOK
    <3> QED
      BY <2>1, <2>2, <3>1, <3>2, <1>q, <1>t DEF Client!StopsHaveCauses, Client!ScheduleHolds,
         Client!CleanExit, Client!TypeOK
  <2>3. CASE ~(program = "wiki" /\ clientPhase = "running")
    BY <1>8, <2>1, <2>3, <1>e, <1>t DEF Client!Signal, Client!TypeOK, Client!StopsHaveCauses
  <2> QED
    BY <2>2, <2>3
<1>9. CASE Client!Stopped
  <2>1. /\ stops > 0 /\ started' = FALSE /\ listening' = FALSE /\ Client!Exit
        /\ UNCHANGED <<program, clientSignals, clientHeard, answer>> /\ clientSignals \in 0..MaxSignals
    BY <1>9, <1>t DEF Client!Stopped, Client!streams, Client!TypeOK
  <2>2. CASE clientNode' = "down"
    BY <2>1, <2>2, <1>e
  <2>3. CASE stops > 1 /\ clientNode' = clientNode
    <3>1. /\ clientPhase' = "exited" /\ stops' = 0 /\ timer' = FALSE /\ inFlight' = FALSE
             /\ clientSends' = 0
      BY <2>1 DEF Client!Exit
    <3>2. clientSignals > 1
      BY <2>3, <1>t DEF Client!StopsHaveCauses, Client!TypeOK
    <3>b. {started, listening, timer, inFlight}' \subseteq BOOLEAN
      BY <2>1, <3>1
    <3>3. Client!TypeOK'
      BY <2>1, <2>3, <3>1, <3>b, <1>t DEF Client!TypeOK
    <3>4. Client!ScheduleHolds'
      BY <3>1 DEF Client!ScheduleHolds
    <3> QED
      BY <2>1, <2>3, <3>1, <3>2, <3>3, <3>4, <1>t, <1>q DEF Client!StopsHaveCauses,
         Client!CleanExit, Client!TypeOK
  <2> QED
    BY <1>9, <2>2, <2>3 DEF Client!Stopped
<1>10. CASE Client!StopFails
  BY <1>10, <1>e, <1>t DEF Client!StopFails, Client!streams, Client!TypeOK, Client!StopsHaveCauses
\* A stream that is read leaves the rest alone.
<1>h. ASSUME UNCHANGED <<program, clientPhase, clientNode, started, listening, Client!task, stops,
clientSignals>>,
             clientHeard' \in [Inbound -> {"no", "reading", "yes", "dropped", "early"}],
             answer' \in {"none", "reading", "profile", "empty"},
             program = "wiki" => \A m \in Inbound : clientHeard'[m] # "dropped"
      PROVE  Client!IInv'
  <2>1. Client!TypeOK'
    BY <1>h, <1>t DEF Client!TypeOK, Client!task
  <2> QED
    BY <1>h, <1>t, <2>1 DEF Client!IInv, Client!BotIsReliable, Client!StopsHaveCauses,
       Client!ScheduleHolds, Client!MessagesAreHeard, Client!CleanExit, Client!task
<1>11. ASSUME NEW m \in Inbound, Client!Receive(m) PROVE Client!IInv'
  BY <1>11, <1>h, <1>t DEF Client!Receive, Client!TypeOK, Client!MessagesAreHeard
<1>12. ASSUME NEW m \in Inbound, Client!Emit(m) PROVE Client!IInv'
  <2>1. program = "wiki" /\ started => listening
    BY <1>t DEF Client!StopsHaveCauses
  <2> QED
    BY <1>12, <2>1, <1>h, <1>t DEF Client!Emit, Client!TypeOK, Client!MessagesAreHeard
<1>13. CASE Client!Ask \/ Client!Answer
  BY <1>13, <1>h, <1>t DEF Client!Ask, Client!Answer, Client!TypeOK, Client!MessagesAreHeard
<1>14. CASE UNCHANGED Client!vars
  <2>1. UNCHANGED <<program, clientPhase, clientNode, started, listening, Client!task, stops,
  clientSignals, clientHeard, answer>>
    BY <1>14 DEF Client!vars, Client!task
  <2> QED
    BY <2>1, <1>h, <1>t DEF Client!TypeOK, Client!MessagesAreHeard
<1> QED
  BY <1>1, <1>2, <1>3, <1>4, <1>5, <1>6, <1>7, <1>8, <1>9, <1>10, <1>11, <1>12, <1>13,
     <1>14 DEF Client!Next

LEMMA ClientInitInv == Client!Init => Client!IInv
<1> SUFFICES ASSUME Client!Init PROVE Client!IInv
  OBVIOUS
<1>1. clientHeard \in [Inbound -> {"no", "reading", "yes", "dropped", "early"}]
      /\ \A m \in Inbound : clientHeard[m] = "no"
  BY DEF Client!Init
<1>2. {started, listening, timer, inFlight} \subseteq BOOLEAN
  BY DEF Client!Init
<1>3. Client!TypeOK
  BY <1>1, <1>2, SignalsAssumption DEF Client!Init, Client!TypeOK
<1> QED
  BY <1>1, <1>3 DEF Client!Init, Client!IInv, Client!BotIsReliable, Client!StopsHaveCauses,
     Client!ScheduleHolds, Client!MessagesAreHeard, Client!CleanExit

-----------------------------------------------------------------------------
\* The connections of a session.

LEMMA PoolCounts ==
    /\ \A S : Pool!Cardinality(S) = Cardinality(S)
    /\ \A s, I : Pool!Subsequence(s, I) = Subsequence(s, I)
<1>1. \A S : Pool!Cardinality(S) = Cardinality(S)
  BY Zenon DEF Pool!Cardinality, Cardinality
<1>2. \A I : Pool!Ascending(I) = Ascending(I)
  BY <1>1 DEF Pool!Ascending, Ascending
<1> QED
  BY <1>1, <1>2 DEF Pool!Subsequence, Subsequence

PoolConn == Pool!Conn

\* What is closed of the connections cs: at the k-th of them, at most k are not
\* younger and not to a relay, and there are that many over the limit.
LEMMA PoolToTrim ==
    ASSUME NEW cs \in Seq(PoolConn), \A i, j \in DOMAIN cs : cs[i] = cs[j] => i = j
    PROVE  /\ Pool!ToTrim(cs) \in Seq(PoolConn)
           /\ \A k \in DOMAIN Pool!ToTrim(cs) : \A i \in DOMAIN cs :
                  cs[i] = Pool!ToTrim(cs)[k] =>
                      /\ cs[i].peer \notin Relays
                      /\ Cardinality(Pool!Older(cs, i)) + Limit <= Len(cs)
<1> DEFINE I == {i \in DOMAIN cs : cs[i].peer \notin Relays}
           all == Subsequence(cs, I)
           over == Pool!Overflow(cs)
           n == IF over < Len(all) THEN over ELSE Len(all)
           list == SubSeq(all, 1, n)
<1>1. Pool!ToTrim(cs) = list
  BY PoolCounts DEF Pool!ToTrim, Pool!Oldest, Pool!Candidates
<1>2. PICK at : all \in Seq(PoolConn) /\ Selects(at, all, cs, I)
  <2>1. I \in SUBSET DOMAIN cs
    OBVIOUS
  <2> HIDE DEF I
  <2> QED
    BY <2>1, SubsequenceFacts
<1>3. Len(cs) \in Nat /\ Limit \in Nat /\ DOMAIN cs = 1..Len(cs)
  BY PoolAssumption
<1>4. over \in Nat /\ (over # 0 => over + Limit = Len(cs))
  BY <1>3 DEF Pool!Overflow
<1> HIDE DEF all, over
<1>5. n \in Nat /\ n <= Len(all) /\ n <= over /\ Len(all) \in Nat
  BY <1>2, <1>4
<1> HIDE DEF n
<1>6. /\ list \in Seq(PoolConn) /\ DOMAIN list = 1..n
      /\ \A k \in 1..n : k \in DOMAIN all /\ list[k] = all[k]
  <2>1. \A k \in 1..n : k \in 1..Len(all) /\ all[k] \in PoolConn
    BY <1>2, <1>5
  <2> QED
    BY <1>2, <1>5, <2>1
<1> HIDE DEF list
<1>7. ASSUME NEW k \in DOMAIN list, NEW i \in DOMAIN cs, cs[i] = list[k]
      PROVE  cs[i].peer \notin Relays /\ Cardinality(Pool!Older(cs, i)) + Limit <= Len(cs)
  <2>1. k \in 1..n /\ k \in DOMAIN all /\ cs[i] = all[k] /\ all[k] = cs[at[k]] /\ at[k] \in I
    BY <1>2, <1>6, <1>7 DEF Selects
  <2>2. i = at[k] /\ i \in I
    BY <2>1
  <2>3. Pool!Older(cs, i) \subseteq {all[m] : m \in 1..k}
    <3> SUFFICES ASSUME NEW j \in 1..i, cs[j].peer \notin Relays PROVE cs[j] \in {all[m] : m \in 1..k}
      BY DEF Pool!Older
    <3>1. j \in I
      BY <1>3
    <3>2. PICK m \in DOMAIN all : at[m] = j
      BY <1>2, <3>1 DEF Selects
    <3>3. ~(k < m)
      <4> SUFFICES ASSUME k < m PROVE FALSE
        OBVIOUS
      <4>1. at[k] < at[m]
        BY <1>2, <2>1, <3>2 DEF Selects
      <4> QED
        BY <1>3, <2>2, <3>2, <4>1
    <3>4. m \in 1..k /\ all[m] = cs[j]
      <4>1. m \in Nat /\ m >= 1 /\ k \in Nat
        BY <1>2, <1>5, <2>1
      <4> QED
        BY <1>2, <3>2, <3>3, <4>1 DEF Selects
    <3> QED
      BY <3>4
  <2>4. k \in Nat /\ k <= over /\ over # 0
    BY <1>4, <1>5, <2>1
  <2>5. Cardinality(Pool!Older(cs, i)) \in Nat /\ Cardinality(Pool!Older(cs, i)) <= k
    BY <2>3, <2>4, ImageBound
  <2> QED
    BY <1>3, <1>4, <2>2, <2>4, <2>5
<1> QED
  BY <1>1, <1>6, <1>7

\* c leaves the connections, if it is one of them: the others stay in order.
LEMMA PoolRemovedFacts ==
    ASSUME Pool!TypeOK, Pool!Distinct, NEW c, Pool!Removed(c)
    PROVE  /\ poolConns' \in Seq(PoolConn) /\ Pool!Distinct'
           /\ (\A i \in DOMAIN poolConns : poolConns[i] # c) => poolConns' = poolConns
           /\ \A p \in DOMAIN poolConns : poolConns[p] = c =>
                 /\ Len(poolConns') = Len(poolConns) - 1
                 /\ \A j \in DOMAIN poolConns' : \E i \in DOMAIN poolConns :
                       /\ poolConns'[j] = poolConns[i] /\ i # p
                       /\ \A m \in DOMAIN poolConns : i <= m =>
                             Pool!Older(poolConns', j) \subseteq Pool!Older(poolConns, m) \ {c}
           /\ Pool!Peers(poolConns') \subseteq Pool!Peers(poolConns)
           /\ \A i \in DOMAIN poolConns : poolConns[i] = c \/ poolConns[i].peer \in Pool!Peers(poolConns')
<1> DEFINE I == {i \in DOMAIN poolConns : poolConns[i] # c}
           t == Subsequence(poolConns, I)
<1>1. poolConns \in Seq(PoolConn) /\ poolConns' = t
  BY PoolCounts DEF Pool!TypeOK, Pool!Removed, PoolConn
<1>2. PICK at : t \in Seq(PoolConn) /\ Selects(at, t, poolConns, I)
  <2>1. I \in SUBSET DOMAIN poolConns
    OBVIOUS
  <2> HIDE DEF I
  <2> QED
    BY <1>1, <2>1, SubsequenceFacts
<1> HIDE DEF t
<1>3. /\ \A j \in DOMAIN t : at[j] \in DOMAIN poolConns /\ t[j] = poolConns[at[j]] /\ t[j] # c
      /\ \A j, k \in DOMAIN t : at[j] = at[k] => j = k
      /\ \A j, k \in DOMAIN t : j < k => at[j] < at[k]
      /\ \A i \in DOMAIN poolConns : poolConns[i] # c => \E k \in DOMAIN t : at[k] = i
  BY <1>2 DEF Selects
<1>4. Len(poolConns) \in Nat /\ DOMAIN poolConns = 1..Len(poolConns)
      /\ Len(t) \in Nat /\ DOMAIN t = 1..Len(t)
  BY <1>1, <1>2
<1>5. Pool!Distinct'
  BY <1>1, <1>3 DEF Pool!Distinct
<1>6. ASSUME \A i \in DOMAIN poolConns : poolConns[i] # c PROVE poolConns' = poolConns
  <2>1. I = DOMAIN poolConns
    BY <1>6
  <2> QED
    BY <1>1, <2>1, WholeSubsequence DEF t
<1>7. ASSUME NEW p \in DOMAIN poolConns, poolConns[p] = c PROVE Len(t) = Len(poolConns) - 1
  <2> DEFINE n == Len(poolConns)
  <2>1. I = (1..n) \ {p} /\ p \in 1..n /\ n \in Nat
    BY <1>4, <1>7 DEF Pool!Distinct
  <2>2. Len(t) = Cardinality(I)
    BY <1>2 DEF Selects
  <2> HIDE DEF n, I
  <2>3. IsFiniteSet(1..n) /\ Cardinality(1..n) = n
    BY <2>1, FS_Interval
  <2>4. Cardinality((1..n) \ {p}) = n - 1
    BY <2>1, <2>3, FS_RemoveElement
  <2> QED
    BY <2>1, <2>2, <2>4 DEF n
<1>8. ASSUME NEW j \in DOMAIN t, NEW m \in DOMAIN poolConns, at[j] <= m
      PROVE  Pool!Older(t, j) \subseteq Pool!Older(poolConns, m) \ {c}
  <2> SUFFICES ASSUME NEW k \in 1..j, t[k].peer \notin Relays
               PROVE  t[k] \in Pool!Older(poolConns, m) \ {c}
    BY DEF Pool!Older
  <2>1. k \in DOMAIN t /\ (k = j \/ k < j)
    BY <1>4
  <2>2. at[k] \in DOMAIN poolConns /\ t[k] = poolConns[at[k]] /\ t[k] # c
    BY <1>3, <2>1
  <2>3. at[k] <= at[j] /\ at[j] \in DOMAIN poolConns
    BY <1>3, <1>4, <2>1, <2>2
  <2>4. at[k] \in 1..m
    BY <1>4, <1>8, <2>2, <2>3
  <2> QED
    BY <2>2, <2>4 DEF Pool!Older
<1>9. \A p \in DOMAIN poolConns : poolConns[p] = c =>
         \A j \in DOMAIN t : \E i \in DOMAIN poolConns :
             /\ t[j] = poolConns[i] /\ i # p
             /\ \A m \in DOMAIN poolConns : i <= m => Pool!Older(t, j) \subseteq Pool!Older(poolConns, m) \ {c}
  BY <1>3, <1>8
<1>10. Pool!Peers(t) \subseteq Pool!Peers(poolConns)
  BY <1>3 DEF Pool!Peers
<1>11. \A i \in DOMAIN poolConns : poolConns[i] = c \/ poolConns[i].peer \in Pool!Peers(t)
  BY <1>3 DEF Pool!Peers
<1> QED
  BY <1>1, <1>2, <1>5, <1>6, <1>7, <1>9, <1>10, <1>11

\* The announcements that go with it.
LEMMA PoolRemovedShown ==
    ASSUME Pool!TypeOK, Pool!Distinct, Pool!ShownIsConnected, NEW c \in PoolConn, Pool!Removed(c)
    PROVE  Pool!ShownIsConnected' /\ poolShown' = seen' /\ seen' \subseteq Remotes
<1>1. /\ Pool!Peers(poolConns') \subseteq Pool!Peers(poolConns)
      /\ \A i \in DOMAIN poolConns : poolConns[i] = c \/ poolConns[i].peer \in Pool!Peers(poolConns')
  BY PoolRemovedFacts
<1>2. seen = Pool!Peers(poolConns) /\ poolShown = seen /\ seen \subseteq Remotes
  BY DEF Pool!TypeOK, Pool!ShownIsConnected
<1>3. \A q \in Pool!Peers(poolConns) : q = c.peer \/ q \in Pool!Peers(poolConns')
  BY <1>1 DEF Pool!Peers
<1>4. CASE c.peer \in Pool!Peers(poolConns) \ Pool!Peers(poolConns')
  <2>1. poolShown' = poolShown \ (seen \ Pool!Peers(poolConns')) /\ seen' = Pool!Peers(poolConns')
    BY <1>4 DEF Pool!Removed, Pool!Retract
  <2> QED
    BY <1>1, <1>2, <2>1 DEF Pool!ShownIsConnected
<1>5. CASE ~(c.peer \in Pool!Peers(poolConns) \ Pool!Peers(poolConns'))
  <2>1. UNCHANGED <<seen, poolShown>>
    BY <1>5 DEF Pool!Removed
  <2>2. Pool!Peers(poolConns') = Pool!Peers(poolConns)
    BY <1>1, <1>3, <1>5
  <2> QED
    BY <1>2, <2>1, <2>2 DEF Pool!ShownIsConnected
<1> QED
  BY <1>4, <1>5
\* The older connections are finitely many.
LEMMA PoolOlderFinite ==
    ASSUME NEW i \in Nat, NEW cs
    PROVE  IsFiniteSet(Pool!Older(cs, i)) /\ Cardinality(Pool!Older(cs, i)) \in Nat
<1>1. Pool!Older(cs, i) \subseteq {cs[m] : m \in 1..i}
  BY DEF Pool!Older
<1> QED
  BY <1>1, ImageBound

LEMMA PoolConnectInv ==
    ASSUME Pool!IInv, NEW p \in Remotes, Pool!Connect(p)
    PROVE  Pool!IInv'
<1>1. /\ Pool!TypeOK /\ Pool!ShownIsConnected /\ Pool!Distinct /\ Pool!StillOver
      /\ poolConns \in Seq(PoolConn) /\ trims \in [Trims -> Seq(PoolConn)]
  BY DEF Pool!IInv, Pool!TypeOK, PoolConn
<1> DEFINE n == Len(poolConns)
<1>2. PICK id \in Pool!FreshId : poolConns' = Append(poolConns, [id |-> id, peer |-> p])
  BY DEF Pool!Connect
<1> DEFINE new == [id |-> id, peer |-> p]
<1>3. new \in PoolConn /\ poolConns' = Append(poolConns, new)
  BY <1>2 DEF Pool!FreshId, PoolConn, Pool!Conn
<1>4. /\ \A i \in DOMAIN poolConns : poolConns[i] # new
      /\ \A t \in Trims : \A k \in DOMAIN trims[t] : trims[t][k] # new
  <2>1. id \notin {c.id : c \in Pool!ToSet(poolConns) \cup UNION {Pool!ToSet(trims[t]) : t \in Trims}}
    BY <1>2 DEF Pool!FreshId
  <2>2. new.id = id
    OBVIOUS
  <2> HIDE DEF new
  <2> QED
    BY <2>1, <2>2 DEF Pool!ToSet
<1> HIDE DEF new
<1>5. /\ n \in Nat /\ DOMAIN poolConns = 1..n /\ DOMAIN poolConns' = 1..(n + 1) /\ Len(poolConns') = n + 1
      /\ poolConns' \in Seq(PoolConn) /\ poolConns'[n + 1] = new
      /\ \A i \in 1..n : poolConns'[i] = poolConns[i]
  BY <1>1, <1>3
<1> HIDE DEF n
<1>6. Pool!Distinct'
  <2> SUFFICES ASSUME NEW i \in 1..(n + 1), NEW j \in 1..(n + 1), poolConns'[i] = poolConns'[j], i # j
               PROVE  FALSE
    BY <1>5 DEF Pool!Distinct
  <2>1. CASE i \in 1..n /\ j \in 1..n
    BY <1>1, <1>5, <2>1 DEF Pool!Distinct
  <2>2. CASE i = n + 1 /\ j \in 1..n
    BY <1>4, <1>5, <2>2
  <2>3. CASE j = n + 1 /\ i \in 1..n
    BY <1>4, <1>5, <2>3
  <2> QED
    BY <1>5, <2>1, <2>2, <2>3
<1>7. Pool!Peers(poolConns') = Pool!Peers(poolConns) \cup {p}
  <2>1. new.peer = p /\ n + 1 \in 1..(n + 1) /\ \A i \in 1..n : i \in 1..(n + 1)
    BY <1>5 DEF new
  <2>2. \A i \in 1..(n + 1) : i \in 1..n \/ i = n + 1
    BY <1>5
  <2> QED
    BY <1>5, <2>1, <2>2 DEF Pool!Peers
<1>8. /\ disturbed' = disturbed
      /\ \/ p \in Pool!Peers(poolConns) /\ UNCHANGED <<seen, poolShown, trims>>
         \/ /\ seen' = seen \cup Pool!Peers(poolConns')
            /\ poolShown' = poolShown \cup (Pool!Peers(poolConns') \ seen)
            /\ Pool!StartTrim(poolConns')
  BY DEF Pool!Connect, Pool!Announce
<1>9. seen = Pool!Peers(poolConns) /\ poolShown = seen /\ seen \subseteq Remotes
  BY <1>1 DEF Pool!TypeOK, Pool!ShownIsConnected
<1>10. Pool!ShownIsConnected' /\ poolShown' = seen' /\ seen' \subseteq Remotes
  BY <1>7, <1>8, <1>9 DEF Pool!ShownIsConnected
<1>11. \/ trims' = trims
       \/ \E t \in Trims : trims[t] = <<>> /\ trims' = [trims EXCEPT ![t] = Pool!ToTrim(poolConns')]
  BY <1>8 DEF Pool!StartTrim
<1>12. /\ Pool!ToTrim(poolConns') \in Seq(PoolConn)
       /\ \A k \in DOMAIN Pool!ToTrim(poolConns') : \A i \in DOMAIN poolConns' :
              poolConns'[i] = Pool!ToTrim(poolConns')[k] =>
                  /\ poolConns'[i].peer \notin Relays
                  /\ Cardinality(Pool!Older(poolConns', i)) + Limit <= Len(poolConns')
  <2> DEFINE cs == poolConns'
  <2>1. cs \in Seq(PoolConn) /\ \A i, j \in DOMAIN cs : cs[i] = cs[j] => i = j
    BY <1>5, <1>6 DEF Pool!Distinct
  <2> HIDE DEF cs
  <2>2. /\ Pool!ToTrim(cs) \in Seq(PoolConn)
        /\ \A k \in DOMAIN Pool!ToTrim(cs) : \A i \in DOMAIN cs :
              cs[i] = Pool!ToTrim(cs)[k] =>
                  /\ cs[i].peer \notin Relays
                  /\ Cardinality(Pool!Older(cs, i)) + Limit <= Len(cs)
    BY <2>1, PoolToTrim
  <2> QED
    BY <2>2 DEF cs
<1>13. trims' \in [Trims -> Seq(PoolConn)]
       /\ \A t \in Trims : trims'[t] = trims[t]
                          \/ (trims[t] = <<>> /\ trims'[t] = Pool!ToTrim(poolConns'))
  BY <1>1, <1>11, <1>12
<1>14. Pool!TypeOK'
  <2>1. disturbed \in BOOLEAN /\ (disturbed => \E t \in Trims : trims[t] # <<>>)
    BY <1>1 DEF Pool!TypeOK
  <2>2. disturbed' \in BOOLEAN /\ (disturbed' => \E t \in Trims : trims'[t] # <<>>)
    BY <1>8, <1>13, <2>1
  <2> QED
    BY <1>5, <1>10, <1>13, <2>2 DEF Pool!TypeOK, PoolConn
<1>15. Pool!StillOver'
  <2> SUFFICES ASSUME ~disturbed', NEW t \in Trims, NEW k \in DOMAIN trims'[t], NEW i \in 1..(n + 1),
                      poolConns'[i] = trims'[t][k]
               PROVE  /\ poolConns'[i].peer \notin Relays
                      /\ Cardinality(Pool!Older(poolConns', i)) + Limit <= Len(poolConns')
    BY <1>5, PoolCounts DEF Pool!StillOver
  <2>1. CASE trims'[t] = Pool!ToTrim(poolConns')
    BY <1>5, <1>12, <2>1
  <2>2. CASE trims'[t] = trims[t]
    <3>1. i \in 1..n /\ poolConns[i] = trims[t][k]
      <4>1. poolConns'[i] # new
        BY <1>4, <2>2
      <4> QED
        BY <1>5, <2>2, <4>1
    <3>2. poolConns[i].peer \notin Relays /\ Cardinality(Pool!Older(poolConns, i)) + Limit <= n
      BY <1>1, <1>5, <1>8, <2>2, <3>1, PoolCounts DEF Pool!StillOver, n
    <3>3. Pool!Older(poolConns', i) = Pool!Older(poolConns, i)
      <4>1. \A j \in 1..i : j \in 1..n
        BY <1>5, <3>1
      <4> QED
        BY <1>5, <4>1 DEF Pool!Older
    <3>4. Cardinality(Pool!Older(poolConns, i)) \in Nat /\ Limit \in Nat
      BY <1>5, <3>1, PoolOlderFinite, PoolAssumption
    <3>5. Cardinality(Pool!Older(poolConns', i)) + Limit <= n + 1
      BY <1>5, <3>2, <3>3, <3>4
    <3> QED
      BY <1>5, <3>1, <3>2, <3>5
  <2> QED
    BY <1>13, <2>1, <2>2
<1> QED
  BY <1>6, <1>10, <1>14, <1>15 DEF Pool!IInv

LEMMA PoolLoseInv ==
    ASSUME Pool!IInv, NEW c \in Pool!ToSet(poolConns), Pool!Lose(c)
    PROVE  Pool!IInv'
<1>1. /\ Pool!TypeOK /\ Pool!ShownIsConnected /\ Pool!Distinct
      /\ poolConns \in Seq(PoolConn) /\ trims \in [Trims -> Seq(PoolConn)]
  BY DEF Pool!IInv, Pool!TypeOK, PoolConn
<1>2. /\ Pool!Removed(c) /\ disturbed' = (\E t \in Trims : trims[t] # <<>>) /\ trims' = trims
  BY DEF Pool!Lose
<1>3. c \in PoolConn
  BY <1>1 DEF Pool!ToSet
<1>4. poolConns' \in Seq(PoolConn) /\ Pool!Distinct'
  BY <1>1, <1>2, PoolRemovedFacts
<1>5. Pool!ShownIsConnected' /\ poolShown' = seen' /\ seen' \subseteq Remotes
  BY <1>1, <1>2, <1>3, PoolRemovedShown
<1>6. Pool!TypeOK'
  BY <1>1, <1>2, <1>4, <1>5 DEF Pool!TypeOK, PoolConn
<1>7. Pool!StillOver'
  <2>1. ~disturbed' => \A t \in Trims : DOMAIN trims'[t] = {}
    BY <1>2
  <2> QED
    BY <2>1 DEF Pool!StillOver
<1> QED
  BY <1>4, <1>5, <1>6, <1>7 DEF Pool!IInv

\* What is left of a trim's list was in it.
LEMMA PoolTrimsLeft ==
    ASSUME trims \in [Trims -> Seq(PoolConn)], NEW t \in Trims, trims[t] # <<>>,
           trims' = [trims EXCEPT ![t] = Tail(@)]
    PROVE  /\ trims' \in [Trims -> Seq(PoolConn)]
           /\ \A o \in Trims : \A k \in DOMAIN trims'[o] : \E l \in DOMAIN trims[o] : trims'[o][k] = trims[o][l]
           /\ Head(trims[t]) \in PoolConn /\ 1 \in DOMAIN trims[t] /\ Head(trims[t]) = trims[t][1]
<1>1. trims[t] \in Seq(PoolConn)
  OBVIOUS
<1>2. /\ Tail(trims[t]) \in Seq(PoolConn)
      /\ \A k \in DOMAIN Tail(trims[t]) : k + 1 \in DOMAIN trims[t] /\ Tail(trims[t])[k] = trims[t][k + 1]
      /\ Head(trims[t]) \in PoolConn /\ 1 \in DOMAIN trims[t] /\ Head(trims[t]) = trims[t][1]
  BY <1>1
<1>3. trims'[t] = Tail(trims[t]) /\ \A o \in Trims \ {t} : trims'[o] = trims[o]
  OBVIOUS
<1>4. ASSUME NEW o \in Trims, NEW k \in DOMAIN trims'[o]
      PROVE  \E l \in DOMAIN trims[o] : trims'[o][k] = trims[o][l]
  <2>1. CASE o = t
    BY <1>2, <1>3, <2>1
  <2>2. CASE o # t
    BY <1>3, <2>2
  <2> QED
    BY <2>1, <2>2
<1> QED
  BY <1>2, <1>4

\* What a trim closes leaves at least the limit, and fewer connections that the
\* others are going to close.
LEMMA PoolCloses ==
    ASSUME Pool!IInv, ~disturbed, NEW t \in Trims, NEW l \in DOMAIN trims[t],
           NEW p \in DOMAIN poolConns, poolConns[p] = trims[t][l], Pool!Removed(poolConns[p])
    PROVE  /\ Len(poolConns') \in Nat /\ Limit <= Len(poolConns')
           /\ \A o \in Trims : \A k \in DOMAIN trims[o] : \A j \in DOMAIN poolConns' :
                 poolConns'[j] = trims[o][k] =>
                     /\ poolConns'[j].peer \notin Relays
                     /\ Cardinality(Pool!Older(poolConns', j)) + Limit <= Len(poolConns')
<1> DEFINE c == poolConns[p]
           n == Len(poolConns)
<1>1. /\ Pool!TypeOK /\ Pool!Distinct /\ poolConns \in Seq(PoolConn) /\ Limit \in Nat
      /\ n \in Nat /\ DOMAIN poolConns = 1..n
  BY PoolAssumption DEF Pool!IInv, Pool!TypeOK, PoolConn
<1>2. \A o \in Trims : \A k \in DOMAIN trims[o] : \A i \in DOMAIN poolConns :
         poolConns[i] = trims[o][k] =>
             poolConns[i].peer \notin Relays /\ Cardinality(Pool!Older(poolConns, i)) + Limit <= n
  BY PoolCounts DEF Pool!IInv, Pool!StillOver
<1>3. /\ Len(poolConns') = n - 1
      /\ \A j \in DOMAIN poolConns' : \E i \in DOMAIN poolConns :
            /\ poolConns'[j] = poolConns[i] /\ i # p
            /\ \A m \in DOMAIN poolConns : i <= m =>
                  Pool!Older(poolConns', j) \subseteq Pool!Older(poolConns, m) \ {c}
  BY <1>1, PoolRemovedFacts
<1> HIDE DEF n
<1>4. ASSUME NEW m \in DOMAIN poolConns, p <= m
      PROVE  /\ IsFiniteSet(Pool!Older(poolConns, m) \ {c})
             /\ Cardinality(Pool!Older(poolConns, m)) \in Nat
             /\ Cardinality(Pool!Older(poolConns, m) \ {c}) = Cardinality(Pool!Older(poolConns, m)) - 1
  <2>1. c.peer \notin Relays
    BY <1>2
  <2>2. c \in Pool!Older(poolConns, m)
    <3>1. p \in 1..m
      BY <1>1, <1>4
    <3> QED
      BY <2>1, <3>1 DEF Pool!Older
  <2>3. IsFiniteSet(Pool!Older(poolConns, m)) /\ Cardinality(Pool!Older(poolConns, m)) \in Nat
    BY <1>1, PoolOlderFinite
  <2> HIDE DEF c
  <2> QED
    BY <2>2, <2>3, FS_RemoveElement
<1>5. Len(poolConns') \in Nat /\ Limit <= Len(poolConns')
  <2>1. Cardinality(Pool!Older(poolConns, p)) + Limit <= n
    BY <1>2
  <2>2. /\ Cardinality(Pool!Older(poolConns, p)) \in Nat
        /\ Cardinality(Pool!Older(poolConns, p) \ {c}) = Cardinality(Pool!Older(poolConns, p)) - 1
        /\ Cardinality(Pool!Older(poolConns, p) \ {c}) \in Nat
    <3>1. p <= p
      BY <1>1
    <3> QED
      BY <1>4, <3>1, FS_CardinalityType
  <2> QED
    BY <1>1, <1>3, <2>1, <2>2
<1>6. ASSUME NEW o \in Trims, NEW k \in DOMAIN trims[o], NEW j \in DOMAIN poolConns',
             poolConns'[j] = trims[o][k]
      PROVE  /\ poolConns'[j].peer \notin Relays
             /\ Cardinality(Pool!Older(poolConns', j)) + Limit <= Len(poolConns')
  <2>1. PICK i \in DOMAIN poolConns :
            /\ poolConns'[j] = poolConns[i] /\ i # p
            /\ \A m \in DOMAIN poolConns : i <= m =>
                  Pool!Older(poolConns', j) \subseteq Pool!Older(poolConns, m) \ {c}
    BY <1>3
  <2>2. /\ poolConns[i].peer \notin Relays /\ Cardinality(Pool!Older(poolConns, i)) + Limit <= n
        /\ Cardinality(Pool!Older(poolConns, p)) + Limit <= n
    BY <1>2, <1>6, <2>1
  <2>3. PICK m \in DOMAIN poolConns : i <= m /\ p <= m /\ Cardinality(Pool!Older(poolConns, m)) + Limit <= n
    <3>1. CASE i <= p
      <4>1. p <= p
        BY <1>1
      <4> QED
        BY <2>2, <3>1, <4>1
    <3>2. CASE ~(i <= p)
      <4>1. i <= i /\ p <= i
        BY <1>1, <3>2
      <4> QED
        BY <2>2, <4>1
    <3> QED
      BY <3>1, <3>2
  <2> DEFINE rest == Pool!Older(poolConns, m) \ {c}
             left == Pool!Older(poolConns', j)
  <2>4. /\ IsFiniteSet(rest) /\ Cardinality(Pool!Older(poolConns, m)) \in Nat
        /\ Cardinality(rest) = Cardinality(Pool!Older(poolConns, m)) - 1
    BY <1>4, <2>3
  <2>5. left \subseteq rest
    BY <2>1, <2>3
  <2> HIDE DEF rest, left
  <2>6. Cardinality(left) \in Nat /\ Cardinality(left) <= Cardinality(rest)
    BY <2>4, <2>5, FS_Subset, FS_CardinalityType
  <2>7. Cardinality(left) + Limit <= n - 1
    BY <1>1, <2>3, <2>4, <2>6
  <2> QED
    BY <1>3, <2>1, <2>2, <2>7 DEF left
<1> QED
  BY <1>5, <1>6

LEMMA PoolTrimInv ==
    ASSUME Pool!IInv, NEW t \in Trims, NEW closes \in BOOLEAN, Pool!Trim(t, closes)
    PROVE  Pool!IInv' /\ (~disturbed => poolConns' = poolConns \/ Len(poolConns') >= Limit)
<1>1. /\ Pool!TypeOK /\ Pool!ShownIsConnected /\ Pool!Distinct /\ Pool!StillOver
      /\ poolConns \in Seq(PoolConn) /\ trims \in [Trims -> Seq(PoolConn)]
      /\ poolShown = seen /\ seen \subseteq Remotes
  BY DEF Pool!IInv, Pool!TypeOK, PoolConn
<1> DEFINE d == Head(trims[t])
<1>2. /\ trims[t] # <<>> /\ trims' = [trims EXCEPT ![t] = Tail(@)]
      /\ disturbed' = (disturbed /\ \E o \in Trims : trims'[o] # <<>>)
      /\ \/ Pool!Removed(d)
         \/ UNCHANGED <<poolConns, seen, poolShown>>
  BY DEF Pool!Trim
<1>3. /\ trims' \in [Trims -> Seq(PoolConn)]
      /\ \A o \in Trims : \A k \in DOMAIN trims'[o] : \E l \in DOMAIN trims[o] : trims'[o][k] = trims[o][l]
      /\ d \in PoolConn /\ 1 \in DOMAIN trims[t] /\ d = trims[t][1]
  BY <1>1, <1>2, PoolTrimsLeft
<1> HIDE DEF d
<1>4. poolConns' \in Seq(PoolConn) /\ Pool!Distinct'
  <2>1. CASE Pool!Removed(d)
    BY <1>1, <2>1, PoolRemovedFacts
  <2>2. CASE poolConns' = poolConns
    BY <1>1, <2>2 DEF Pool!Distinct
  <2> QED
    BY <1>2, <2>1, <2>2
<1>5. Pool!ShownIsConnected' /\ poolShown' = seen' /\ seen' \subseteq Remotes
  <2>1. CASE Pool!Removed(d)
    BY <1>1, <1>3, <2>1, PoolRemovedShown
  <2>2. CASE UNCHANGED <<poolConns, seen, poolShown>>
    BY <1>1, <2>2 DEF Pool!ShownIsConnected
  <2> QED
    BY <1>2, <2>1, <2>2
<1>6. Pool!TypeOK'
  <2>1. disturbed' \in BOOLEAN /\ (disturbed' => \E o \in Trims : trims'[o] # <<>>)
    BY <1>2
  <2> QED
    BY <1>3, <1>4, <1>5, <2>1 DEF Pool!TypeOK, PoolConn
<1>7. ASSUME ~disturbed
      PROVE  /\ poolConns' = poolConns \/ (Len(poolConns') \in Nat /\ Limit <= Len(poolConns'))
             /\ \A o \in Trims : \A k \in DOMAIN trims[o] : \A j \in DOMAIN poolConns' :
                   poolConns'[j] = trims[o][k] =>
                       /\ poolConns'[j].peer \notin Relays
                       /\ Cardinality(Pool!Older(poolConns', j)) + Limit <= Len(poolConns')
  <2>1. CASE poolConns' = poolConns
    BY <1>1, <1>7, <2>1, PoolCounts DEF Pool!StillOver
  <2>2. CASE Pool!Removed(d) /\ poolConns' # poolConns
    <3>1. PICK p \in DOMAIN poolConns : poolConns[p] = d
      BY <1>1, <2>2, PoolRemovedFacts
    <3> QED
      BY <1>3, <1>7, <2>2, <3>1, PoolCloses
  <2> QED
    BY <1>2, <2>1, <2>2
<1>8. Pool!StillOver'
  <2> SUFFICES ASSUME ~disturbed', NEW o \in Trims, NEW k \in DOMAIN trims'[o], NEW j \in DOMAIN poolConns',
                      poolConns'[j] = trims'[o][k]
               PROVE  /\ poolConns'[j].peer \notin Relays
                      /\ Cardinality(Pool!Older(poolConns', j)) + Limit <= Len(poolConns')
    BY PoolCounts DEF Pool!StillOver
  <2>1. ~disturbed
    <3>1. trims'[o] # <<>>
      BY <1>3
    <3>2. \E p \in Trims : trims'[p] # <<>>
      BY <3>1
    <3>3. ~(disturbed /\ \E p \in Trims : trims'[p] # <<>>)
      BY <1>2, Zenon
    <3> QED
      BY <3>2, <3>3, Zenon
  <2>2. PICK l \in DOMAIN trims[o] : trims'[o][k] = trims[o][l]
    BY <1>3
  <2> QED
    BY <1>7, <2>1, <2>2
<1>9. ~disturbed => poolConns' = poolConns \/ Len(poolConns') >= Limit
  <2> SUFFICES ASSUME ~disturbed, poolConns' # poolConns PROVE Len(poolConns') >= Limit
    OBVIOUS
  <2>1. Len(poolConns') \in Nat /\ Limit <= Len(poolConns') /\ Limit \in Nat
    BY <1>7, PoolAssumption
  <2> QED
    BY <2>1
<1> QED
  BY <1>4, <1>5, <1>6, <1>8, <1>9 DEF Pool!IInv

LEMMA PoolNextInv == Pool!IInv /\ [Pool!Next]_(Pool!vars) => Pool!IInv'
<1> SUFFICES ASSUME Pool!IInv, [Pool!Next]_(Pool!vars) PROVE Pool!IInv'
  OBVIOUS
<1>1. CASE UNCHANGED Pool!vars
  BY <1>1 DEF Pool!vars, Pool!IInv, Pool!TypeOK, Pool!ShownIsConnected, Pool!Distinct, Pool!StillOver
<1>2. CASE Pool!Next
  BY <1>2, PoolConnectInv, PoolLoseInv, PoolTrimInv DEF Pool!Next
<1> QED
  BY <1>1, <1>2

\* A trim alone does not go below the limit.
LEMMA PoolTrimSteps == Pool!IInv => Pool!TrimStep
<1> SUFFICES ASSUME Pool!IInv, NEW t \in Trims, Pool!Trim(t, TRUE), ~disturbed
             PROVE  poolConns' = poolConns \/ Len(poolConns') >= Limit
  BY DEF Pool!TrimStep
<1> QED
  BY PoolTrimInv

LEMMA PoolInitInv == Pool!Init => Pool!IInv
<1> SUFFICES ASSUME Pool!Init PROVE Pool!IInv
  OBVIOUS
<1>1. poolConns = <<>> /\ DOMAIN poolConns = {} /\ poolConns \in Seq(Pool!Conn)
  BY DEF Pool!Init
<1>2. Pool!ShownIsConnected /\ Pool!Distinct /\ Pool!StillOver
  BY <1>1 DEF Pool!Init, Pool!ShownIsConnected, Pool!Peers, Pool!Distinct, Pool!StillOver
<1>3. Pool!TypeOK
  BY <1>1 DEF Pool!Init, Pool!TypeOK
<1> QED
  BY <1>2, <1>3 DEF Pool!IInv

-----------------------------------------------------------------------------
\* The sound of a call.

\* Instances count and list as everybody does.
LEMMA StreamCounts ==
    /\ \A S : Stream!Cardinality(S) = Cardinality(S)
    /\ \A S : Stream!Ascending(S) = Ascending(S)
BY DEF Stream!Cardinality, Cardinality, Stream!Ascending, Ascending

\* The chunks that follow each other from e on are those up to the first that
\* is missing.
LEMMA StreamRunFacts ==
    ASSUME NEW n \in Nat, NEW S \in SUBSET (0..n), NEW e \in Nat
    PROVE  \E h \in Nat : /\ e <= h /\ h \notin S
                          /\ Stream!Run(S, e) = e..(h - 1)
                          /\ Cardinality(Stream!Run(S, e)) = h - e
<1> DEFINE missing == {k \in Nat : k >= e /\ k \notin S}
<1>1. missing \in SUBSET Nat /\ (n + 1 + e) \in missing
  OBVIOUS
<1>2. PICK h \in missing : \A k \in missing : h <= k
  BY <1>1, LeastNatural
<1>3. h \in Nat /\ e <= h /\ h \notin S
  BY <1>2
<1>4. \A k \in e..(h - 1) : k \in S
  <2> SUFFICES ASSUME NEW k \in e..(h - 1), k \notin S PROVE FALSE
    OBVIOUS
  <2>1. k \in missing
    BY <1>3
  <2> QED
    BY <1>2, <1>3, <2>1
<1>5. Stream!Run(S, e) = e..(h - 1)
  <2>1. ASSUME NEW k \in Stream!Run(S, e) PROVE k \in e..(h - 1)
    <3>1. k \in Nat /\ k >= e /\ \A i \in e..k : i \in S
      BY <2>1 DEF Stream!Run
    <3>2. ~(h <= k)
      BY <1>3, <3>1
    <3> QED
      BY <1>3, <3>1, <3>2
  <2>2. ASSUME NEW k \in e..(h - 1) PROVE k \in Stream!Run(S, e)
    <3>1. \A i \in e..k : i \in e..(h - 1)
      BY <1>3
    <3> QED
      BY <1>4, <3>1 DEF Stream!Run
  <2> QED
    BY <2>1, <2>2
<1>6. Cardinality(e..(h - 1)) = h - e
  <2>1. e \in Int /\ h - 1 \in Int /\ IF e > h - 1 THEN h = e ELSE (h - 1) - e + 1 = h - e
    BY <1>3
  <2>2. Cardinality(e..(h - 1)) = IF e > h - 1 THEN 0 ELSE (h - 1) - e + 1
    BY <2>1, FS_Interval
  <2> QED
    BY <1>3, <2>1, <2>2
<1> QED
  BY <1>3, <1>5, <1>6

\* Part of what is in turn is in turn, from later on too.
LEMMA StreamSuffixFacts ==
    ASSUME NEW q, NEW from \in Int, NEW to \in Int, Stream!InTurn(q, from, to),
           NEW i \in 0..Len(q)
    PROVE  /\ Stream!InTurn(SubSeq(q, i + 1, Len(q)), from, to)
           /\ Stream!ToSet(SubSeq(q, i + 1, Len(q))) \subseteq Stream!ToSet(q)
           /\ i # 0 => /\ q[i] \in Int /\ q[i] < to
                       /\ Stream!InTurn(SubSeq(q, i + 1, Len(q)), q[i], to)
<1> DEFINE t == SubSeq(q, i + 1, Len(q))
<1>1. q \in Seq(Nat) /\ Len(q) \in Nat
  BY DEF Stream!InTurn
<1>2. /\ t \in Seq(Nat) /\ DOMAIN t = 1..(Len(q) - i)
      /\ \A j \in DOMAIN t : i + j \in DOMAIN q /\ t[j] = q[i + j]
  <2>1. i \in Nat /\ Len(q) - i \in Nat /\ DOMAIN q = 1..Len(q)
    BY <1>1
  <2>2. \A j \in (i + 1)..Len(q) : q[j] \in Nat
    <3>1. \A j \in (i + 1)..Len(q) : j \in DOMAIN q
      BY <2>1
    <3> QED
      BY <1>1, <3>1
  <2>3. t \in Seq(Nat) /\ Len(t) = Len(q) - i /\ \A j \in 1..(Len(q) - i) : t[j] = q[i + j]
    <3>1. i + 1 \in Int /\ Len(q) \in Int
      BY <1>1, <2>1
    <3>2. /\ t \in Seq(Nat)
          /\ Len(t) = IF i + 1 <= Len(q) THEN Len(q) - (i + 1) + 1 ELSE 0
          /\ \A j \in 1..(Len(q) - (i + 1) + 1) : t[j] = q[(i + 1) + j - 1]
      BY <2>2, <3>1, SubSeqProperties
    <3> HIDE DEF t
    <3>3. Len(t) = Len(q) - i
      BY <1>1, <2>1, <3>2
    <3>4. \A j \in 1..(Len(q) - i) : j \in 1..(Len(q) - (i + 1) + 1) /\ (i + 1) + j - 1 = i + j
      BY <1>1, <2>1
    <3> QED
      BY <3>2, <3>3, <3>4
  <2> HIDE DEF t
  <2>4. DOMAIN t = 1..Len(t)
    BY <2>3
  <2>5. DOMAIN t = 1..(Len(q) - i)
    BY <2>3, <2>4
  <2>6. \A j \in 1..(Len(q) - i) : i + j \in 1..Len(q)
    BY <1>1, <2>1
  <2> QED
    BY <2>1, <2>3, <2>5, <2>6
<1> HIDE DEF t
<1>3. ASSUME NEW j \in DOMAIN t, NEW k \in DOMAIN t, j < k PROVE t[j] < t[k]
  <2>1. i + j < i + k
    BY <1>1, <1>2, <1>3
  <2> QED
    BY <1>2, <2>1 DEF Stream!InTurn
<1>4. \A j \in DOMAIN t : from < t[j] /\ t[j] < to
  BY <1>2 DEF Stream!InTurn
<1>5. Stream!InTurn(t, from, to)
  BY <1>2, <1>3, <1>4 DEF Stream!InTurn
<1>6. ASSUME i # 0
      PROVE  q[i] \in Int /\ q[i] < to /\ Stream!InTurn(t, q[i], to)
  <2>1. i \in DOMAIN q /\ q[i] \in Nat
    BY <1>1, <1>6
  <2>2. \A j \in DOMAIN t : q[i] < t[j]
    <3> SUFFICES ASSUME NEW j \in DOMAIN t PROVE q[i] < t[j]
      OBVIOUS
    <3>1. i < i + j
      BY <1>1, <1>2
    <3> QED
      BY <1>2, <2>1, <3>1 DEF Stream!InTurn
  <2> QED
    BY <1>2, <1>3, <1>4, <2>1, <2>2 DEF Stream!InTurn
<1>7. Stream!ToSet(t) \subseteq Stream!ToSet(q)
  BY <1>2 DEF Stream!ToSet
<1> QED
  BY <1>5, <1>6, <1>7 DEF t

\* What is flushed leaves the rest in turn.
LEMMA StreamFlushFacts ==
    ASSUME NEW q, NEW to \in Int, NEW free, last \in Int, last < to,
           Stream!InTurn(q, last, to), Stream!Flush(q, free),
           buffer \in {"absent", "none", "idle", "updating"}
    PROVE  /\ last' \in Int /\ last' < to /\ Stream!InTurn(queue', last', to)
           /\ buffer' \in {"absent", "none", "idle", "updating"}
<1>1. CASE queue' = q /\ buffer' = Stream!Made /\ UNCHANGED last
  BY <1>1 DEF Stream!Made
<1>2. ASSUME NEW i \in DOMAIN q, last' = q[i], queue' = SubSeq(q, i + 1, Len(q)), buffer' = "updating"
      PROVE  last' \in Int /\ last' < to /\ Stream!InTurn(queue', last', to)
  <2>1. q \in Seq(Nat)
    BY DEF Stream!InTurn
  <2>2. i \in 0..Len(q) /\ i # 0
    BY <2>1
  <2> QED
    BY <1>2, <2>2, StreamSuffixFacts
<1>3. CASE queue' = <<>> /\ buffer' = "idle" /\ UNCHANGED last
  BY <1>3 DEF Stream!InTurn
<1> QED
  BY <1>1, <1>2, <1>3 DEF Stream!Flush

\* What is played is nowhere else then.
LEMMA StreamApartFacts ==
    ASSUME Stream!PlayedApart, NEW q, NEW to \in Int, NEW free, last \in Int,
           Stream!InTurn(q, last, to), Stream!Flush(q, free),
           Stream!ToSet(q) \subseteq 0..(recorded - 1),
           Stream!ToSet(q) \cap (chunks' \cup streamPending' \cup played) = {},
           played \cap (chunks' \cup streamPending') = {},
           UNCHANGED <<recorded, streamCall>>
    PROVE  Stream!PlayedApart'
<1>1. CASE queue' = q /\ UNCHANGED <<last, played>>
  BY <1>1 DEF Stream!PlayedApart, Stream!ToSet
<1>2. ASSUME NEW i \in DOMAIN q, last' = q[i], played' = played \cup {q[i]},
             queue' = SubSeq(q, i + 1, Len(q))
      PROVE  Stream!PlayedApart'
  <2>1. q \in Seq(Nat)
    BY DEF Stream!InTurn
  <2>2. i \in 0..Len(q) /\ i # 0
    BY <2>1
  <2>3. /\ Stream!ToSet(queue') \subseteq Stream!ToSet(q)
        /\ Stream!InTurn(queue', q[i], to)
    BY <1>2, <2>2, StreamSuffixFacts
  <2>4. q[i] \in Stream!ToSet(q)
    BY DEF Stream!ToSet
  <2>5. q[i] \notin Stream!ToSet(queue')
    <3>1. \A j \in DOMAIN queue' : queue'[j] \in Nat /\ q[i] < queue'[j]
      BY <2>3 DEF Stream!InTurn
    <3>2. q[i] \in Nat
      BY <2>1
    <3>3. \A j \in DOMAIN queue' : queue'[j] # q[i]
      BY <3>1, <3>2
    <3> QED
      BY <3>3 DEF Stream!ToSet
  <2>6. streamCall = "live" => \A n \in played' : n <= last'
    <3>1. last < q[i] /\ q[i] \in Nat
      BY <2>1 DEF Stream!InTurn
    <3>2. \A n \in played : n \in Int
      BY DEF Stream!PlayedApart
    <3> QED
      BY <1>2, <3>1, <3>2 DEF Stream!PlayedApart
  <2>7. /\ played' \subseteq 0..(recorded - 1)
        /\ played' \cap (chunks' \cup streamPending' \cup Stream!ToSet(queue')) = {}
        /\ chunks' \cap Stream!ToSet(queue') = {}
    BY <1>2, <2>3, <2>4, <2>5 DEF Stream!PlayedApart
  <2>8. Stream!ToSet(queue)' = Stream!ToSet(queue')
    BY DEF Stream!ToSet
  <2> QED
    BY <2>6, <2>7, <2>8 DEF Stream!PlayedApart
<1>3. CASE queue' = <<>> /\ UNCHANGED <<last, played>>
  <2>1. Stream!ToSet(queue)' = {}
    BY <1>3 DEF Stream!ToSet
  <2> QED
    BY <1>3, <2>1 DEF Stream!PlayedApart
<1> QED
  BY <1>1, <1>2, <1>3 DEF Stream!Flush

\* New chunks that are all expected, in ascending order, follow what is in turn.
LEMMA StreamAppendFacts ==
    ASSUME NEW q, NEW from \in Int, NEW mid \in Int, NEW to \in Int,
           Stream!InTurn(q, from, mid), from < mid, mid <= to,
           NEW n \in Nat, NEW R \in SUBSET (0..n), \A k \in R : mid <= k /\ k < to
    PROVE  /\ Stream!InTurn(q \o Stream!Ascending(R), from, to)
           /\ Stream!ToSet(q \o Stream!Ascending(R)) \subseteq Stream!ToSet(q) \cup R
<1> DEFINE at == Ascending(R)
           c == Cardinality(R)
           t == q \o at
<1>1. Stream!Ascending(R) = at
  BY StreamCounts
<1>2. /\ c \in Nat /\ at \in [1..c -> R]
      /\ \A j, k \in 1..c : j < k => at[j] < at[k]
  BY AscendingFacts
<1>3. q \in Seq(Nat) /\ Len(q) \in Nat
  BY DEF Stream!InTurn
<1> HIDE DEF at, c
<1>4. \A k \in R : k \in Nat
  OBVIOUS
<1>5. at \in Seq(Nat) /\ Len(at) = c /\ DOMAIN at = 1..c
  <2>1. at \in [1..c -> Nat]
    BY <1>2, <1>4
  <2> QED
    BY <1>2, <2>1
<1>6. /\ t \in Seq(Nat) /\ DOMAIN t = 1..(Len(q) + c)
      /\ \A i \in DOMAIN q : t[i] = q[i]
      /\ \A i \in DOMAIN t \ DOMAIN q : i - Len(q) \in 1..c /\ t[i] = at[i - Len(q)]
  BY <1>3, <1>5
<1> HIDE DEF t
<1>7. \A i \in DOMAIN t : t[i] \in Nat /\ from < t[i] /\ t[i] < to
  <2> SUFFICES ASSUME NEW i \in DOMAIN t PROVE t[i] \in Nat /\ from < t[i] /\ t[i] < to
    OBVIOUS
  <2>1. CASE i \in DOMAIN q
    <3>1. q[i] \in Nat /\ from < q[i] /\ q[i] < mid
      BY <1>3, <2>1 DEF Stream!InTurn
    <3> QED
      BY <1>6, <2>1, <3>1
  <2>2. CASE i \notin DOMAIN q
    <3>1. t[i] \in R
      BY <1>2, <1>6, <2>2
    <3>2. t[i] \in Nat /\ mid <= t[i] /\ t[i] < to
      BY <1>4, <3>1
    <3> QED
      BY <3>2
  <2> QED
    BY <2>1, <2>2
<1>8. ASSUME NEW i \in DOMAIN t, NEW j \in DOMAIN t, i < j PROVE t[i] < t[j]
  <2>1. CASE j \in DOMAIN q
    <3>1. i \in DOMAIN q
      BY <1>3, <1>6, <1>8, <2>1
    <3> QED
      BY <1>6, <1>8, <2>1, <3>1 DEF Stream!InTurn
  <2>2. CASE i \in DOMAIN q /\ j \notin DOMAIN q
    <3>1. t[i] \in Nat /\ t[i] < mid
      BY <1>3, <1>6, <2>2 DEF Stream!InTurn
    <3>2. t[j] \in R
      BY <1>2, <1>6, <2>2
    <3>3. t[j] \in Nat /\ mid <= t[j]
      BY <1>4, <3>2
    <3> QED
      BY <3>1, <3>3
  <2>3. CASE i \notin DOMAIN q /\ j \notin DOMAIN q
    <3>1. i - Len(q) \in 1..c /\ j - Len(q) \in 1..c /\ i - Len(q) < j - Len(q)
      BY <1>3, <1>6, <1>8, <2>3
    <3> QED
      BY <1>2, <1>6, <2>3, <3>1
  <2>4. i \in DOMAIN q \/ j \notin DOMAIN q
    BY <1>3, <1>6, <1>8
  <2> QED
    BY <2>1, <2>2, <2>3, <2>4
<1>9. Stream!InTurn(t, from, to)
  BY <1>6, <1>7, <1>8 DEF Stream!InTurn
<1>10. \A i \in DOMAIN t : t[i] \in Stream!ToSet(q) \cup R
  <2>1. \A i \in DOMAIN q : q[i] \in Stream!ToSet(q)
    BY DEF Stream!ToSet
  <2> QED
    BY <1>2, <1>6, <2>1
<1>11. Stream!ToSet(t) \subseteq Stream!ToSet(q) \cup R
  BY <1>10 DEF Stream!ToSet
<1> QED
  BY <1>1, <1>9, <1>11 DEF t

\* The last of the chunks is the greatest.
LEMMA StreamLastFacts ==
    ASSUME NEW n \in Nat, NEW R \in SUBSET (0..n), R # {}
    PROVE  /\ Stream!Last(Stream!Ascending(R)) \in R
           /\ \A k \in R : k <= Stream!Last(Stream!Ascending(R))
<1> DEFINE at == Ascending(R)
           c == Cardinality(R)
<1>1. Stream!Ascending(R) = at
  BY StreamCounts
<1>2. /\ c \in Nat /\ at \in [1..c -> R]
      /\ \A j, k \in 1..c : j < k => at[j] < at[k]
      /\ \A i \in R : \E k \in 1..c : at[k] = i
  BY AscendingFacts
<1> HIDE DEF at, c
<1>3. \A k \in R : k \in Nat
  OBVIOUS
<1>4. c \in 1..c /\ Len(at) = c
  <2>1. at \in [1..c -> Nat]
    BY <1>2, <1>3
  <2>2. 1..c # {}
    BY <1>2
  <2> QED
    BY <1>2, <2>1, <2>2
<1>5. Stream!Last(at) = at[c]
  BY <1>4 DEF Stream!Last
<1>6. ASSUME NEW i \in R PROVE i <= at[c]
  <2>1. PICK k \in 1..c : at[k] = i
    BY <1>2
  <2>2. i \in Nat /\ at[c] \in R /\ at[c] \in Nat
    BY <1>2, <1>4, <1>3
  <2>3. k = c \/ at[k] < at[c]
    BY <1>2, <1>4
  <2> QED
    BY <2>1, <2>2, <2>3
<1> QED
  BY <1>1, <1>2, <1>4, <1>5, <1>6

\* The invariant's facts about the receiver, after a step that plays q.
LEMMA StreamPlayedInv ==
    ASSUME Stream!NothingReordered, Stream!PlayedApart, buffer \in {"absent", "none", "idle", "updating"},
           NEW q, NEW free, Stream!InTurn(q, last, expected'), Stream!Flush(q, free),
           Stream!ToSet(q) \cap (chunks' \cup played) = {},
           expected' \in expected..recorded, UNCHANGED <<recorded, streamCall>>,
           chunks' \subseteq chunks, streamPending' \cap chunks' = {},
           streamPending' \cap played = {},
           streamPending' \subseteq 0..(recorded - 1),
           \A n \in streamPending' : n > expected',
           Cardinality(streamPending') <= MaxPending,
           ~jumped' => \A n \in chunks' : n >= expected'
    PROVE  Stream!NothingReordered' /\ Stream!PlayedApart' /\ buffer' \in {"absent", "none", "idle", "updating"}
<1>1. /\ recorded \in Nat /\ expected \in 0..recorded /\ last \in Int /\ last < expected
      /\ chunks \subseteq 0..(recorded - 1)
  BY DEF Stream!NothingReordered
<1>2. expected' \in Int /\ last < expected' /\ expected' \in 0..recorded
  BY <1>1
<1>3. /\ last' \in Int /\ last' < expected' /\ Stream!InTurn(queue', last', expected')
      /\ buffer' \in {"absent", "none", "idle", "updating"}
  BY <1>1, <1>2, StreamFlushFacts
<1>4. recorded' = recorded /\ chunks' \cup streamPending' \subseteq 0..(recorded - 1)
  BY <1>1
<1>5. Cardinality(streamPending') = Stream!Cardinality(streamPending')
  BY StreamCounts
<1>6. Stream!NothingReordered'
  BY <1>1, <1>2, <1>3, <1>4, <1>5 DEF Stream!NothingReordered, Stream!InTurn
<1>7. \A i \in DOMAIN q : q[i] \in Nat /\ q[i] < expected'
  BY DEF Stream!InTurn
<1>8. Stream!ToSet(q) \subseteq 0..(recorded - 1)
  <2>1. \A i \in DOMAIN q : q[i] \in 0..(recorded - 1)
    BY <1>1, <1>2, <1>7
  <2> QED
    BY <2>1 DEF Stream!ToSet
<1>9. Stream!ToSet(q) \cap streamPending' = {}
  <2>1. \A n \in streamPending' : n \in Int /\ n > expected'
    BY <1>1
  <2>2. \A i \in DOMAIN q : q[i] \notin streamPending'
    BY <1>2, <1>7, <2>1
  <2> QED
    BY <2>2 DEF Stream!ToSet
<1>10. played \cap (chunks' \cup streamPending') = {}
  BY DEF Stream!PlayedApart
<1>11. Stream!ToSet(q) \cap (chunks' \cup streamPending' \cup played) = {}
  BY <1>9
<1>12. Stream!PlayedApart'
  <2> DEFINE to == expected'
  <2>1. to \in Int /\ Stream!InTurn(q, last, to)
    BY <1>2
  <2> HIDE DEF to
  <2> QED
    BY <1>1, <1>8, <1>10, <1>11, <2>1, StreamApartFacts
<1> QED
  BY <1>3, <1>6, <1>12

\* A chunk comes.
LEMMA StreamChunkInv ==
    ASSUME Stream!NothingReordered, Stream!PlayedApart,
           buffer \in {"absent", "none", "idle", "updating"}, jumped \in BOOLEAN,
           NEW n \in chunks, Stream!ReceiveChunk(n)
    PROVE  /\ Stream!NothingReordered' /\ Stream!PlayedApart'
           /\ buffer' \in {"absent", "none", "idle", "updating"} /\ jumped' \in BOOLEAN
<1>1. /\ recorded \in Nat /\ expected \in 0..recorded /\ expected \in Nat
      /\ last \in Int /\ last < expected
      /\ chunks \subseteq 0..(recorded - 1) /\ streamPending \subseteq 0..(recorded - 1)
      /\ chunks \cap streamPending = {} /\ Stream!InTurn(queue, last, expected)
      /\ (\A k \in streamPending : k > expected) /\ Cardinality(streamPending) <= MaxPending
      /\ ~jumped => \A k \in chunks : k >= expected
  BY StreamCounts DEF Stream!NothingReordered
<1>2. chunks' = chunks \ {n} /\ UNCHANGED recorded
  BY DEF Stream!ReceiveChunk, Stream!sender
<1>3. CASE n < expected
  <2>1. UNCHANGED <<streamPending, expected, jumped, queue, last, buffer, streamCall, played>>
    BY <1>3 DEF Stream!ReceiveChunk, Stream!receiver, Stream!pipeline
  <2>2. Stream!NothingReordered'
    BY <1>2, <2>1 DEF Stream!NothingReordered, Stream!InTurn
  <2>3. Stream!PlayedApart'
    BY <1>2, <2>1 DEF Stream!PlayedApart, Stream!ToSet
  <2> QED
    BY <2>1, <2>2, <2>3
<1>4. CASE ~(n < expected)
  <2> DEFINE ahead == streamPending \cup {n}
             from == Stream!Expecting(ahead, n)
             run == Stream!Run(ahead, from)
             q == Stream!Limited(queue \o Stream!Ascending(run))
  <2>1. /\ streamPending' = ahead \ run
        /\ expected' = from + Cardinality(run)
        /\ jumped' = (jumped \/ Cardinality(ahead) > MaxPending)
        /\ Stream!Flush(q, buffer = "idle")
        /\ UNCHANGED streamCall
    BY <1>4, StreamCounts DEF Stream!ReceiveChunk
  <2>2. ahead \in SUBSET (0..recorded) /\ ahead \subseteq 0..(recorded - 1) /\ (\A k \in ahead : k \in Nat /\ k >= expected)
    <3>1. n \in 0..(recorded - 1)
      BY <1>1
    <3>2. n \in 0..recorded /\ n \in Nat /\ n >= expected
      BY <1>1, <1>4, <3>1
    <3>3. \A k \in streamPending : k \in 0..(recorded - 1) /\ k \in 0..recorded /\ k \in Nat /\ k >= expected
      BY <1>1
    <3> QED
      BY <3>1, <3>2, <3>3
  <2>3. /\ IsFiniteSet(streamPending) /\ IsFiniteSet(ahead)
        /\ Cardinality(ahead) \in Nat /\ Cardinality(streamPending) \in Nat
        /\ Cardinality(ahead) <= Cardinality(streamPending) + 1
    <3>1. IsFiniteSet(0..(recorded - 1))
      BY <1>1, FS_Interval
    <3>2. IsFiniteSet(streamPending)
      BY <1>1, <3>1, FS_Subset
    <3>3. n \notin streamPending
      BY <1>1
    <3>4. Cardinality(streamPending) \in Nat
      BY <3>2, FS_CardinalityType
    <3>5. IsFiniteSet(ahead) /\ Cardinality(ahead) = Cardinality(streamPending) + 1
      BY <3>2, <3>3, FS_AddElement
    <3> HIDE DEF ahead
    <3> QED
      BY <3>2, <3>4, <3>5
  <2>4. MaxPending \in Nat
    BY StreamAssumption
  <2>5. /\ from \in Nat /\ expected <= from /\ \A k \in ahead : k >= from
        /\ IF Cardinality(ahead) > MaxPending THEN from \in ahead ELSE from = expected
    <3>1. CASE Cardinality(ahead) > MaxPending
      <4>1. \E k \in ahead : \A j \in ahead : k <= j
        <5>1. ahead \in SUBSET Nat /\ ahead # {}
          BY <2>2
        <5> QED
          BY <5>1, LeastNatural
      <4>2. from = CHOOSE k \in ahead : \A j \in ahead : k <= j
        BY <3>1, StreamCounts DEF Stream!Expecting
      <4>3. from \in ahead /\ \A j \in ahead : from <= j
        BY <4>1, <4>2
      <4> HIDE DEF ahead, from
      <4> QED
        BY <1>1, <2>2, <3>1, <4>3
    <3>2. CASE ~(Cardinality(ahead) > MaxPending)
      <4>1. from = expected
        BY <3>2, StreamCounts DEF Stream!Expecting
      <4> HIDE DEF ahead, from
      <4> QED
        BY <1>1, <2>2, <3>2, <4>1
    <3> QED
      BY <3>1, <3>2
  <2> HIDE DEF from
  <2>6. PICK h \in Nat : /\ from <= h /\ h \notin ahead /\ run = from..(h - 1)
                         /\ Cardinality(run) = h - from
    <3>1. recorded \in Nat /\ from \in Nat /\ ahead \in SUBSET (0..recorded)
      BY <1>1, <2>2, <2>5
    <3> HIDE DEF ahead
    <3>2. \E h \in Nat : /\ from <= h /\ h \notin ahead
                         /\ Stream!Run(ahead, from) = from..(h - 1)
                         /\ Cardinality(Stream!Run(ahead, from)) = h - from
      BY <3>1, StreamRunFacts
    <3> QED
      BY <3>2
  <2>7. expected' = h
    BY <2>1, <2>5, <2>6
  <2>8. run \subseteq ahead
    BY DEF Stream!Run
  <2>9. h \in expected..recorded
    <3>1. CASE from = h
      <4>1. from \notin ahead
        BY <2>6, <3>1
      <4>2. from = expected
        BY <2>5, <4>1
      <4> QED
        BY <1>1, <3>1, <4>2
    <3>2. CASE from # h
      <4>1. h - 1 \in run
        BY <2>5, <2>6, <3>2
      <4>2. h - 1 \in 0..(recorded - 1)
        BY <2>2, <2>8, <4>1
      <4> QED
        BY <1>1, <2>5, <2>6, <4>2
    <3> QED
      BY <3>1, <3>2
  <2>10. Stream!InTurn(q, last, h) /\ Stream!ToSet(q) \subseteq Stream!ToSet(queue) \cup run
    <3> DEFINE all == queue \o Stream!Ascending(run)
    <3>1. run \in SUBSET (0..recorded) /\ \A k \in run : expected <= k /\ k < h
      <4>1. run \in SUBSET (0..recorded)
        BY <2>2, <2>8
      <4>2. ASSUME NEW k \in run PROVE expected <= k /\ k < h
        <5>1. k \in from..(h - 1)
          BY <2>6, <4>2
        <5> QED
          BY <1>1, <2>5, <2>6, <5>1
      <4> HIDE DEF run
      <4> QED
        BY <4>1, <4>2
    <3>2. Stream!InTurn(all, last, h) /\ Stream!ToSet(all) \subseteq Stream!ToSet(queue) \cup run
      <4> HIDE DEF run
      <4>1. expected \in Int /\ h \in Int /\ expected <= h
        BY <1>1, <2>6, <2>9
      <4> QED
        BY <1>1, <3>1, <4>1, StreamAppendFacts
    <3> HIDE DEF all
    <3>3. CASE Len(all) <= MaxQueued
      BY <3>2, <3>3 DEF Stream!Limited, all
    <3>4. CASE ~(Len(all) <= MaxQueued)
      <4> DEFINE i == Len(all) - MaxQueued
      <4>1. q = SubSeq(all, i + 1, Len(all))
        BY <3>4 DEF Stream!Limited, all
      <4>2. Len(all) \in Nat /\ MaxQueued \in Nat
        BY <3>2, StreamAssumption DEF Stream!InTurn
      <4>3. i \in 0..Len(all)
        BY <3>4, <4>2
      <4> HIDE DEF i, q
      <4>4. last \in Int /\ h \in Int /\ Stream!InTurn(all, last, h)
        BY <1>1, <2>6, <3>2
      <4>5. /\ Stream!InTurn(SubSeq(all, i + 1, Len(all)), last, h)
            /\ Stream!ToSet(SubSeq(all, i + 1, Len(all))) \subseteq Stream!ToSet(all)
        BY <4>3, <4>4, StreamSuffixFacts
      <4> QED
        BY <3>2, <4>1, <4>5
    <3> QED
      BY <3>3, <3>4
  <2>11. \A k \in streamPending' : k > h
    <3> SUFFICES ASSUME NEW k \in ahead, k \notin run PROVE k > h
      BY <2>1
    <3>1. k \in Nat /\ k >= from /\ k # h
      BY <2>2, <2>5, <2>6
    <3>2. ~(k < h)
      BY <2>5, <2>6, <3>1
    <3> QED
      BY <2>6, <3>1, <3>2
  <2>12. Cardinality(streamPending') <= MaxPending
    <3>1. CASE Cardinality(ahead) > MaxPending
      <4> DEFINE rest == ahead \ {from}
      <4>1. from \in ahead /\ from \in run
        <5>1. from \in ahead
          BY <2>5, <3>1
        <5> QED
          BY <2>5, <2>6, <5>1
      <4>2. IsFiniteSet(rest) /\ Cardinality(rest) = Cardinality(ahead) - 1
        BY <2>3, <4>1, FS_RemoveElement
      <4>3. streamPending' \subseteq rest
        BY <2>1, <4>1
      <4> HIDE DEF rest, ahead, run
      <4>4. Cardinality(streamPending') <= Cardinality(rest) /\ Cardinality(streamPending') \in Nat
        BY <4>2, <4>3, FS_Subset, FS_CardinalityType
      <4> QED
        BY <1>1, <2>3, <2>4, <4>2, <4>4
    <3>2. CASE ~(Cardinality(ahead) > MaxPending)
      <4>1. streamPending' \subseteq ahead
        BY <2>1
      <4> HIDE DEF ahead, run
      <4>2. Cardinality(streamPending') <= Cardinality(ahead) /\ Cardinality(streamPending') \in Nat
        BY <2>3, <4>1, FS_Subset, FS_CardinalityType
      <4> QED
        BY <2>3, <2>4, <3>2, <4>2
    <3> QED
      BY <3>1, <3>2
  <2>13. ASSUME ~jumped', NEW k \in chunks' PROVE k >= h
    <3>1. ~jumped /\ from = expected
      BY <2>1, <2>5, <2>13
    <3>2. k \in chunks /\ k \notin ahead
      BY <1>1, <1>2, <2>13
    <3>3. k \in Nat /\ k >= from
      <4>1. k \in 0..(recorded - 1) /\ k >= expected
        BY <1>1, <3>1, <3>2
      <4> QED
        BY <3>1, <4>1
    <3>4. k \notin from..(h - 1)
      BY <2>6, <2>8, <3>2
    <3> QED
      BY <2>5, <2>6, <3>3, <3>4
  <2>14. streamPending' \cap chunks' = {} /\ streamPending' \subseteq 0..(recorded - 1) /\ chunks' \subseteq chunks
    BY <1>1, <1>2, <2>1, <2>2
  <2>15. jumped' \in BOOLEAN
    BY <2>1
  <2>17. streamPending' \cap played = {} /\ run \cap (chunks' \cup played) = {}
    <3>1. ahead \cap played = {} /\ ahead \cap chunks' = {}
      BY <1>1, <1>2 DEF Stream!PlayedApart
    <3> QED
      BY <2>1, <2>8, <3>1
  <2>18. Stream!ToSet(q) \cap (chunks' \cup played) = {}
    <3>1. Stream!ToSet(queue) \cap (chunks' \cup played) = {}
      BY <1>2 DEF Stream!PlayedApart
    <3> HIDE DEF q, run
    <3> QED
      BY <2>10, <2>17, <3>1
  <2> HIDE DEF q, run, ahead
  <2>16. /\ Stream!NothingReordered' /\ Stream!PlayedApart'
         /\ buffer' \in {"absent", "none", "idle", "updating"}
    BY <1>2, <2>1, <2>7, <2>9, <2>10, <2>11, <2>12, <2>13, <2>14, <2>17, <2>18, StreamPlayedInv
  <2> QED
    BY <2>15, <2>16
<1> QED
  BY <1>3, <1>4

\* The end comes.
LEMMA StreamEndInv ==
    ASSUME Stream!NothingReordered, Stream!PlayedApart,
           buffer \in {"absent", "none", "idle", "updating"}, jumped \in BOOLEAN,
           Stream!ReceiveEnd
    PROVE  /\ Stream!NothingReordered' /\ Stream!PlayedApart'
           /\ buffer' \in {"absent", "none", "idle", "updating"} /\ jumped' \in BOOLEAN
<1>1. /\ recorded \in Nat /\ expected \in 0..recorded /\ expected \in Nat
      /\ last \in Int /\ last < expected
      /\ streamPending \subseteq 0..(recorded - 1)
      /\ Stream!InTurn(queue, last, expected)
      /\ (\A k \in streamPending : k > expected) /\ Cardinality(streamPending) <= MaxPending
      /\ ~jumped => \A k \in chunks : k >= expected
  BY StreamCounts DEF Stream!NothingReordered
<1> DEFINE q == queue \o Stream!Ascending(streamPending)
           top == Stream!Last(Stream!Ascending(streamPending))
<1>2. /\ streamPending' = {} /\ UNCHANGED <<recorded, chunks, streamCall>>
      /\ expected' = IF streamPending = {} THEN expected ELSE top + 1
      /\ jumped' = (jumped \/ streamPending # {})
      /\ Stream!Flush(q, buffer = "idle")
  BY DEF Stream!ReceiveEnd, Stream!sender
<1>3. streamPending \in SUBSET (0..recorded) /\ \A k \in streamPending : k \in Nat /\ k \in 0..(recorded - 1)
  <2>1. \A k \in streamPending : k \in 0..(recorded - 1) /\ k \in 0..recorded /\ k \in Nat
    BY <1>1
  <2> QED
    BY <2>1
<1>4. streamPending # {} => top \in streamPending /\ \A k \in streamPending : k <= top
  BY <1>1, <1>3, StreamLastFacts
<1> HIDE DEF top
<1>5. /\ expected' \in expected..recorded /\ expected' \in Int /\ expected <= expected'
      /\ \A k \in streamPending : expected <= k /\ k < expected'
  <2>1. CASE streamPending = {}
    BY <1>1, <1>2, <2>1
  <2>2. CASE streamPending # {}
    <3>1. top \in Nat /\ top \in 0..(recorded - 1) /\ top > expected /\ expected' = top + 1
      BY <1>1, <1>2, <1>3, <1>4, <2>2
    <3> QED
      BY <1>1, <1>3, <1>4, <2>2, <3>1
  <2> QED
    BY <2>1, <2>2
<1>6. Stream!InTurn(q, last, expected') /\ Stream!ToSet(q) \subseteq Stream!ToSet(queue) \cup streamPending
  <2> DEFINE to == expected'
  <2>1. /\ last \in Int /\ expected \in Int /\ to \in Int /\ expected <= to
        /\ Stream!InTurn(queue, last, expected) /\ last < expected
        /\ recorded \in Nat /\ streamPending \in SUBSET (0..recorded)
        /\ \A k \in streamPending : expected <= k /\ k < to
    BY <1>1, <1>3, <1>5
  <2> HIDE DEF to
  <2>2. /\ Stream!InTurn(queue \o Stream!Ascending(streamPending), last, to)
        /\ Stream!ToSet(queue \o Stream!Ascending(streamPending)) \subseteq Stream!ToSet(queue) \cup streamPending
    BY <2>1, StreamAppendFacts
  <2> QED
    BY <2>2 DEF to
<1>7. Cardinality(streamPending') <= MaxPending
  BY <1>2, FS_EmptySet, StreamAssumption
<1>8. ~jumped' => \A n \in chunks' : n >= expected'
  BY <1>1, <1>2
<1> HIDE DEF q
<1>10. Stream!ToSet(q) \cap (chunks' \cup played) = {}
  <2>1. (Stream!ToSet(queue) \cup streamPending) \cap (chunks' \cup played) = {}
    BY <1>2 DEF Stream!PlayedApart, Stream!NothingReordered
  <2> QED
    BY <1>6, <2>1
<1>9. /\ Stream!NothingReordered' /\ Stream!PlayedApart'
      /\ buffer' \in {"absent", "none", "idle", "updating"}
  BY <1>2, <1>5, <1>6, <1>7, <1>8, <1>10, StreamPlayedInv
<1> QED
  BY <1>2, <1>9

\* What of the type invariant the other parts do not say.
StreamSmall ==
    /\ streamPhase \in {"setup", "connected", "closing", "over"}
    /\ streamCall \in {"live", "ended", "gone"}
    /\ track \in {"none", "enabled", "disabled"}
    /\ recorded \in 0..MaxChunks
    /\ buffer \in {"absent", "none", "idle", "updating"}
    /\ muted \in BOOLEAN /\ streamCrossed \in BOOLEAN /\ early \in BOOLEAN /\ jumped \in BOOLEAN

LEMMA StreamParts ==
    Stream!IInv <=> StreamSmall /\ Stream!LatestArrives /\ Stream!TrackFollows
                    /\ Stream!NothingReordered /\ Stream!PlayedApart
<1>1. ASSUME StreamSmall, Stream!LatestArrives, Stream!NothingReordered, Stream!PlayedApart
      PROVE  Stream!TypeOK
  <2>1. chunks \cup streamPending \cup Stream!ToSet(queue) \cup played \subseteq 0..(recorded - 1)
    <3>1. /\ recorded \in Nat /\ expected \in 0..recorded /\ Stream!InTurn(queue, last, expected)
          /\ chunks \cup streamPending \subseteq 0..(recorded - 1)
      BY <1>1 DEF Stream!NothingReordered
    <3>2. \A i \in DOMAIN queue : queue[i] \in Nat /\ queue[i] < expected
      BY <3>1 DEF Stream!InTurn
    <3>3. \A i \in DOMAIN queue : queue[i] \in 0..(recorded - 1)
      BY <3>1, <3>2
    <3> QED
      BY <1>1, <3>1, <3>3 DEF Stream!ToSet, Stream!PlayedApart
  <2>2. \A s \in streamSignals \cup {streamHeard} : s.press <= presses
    BY <1>1 DEF Stream!LatestArrives
  <2> QED
    BY <1>1, <2>1, <2>2 DEF StreamSmall, Stream!TypeOK
<1>2. Stream!TypeOK => StreamSmall
  BY DEF StreamSmall, Stream!TypeOK
<1> QED
  BY <1>1, <1>2 DEF Stream!IInv

LEMMA StreamPartsNext ==
    Stream!IInv' <=> StreamSmall' /\ Stream!LatestArrives' /\ Stream!TrackFollows'
                     /\ Stream!NothingReordered' /\ Stream!PlayedApart'
BY StreamParts, PTL

\* What does not touch the mute signals keeps what is known of them.
LEMMA StreamSignalsKept ==
    ASSUME Stream!LatestArrives, UNCHANGED <<presses, muted, streamSignals, streamHeard, streamCrossed>>
    PROVE  Stream!LatestArrives'
BY DEF Stream!LatestArrives, Stream!Latest

\* What leaves the receiver alone and makes no chunk keeps what is known of those
\* that were played.
LEMMA StreamPlayedKept ==
    ASSUME Stream!PlayedApart, UNCHANGED <<recorded, streamPending, queue, last, streamCall, played>>,
           chunks' \subseteq chunks
    PROVE  Stream!PlayedApart'
BY DEF Stream!PlayedApart, Stream!ToSet

LEMMA StreamToggleInv ==
    ASSUME Stream!IInv, Stream!ToggleMute
    PROVE  Stream!IInv'
<1>1. /\ StreamSmall /\ Stream!LatestArrives /\ Stream!TrackFollows /\ Stream!NothingReordered
      /\ Stream!PlayedApart
  BY StreamParts
<1> DEFINE new == [press |-> presses', muted |-> muted']
<1>2. /\ muted' = ~muted /\ presses' = presses + 1 /\ streamSignals' = streamSignals \cup {new}
      /\ track' = IF track = "none" THEN "none" ELSE IF muted' THEN "disabled" ELSE "enabled"
      /\ early' = (early \/ track = "none")
      /\ UNCHANGED <<streamPhase, recorded, chunks, end, streamCrossed, streamHeard,
                     streamPending, expected, queue, last, buffer, jumped, streamCall, played>>
  BY DEF Stream!ToggleMute, Stream!receiver, Stream!pipeline
<1>3. presses \in Nat /\ presses' \in Nat /\ muted' \in BOOLEAN /\ new = Stream!Latest'
  BY <1>1, <1>2 DEF Stream!LatestArrives, StreamSmall, Stream!Latest
<1>4. /\ new \in [press : 0..presses', muted : BOOLEAN] /\ new.press = presses'
      /\ \A s \in streamSignals \cup {streamHeard} :
            s \in [press : 0..presses', muted : BOOLEAN] /\ s.press # presses'
  <2>1. \A k \in 0..presses : k \in 0..presses' /\ k # presses'
    BY <1>2, <1>3
  <2>2. \A s \in streamSignals \cup {streamHeard} : s \in [press : 0..presses, muted : BOOLEAN]
    BY <1>1 DEF Stream!LatestArrives
  <2>3. presses' \in 0..presses'
    BY <1>3
  <2> QED
    BY <1>3, <2>1, <2>2, <2>3
<1> HIDE DEF new
<1>5. Stream!LatestArrives'
  BY <1>2, <1>3, <1>4 DEF Stream!LatestArrives
<1>6. StreamSmall'
  BY <1>1, <1>2 DEF StreamSmall
<1>7. Stream!TrackFollows'
  BY <1>1, <1>2 DEF Stream!TrackFollows, StreamSmall
<1>8. Stream!NothingReordered'
  BY <1>1, <1>2 DEF Stream!NothingReordered, Stream!InTurn
<1>9. Stream!PlayedApart'
  BY <1>1, <1>2, StreamPlayedKept
<1> QED
  BY <1>5, <1>6, <1>7, <1>8, <1>9, StreamPartsNext

LEMMA StreamHearInv ==
    ASSUME Stream!IInv, NEW s \in streamSignals, Stream!ReceiveMute(s) \/ Stream!LoseSignal(s)
    PROVE  Stream!IInv'
<1>1. /\ StreamSmall /\ Stream!LatestArrives /\ Stream!TrackFollows /\ Stream!NothingReordered
      /\ Stream!PlayedApart
  BY StreamParts
<1>2. /\ streamSignals' = streamSignals \ {s}
      /\ UNCHANGED <<streamPhase, track, muted, recorded, presses, early, chunks, end,
                     streamPending, expected, queue, last, buffer, jumped, streamCall, played>>
      /\ \/ streamHeard' = s /\ streamCrossed' = (streamCrossed \/ s.press < streamHeard.press)
         \/ streamHeard' = streamHeard /\ streamCrossed' = TRUE
  BY DEF Stream!ReceiveMute, Stream!LoseSignal, Stream!sender, Stream!receiver, Stream!pipeline
<1>3. Stream!Latest' = Stream!Latest
  BY <1>2 DEF Stream!Latest
<1>4. /\ presses' \in Nat
      /\ streamSignals' \cup {streamHeard'} \subseteq [press : 0..presses', muted : BOOLEAN]
      /\ \A t \in streamSignals' \cup {streamHeard'} : t.press = presses' => t = Stream!Latest'
  BY <1>1, <1>2, <1>3 DEF Stream!LatestArrives
<1>5. ASSUME ~streamCrossed' PROVE Stream!Latest' \in streamSignals' \/ streamHeard' = Stream!Latest'
  <2>1. ~streamCrossed /\ streamHeard' = s /\ ~(s.press < streamHeard.press)
    BY <1>2, <1>5
  <2>2. CASE streamHeard = Stream!Latest
    <3>1. s.press \in 0..presses /\ presses \in Nat /\ streamHeard.press = presses
      BY <1>1, <2>2 DEF Stream!LatestArrives, Stream!Latest
    <3>2. s.press = presses
      BY <2>1, <3>1
    <3> QED
      BY <1>1, <1>3, <2>1, <3>2 DEF Stream!LatestArrives
  <2>3. CASE Stream!Latest \in streamSignals
    BY <1>2, <1>3, <2>1, <2>3
  <2> QED
    BY <1>1, <2>1, <2>2, <2>3 DEF Stream!LatestArrives
<1>6. Stream!LatestArrives'
  BY <1>4, <1>5 DEF Stream!LatestArrives
<1>7. StreamSmall'
  BY <1>1, <1>2 DEF StreamSmall
<1>8. Stream!TrackFollows' /\ Stream!NothingReordered'
  BY <1>1, <1>2 DEF Stream!TrackFollows, Stream!NothingReordered, Stream!InTurn
<1>9. Stream!PlayedApart'
  BY <1>1, <1>2, StreamPlayedKept
<1> QED
  BY <1>6, <1>7, <1>8, <1>9, StreamPartsNext

\* The steps of the sender and of the streams that move no chunk to the receiver.
LEMMA StreamSenderInv ==
    ASSUME Stream!IInv,
           \/ Stream!Granted \/ Stream!Connected \/ Stream!Record \/ Stream!LoseEnd
           \/ \E marked \in BOOLEAN : Stream!End(marked)
           \/ \E n \in chunks : Stream!LoseChunk(n)
    PROVE  Stream!IInv'
<1> USE DEF Stream!sender, Stream!network, Stream!receiver, Stream!pipeline
<1>1. /\ StreamSmall /\ Stream!LatestArrives /\ Stream!TrackFollows /\ Stream!NothingReordered
      /\ Stream!PlayedApart
  BY StreamParts
<1>2. /\ UNCHANGED <<muted, early, presses, streamSignals, streamHeard, streamCrossed,
                     streamPending, expected, queue, last, buffer, jumped, streamCall, played>>
      /\ \/ UNCHANGED recorded /\ chunks' \subseteq chunks
         \/ recorded < MaxChunks /\ recorded' = recorded + 1 /\ chunks' = chunks \cup {recorded}
  BY DEF Stream!Granted, Stream!Connected, Stream!Record, Stream!End, Stream!LoseEnd, Stream!LoseChunk
<1>3. Stream!LatestArrives'
  BY <1>1, <1>2, StreamSignalsKept
<1>4. StreamSmall' /\ Stream!TrackFollows'
  <2>1. /\ streamPhase' \in {"setup", "connected", "closing", "over"} /\ track' \in {"none", "enabled", "disabled"}
        /\ Stream!TrackFollows'
    BY <1>1, <1>2 DEF StreamSmall, Stream!TrackFollows, Stream!Granted, Stream!Connected, Stream!Record,
       Stream!End, Stream!LoseEnd, Stream!LoseChunk
  <2>2. recorded' \in 0..MaxChunks
    BY <1>1, <1>2, StreamAssumption DEF StreamSmall
  <2> QED
    BY <1>1, <1>2, <2>1, <2>2 DEF StreamSmall
<1>5. Stream!NothingReordered'
  <2>1. CASE UNCHANGED recorded /\ chunks' \subseteq chunks
    BY <1>1, <1>2, <2>1 DEF Stream!NothingReordered, Stream!InTurn
  <2>2. CASE recorded' = recorded + 1 /\ chunks' = chunks \cup {recorded}
    <3>1. /\ recorded \in Nat /\ expected \in 0..recorded
          /\ chunks \subseteq 0..(recorded - 1) /\ streamPending \subseteq 0..(recorded - 1)
          /\ chunks \cap streamPending = {}
      BY <1>1 DEF Stream!NothingReordered
    <3>2. /\ recorded' \in Nat /\ expected \in 0..recorded' /\ recorded \in 0..(recorded' - 1)
          /\ recorded \notin 0..(recorded - 1) /\ recorded >= expected
          /\ \A k \in 0..(recorded - 1) : k \in 0..(recorded' - 1)
      BY <2>2, <3>1
    <3>3. chunks' \cup streamPending' \subseteq 0..(recorded' - 1) /\ chunks' \cap streamPending' = {}
      BY <1>2, <2>2, <3>1, <3>2
    <3> QED
      BY <1>1, <1>2, <2>2, <3>2, <3>3 DEF Stream!NothingReordered, Stream!InTurn
  <2> QED
    BY <1>2, <2>1, <2>2
<1>6. Stream!PlayedApart'
  <2>1. CASE UNCHANGED recorded /\ chunks' \subseteq chunks
    BY <1>1, <1>2, <2>1, StreamPlayedKept
  <2>2. CASE recorded' = recorded + 1 /\ chunks' = chunks \cup {recorded}
    <3>1. recorded \in Nat /\ expected \in 0..recorded /\ Stream!InTurn(queue, last, expected)
      BY <1>1 DEF Stream!NothingReordered
    <3>2. /\ recorded \notin 0..(recorded - 1)
          /\ \A k \in 0..(recorded - 1) : k \in 0..(recorded' - 1)
      BY <2>2, <3>1
    <3>3. recorded \notin Stream!ToSet(queue)
      <4>1. \A i \in DOMAIN queue : queue[i] \in Nat /\ queue[i] < expected
        BY <3>1 DEF Stream!InTurn
      <4>2. \A i \in DOMAIN queue : queue[i] # recorded
        BY <3>1, <4>1
      <4> QED
        BY <4>2 DEF Stream!ToSet
    <3>4. Stream!ToSet(queue)' = Stream!ToSet(queue)
      BY <1>2 DEF Stream!ToSet
    <3> QED
      BY <1>1, <1>2, <2>2, <3>2, <3>3, <3>4 DEF Stream!PlayedApart
  <2> QED
    BY <1>2, <2>1, <2>2
<1> QED
  BY <1>3, <1>4, <1>5, <1>6, StreamPartsNext

\* The pipeline is discarded, or the call is gone.
LEMMA StreamDiscardInv ==
    ASSUME Stream!IInv, Stream!Discard \/ Stream!Forget
    PROVE  Stream!IInv'
<1> USE DEF Stream!sender, Stream!network, Stream!receiver, Stream!pipeline
<1>1. /\ StreamSmall /\ Stream!LatestArrives /\ Stream!TrackFollows /\ Stream!NothingReordered
      /\ Stream!PlayedApart
  BY StreamParts
<1>2. /\ UNCHANGED <<streamPhase, track, muted, recorded, presses, early, chunks, streamSignals,
                     streamCrossed, streamHeard, played>>
      /\ streamCall' \in {"ended", "gone"}
      /\ \/ UNCHANGED <<streamPending, expected, queue, last, buffer, jumped>>
         \/ /\ streamPending' = {} /\ expected' = 0 /\ queue' = <<>> /\ last' = -1
            /\ buffer' = "absent" /\ jumped' = FALSE
  BY DEF Stream!Discard, Stream!Forget
<1>3. Stream!LatestArrives'
  BY <1>1, <1>2, StreamSignalsKept
<1>4. StreamSmall' /\ Stream!TrackFollows'
  BY <1>1, <1>2 DEF StreamSmall, Stream!TrackFollows
<1>5. Stream!NothingReordered'
  <2>1. CASE UNCHANGED <<streamPending, expected, queue, last, buffer, jumped>>
    BY <1>1, <1>2, <2>1 DEF Stream!NothingReordered, Stream!InTurn
  <2>2. CASE /\ streamPending' = {} /\ expected' = 0 /\ queue' = <<>> /\ last' = -1
             /\ buffer' = "absent" /\ jumped' = FALSE
    <3>1. Stream!Cardinality(streamPending') = 0
      BY <2>2, StreamCounts, FS_EmptySet
    <3>2. recorded \in Nat /\ chunks \subseteq 0..(recorded - 1)
      BY <1>1 DEF Stream!NothingReordered
    <3>3. \A n \in chunks : n >= 0
      BY <3>2
    <3> QED
      BY <1>2, <2>2, <3>1, <3>2, <3>3, StreamAssumption DEF Stream!NothingReordered, Stream!InTurn
  <2> QED
    BY <1>2, <2>1, <2>2
<1>6. Stream!PlayedApart'
  BY <1>1, <1>2 DEF Stream!PlayedApart, Stream!ToSet
<1> QED
  BY <1>3, <1>4, <1>5, <1>6, StreamPartsNext

LEMMA StreamPlayInv ==
    ASSUME Stream!IInv,
           \/ Stream!BufferReady \/ Stream!ReceiveEnd
           \/ \E n \in chunks : Stream!ReceiveChunk(n)
    PROVE  Stream!IInv'
<1>1. /\ StreamSmall /\ Stream!LatestArrives /\ Stream!TrackFollows /\ Stream!NothingReordered
      /\ Stream!PlayedApart
  BY StreamParts
<1>2. UNCHANGED <<streamPhase, track, muted, recorded, presses, early, streamSignals, streamCrossed, streamHeard>>
  BY DEF Stream!BufferReady, Stream!ReceiveEnd, Stream!ReceiveChunk, Stream!sender, Stream!network
<1>3. buffer \in {"absent", "none", "idle", "updating"} /\ jumped \in BOOLEAN
  BY <1>1 DEF StreamSmall
<1>4. /\ Stream!NothingReordered' /\ Stream!PlayedApart'
      /\ buffer' \in {"absent", "none", "idle", "updating"} /\ jumped' \in BOOLEAN
      /\ streamCall' \in {"live", "ended", "gone"}
  <2>1. CASE Stream!BufferReady
    <3>1. UNCHANGED <<chunks, recorded, streamPending, expected, jumped, streamCall>> /\ Stream!Flush(queue, TRUE)
      BY <2>1 DEF Stream!BufferReady, Stream!network, Stream!sender
    <3>2. /\ recorded \in Nat /\ expected \in 0..recorded
          /\ streamPending \subseteq 0..(recorded - 1) /\ chunks \cap streamPending = {}
          /\ Stream!InTurn(queue, last, expected)
          /\ (\A n \in streamPending : n > expected) /\ Cardinality(streamPending) <= MaxPending
          /\ ~jumped => \A n \in chunks : n >= expected
      BY <1>1, StreamCounts DEF Stream!NothingReordered
    <3>3. expected' \in expected..recorded
      BY <3>1, <3>2
    <3>4. /\ expected' = expected /\ recorded' = recorded /\ chunks' = chunks
          /\ streamPending' = streamPending /\ jumped' = jumped
      BY <3>1
    <3>5. Stream!InTurn(queue, last, expected')
      BY <3>2, <3>4
    <3>6. /\ chunks' \subseteq chunks /\ streamPending' \cap chunks' = {}
          /\ streamPending' \subseteq 0..(recorded - 1)
          /\ (\A n \in streamPending' : n > expected') /\ Cardinality(streamPending') <= MaxPending
          /\ ~jumped' => \A n \in chunks' : n >= expected'
      BY <3>2, <3>4
    <3>8. Stream!ToSet(queue) \cap (chunks' \cup played) = {} /\ streamPending' \cap played = {}
      BY <1>1, <3>4 DEF Stream!PlayedApart
    <3>7. /\ Stream!NothingReordered' /\ Stream!PlayedApart'
          /\ buffer' \in {"absent", "none", "idle", "updating"}
      BY <1>1, <1>3, <3>1, <3>3, <3>4, <3>5, <3>6, <3>8, StreamPlayedInv
    <3> QED
      BY <1>1, <1>3, <3>1, <3>4, <3>7 DEF StreamSmall
  <2>2. ASSUME Stream!ReceiveEnd \/ \E n \in chunks : Stream!ReceiveChunk(n)
        PROVE  streamCall' = streamCall
    BY <2>2 DEF Stream!ReceiveEnd, Stream!ReceiveChunk, Stream!receiver
  <2>3. CASE Stream!ReceiveEnd
    BY <1>1, <1>3, <2>2, <2>3, StreamEndInv DEF StreamSmall
  <2>4. ASSUME NEW n \in chunks, Stream!ReceiveChunk(n)
        PROVE  /\ Stream!NothingReordered' /\ Stream!PlayedApart'
               /\ buffer' \in {"absent", "none", "idle", "updating"} /\ jumped' \in BOOLEAN
    BY <1>1, <1>3, <2>4, StreamChunkInv
  <2> QED
    BY <1>1, <2>1, <2>2, <2>3, <2>4 DEF StreamSmall
<1>5. Stream!LatestArrives'
  BY <1>1, <1>2, StreamSignalsKept
<1>6. StreamSmall' /\ Stream!TrackFollows'
  BY <1>1, <1>2, <1>4 DEF StreamSmall, Stream!TrackFollows
<1> QED
  BY <1>4, <1>5, <1>6, StreamPartsNext

LEMMA StreamNextInv == Stream!IInv /\ [Stream!Next]_(Stream!vars) => Stream!IInv'
<1> SUFFICES ASSUME Stream!IInv, [Stream!Next]_(Stream!vars) PROVE Stream!IInv'
  OBVIOUS
<1>1. CASE UNCHANGED Stream!vars
  <2>1. /\ StreamSmall /\ Stream!LatestArrives /\ Stream!TrackFollows /\ Stream!NothingReordered
        /\ Stream!PlayedApart
    BY StreamParts
  <2>2. UNCHANGED streamVars
    BY <1>1 DEF streamVars, Stream!vars, Stream!sender, Stream!network, Stream!receiver, Stream!pipeline
  <2>3. StreamSmall' /\ Stream!TrackFollows' /\ Stream!NothingReordered'
    BY <2>1, <2>2 DEF streamVars, StreamSmall, Stream!TrackFollows, Stream!NothingReordered, Stream!InTurn
  <2>4. Stream!LatestArrives'
    BY <2>1, <2>2, StreamSignalsKept DEF streamVars
  <2>5. Stream!PlayedApart'
    BY <2>1, <2>2, StreamPlayedKept DEF streamVars
  <2> QED
    BY <2>3, <2>4, <2>5, StreamPartsNext
<1>2. CASE Stream!Next
  BY <1>2, StreamSenderInv, StreamToggleInv, StreamHearInv, StreamPlayInv, StreamDiscardInv DEF Stream!Next
<1> QED
  BY <1>1, <1>2

LEMMA StreamInitInv == Stream!Init => Stream!IInv
<1> SUFFICES ASSUME Stream!Init PROVE Stream!IInv
  OBVIOUS
<1>1. StreamSmall /\ Stream!TrackFollows
  <2>1. recorded \in 0..MaxChunks
    BY StreamAssumption DEF Stream!Init
  <2> QED
    BY <2>1 DEF Stream!Init, StreamSmall, Stream!TrackFollows
<1>2. Stream!LatestArrives
  <2>1. presses \in Nat /\ 0 \in 0..presses /\ FALSE \in BOOLEAN
    BY DEF Stream!Init
  <2>2. streamHeard \in [press : 0..presses, muted : BOOLEAN]
    BY <2>1 DEF Stream!Init
  <2>3. streamSignals = {} /\ streamHeard = Stream!Latest
    BY DEF Stream!Init, Stream!Latest
  <2> QED
    BY <2>1, <2>2, <2>3 DEF Stream!LatestArrives
<1>3. Cardinality(streamPending) = 0
  BY FS_EmptySet DEF Stream!Init
<1>4. Stream!NothingReordered
  BY <1>3, StreamCounts, StreamAssumption DEF Stream!Init, Stream!NothingReordered, Stream!InTurn
<1>5. Stream!PlayedApart
  BY DEF Stream!Init, Stream!PlayedApart, Stream!ToSet
<1> QED
  BY <1>1, <1>2, <1>4, <1>5, StreamParts

LEMMA StreamConsequences == Stream!IInv => Stream!PlayedInOrder /\ Stream!MuteIsTrue
<1> SUFFICES ASSUME Stream!IInv PROVE Stream!PlayedInOrder /\ Stream!MuteIsTrue
  OBVIOUS
<1>1. Stream!PlayedInOrder
  BY DEF Stream!IInv, Stream!NothingReordered, Stream!InTurn, Stream!PlayedApart, Stream!PlayedInOrder
<1>2. Stream!MuteIsTrue
  BY DEF Stream!IInv, Stream!LatestArrives, Stream!Latest, Stream!TrackFollows, Stream!MuteIsTrue
<1> QED
  BY <1>1, <1>2

-----------------------------------------------------------------------------
\* The components side by side.

\* A behaviour is of one component, and takes steps of that one.
LEMMA StateSteps == [ComponentsNext]_allVars => [Next]_vars
BY DEF ComponentsNext, allVars, vars

LEMMA PoolSteps == [ComponentsNext]_allVars /\ part = "Pool" => part' = part
      /\ [Pool!Next]_(Pool!vars)
BY DEF ComponentsNext, allVars, poolVars, Pool!vars

LEMMA StreamSteps == [ComponentsNext]_allVars /\ part = "Stream" => part' = part
      /\ [Stream!Next]_(Stream!vars)
<1>1. ComponentsNext /\ part = "Stream" => part' = part /\ Stream!Next
  BY DEF ComponentsNext
<1>2. UNCHANGED allVars => part' = part /\ UNCHANGED streamVars
  BY DEF allVars
<1>3. UNCHANGED streamVars => UNCHANGED Stream!vars
  BY DEF streamVars, Stream!vars, Stream!sender, Stream!network, Stream!receiver, Stream!pipeline
<1> QED
  BY <1>1, <1>2, <1>3

LEMMA ChatsSteps == [ComponentsNext]_allVars /\ part = "Chats" => part' = part
      /\ [Chats!Next]_(Chats!vars)
BY DEF ComponentsNext, allVars, chatsVars, Chats!vars

LEMMA BookSteps == [ComponentsNext]_allVars /\ part = "Book" => part' = part /\ [Book!Next]_(Book!vars)
BY DEF ComponentsNext, allVars, bookVars, Book!vars

LEMMA TopicsSteps == [ComponentsNext]_allVars /\ part = "Topics" => part' = part
      /\ [Topics!Next]_(Topics!vars)
BY DEF ComponentsNext, allVars, topicsVars, Topics!vars

LEMMA DialingSteps == [ComponentsNext]_allVars /\ part = "Dialing" => part' = part
      /\ [Dialing!Next]_(Dialing!vars)
BY DEF ComponentsNext, allVars, dialingVars, Dialing!vars, Dialing!requests

LEMMA EarconsSteps == [ComponentsNext]_allVars /\ part = "Earcons" => part' = part
      /\ [Earcons!Next]_(Earcons!vars)
BY DEF ComponentsNext, allVars, earconsVars, Earcons!vars

LEMMA CameraSteps == [ComponentsNext]_allVars /\ part = "Camera" => part' = part
      /\ [Camera!Next]_(Camera!vars)
BY DEF ComponentsNext, allVars, cameraVars, Camera!vars

LEMMA WizardSteps == [ComponentsNext]_allVars /\ part = "Wizard" => part' = part
      /\ [Wizard!Next]_(Wizard!vars)
BY DEF ComponentsNext, allVars, wizardVars, Wizard!vars

LEMMA HandlesSteps == [ComponentsNext]_allVars /\ part = "Handles" => part' = part
      /\ [Handles!Next]_(Handles!vars)
<1>1. ComponentsNext /\ part = "Handles" => part' = part /\ Handles!Next
  BY DEF ComponentsNext
<1>2. UNCHANGED allVars => part' = part /\ UNCHANGED handlesVars
  BY DEF allVars
<1>3. UNCHANGED handlesVars => UNCHANGED Handles!vars
  BY DEF handlesVars, Handles!vars, Handles!lookups, Handles!page
<1> QED
  BY <1>1, <1>2, <1>3

LEMMA WorkerSteps == [ComponentsNext]_allVars /\ part = "Worker" => part' = part
      /\ [Worker!Next]_(Worker!vars)
<1>1. ComponentsNext /\ part = "Worker" => part' = part /\ Worker!Next
  BY DEF ComponentsNext
<1>2. UNCHANGED allVars => part' = part /\ UNCHANGED workerVars
  BY DEF allVars
<1>3. UNCHANGED workerVars => UNCHANGED Worker!vars
  BY DEF workerVars, Worker!vars, Worker!relay
<1> QED
  BY <1>1, <1>2, <1>3

LEMMA RelaySteps == [ComponentsNext]_allVars /\ part = "Relay" => part' = part
      /\ [Relay!Next]_(Relay!vars)
BY DEF ComponentsNext, allVars, relayVars, Relay!vars

LEMMA ClientSteps == [ComponentsNext]_allVars /\ part = "Client" => part' = part
      /\ [Client!Next]_(Client!vars)
BY DEF ComponentsNext, allVars, clientVars, Client!vars

\* The inductive invariant: that of the component the behaviour is of.
ComponentsInv ==
    /\ part \in Parts
    /\ StateInv
    /\ part = "Pool" => Pool!IInv
    /\ part = "Stream" => Stream!IInv
    /\ part = "Chats" => Chats!IInv
    /\ part = "Book" => Book!IInv
    /\ part = "Topics" => Topics!IInv
    /\ part = "Dialing" => Dialing!IInv
    /\ part = "Earcons" => Earcons!IInv
    /\ part = "Camera" => Camera!IInv
    /\ part = "Wizard" => Wizard!IInv
    /\ part = "Handles" => Handles!IInv
    /\ part = "Worker" => Worker!IInv
    /\ part = "Relay" => Relay!IInv
    /\ part = "Client" => Client!IInv

LEMMA ComponentsInitInv == ComponentsInit => ComponentsInv
BY StateInitInv, PoolInitInv, StreamInitInv, ChatsInitInv, BookInitInv, TopicsInitInv, DialingInitInv, EarconsInitInv, CameraInitInv,
   WizardInitInv, HandlesInitInv, WorkerInitInv, RelayInitInv, ClientInitInv
   DEF ComponentsInit, ComponentsInv

LEMMA ComponentsNextInv == ComponentsInv /\ [ComponentsNext]_allVars => ComponentsInv'
<1> SUFFICES ASSUME ComponentsInv, [ComponentsNext]_allVars PROVE ComponentsInv'
  OBVIOUS
<1>1. part' = part
  BY DEF ComponentsNext, allVars
<1>2. part = "Chats" => Chats!IInv'
  BY ChatsSteps, ChatsNextInv DEF ComponentsInv
<1>3. part = "Book" => Book!IInv'
  BY BookSteps, BookNextInv DEF ComponentsInv
<1>4. part = "Topics" => Topics!IInv'
  BY TopicsSteps, TopicsNextInv DEF ComponentsInv
<1>5. part = "Dialing" => Dialing!IInv'
  BY DialingSteps, DialingNextInv DEF ComponentsInv
<1>6. part = "Earcons" => Earcons!IInv'
  BY EarconsSteps, EarconsNextInv DEF ComponentsInv
<1>7. part = "Camera" => Camera!IInv'
  BY CameraSteps, CameraNextInv DEF ComponentsInv
<1>8. part = "Wizard" => Wizard!IInv'
  BY WizardSteps, WizardNextInv DEF ComponentsInv
<1>9. part = "Handles" => Handles!IInv'
  BY HandlesSteps, HandlesNextInv DEF ComponentsInv
<1>10. part = "Worker" => Worker!IInv'
  BY WorkerSteps, WorkerNextInv DEF ComponentsInv
<1>11. part = "Relay" => Relay!IInv'
  BY RelaySteps, RelayNextInv DEF ComponentsInv
<1>12. part = "Client" => Client!IInv'
  BY ClientSteps, ClientNextInv DEF ComponentsInv
<1>13. part = "Pool" => Pool!IInv'
  BY PoolSteps, PoolNextInv DEF ComponentsInv
<1>14. part = "Stream" => Stream!IInv'
  BY StreamSteps, StreamNextInv DEF ComponentsInv
<1>15. StateInv'
  BY StateSteps, StateNextInv DEF ComponentsInv
<1> QED
  BY <1>1, <1>2, <1>3, <1>4, <1>5, <1>6, <1>7, <1>8, <1>9, <1>10, <1>11, <1>12, <1>13, <1>14, <1>15
     DEF ComponentsInv

\* Every component keeps its inductive invariant.
THEOREM ComponentsInvariant == ComponentsSpec => []ComponentsInv
BY ComponentsInitInv, ComponentsNextInv, PTL DEF ComponentsSpec

\* The state of the component the behaviour is of is well formed: no counter,
\* queue or list of any component leaves its bounds (Components, TypesOK).
THEOREM TypesOKHolds == ComponentsSpec => []TypesOK
<1>1. ComponentsInv => TypesOK
  <2> SUFFICES ASSUME ComponentsInv PROVE TypesOK
    OBVIOUS
  <2>1. /\ part \in Parts
        /\ part = "chat" => TypeOK
        /\ part = "Pool" => Pool!TypeOK
        /\ part = "Dialing" => Dialing!TypeOK
        /\ part = "Topics" => Topics!TypeOK
        /\ part = "Stream" => Stream!TypeOK
        /\ part = "Earcons" => Earcons!TypeOK
        /\ part = "Camera" => Camera!TypeOK
        /\ part = "Chats" => Chats!TypeOK
        /\ part = "Book" => Book!TypeOK
        /\ part = "Wizard" => Wizard!TypeOK
        /\ part = "Handles" => Handles!TypeOK
        /\ part = "Worker" => Worker!TypeOK
        /\ part = "Relay" => Relay!TypeOK
        /\ part = "Client" => Client!TypeOK
    BY DEF ComponentsInv, StateInv, Pool!IInv, Dialing!IInv, Topics!IInv, Stream!IInv, Earcons!IInv,
       Camera!IInv, Chats!IInv, Book!IInv, Wizard!IInv, Handles!IInv, Worker!IInv, Relay!IInv, Client!IInv
  <2> QED
    BY <2>1 DEF TypesOK
<1> QED
  BY <1>1, ComponentsInvariant, PTL

\* Who the interface shows as connected has a connection, and nobody else has
\* (session.ts, the handlers of peer:connect and peer:disconnect).
THEOREM ShownIsConnectedHolds == ComponentsSpec => []ShownIsConnected
<1>1. ComponentsInv => ShownIsConnected
  BY DEF ComponentsInv, ShownIsConnected, Pool!IInv
<1> QED
  BY <1>1, ComponentsInvariant, PTL

\* Trims that overlap do not go below the limit together, as long as nothing
\* else closes connections, for any number of connections and trims and any
\* limit (session.ts, trimExcessConnections).
THEOREM TrimKeepsLimitHolds == ComponentsSpec => TrimKeepsLimit
<1>1. ComponentsInv /\ [ComponentsNext]_allVars => [part = "Pool" => Pool!TrimStep]_allVars
  BY PoolTrimSteps DEF ComponentsInv
<1> QED
  BY <1>1, ComponentsInvariant, PTL DEF ComponentsSpec, TrimKeepsLimit

\* No audio is played twice, and until the call is torn down, and by each pipeline
\* after that, it is played in the order it was recorded in, for any number of
\* chunks, pending and queued ones (useAudioCall.ts, the playback queue).
THEOREM PlayedInOrderHolds == ComponentsSpec => []PlayedInOrder
<1>1. ComponentsInv => PlayedInOrder
  BY StreamConsequences DEF ComponentsInv, PlayedInOrder
<1> QED
  BY <1>1, ComponentsInvariant, PTL

\* Who is shown as muted is not heard, unless muted before the microphone was
\* granted, and the other side shows it once the signals arrived in order
\* (useAudioCall.ts, toggleMute).
THEOREM MuteIsTrueHolds == ComponentsSpec => []MuteIsTrue
<1>1. ComponentsInv => MuteIsTrue
  BY StreamConsequences DEF ComponentsInv, MuteIsTrue
<1> QED
  BY <1>1, ComponentsInvariant, PTL

\* There is one direct chat with each peer, also in the states a message brings
\* back, for any number of peers, groups, creations and decryptions
\* (useChatController.ts, findOrCreateConversation).
THEOREM OneDirectHolds == ComponentsSpec => []OneDirect
<1>1. ComponentsInv => OneDirect
  BY DEF ComponentsInv, OneDirect, Chats!IInv
<1> QED
  BY <1>1, ComponentsInvariant, PTL

\* The chat that is open has nothing unread (useChatController.ts, App.tsx).
THEOREM OpenChatIsReadHolds == ComponentsSpec => []OpenChatIsRead
<1>1. ComponentsInv => OpenChatIsRead
  BY DEF ComponentsInv, OpenChatIsRead, Chats!IInv
<1> QED
  BY <1>1, ComponentsInvariant, PTL

\* A link to a peer ends at a chat or a creation under way, or its chat was
\* deleted or overtaken meanwhile (App.tsx, pendingPeerCreateRef).
THEOREM LinkOpensChatHolds == ComponentsSpec => []LinkOpensChat
<1>1. ComponentsInv => LinkOpensChat
  BY ChatsLinkFacts DEF ComponentsInv, LinkOpensChat
<1> QED
  BY <1>1, ComponentsInvariant, PTL

\* A name is shown as confirmed only if the peer's own profile named it, until
\* the contact gets another name or peer id (useChatController.ts).
THEOREM LabelIsEchoedHolds == ComponentsSpec => []LabelIsEchoed
<1>1. ComponentsInv => LabelIsEchoed
  BY DEF ComponentsInv, LabelIsEchoed, Book!IInv
<1> QED
  BY <1>1, ComponentsInvariant, PTL

\* The node hears the open group, but for the named exceptions (session.ts).
THEOREM OpenGroupIsHeardHolds == ComponentsSpec => []OpenGroupIsHeard
<1>1. ComponentsInv => OpenGroupIsHeard
  BY DEF ComponentsInv, OpenGroupIsHeard, Topics!IInv
<1> QED
  BY <1>1, ComponentsInvariant, PTL

\* Upgrades overlap only if a record was removed meanwhile, and beyond what the
\* app asked for a profile is handed over once, for any number of sends, upgrades,
\* connections and requests (session.ts, tryUpgradeLimitedConnection,
\* maybeFetchPeerProfile and requestPeerProfile).
THEOREM EffortIsSharedHolds == ComponentsSpec => []EffortIsShared
<1>1. ComponentsInv => EffortIsShared
  BY DialingConsequence DEF ComponentsInv, EffortIsShared
<1> QED
  BY <1>1, ComponentsInvariant, PTL

\* A tone that repeats belongs to the call there is (useCallEarcons.ts).
THEOREM NothingRingsOnHolds == ComponentsSpec => []NothingRingsOn
<1>1. ComponentsInv => NothingRingsOn
  BY EarconsConsequence DEF ComponentsInv, NothingRingsOn
<1> QED
  BY <1>1, ComponentsInvariant, PTL

\* The camera is on only while the drawer shows it or waits for it, unless
\* requests crossed (CameraCaptureDrawer.tsx).
THEOREM CameraIsOffHolds == ComponentsSpec => []CameraIsOff
<1>1. ComponentsInv => CameraIsOff
  BY DEF ComponentsInv, CameraIsOff, Camera!IInv
<1> QED
  BY <1>1, ComponentsInvariant, PTL

\* The proof that is stored is for the identity it is stored with
\* (OnboardingWizard.tsx).
THEOREM ProofIsForIdentityHolds == ComponentsSpec => []ProofIsForIdentity
<1>1. ComponentsInv => ProofIsForIdentity
  BY DEF ComponentsInv, ProofIsForIdentity, Wizard!IInv
<1> QED
  BY <1>1, ComponentsInvariant, PTL

\* What is published is visible, and a visit shows what it asked for
\* (ensHandles.ts, App.tsx).
THEOREM HandleIsCurrentHolds == ComponentsSpec => []HandleIsCurrent
<1>1. ComponentsInv => HandleIsCurrent
  BY DEF ComponentsInv, HandleIsCurrent, Handles!IInv
<1> QED
  BY <1>1, ComponentsInvariant, PTL

\* Two alerts within two minutes need checks that overlapped or a worker that
\* forgot (sw.js).
THEOREM OneAlertHolds == ComponentsSpec => []OneAlert
<1>1. ComponentsInv => OneAlert
  BY DEF ComponentsInv, OneAlert, Worker!IInv
<1> QED
  BY <1>1, ComponentsInvariant, PTL

\* The relay serves under one identity, the saved one, and its status file holds
\* no part of a snapshot, whenever it dies and whichever of its writes fail
\* (config.go, metrics.go).
THEOREM FilesSurviveCrashesHolds == ComponentsSpec => []FilesSurviveCrashes
<1>1. ComponentsInv => FilesSurviveCrashes
  BY RelayConsequences DEF ComponentsInv, FilesSurviveCrashes
<1> QED
  BY <1>1, ComponentsInvariant, PTL

\* The gauge of the reservations is right once no callback runs, and too high
\* only if a close was swallowed (metrics.go, AddReservations).
THEOREM GaugeIsExactHolds == ComponentsSpec => []GaugeIsExact
<1>1. ComponentsInv => GaugeIsExact
  BY RelayConsequences DEF ComponentsInv, GaugeIsExact
<1> QED
  BY <1>1, ComponentsInvariant, PTL

\* A running bot hears, keeps its schedule and stops its node, for any order of
\* signals, ticks and answers (client.ts, scheduler.ts, randomWikiBot.ts).
THEOREM BotIsReliableHolds == ComponentsSpec => []BotIsReliable
<1>1. ComponentsInv => BotIsReliable
  BY DEF ComponentsInv, BotIsReliable, Client!IInv
<1> QED
  BY <1>1, ComponentsInvariant, PTL

=============================================================================
