------------------------- MODULE MailboxDrainProofs -------------------------
(***************************************************************************)
(* Proofs about MailboxDrain: that what overlapping drains hold, what the  *)
(* mailbox holds and what the device may acknowledge stay in step (IInv),  *)
(* and what follows: acknowledgements name nothing else, the relay drops   *)
(* nothing else on a device's word, and a walk through the pages misses    *)
(* nothing.                                                                *)
(*                                                                         *)
(* The heart is PageFacts: a page holds the first envelopes after the      *)
(* cursor, so what a pull leaves out comes after the cursor it returns.    *)
(* From there Fits says of one drain what IInv says of all of them, and    *)
(* each step shows that the drains it moves, and the others in the new     *)
(* mailbox, still fit.                                                     *)
(***************************************************************************)
EXTENDS MailboxDrain, SubsequencesProofs

-----------------------------------------------------------------------------
\* The order of envelopes.

Entry == Relay!Entry
Distinct(S) == \A e, f \in S : e.arrival = f.arrival => e = f

LEMMA EntryFacts ==
  \A e \in Entry : /\ e.envelopeId \in EnvelopeIds /\ e.sentAt \in Nat /\ e.expiresAt \in Nat
                   /\ e.arrival \in Nat
BY DEF Entry, Relay!Entry

LEMMA Order ==
  /\ \A a \in Entry : ~Precedes(a, a)
  /\ \A a, b \in Entry : Precedes(a, b) => ~Precedes(b, a)
  /\ \A a, b, c \in Entry : Precedes(a, b) /\ Precedes(b, c) => Precedes(a, c)
  /\ \A a, b \in Entry : a.arrival # b.arrival => Precedes(a, b) \/ Precedes(b, a)
BY EntryFacts DEF Precedes

\* Envelopes have one that none precedes.
LEMMA HasFirst ==
  ASSUME NEW S \in SUBSET Entry, S # {}
  PROVE  \E e \in S : \A f \in S : ~Precedes(f, e)
<1> DEFINE Dates == {e.sentAt : e \in S}
<1>1. Dates \in SUBSET Nat /\ Dates # {}
  BY EntryFacts
<1>2. PICK t \in Dates : \A u \in Dates : t <= u
  <2> HIDE DEF Dates
  <2> QED
    BY <1>1, LeastNatural
<1> DEFINE Early == {e \in S : e.sentAt = t}
           Arrivals == {e.arrival : e \in Early}
<1>3. Arrivals \in SUBSET Nat /\ Arrivals # {}
  BY <1>2, EntryFacts
<1>4. PICK n \in Arrivals : \A m \in Arrivals : n <= m
  <2> HIDE DEF Arrivals
  <2> QED
    BY <1>3, LeastNatural
<1>5. PICK e \in Early : e.arrival = n
  BY <1>4
<1>6. \A f \in S : t <= f.sentAt /\ (f.sentAt = t => n <= f.arrival)
  BY <1>2, <1>4
<1>7. \A f \in S : f.sentAt \in Nat /\ f.arrival \in Nat
  BY EntryFacts
<1>8. e \in S /\ e.sentAt = t /\ e.arrival = n /\ t \in Nat /\ n \in Nat
  BY <1>1, <1>2, <1>3, <1>4, <1>5
<1> HIDE DEF Dates, Early, Arrivals
<1>9. \A f \in S : ~Precedes(f, e)
  BY <1>6, <1>7, <1>8 DEF Precedes
<1> QED
  BY <1>8, <1>9

LEMMA FirstIsIn ==
  ASSUME NEW S \in SUBSET Entry, S # {}, Distinct(S)
  PROVE  First(S) \in S
<1>1. PICK e \in S : \A f \in S : ~Precedes(f, e)
  BY HasFirst
<1>2. \A f \in S \ {e} : Precedes(e, f)
  BY <1>1, Order DEF Distinct
<1> QED
  BY <1>1, <1>2 DEF First

-----------------------------------------------------------------------------
\* What a pull returns.

LEMMA PageFacts ==
  ASSUME NEW q \in SUBSET Entry, IsFiniteSet(q), NEW cursor,
         \A e, f \in q : (e.arrival = f.arrival \/ e.envelopeId = f.envelopeId) => e = f
  PROVE  LET rest == AfterCursor(q, cursor)
             page == Page(q, PageSize, cursor)
             next == NextCursor(q, PageSize, cursor)
         IN  /\ page \subseteq rest /\ rest \subseteq q
             /\ page = {} => rest = {}
             /\ next \in Ids(q) \cup {NoCursor}
             /\ page = rest => next = NoCursor
             /\ page # rest => /\ next # NoCursor
                               /\ \A c \in q : \A e \in rest \ page : c.envelopeId = next => Precedes(c, e)
<1> DEFINE rest == AfterCursor(q, cursor)
           page == Page(q, PageSize, cursor)
           next == NextCursor(q, PageSize, cursor)
           Before(e) == {f \in rest : Precedes(f, e)}
           rank(e) == Cardinality(Before(e))
<1>1. rest \subseteq q
  BY DEF AfterCursor
<1>2. page = {e \in rest : rank(e) < PageSize}
  BY DEF Page
<1>3. PageSize \in Nat /\ PageSize > 0
  BY DrainAssumption
<1>4. IsFiniteSet(rest) /\ rest \in SUBSET Entry /\ Distinct(rest)
  BY <1>1, FS_Subset DEF Distinct
<1>5. next = IF page = rest THEN NoCursor
             ELSE (CHOOSE e \in page : \A f \in page \ {e} : Precedes(f, e)).envelopeId
  BY DEF NextCursor
<1>6. \A e : Before(e) = {f \in rest : Precedes(f, e)} /\ rank(e) = Cardinality(Before(e))
  OBVIOUS
<1> HIDE DEF rest, page, next, Before, rank
<1>7. \A e : IsFiniteSet(Before(e)) /\ rank(e) \in Nat
  <2> TAKE e
  <2>1. Before(e) \in SUBSET rest
    BY <1>6
  <2>2. IsFiniteSet(Before(e))
    BY <2>1, <1>4, FS_Subset
  <2> QED
    BY <2>2, <1>6, FS_CardinalityType
\* A later envelope has a higher rank.
<1>8. ASSUME NEW e \in rest, NEW f \in rest, Precedes(e, f) PROVE rank(e) < rank(f)
  <2>1. Before(e) \subseteq Before(f) /\ e \in Before(f) /\ e \notin Before(e)
    BY <1>4, <1>6, <1>8, Order
  <2>2. Cardinality(Before(e)) <= Cardinality(Before(f))
        /\ (Cardinality(Before(e)) = Cardinality(Before(f)) => Before(e) = Before(f))
    BY <2>1, <1>7, FS_Subset
  <2> QED
    BY <2>1, <2>2, <1>6, <1>7
<1>9. page = {} => rest = {}
  <2> SUFFICES ASSUME rest # {} PROVE page # {}
    OBVIOUS
  <2>1. PICK e \in rest : \A f \in rest : ~Precedes(f, e)
    BY <1>4, HasFirst
  <2>2. rank(e) = 0
    BY <2>1, <1>6, FS_EmptySet
  <2> QED
    BY <2>2, <1>2, <1>3
<1>10. ASSUME page # rest
       PROVE  /\ next \in Ids(q) /\ next # NoCursor
              /\ \A c \in q : \A e \in rest \ page : c.envelopeId = next => Precedes(c, e)
  <2>1. page # {} /\ page \subseteq rest
    BY <1>2, <1>9, <1>10
  \* The last of the page.
  <2> DEFINE Left == {PageSize - rank(e) : e \in page}
  <2>2. Left \in SUBSET Nat /\ Left # {}
    BY <2>1, <1>2, <1>3, <1>7
  <2>3. PICK n \in Left : \A m \in Left : n <= m
    <3> HIDE DEF Left
    <3> QED
      BY <2>2, LeastNatural
  <2>4. PICK l \in page : n = PageSize - rank(l)
    BY <2>3
  <2>5. \A f \in page : rank(f) <= rank(l)
    BY <2>3, <2>4, <1>3, <1>7
  <2>6. \A f \in page \ {l} : Precedes(f, l)
    <3> SUFFICES ASSUME NEW f \in page \ {l} PROVE Precedes(f, l)
      OBVIOUS
    <3>1. ~Precedes(l, f)
      BY <2>1, <2>5, <1>7, <1>8
    <3> QED
      BY <3>1, <2>1, <1>4, Order DEF Distinct
  <2> DEFINE last == CHOOSE e \in page : \A f \in page \ {e} : Precedes(f, e)
  <2>7. last \in page /\ \A f \in page \ {last} : Precedes(f, last)
    BY <2>6
  <2>8. next = last.envelopeId
    BY <1>5, <1>10
  <2> HIDE DEF last
  <2>9. last \in q /\ last \in Entry /\ next \in Ids(q) /\ next \in EnvelopeIds
    BY <2>1, <2>7, <2>8, <1>1, <1>4, EntryFacts DEF Ids
  <2>10. next # NoCursor
    BY <2>9, DrainAssumption DEF Relay!MailboxAssumption
  <2>11. ASSUME NEW e \in rest \ page PROVE Precedes(last, e)
    <3>1. rank(last) < PageSize /\ ~(rank(e) < PageSize)
      BY <2>7, <1>2
    <3>2. ~Precedes(e, last)
      <4>1. last \in rest
        BY <2>1, <2>7
      <4> QED
        BY <3>1, <4>1, <1>3, <1>7, <1>8
    <3>3. e # last
      BY <2>7
    <3> QED
      BY <3>2, <3>3, <2>1, <2>7, <1>4, Order DEF Distinct
  <2>12. \A c \in q : c.envelopeId = next => c = last
    BY <2>8, <2>9
  <2> QED
    BY <2>9, <2>10, <2>11, <2>12
<1> QED
  BY <1>1, <1>2, <1>5, <1>9, <1>10 DEF rest, page, next

-----------------------------------------------------------------------------
\* The invariant, one drain at a time: w is where a drain stands, b the mailbox,
\* o what was offered and s what it may acknowledge.

AheadIn(w, b, e) ==
    /\ w.at = "pull" \/ w.cursor # NoCursor
    /\ \A c \in b : c.envelopeId = w.cursor => Precedes(c, e)

Reached(w, b, e) ==
    \/ w.at \in {"done", "cut"} \/ CanRepeat
    \/ e.envelopeId \in w.seen
    \/ w.at = "reply" /\ e \in w.todo
    \/ AheadIn(w, b, e)

Fits(w, b, o, s) ==
    /\ w \in Drain
    /\ w.at \in {"ingest", "saving"} => w.todo # {}
    /\ w.at = "reply" /\ w.todo = {} => w.cursor = NoCursor
    /\ Distinct(w.todo)
    /\ w.at \in {"ingest", "saving", "ack"} => w.acking \subseteq s
    /\ w.present \subseteq b
    /\ w.cursor \in o \cup {NoCursor}
    /\ \A e \in w.present : Reached(w, b, e)
    /\ w.at = "done" => CanRepeat \/ Ids(w.present) \subseteq w.seen

AllFit == drains \in [Drains -> Drain] /\ \A d \in Drains : Fits(drains[d], box, offered, Acknowledgeable)

BoxFits ==
    /\ held \in [{Me} -> SUBSET Entry]
    /\ appended \in Nat
    /\ IsFiniteSet(box)
    /\ \A e \in box : e.arrival <= appended
    /\ \A e, f \in box : (e.arrival = f.arrival \/ e.envelopeId = f.envelopeId) => e = f
    /\ Ids(box) \subseteq offered

ChatFits == memory \subseteq EnvelopeIds /\ saved \subseteq EnvelopeIds /\ unsaved \subseteq EnvelopeIds

RestFits ==
    /\ now \in Nat
    /\ answer \in Relay!Answer \cup {Relay!NoAnswer}
    /\ late \subseteq SUBSET EnvelopeIds
    /\ ChatFits
    /\ offered \subseteq EnvelopeIds
    /\ faults \in 0..MaxFaults
    /\ \A ids \in late : ids \subseteq Acknowledgeable

LEMMA SameChat ==
  ASSUME UNCHANGED chatVars
  PROVE  UNCHANGED Acknowledgeable /\ (ChatFits => ChatFits')
BY DEF chatVars, Acknowledgeable, ChatFits

LEMMA Parts == IInv <=> AllFit /\ BoxFits /\ RestFits
<1>1. IInv => AllFit
  BY DEF IInv, AllFit, TypeOK, PagesAreOrdered, AcksAreSaved, WalkAdvances, WalkMissesNothing, Fits,
         Reached, AheadIn, Ahead, Ended, Distinct
<1>2. IInv => BoxFits /\ RestFits
  BY DEF IInv, TypeOK, BoxFits, RestFits, ChatFits, BoxIsOrdered, AcksAreSaved, Entry
<1>3. AllFit /\ BoxFits /\ RestFits => TypeOK /\ BoxIsOrdered /\ AcksAreSaved /\ PagesAreOrdered
  BY DEF TypeOK, PagesAreOrdered, AcksAreSaved, Fits, Distinct, BoxFits, RestFits, ChatFits, BoxIsOrdered, AllFit, Entry
<1>4. AllFit => WalkAdvances /\ (CanRepeat \/ WalkMissesNothing)
  BY DEF AllFit, WalkAdvances, WalkMissesNothing, Fits, Reached, AheadIn, Ahead, Ended
<1> QED
  BY <1>1, <1>2, <1>3, <1>4 DEF IInv

LEMMA PartsNext == IInv' <=> AllFit' /\ BoxFits' /\ RestFits'
BY Parts, PTL

LEMMA Names == NoCursor \notin EnvelopeIds /\ \A S \in SUBSET Entry : Ids(S) \subseteq EnvelopeIds
BY DrainAssumption, EntryFacts DEF Relay!MailboxAssumption, Ids

LEMMA Instanced ==
  /\ \A q : Relay!Ids(q) = Ids(q)
  /\ \A q, t : Relay!Live(q, t) = Live(q, t)
BY DEF Relay!Ids, Ids, Relay!Live, Live

\* A drain that stopped, and one that starts.
LEMMA NoDrainFits ==
  ASSUME NEW o, NEW s, NEW b
  PROVE  NoDrain \in Drain /\ Fits(NoDrain, b, o, s)
<1>1. NoDrain = [at |-> "cut", cursor |-> NoCursor, todo |-> {}, acking |-> {},
                 cancelled |-> FALSE, present |-> {}, seen |-> {}]
  <2> DEFINE R == [at : Steps, cursor : {NoCursor}, todo : {{}}, acking : {{}}, cancelled : {FALSE},
                   present : {box, {}}, seen : {{}}]
  <2>1. NewDrain \in R
    BY DEF NewDrain, Steps
  <2>2. NoDrain \in R /\ NoDrain.at = "cut" /\ NoDrain.present = {}
    BY <2>1 DEF NoDrain, Steps
  <2> QED
    BY <2>2
<1>2. NoDrain \in Drain
  BY <1>1 DEF Drain, Steps
<1> QED
  BY <1>1, <1>2 DEF Fits, Distinct

LEMMA NewDrainFits ==
  ASSUME BoxFits, NEW s
  PROVE  NewDrain \in Drain /\ Fits(NewDrain, box, offered, s)
<1>1. box \in SUBSET Entry
  BY DEF BoxFits, box
<1>2. NewDrain \in Drain
  BY <1>1 DEF NewDrain, Drain, Steps, Entry
<1>3. \A e \in box : AheadIn(NewDrain, box, e)
  BY <1>1, Names, EntryFacts DEF AheadIn, NewDrain
<1> QED
  BY <1>2, <1>3 DEF Fits, NewDrain, Distinct, Reached

\* A drain keeps its place when envelopes arrive and when others may be acknowledged.
LEMMA FitsMore ==
  ASSUME NEW w, NEW b \in SUBSET Entry, NEW o, NEW s, NEW c \in SUBSET Entry, NEW p, NEW t,
         Fits(w, b, o, s), b \subseteq c, o \subseteq p, s \subseteq t,
         \A x \in c \ b : CanRepeat \/ x.envelopeId \notin o
  PROVE  Fits(w, c, p, t)
<1>1. ASSUME NEW e \in w.present, Reached(w, b, e) PROVE Reached(w, c, e)
  <2>1. CASE AheadIn(w, b, e) /\ ~CanRepeat
    <3>1. \A x \in c \ b : x.envelopeId \notin o \cup {NoCursor}
      BY <2>1, Names, EntryFacts
    <3>2. w.cursor \in o \cup {NoCursor}
      BY DEF Fits
    <3> QED
      BY <2>1, <3>1, <3>2 DEF Reached, AheadIn
  <2> QED
    BY <1>1, <2>1 DEF Reached
<1> QED
  BY <1>1 DEF Fits

\* And when envelopes leave.
Without(w, c) == [w EXCEPT !.present = @ \cap c]

LEMMA FitsLess ==
  ASSUME NEW w, NEW b, NEW o, NEW s, NEW c \in SUBSET b, Fits(w, b, o, s)
  PROVE  Without(w, c) \in Drain /\ Fits(Without(w, c), c, o, s)
<1> DEFINE v == Without(w, c)
<1>1. w \in Drain
  BY DEF Fits
<1>2. /\ v \in Drain /\ v.at = w.at /\ v.cursor = w.cursor /\ v.todo = w.todo
      /\ v.acking = w.acking /\ v.seen = w.seen /\ v.present = w.present \cap c
  BY <1>1 DEF Drain, Without
<1> HIDE DEF v
<1>3. \A e \in v.present : Reached(w, b, e) => Reached(v, c, e)
  BY <1>2 DEF Reached, AheadIn
<1>4. Ids(v.present) \subseteq Ids(w.present)
  BY <1>2 DEF Ids
<1>5. Fits(v, c, o, s)
  BY <1>2, <1>3, <1>4 DEF Fits
<1> QED
  BY <1>2, <1>5 DEF v

\* A mailbox some envelopes have left.
LEMMA BoxShrinks ==
  ASSUME BoxFits, held' \in [{Me} -> SUBSET Entry], box' \subseteq box, UNCHANGED <<appended, offered>>
  PROVE  BoxFits'
<1>1. IsFiniteSet(box')
  BY FS_Subset DEF BoxFits
<1> QED
  BY <1>1 DEF BoxFits, Ids

LEMMA ShrinkStep ==
  ASSUME AllFit, BoxFits, held' \in [{Me} -> SUBSET Entry], box' \subseteq box,
         UNCHANGED <<appended, offered, Acknowledgeable>>, drains' = StillPresent(drains)
  PROVE  AllFit' /\ BoxFits'
<1>1. BoxFits'
  BY BoxShrinks
<1>2. \A d \in Drains : drains'[d] = Without(drains[d], box')
  BY DEF StillPresent, box, Without
<1>3. \A d \in Drains : drains'[d] \in Drain /\ Fits(drains'[d], box', offered, Acknowledgeable)
  <2> TAKE d \in Drains
  <2>1. Fits(drains[d], box, offered, Acknowledgeable) /\ box' \in SUBSET box
    BY DEF AllFit
  <2> QED
    BY <1>2, <2>1, FitsLess
<1>4. drains' \in [Drains -> Drain]
  BY <1>3 DEF StillPresent
<1> QED
  BY <1>1, <1>3, <1>4 DEF AllFit

\* One drain moves, with the mailbox as it is.
LEMMA DrainMoves ==
  ASSUME AllFit, NEW w, NEW t, Fits(w, box, offered, t), Acknowledgeable \subseteq t, BoxFits,
         NEW d \in Drains
  PROVE  /\ [drains EXCEPT ![d] = w] \in [Drains -> Drain]
         /\ \A c \in Drains : Fits([drains EXCEPT ![d] = w][c], box, offered, t)
<1>1. w \in Drain
  BY DEF Fits
<1>2. \A c \in Drains : Fits(drains[c], box, offered, t)
  <2> TAKE c \in Drains
  <2>1. Fits(drains[c], box, offered, Acknowledgeable) /\ box \in SUBSET Entry
    BY DEF AllFit, BoxFits, box
  <2> QED
    BY <2>1, FitsMore
<1> QED
  BY <1>1, <1>2 DEF AllFit

-----------------------------------------------------------------------------
\* The senders and the relay.

LEMMA EnqueueStep ==
  ASSUME IInv, NEW id \in EnvelopeIds, NEW sentAt \in SentAts,
         NEW expiry \in Relay!GrantedExpiries(now), Enqueue(id, sentAt, expiry)
  PROVE  IInv'
<1>1. AllFit /\ BoxFits /\ RestFits
  BY Parts
<1>2. sentAt \in Nat /\ expiry \in Nat
  BY <1>1, DrainAssumption DEF Relay!MailboxAssumption, Relay!GrantedExpiries, RestFits
<1>3. UNCHANGED <<drains, late, Acknowledgeable, faults>> /\ ChatFits' /\ (CanRepeat \/ id \notin offered \/ id \in Ids(box))
  BY <1>1, SameChat DEF Enqueue, RestFits
<1>4. held \in [{Me} -> SUBSET Entry] /\ box \in SUBSET Entry
  BY <1>1 DEF BoxFits, box
<1>5. offered' \in SUBSET EnvelopeIds /\ offered \subseteq offered' /\ offered' \subseteq offered \cup {id}
  BY <1>1 DEF Enqueue, RestFits
<1>6. CASE Relay!Accept(Me, id, sentAt, expiry)
  <2> DEFINE x == [envelopeId |-> id, sentAt |-> sentAt, expiresAt |-> expiry, arrival |-> appended + 1]
             new == Live({x}, now)
  <2>1. x \in Entry /\ x.envelopeId = id /\ x.arrival = appended + 1
    BY <1>1, <1>2 DEF Entry, Relay!Entry, BoxFits
  <2>2. new \in SUBSET {x}
    BY DEF Live
  <2>3. /\ id \notin Ids(box) /\ appended' = appended + 1 /\ UNCHANGED now
        /\ held' = [held EXCEPT ![Me] = @ \cup new]
        /\ answer' = Relay!Accepted(Me, id, expiry)
    BY <1>6, Instanced DEF Relay!Accept, box
  <2>4. offered' = offered \cup {id}
    BY <2>3 DEF Enqueue, Relay!Accepted
  <2> HIDE DEF x, new
  <2>5. box' = box \cup new /\ held' \in [{Me} -> SUBSET Entry]
    BY <1>4, <2>1, <2>2, <2>3 DEF box
  <2>6. BoxFits'
    <3>1. appended' \in Nat /\ \A e \in box : e.arrival <= appended' /\ e.arrival # appended + 1
      BY <1>1, <1>4, <2>3, EntryFacts DEF BoxFits
    <3>2. IsFiniteSet(new) /\ IsFiniteSet(box)
      <4>1. IsFiniteSet({x})
        BY FS_Singleton
      <4> QED
        BY <4>1, <2>2, <1>1, FS_Subset DEF BoxFits
    <3>3. IsFiniteSet(box')
      BY <3>2, <2>5, FS_Union
    <3>4. \A e \in box' : e \in box \/ e = x
      BY <2>2, <2>5
    <3>5. \A e \in box : e.envelopeId # id
      BY <2>3 DEF Ids
    <3>6. \A e \in box' : e.arrival <= appended'
      BY <3>1, <3>4, <2>1, <2>3
    <3>7. \A e, f \in box' : (e.arrival = f.arrival \/ e.envelopeId = f.envelopeId) => e = f
      BY <3>1, <3>4, <3>5, <2>1, <1>1 DEF BoxFits
    <3>8. Ids(box') \subseteq offered'
      BY <3>4, <2>1, <2>4, <1>1 DEF BoxFits, Ids
    <3> QED
      BY <3>1, <3>3, <3>6, <3>7, <3>8, <2>5 DEF BoxFits
  <2>7. AllFit'
    <3>1. \A y \in box' \ box : CanRepeat \/ y.envelopeId \notin offered
      BY <1>3, <2>1, <2>2, <2>3, <2>5
    <3>2. box' \in SUBSET Entry /\ box \subseteq box'
      BY <1>4, <2>1, <2>2, <2>5
    <3>3. \A d \in Drains : Fits(drains[d], box, offered, Acknowledgeable)
      BY <1>1 DEF AllFit
    <3>4. \A d \in Drains : Fits(drains[d], box', offered', Acknowledgeable)
      BY <3>1, <3>2, <3>3, <1>4, <1>5, FitsMore
    <3> QED
      BY <3>4, <1>1, <1>3 DEF AllFit
  <2>8. RestFits'
    <3>1. answer' \in Relay!Answer
      BY <2>3, <1>2 DEF Relay!Answer, Relay!Accepted
    <3> QED
      BY <3>1, <1>1, <1>3, <1>5, <2>3 DEF RestFits
  <2> QED
    BY <2>6, <2>7, <2>8, PartsNext
<1>7. CASE Relay!AcceptAgain(Me, id) \/ Relay!Refuse(Me, id)
  <2>1. UNCHANGED <<held, now, appended>>
    BY <1>7 DEF Relay!AcceptAgain, Relay!Refuse
  <2>2. answer' \in Relay!Answer /\ (answer'.accepted => id \in Ids(box))
    <3>1. CASE Relay!AcceptAgain(Me, id)
      <4>1. PICK e \in box : e.envelopeId = id /\ answer' = Relay!Accepted(Me, id, e.expiresAt)
        BY <3>1 DEF Relay!AcceptAgain, box
      <4>2. e.expiresAt \in Nat
        BY <4>1, <1>4, EntryFacts
      <4>3. id \in Ids(box)
        BY <4>1 DEF Ids
      <4> QED
        BY <4>1, <4>2, <4>3 DEF Relay!Accepted, Relay!Answer
    <3>2. CASE Relay!Refuse(Me, id)
      BY <3>2 DEF Relay!Refuse, Relay!Refused, Relay!Answer
    <3> QED
      BY <1>7, <3>1, <3>2
  <2>3. UNCHANGED <<box, offered>>
    <3>1. id \in Ids(box) => id \in offered
      BY <1>1 DEF BoxFits
    <3> QED
      BY <2>1, <2>2, <3>1 DEF Enqueue, box
  <2>4. BoxFits'
    BY <1>1, <2>1, <2>3 DEF BoxFits
  <2>5. AllFit'
    BY <1>1, <1>3, <2>3 DEF AllFit
  <2>6. RestFits'
    BY <1>1, <1>3, <2>1, <2>2, <2>3 DEF RestFits
  <2> QED
    BY <2>4, <2>5, <2>6, PartsNext
<1> QED
  BY <1>6, <1>7 DEF Enqueue

LEMMA RelayStep ==
  ASSUME IInv, Expire \/ RelayRestart \/ \E ids \in late : LateAck(ids)
  PROVE  IInv'
<1>1. AllFit /\ BoxFits /\ RestFits
  BY Parts
<1>2. held \in [{Me} -> SUBSET Entry] /\ box \in SUBSET Entry
  BY <1>1 DEF BoxFits, box
<1>3. held' \in [{Me} -> SUBSET Entry] /\ box' \subseteq box
  <2>1. CASE Expire
    BY <2>1, <1>2, Instanced DEF Expire, Relay!Tick, box, Live
  <2>2. CASE RelayRestart
    BY <2>2, <1>2 DEF RelayRestart, Relay!Restart, box
  <2>3. CASE \E ids \in late : LateAck(ids)
    BY <2>3, <1>2 DEF LateAck, Relay!Acknowledge, box
  <2> QED
    BY <2>1, <2>2, <2>3
<1>4. /\ UNCHANGED <<appended, offered, chatVars>> /\ drains' = StillPresent(drains) /\ answer' = Relay!NoAnswer
      /\ UNCHANGED Acknowledgeable /\ ChatFits'
  <2>1. /\ UNCHANGED <<appended, offered, chatVars>> /\ drains' = StillPresent(drains)
        /\ answer' = Relay!NoAnswer
    BY DEF Expire, Relay!Tick, RelayRestart, Relay!Restart, LateAck, Relay!Acknowledge
  <2> QED
    BY <1>1, <2>1, SameChat DEF RestFits
<1>5. AllFit' /\ BoxFits'
  BY <1>1, <1>3, <1>4, ShrinkStep
<1>6. late' \in SUBSET late
  BY DEF Expire, RelayRestart, LateAck
<1>7. now' \in Nat /\ faults' \in 0..MaxFaults
  BY <1>1, DrainAssumption DEF Expire, Relay!Tick, RelayRestart, Relay!Restart, LateAck, Relay!Acknowledge,
     Fault, RestFits
<1>8. RestFits'
  BY <1>1, <1>4, <1>6, <1>7 DEF RestFits
<1> QED
  BY <1>5, <1>8, PartsNext

-----------------------------------------------------------------------------
\* The drains.

LEMMA NothingElse ==
  ASSUME BoxFits, RestFits, UNCHANGED <<held, now, appended, late, offered, faults>>, UNCHANGED chatVars,
         answer' \in {answer, Relay!NoAnswer}
  PROVE  BoxFits' /\ RestFits'
BY SameChat DEF BoxFits, RestFits, box

LEMMA PullStep ==
  ASSUME IInv, NEW d \in Drains, Pull(d)
  PROVE  IInv'
<1>1. AllFit /\ BoxFits /\ RestFits
  BY Parts
<1> DEFINE w == drains[d]
           cursor == w.cursor
           page == Page(box, PageSize, cursor)
           next == NextCursor(box, PageSize, cursor)
           rest == AfterCursor(box, cursor)
           v == [w EXCEPT !.at = "reply", !.todo = page, !.cursor = next]
<1>2. w.at = "pull" /\ drains' = [drains EXCEPT ![d] = v] /\ Relay!Read
      /\ UNCHANGED <<late, chatVars, offered, faults>>
  <2>1. [drains EXCEPT ![d].at = "reply", ![d].todo = page, ![d].cursor = next] = [drains EXCEPT ![d] = v]
    BY <1>1 DEF AllFit
  <2> QED
    BY <2>1 DEF Pull
<1>3. w \in Drain /\ Fits(w, box, offered, Acknowledgeable)
  BY <1>1 DEF AllFit
<1>4. /\ box \in SUBSET Entry /\ IsFiniteSet(box)
      /\ \A e, f \in box : (e.arrival = f.arrival \/ e.envelopeId = f.envelopeId) => e = f
      /\ Ids(box) \subseteq offered /\ offered \subseteq EnvelopeIds
  BY <1>1 DEF BoxFits, RestFits, box
<1>5. /\ page \subseteq rest /\ rest \subseteq box
      /\ page = {} => rest = {}
      /\ next \in Ids(box) \cup {NoCursor}
      /\ page = rest => next = NoCursor
      /\ page # rest => /\ next # NoCursor
                        /\ \A c \in box : \A e \in rest \ page : c.envelopeId = next => Precedes(c, e)
  BY <1>4, PageFacts
<1> HIDE DEF page, next
<1>6. /\ v \in Drain /\ v.at = "reply" /\ v.todo = page /\ v.cursor = next
      /\ v.present = w.present /\ v.seen = w.seen
  BY <1>3, <1>4, <1>5 DEF Drain, Steps, Entry
<1>7. ASSUME NEW e \in w.present, Reached(w, box, e), ~CanRepeat, e.envelopeId \notin w.seen
      PROVE  e \in page \/ AheadIn(v, box, e)
  <2>1. e \in box /\ \A c \in box : c.envelopeId = cursor => Precedes(c, e)
    BY <1>2, <1>3, <1>7 DEF Fits, Reached, AheadIn
  <2>2. e \in rest
    BY <2>1 DEF AfterCursor, Ids
  <2> HIDE DEF v, rest
  <2> QED
    BY <2>2, <1>5, <1>6 DEF AheadIn
<1> HIDE DEF v, rest
<1>8. \A e \in v.present : Reached(v, box, e)
  <2> TAKE e \in v.present
  <2>1. e \in w.present /\ Reached(w, box, e)
    BY <1>3, <1>6 DEF Fits
  <2> QED
    BY <2>1, <1>6, <1>7 DEF Reached
<1>9. Fits(v, box, offered, Acknowledgeable)
  BY <1>3, <1>4, <1>5, <1>6, <1>8 DEF Fits, Distinct
<1> HIDE DEF w
<1>10. AllFit'
  <2>1. box' = box /\ UNCHANGED Acknowledgeable
    BY <1>2, SameChat DEF Relay!Read, box
  <2>2. /\ [drains EXCEPT ![d] = v] \in [Drains -> Drain]
        /\ \A c \in Drains : Fits([drains EXCEPT ![d] = v][c], box, offered, Acknowledgeable)
    BY <1>1, <1>9, DrainMoves
  <2> QED
    BY <1>2, <2>1, <2>2 DEF AllFit
<1>11. BoxFits' /\ RestFits'
  BY <1>1, <1>2, NothingElse DEF Relay!Read
<1> QED
  BY <1>10, <1>11, PartsNext

\* One drain stops or goes on, with the relay as it is.
LEMMA MoveStep ==
  ASSUME IInv, NEW w, NEW d \in Drains, Fits(w, box, offered, Acknowledgeable'),
         drains' = [drains EXCEPT ![d] = w], Acknowledgeable \subseteq Acknowledgeable', ChatFits',
         UNCHANGED relayVars, UNCHANGED offered, faults' \in 0..MaxFaults,
         late' \subseteq SUBSET EnvelopeIds, \A ids \in late' : ids \subseteq Acknowledgeable
  PROVE  IInv'
<1>1. AllFit /\ BoxFits /\ RestFits
  BY Parts
<1>2. UNCHANGED box
  BY DEF relayVars, box
<1>3. /\ [drains EXCEPT ![d] = w] \in [Drains -> Drain]
      /\ \A c \in Drains : Fits([drains EXCEPT ![d] = w][c], box, offered, Acknowledgeable')
  BY <1>1, DrainMoves
<1>4. AllFit'
  BY <1>2, <1>3 DEF AllFit
<1>5. BoxFits'
  BY <1>1, <1>2 DEF BoxFits, relayVars
<1>6. RestFits'
  BY <1>1 DEF RestFits, relayVars
<1> QED
  BY <1>4, <1>5, <1>6, PartsNext

LEMMA FaultIsBounded ==
  ASSUME RestFits, Fault
  PROVE  faults' \in 0..MaxFaults
BY DrainAssumption DEF RestFits, Fault

LEMMA ReceiveStep ==
  ASSUME IInv, NEW d \in Drains, Receive(d)
  PROVE  IInv'
<1>1. AllFit /\ BoxFits /\ RestFits
  BY Parts
<1> DEFINE w == drains[d]
           page == w.todo
           next == IF page = {} THEN [w EXCEPT !.at = "done"]
                   ELSE IF w.cancelled THEN NoDrain
                   ELSE [w EXCEPT !.at = "ingest", !.seen = w.seen \cup Ids(page), !.acking = {}]
<1>2. w \in Drain /\ Fits(w, box, offered, Acknowledgeable) /\ w.at = "reply"
  BY <1>1 DEF AllFit, Receive
<1>3. drains' = [drains EXCEPT ![d] = next] /\ UNCHANGED <<relayVars, late, chatVars, offered, faults>>
  <2>1. drains' = [drains EXCEPT ![d] = next]
    BY <1>1, Zenon DEF Receive, AllFit
  <2> QED
    BY <2>1 DEF Receive
<1>4. page \in SUBSET Entry
  BY <1>2 DEF Drain, Entry
<1>5. Ids(page) \subseteq EnvelopeIds
  BY <1>4, Names
<1>6. Fits(next, box, offered, Acknowledgeable)
  <2>1. CASE page = {}
    <3> DEFINE v == [w EXCEPT !.at = "done"]
    <3>1. /\ v \in Drain /\ v.at = "done" /\ v.todo = page /\ v.cursor = w.cursor
          /\ v.present = w.present /\ v.seen = w.seen
      BY <1>2 DEF Drain, Steps
    <3>2. w.cursor = NoCursor
      BY <1>2, <2>1 DEF Fits
    <3>3. CanRepeat \/ \A e \in w.present : e.envelopeId \in w.seen
      BY <1>2, <2>1, <3>2 DEF Fits, Reached, AheadIn
    <3>4. CanRepeat \/ Ids(w.present) \subseteq w.seen
      BY <3>3 DEF Ids
    <3> HIDE DEF v
    <3>5. Fits(v, box, offered, Acknowledgeable)
      BY <1>2, <3>1, <3>4, <2>1 DEF Fits, Reached
    <3> QED
      BY <2>1, <3>5 DEF v
  <2>2. CASE page # {} /\ w.cancelled
    BY <2>2, NoDrainFits
  <2>3. CASE page # {} /\ ~w.cancelled
    <3> DEFINE v == [w EXCEPT !.at = "ingest", !.seen = w.seen \cup Ids(page), !.acking = {}]
    <3>1. /\ v \in Drain /\ v.at = "ingest" /\ v.todo = page /\ v.cursor = w.cursor /\ v.acking = {}
          /\ v.present = w.present /\ v.seen = w.seen \cup Ids(page)
      BY <1>2, <1>5 DEF Drain, Steps
    <3> HIDE DEF v
    <3>2. ASSUME NEW e \in w.present, Reached(w, box, e) PROVE Reached(v, box, e)
      <4>1. e \in page => e.envelopeId \in Ids(page)
        BY DEF Ids
      <4> QED
        BY <4>1, <3>1, <3>2, <1>2 DEF Reached, AheadIn
    <3>3. Fits(v, box, offered, Acknowledgeable)
      BY <1>2, <3>1, <3>2, <2>3 DEF Fits
    <3> QED
      BY <2>3, <3>3 DEF v
  <2> QED
    BY <2>1, <2>2, <2>3
<1>7. UNCHANGED Acknowledgeable /\ ChatFits'
  BY <1>1, <1>3, SameChat DEF RestFits
<1> HIDE DEF next, w, page
<1> QED
  BY <1>1, <1>3, <1>6, <1>7, MoveStep DEF RestFits

LEMMA BreakOffStep ==
  ASSUME IInv, NEW d \in Drains, PullFails(d) \/ SaveFails(d)
  PROVE  IInv'
<1>1. RestFits /\ faults' \in 0..MaxFaults
  BY Parts, FaultIsBounded DEF PullFails, SaveFails
<1>2. drains' = [drains EXCEPT ![d] = NoDrain] /\ UNCHANGED <<relayVars, late, chatVars, offered>>
  BY DEF PullFails, SaveFails
<1>3. Fits(NoDrain, box, offered, Acknowledgeable') /\ UNCHANGED Acknowledgeable /\ ChatFits'
  BY <1>1, <1>2, NoDrainFits, SameChat DEF RestFits
<1> QED
  BY <1>1, <1>2, <1>3, MoveStep DEF RestFits

\* A drain whose item may be acknowledged goes on to the next.
LEMMA AdvanceStep ==
  ASSUME IInv, NEW d \in Drains, drains[d].at \in {"ingest", "saving"}, drains' = Advance(d),
         Item(d).envelopeId \in Acknowledgeable', Acknowledgeable \subseteq Acknowledgeable', ChatFits',
         UNCHANGED <<relayVars, late, offered, faults>>
  PROVE  IInv'
<1>1. AllFit /\ BoxFits /\ RestFits
  BY Parts
<1> DEFINE w == drains[d]
           item == Item(d)
           rest == w.todo \ {item}
           v == [w EXCEPT !.todo = rest, !.acking = w.acking \cup {item.envelopeId},
                          !.at = IF rest = {} THEN "ack" ELSE "ingest"]
           next == IF rest # {} /\ w.cancelled THEN NoDrain ELSE v
<1>2. w \in Drain /\ Fits(w, box, offered, Acknowledgeable)
  BY <1>1 DEF AllFit
<1>3. drains' = [drains EXCEPT ![d] = next]
  BY Zenon DEF Advance
<1>4. w.todo \in SUBSET Entry /\ w.todo # {} /\ Distinct(w.todo)
  BY <1>2 DEF Drain, Entry, Fits
<1>5. item \in w.todo
  BY <1>4, FirstIsIn DEF Item
<1> HIDE DEF item
<1>6. item.envelopeId \in EnvelopeIds
  BY <1>4, <1>5, EntryFacts
<1>7. /\ v \in Drain /\ v.at \in {"ingest", "ack"} /\ (v.at = "ingest" => rest # {}) /\ v.todo = rest
      /\ v.cursor = w.cursor /\ v.acking = w.acking \cup {item.envelopeId}
      /\ v.present = w.present /\ v.seen = w.seen
  BY <1>2, <1>6 DEF Drain, Steps
<1>8. w.acking \subseteq Acknowledgeable /\ item.envelopeId \in Acknowledgeable'
  BY <1>2 DEF Fits, item
<1> HIDE DEF v
<1>9. Fits(v, box, offered, Acknowledgeable')
  <2>1. \A e \in w.present : Reached(w, box, e) => Reached(v, box, e)
    BY <1>2, <1>7 DEF Reached, AheadIn
  <2>2. Distinct(rest) /\ v.acking \subseteq Acknowledgeable'
    BY <1>4, <1>7, <1>8 DEF Distinct
  <2> QED
    BY <1>2, <1>7, <2>1, <2>2 DEF Fits
<1>10. Fits(next, box, offered, Acknowledgeable')
  BY <1>9, NoDrainFits
<1> HIDE DEF next, w
<1> QED
  BY <1>1, <1>3, <1>10, MoveStep DEF RestFits

LEMMA ItemIsNamed ==
  ASSUME AllFit, NEW d \in Drains, drains[d].at \in {"ingest", "saving"}
  PROVE  Item(d) \in drains[d].todo /\ Item(d).envelopeId \in EnvelopeIds
<1>1. drains[d] \in Drain /\ Fits(drains[d], box, offered, Acknowledgeable)
  BY DEF AllFit
<1>2. drains[d].todo \in SUBSET Entry /\ drains[d].todo # {} /\ Distinct(drains[d].todo)
  BY <1>1 DEF Drain, Entry, Fits
<1>3. Item(d) \in drains[d].todo
  BY <1>2, FirstIsIn DEF Item
<1> QED
  BY <1>2, <1>3, EntryFacts

LEMMA IngestStep ==
  ASSUME IInv, NEW d \in Drains, Ingest(d)
  PROVE  IInv'
<1>1. AllFit /\ BoxFits /\ RestFits
  BY Parts
<1> DEFINE w == drains[d]
           v == [w EXCEPT !.at = "saving"]
<1>2. w \in Drain /\ Fits(w, box, offered, Acknowledgeable) /\ w.at = "ingest"
  BY <1>1 DEF AllFit, Ingest
<1>3. drains' = [drains EXCEPT ![d] = v]
  BY DEF Ingest
<1>4. /\ memory' = memory \cup {Item(d).envelopeId} /\ UNCHANGED <<saved, unsaved>>
      /\ UNCHANGED <<relayVars, late, offered, faults>>
  BY DEF Ingest
<1>5. ChatFits' /\ UNCHANGED Acknowledgeable
  BY <1>1, <1>2, <1>4, ItemIsNamed DEF RestFits, ChatFits, Acknowledgeable
<1>6. /\ v \in Drain /\ v.at = "saving" /\ v.todo = w.todo /\ v.cursor = w.cursor
      /\ v.acking = w.acking /\ v.present = w.present /\ v.seen = w.seen
  BY <1>2 DEF Drain, Steps
<1> HIDE DEF v
<1>7. Fits(v, box, offered, Acknowledgeable)
  <2>1. \A e \in w.present : Reached(w, box, e) => Reached(v, box, e)
    BY <1>2, <1>6 DEF Reached, AheadIn
  <2> QED
    BY <1>2, <1>6, <2>1 DEF Fits
<1> HIDE DEF w
<1> QED
  BY <1>1, <1>3, <1>4, <1>5, <1>7, MoveStep DEF RestFits

LEMMA IngestDuplicateStep ==
  ASSUME IInv, NEW d \in Drains, IngestDuplicate(d)
  PROVE  IInv'
<1>1. AllFit /\ RestFits
  BY Parts
<1>2. Item(d).envelopeId \in EnvelopeIds
  BY <1>1, ItemIsNamed DEF IngestDuplicate
<1>3. Item(d).envelopeId \in Acknowledgeable' /\ Acknowledgeable \subseteq Acknowledgeable' /\ ChatFits'
  BY <1>1, <1>2 DEF IngestDuplicate, Acknowledgeable, ChatFits, RestFits
<1> QED
  BY <1>3, AdvanceStep DEF IngestDuplicate

LEMMA SaveItemStep ==
  ASSUME IInv, NEW d \in Drains, SaveItem(d)
  PROVE  IInv'
<1>1. AllFit /\ RestFits
  BY Parts
<1>2. Item(d).envelopeId \in EnvelopeIds
  BY <1>1, ItemIsNamed DEF SaveItem
<1>3. Item(d).envelopeId \in Acknowledgeable' /\ Acknowledgeable \subseteq Acknowledgeable' /\ ChatFits'
  BY <1>1, <1>2 DEF SaveItem, Acknowledgeable, ChatFits, RestFits
<1> QED
  BY <1>3, AdvanceStep DEF SaveItem

\* Where a drain goes after its acknowledgement.
Continued(w) ==
    IF w.cursor = NoCursor THEN [w EXCEPT !.at = "done", !.acking = {}]
    ELSE IF w.cancelled THEN NoDrain
    ELSE [w EXCEPT !.at = "pull", !.acking = {}]

LEMMA AfterAckFits ==
  ASSUME AllFit, NEW d \in Drains, drains[d].at = "ack"
  PROVE  /\ AfterAck(d) = [drains EXCEPT ![d] = Continued(drains[d])]
         /\ Fits(Continued(drains[d]), box, offered, Acknowledgeable)
<1> DEFINE w == drains[d]
<1>1. w \in Drain /\ Fits(w, box, offered, Acknowledgeable) /\ w.at = "ack"
  BY DEF AllFit
<1>2. AfterAck(d) = [drains EXCEPT ![d] = Continued(drains[d])]
  BY Zenon DEF AfterAck, Continued, AllFit
<1>3. CASE w.cursor = NoCursor
  <2> DEFINE v == [w EXCEPT !.at = "done", !.acking = {}]
  <2>1. /\ v \in Drain /\ v.at = "done" /\ v.todo = w.todo /\ v.cursor = w.cursor
        /\ v.present = w.present /\ v.seen = w.seen
    BY <1>1 DEF Drain, Steps
  <2>2. CanRepeat \/ \A e \in w.present : e.envelopeId \in w.seen
    BY <1>1, <1>3 DEF Fits, Reached, AheadIn
  <2>3. CanRepeat \/ Ids(w.present) \subseteq w.seen
    BY <2>2 DEF Ids
  <2> HIDE DEF v
  <2>4. Fits(v, box, offered, Acknowledgeable)
    BY <1>1, <2>1, <2>3 DEF Fits, Reached
  <2> QED
    BY <1>2, <1>3, <2>4 DEF Continued, v
<1>4. CASE w.cursor # NoCursor /\ w.cancelled
  BY <1>2, <1>4, NoDrainFits DEF Continued
<1>5. CASE w.cursor # NoCursor /\ ~w.cancelled
  <2> DEFINE v == [w EXCEPT !.at = "pull", !.acking = {}]
  <2>1. /\ v \in Drain /\ v.at = "pull" /\ v.todo = w.todo /\ v.cursor = w.cursor
        /\ v.present = w.present /\ v.seen = w.seen
    BY <1>1 DEF Drain, Steps
  <2> HIDE DEF v
  <2>2. \A e \in w.present : Reached(w, box, e) => Reached(v, box, e)
    BY <1>1, <2>1 DEF Reached, AheadIn
  <2>3. Fits(v, box, offered, Acknowledgeable)
    BY <1>1, <2>1, <2>2 DEF Fits
  <2> QED
    BY <1>2, <1>5, <2>3 DEF Continued, v
<1> QED
  BY <1>3, <1>4, <1>5

LEMMA AckPageStep ==
  ASSUME IInv, NEW d \in Drains, AckPage(d)
  PROVE  IInv'
<1>1. AllFit /\ BoxFits /\ RestFits
  BY Parts
<1> DEFINE ds == [drains EXCEPT ![d] = Continued(drains[d])]
<1>2. /\ AfterAck(d) = ds /\ Fits(Continued(drains[d]), box, offered, Acknowledgeable)
  BY <1>1, AfterAckFits DEF AckPage
<1>3. ds \in [Drains -> Drain] /\ \A c \in Drains : Fits(ds[c], box, offered, Acknowledgeable)
  BY <1>1, <1>2, DrainMoves
<1>4. held \in [{Me} -> SUBSET Entry] /\ box \in SUBSET Entry
  BY <1>1 DEF BoxFits, box
<1>5. held' \in [{Me} -> SUBSET Entry] /\ box' \in SUBSET box
  BY <1>4 DEF AckPage, Relay!Acknowledge, box
<1>6. /\ drains' = StillPresent(ds) /\ answer' = Relay!NoAnswer
      /\ UNCHANGED <<now, appended, late, Acknowledgeable, offered, faults>> /\ ChatFits'
  <2>1. /\ drains' = StillPresent(ds) /\ answer' = Relay!NoAnswer
        /\ UNCHANGED <<now, appended, late, chatVars, offered, faults>>
    BY <1>2 DEF AckPage, Relay!Acknowledge
  <2> QED
    BY <1>1, <2>1, SameChat DEF RestFits
<1> HIDE DEF ds
<1>7. \A c \in Drains : drains'[c] = Without(ds[c], box')
  BY <1>6 DEF StillPresent, box, Without
<1>8. \A c \in Drains : drains'[c] \in Drain /\ Fits(drains'[c], box', offered, Acknowledgeable)
  BY <1>3, <1>5, <1>7, FitsLess
<1>9. AllFit'
  BY <1>6, <1>8 DEF AllFit, StillPresent
<1>10. BoxFits' /\ RestFits'
  BY <1>1, <1>5, <1>6, BoxShrinks DEF RestFits
<1> QED
  BY <1>9, <1>10, PartsNext

LEMMA AckTimesOutStep ==
  ASSUME IInv, NEW d \in Drains, AckTimesOut(d)
  PROVE  IInv'
<1>1. AllFit /\ BoxFits /\ RestFits /\ faults' \in 0..MaxFaults
  BY Parts, FaultIsBounded DEF AckTimesOut
<1>2. /\ drains' = [drains EXCEPT ![d] = Continued(drains[d])]
      /\ Fits(Continued(drains[d]), box, offered, Acknowledgeable)
  BY <1>1, AfterAckFits DEF AckTimesOut
<1>3. /\ late' = late \cup {drains[d].acking} /\ UNCHANGED <<relayVars, chatVars, offered>>
      /\ drains[d].at = "ack"
  BY DEF AckTimesOut
<1>4. drains[d].acking \subseteq Acknowledgeable /\ drains[d].acking \subseteq EnvelopeIds
  BY <1>1, <1>3 DEF AllFit, Fits, Drain
<1>5. late' \subseteq SUBSET EnvelopeIds /\ \A ids \in late' : ids \subseteq Acknowledgeable
  BY <1>1, <1>3, <1>4 DEF RestFits
<1>6. UNCHANGED Acknowledgeable /\ ChatFits'
  BY <1>1, <1>3, SameChat DEF RestFits
<1> QED
  BY <1>1, <1>2, <1>3, <1>5, <1>6, MoveStep

\* The effect runs anew, or the page reloads.
LEMMA ConnectedStep ==
  ASSUME IInv, (\E d \in Drains : Connected(d)) \/ Reload
  PROVE  IInv'
<1>1. AllFit /\ BoxFits /\ RestFits
  BY Parts
<1>2. UNCHANGED <<relayVars, late, Acknowledgeable, offered>> /\ ChatFits' /\ UNCHANGED box
  BY <1>1 DEF Connected, Reload, relayVars, box, chatVars, Acknowledgeable, ChatFits, RestFits
<1>3. faults' \in 0..MaxFaults
  BY <1>1, FaultIsBounded DEF Connected, Reload, RestFits
<1>4. \A c \in Drains : Cancelled(c) \in Drain /\ Fits(Cancelled(c), box, offered, Acknowledgeable)
  <2> TAKE c \in Drains
  <2> DEFINE w == drains[c]
             v == [w EXCEPT !.cancelled = TRUE]
  <2>1. w \in Drain /\ Fits(w, box, offered, Acknowledgeable)
    BY <1>1 DEF AllFit
  <2>2. /\ v \in Drain /\ v.at = w.at /\ v.todo = w.todo /\ v.cursor = w.cursor
        /\ v.acking = w.acking /\ v.present = w.present /\ v.seen = w.seen
    BY <2>1 DEF Drain
  <2>3. Cancelled(c) = w \/ Cancelled(c) = v
    BY DEF Cancelled
  <2> HIDE DEF v, w
  <2>4. \A e \in w.present : Reached(w, box, e) => Reached(v, box, e)
    BY <2>2 DEF Reached, AheadIn
  <2>5. Fits(v, box, offered, Acknowledgeable)
    BY <2>1, <2>2, <2>4 DEF Fits
  <2> QED
    BY <2>1, <2>2, <2>3, <2>5
<1>5. NewDrain \in Drain /\ Fits(NewDrain, box, offered, Acknowledgeable)
  BY <1>1, NewDrainFits
<1>6. NoDrain \in Drain /\ Fits(NoDrain, box, offered, Acknowledgeable)
  BY NoDrainFits
<1>7. AllFit'
  <2>1. CASE Reload
    BY <2>1, <1>2, <1>6 DEF AllFit, Reload
  <2>2. CASE \E d \in Drains : Connected(d)
    <3>1. PICK d \in Drains : drains' = [c \in Drains |-> IF c = d THEN NewDrain ELSE Cancelled(c)]
      BY <2>2 DEF Connected
    <3> QED
      BY <3>1, <1>2, <1>4, <1>5 DEF AllFit
  <2> QED
    BY <2>1, <2>2
<1>8. BoxFits' /\ RestFits'
  BY <1>1, <1>2, <1>3 DEF BoxFits, RestFits, relayVars
<1> QED
  BY <1>7, <1>8, PartsNext

-----------------------------------------------------------------------------

LEMMA InitFits == Init => IInv
<1> SUFFICES ASSUME Init PROVE IInv
  OBVIOUS
<1>1. /\ held = [r \in {Me} |-> {}] /\ now = 0 /\ appended = 0 /\ answer = Relay!NoAnswer
      /\ drains = [d \in Drains |-> NoDrain]
      /\ late = {} /\ memory = {} /\ saved = {} /\ unsaved = {} /\ offered = {} /\ faults = 0
  BY DEF Init, Relay!Init
<1>2. box = {}
  BY <1>1 DEF box
<1>3. AllFit
  BY <1>1, NoDrainFits DEF AllFit
<1>4. BoxFits
  BY <1>1, <1>2, FS_EmptySet DEF BoxFits, Ids
<1>5. RestFits
  BY <1>1, DrainAssumption DEF RestFits, ChatFits
<1> QED
  BY <1>3, <1>4, <1>5, Parts

LEMMA NextFits == IInv /\ [Next]_vars => IInv'
<1> SUFFICES ASSUME IInv, [Next]_vars PROVE IInv'
  OBVIOUS
<1>1. ASSUME NEW id \in EnvelopeIds, NEW sentAt \in SentAts, NEW expiry \in Relay!GrantedExpiries(now),
             Enqueue(id, sentAt, expiry)
      PROVE  IInv'
  BY <1>1, EnqueueStep
<1>2. CASE Expire \/ RelayRestart \/ \E ids \in late : LateAck(ids)
  BY <1>2, RelayStep
<1>3. ASSUME NEW d \in Drains, Proceed(d) \/ PullFails(d) \/ SaveFails(d) \/ AckTimesOut(d)
      PROVE  IInv'
  BY <1>3, PullStep, ReceiveStep, IngestStep, IngestDuplicateStep, SaveItemStep, AckPageStep, BreakOffStep,
     AckTimesOutStep DEF Proceed
<1>4. CASE (\E d \in Drains : Connected(d)) \/ Reload
  BY <1>4, ConnectedStep
<1>5. CASE UNCHANGED vars
  <2>1. AllFit /\ BoxFits /\ RestFits
    BY Parts
  <2>2. AllFit' /\ BoxFits' /\ RestFits'
    BY <1>5, <2>1 DEF vars, AllFit, BoxFits, RestFits, ChatFits, Acknowledgeable, box
  <2> QED
    BY <2>2, PartsNext
<1> QED
  BY <1>1, <1>2, <1>3, <1>4, <1>5 DEF Next

\* However drains overlap, pages and acknowledgements get lost or come late, the
\* page reloads and the relay restarts: what a device's drains hold, what the
\* mailbox holds and what the device may acknowledge stay in step.
THEOREM DrainInvariant == Spec => []IInv
<1>1. Init => IInv
  BY InitFits
<1>2. IInv /\ [Next]_vars => IInv'
  BY NextFits
<1> QED
  BY <1>1, <1>2, PTL DEF Spec

\* An acknowledgement only names envelopes saved or met in memory, and a walk that
\* reached its end was handed all that was in the mailbox throughout, when no id
\* comes back once it has left the relay.
THEOREM WalkSound == ~CanRepeat => (Spec => []WalkIsSound)
<1>1. IInv /\ ~CanRepeat => WalkIsSound
  BY DEF IInv, WalkIsSound
<1>2. CASE CanRepeat
  BY <1>2
<1>3. CASE ~CanRepeat
  <2>1. IInv => WalkIsSound
    BY <1>1, <1>3
  <2>2. Spec => []WalkIsSound
    BY <2>1, DrainInvariant, PTL
  <2> QED
    BY <2>2
<1> QED
  BY <1>2, <1>3

\* The relay never drops, on a device's word, an envelope the device has neither
\* saved nor met in memory.
THEOREM OnlySaved == Spec => OnlySavedIsDropped
<1> DEFINE Drop == \A e \in box : \/ e \in held'[Me]
                             \/ e.envelopeId \in Acknowledgeable
                             \/ e.expiresAt <= now'
                             \/ RelayRestart
<1>1. IInv /\ [Next]_vars => [Drop]_vars
  <2> SUFFICES ASSUME IInv, Next PROVE Drop
    OBVIOUS
  <2>1. AllFit /\ BoxFits /\ RestFits
    BY Parts
  <2>2. held \in [{Me} -> SUBSET Entry] /\ box \in SUBSET Entry
    BY <2>1 DEF BoxFits, box
  <2>3. ASSUME NEW ids, ids \subseteq Acknowledgeable, Relay!Acknowledge(Me, ids) PROVE Drop
    BY <2>2, <2>3 DEF Relay!Acknowledge, box
  <2>4. CASE UNCHANGED held
    BY <2>4 DEF box
  <2>5. ASSUME NEW id \in EnvelopeIds, NEW sentAt \in SentAts, NEW expiry \in Relay!GrantedExpiries(now),
               Enqueue(id, sentAt, expiry)
        PROVE  Drop
    BY <2>2, <2>5 DEF Enqueue, Relay!Accept, Relay!AcceptAgain, Relay!Refuse, box
  <2>6. CASE Expire
    <3>1. now \in Nat /\ now' = now + 1 /\ held'[Me] = Live(box, now + 1)
      BY <2>1, <2>2, <2>6, Instanced DEF Expire, Relay!Tick, box, RestFits
    <3>2. \A e \in box : e.expiresAt \in Nat
      BY <2>2, EntryFacts
    <3> QED
      BY <3>1, <3>2 DEF Live
  <2>7. CASE RelayRestart
    BY <2>7
  <2>8. ASSUME NEW d \in Drains, AckPage(d) PROVE Drop
    <3>1. drains[d].acking \subseteq Acknowledgeable /\ Relay!Acknowledge(Me, drains[d].acking)
      BY <2>1, <2>8 DEF AllFit, Fits, AckPage
    <3> HIDE DEF Drop
    <3> QED
      BY <3>1, <2>3
  <2>9. ASSUME NEW ids \in late, LateAck(ids) PROVE Drop
    <3>1. ids \subseteq Acknowledgeable /\ Relay!Acknowledge(Me, ids)
      BY <2>1, <2>9 DEF RestFits, LateAck
    <3> HIDE DEF Drop
    <3> QED
      BY <3>1, <2>3
  <2>10. ASSUME NEW d \in Drains, Connected(d) \/ Pull(d) \/ Receive(d) \/ Ingest(d) \/ IngestDuplicate(d)
                                 \/ SaveItem(d) \/ PullFails(d) \/ SaveFails(d) \/ AckTimesOut(d)
         PROVE  UNCHANGED held
    BY <2>10 DEF Connected, Pull, Relay!Read, Receive, Ingest, IngestDuplicate, SaveItem,
                   PullFails, SaveFails, AckTimesOut, relayVars
  <2>11. CASE Reload
    BY <2>11 DEF Reload, relayVars, box
  <2> HIDE DEF Drop
  <2> QED
    BY <2>4, <2>5, <2>6, <2>7, <2>8, <2>9, <2>10, <2>11 DEF Next, Proceed
<1> QED
  BY <1>1, DrainInvariant, PTL DEF Spec, OnlySavedIsDropped
=============================================================================
