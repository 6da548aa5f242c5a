------------------------ MODULE OutboundQueueProofs ------------------------
(***************************************************************************)
(* Proofs about OutboundQueue, for any messages, any number of overlapping *)
(* calls and any limits: the queue and its copy agree at rest, copies of a *)
(* message come only from the user, a message reported as queued is in the *)
(* queue or in hand, and one that is done with has no copy left.           *)
(*                                                                         *)
(* Every step moves copies from place to place.  A step is described by    *)
(* where each of its copies came from (an injection, lemma Moved), so the  *)
(* number of copies is bounded without ever being computed.                *)
(***************************************************************************)
EXTENDS OutboundQueue, SubsequencesProofs, SequenceTheorems

-----------------------------------------------------------------------------
\* What the operators of the model return.

\* An entry that is put back counts another retry, if a tick took it.
LEMMA PushedBackFacts ==
    ASSUME NEW op, NEW item \in Item, op = "tick" => item.retry < MaxRetries
    PROVE  PushedBack(op, item) \in Item /\ PushedBack(op, item).msg = item.msg
BY QueueAssumption DEF PushedBack, Item

\* A pass sends what is left once some first entries are given up; a flush, a
\* send or a retry gives up none, and a tick leaves none that is exhausted.
LEMMA PassFacts ==
    ASSUME NEW op, NEW items \in Seq(Item)
    PROVE  \E n \in 0..Len(items) :
              /\ Remaining(op, items) \in Seq(Item)
              /\ Len(Remaining(op, items)) = Len(items) - n
              /\ \A k \in 1..(Len(items) - n) : Remaining(op, items)[k] = items[n + k]
              /\ \A m : m \in GivenUp(op, items) <=> \E i \in 1..n : items[i].msg = m
              /\ op # "tick" => n = 0
              /\ op = "tick" /\ n < Len(items) => items[n + 1].retry < MaxRetries
<1>1. CASE op # "tick"
  BY <1>1 DEF Remaining, GivenUp
<1>2. CASE op = "tick"
  <2> DEFINE n == Exhausted(items)
             Stops == {k \in 0..Len(items) : k = Len(items) \/ items[k + 1].retry < MaxRetries}
  <2>1. Len(items) \in Stops /\ Stops \in SUBSET Nat
    OBVIOUS
  <2>2. PICK k \in Stops : \A j \in Stops : k <= j
    BY <2>1, LeastNatural
  <2>3. \A i \in 1..k : items[i].retry >= MaxRetries
    <3> SUFFICES ASSUME NEW i \in 1..k PROVE items[i].retry >= MaxRetries
      OBVIOUS
    <3>1. i - 1 \in 0..Len(items) /\ i - 1 \notin Stops
      BY <2>2
    <3>2. ~(items[i].retry < MaxRetries) /\ items[i] \in Item
      BY <3>1
    <3> QED
      BY <3>2, QueueAssumption DEF Item
  <2>4. /\ n \in 0..Len(items)
        /\ \A i \in 1..n : items[i].retry >= MaxRetries
        /\ n < Len(items) => items[n + 1].retry < MaxRetries
    BY <2>2, <2>3 DEF Exhausted
  <2>5. /\ Remaining(op, items) = SubSeq(items, n + 1, Len(items))
        /\ GivenUp(op, items) = MessagesOf(SubSeq(items, 1, n))
    BY <1>2 DEF Remaining, GivenUp
  <2> HIDE DEF n
  <2>6. /\ Remaining(op, items) \in Seq(Item)
        /\ Len(Remaining(op, items)) = Len(items) - n
        /\ \A j \in 1..(Len(items) - n) : Remaining(op, items)[j] = items[n + j]
    <3>1. \A i \in (n + 1)..Len(items) : items[i] \in Item
      BY <2>4
    <3>2. n + 1 \in Int /\ Len(items) \in Int /\ n \in Nat
      BY <2>4
    <3> QED
      BY <2>4, <2>5, <3>1, <3>2, SubSeqProperties
  <2>7. /\ DOMAIN SubSeq(items, 1, n) = 1..n
        /\ \A i \in 1..n : SubSeq(items, 1, n)[i] = items[i]
    BY <2>4
  <2>8. \A m : m \in GivenUp(op, items) <=> \E i \in 1..n : items[i].msg = m
    BY <2>5, <2>7 DEF MessagesOf
  <2> QED
    BY <1>2, <2>4, <2>6, <2>8
<1> QED
  BY <1>1, <1>2

-----------------------------------------------------------------------------
\* The inductive invariant.

\* A first send and a user's retry hold one entry; the entry a tick is sending
\* has a retry left.
InHand ==
    \A w \in Workers :
        /\ work[w].op \in {"send", "retry"} => Len(work[w].todo) = 1
        /\ work[w].op = "tick" => work[w].todo[1].retry < MaxRetries

\* Only a call that took entries out of the queue lets the copy fall behind.
Saved == (\A w \in Workers : work[w].op \in {"idle", "send"}) => persisted = queue

\* A message nobody sent yet is nowhere.
NewIsNowhere ==
    \A m \in Messages : fate[m] = "new" => Copies(m) = {} /\ m \notin MessagesOf(persisted)

\* The copies of a message, and those that a reload would bring back.
Few ==
    \A m \in Messages :
        /\ IsFiniteSet(Copies(m)) /\ Cardinality(Copies(m)) <= 1 + resends
        /\ Cardinality({i \in DOMAIN persisted : persisted[i].msg = m}) <= 1 + resends

\* QueuedIsTracked and SettledIsGone, said of copies.
Tracked == \A m \in Messages : fate[m] = "queued" => Copies(m) # {} \/ m \in cut
Settled(m) == fate[m] \in {"sent", "failed", "unsupported"}
Gone == resends = 0 => \A m \in Messages \ cut : Settled(m) => Copies(m) = {}

Traced == NewIsNowhere /\ Few /\ Tracked /\ Gone
IInv == TypeOK /\ InHand /\ Saved /\ Traced

-----------------------------------------------------------------------------
\* Copies and where they come from.

\* A copy is a place and a position there, in any state.
LEMMA CopiesFacts ==
    ASSUME NEW m
    PROVE  /\ \A c : c \in Copies(m) <=>
                  \E p \in Places : \E i \in DOMAIN Held(p) : Held(p)[i].msg = m /\ c = <<p, i>>
           /\ \A c : c \in Copies(m)' <=>
                  \E p \in Places : \E i \in DOMAIN Held(p)' : Held(p)'[i].msg = m /\ c = <<p, i>>
<1>1. \A c : c \in Copies(m) <=>
          \E p \in Places : \E i \in DOMAIN Held(p) : Held(p)[i].msg = m /\ c = <<p, i>>
  BY DEF Copies, CopiesAt
<1>2. \A c : c \in Copies(m)' <=>
          \E p \in Places : \E i \in DOMAIN Held(p)' : Held(p)'[i].msg = m /\ c = <<p, i>>
  <2>1. Copies(m)' = UNION {CopiesAt(p, m)' : p \in Places}
    BY DEF Copies, Places
  <2>2. \A p \in Places : CopiesAt(p, m)' = {<<p, i>> : i \in {j \in DOMAIN Held(p)' : Held(p)'[j].msg = m}}
    BY DEF CopiesAt
  <2> QED
    BY <2>1, <2>2
<1> QED
  BY <1>1, <1>2

\* To have a copy is to be in the queue or in flight, in any state.
LEMMA CopiesAreHeld ==
    ASSUME NEW m
    PROVE  Copies(m) # {} <=> m \in MessagesOf(queue) \cup InFlight
<1>1. Copies(m) # {} <=> \E p \in Places : \E i \in DOMAIN Held(p) : Held(p)[i].msg = m
  <2>1. Copies(m) # {} <=> \E c : c \in Copies(m)
    OBVIOUS
  <2>2. (\E c : c \in Copies(m)) <=>
            \E c : \E p \in Places : \E i \in DOMAIN Held(p) : Held(p)[i].msg = m /\ c = <<p, i>>
    BY CopiesFacts
  <2> QED
    BY <2>1, <2>2
<1>2. (\E p \in Places : \E i \in DOMAIN Held(p) : Held(p)[i].msg = m)
      <=> \/ \E i \in DOMAIN queue : queue[i].msg = m
          \/ \E w \in Workers : \E i \in DOMAIN work[w].todo : work[w].todo[i].msg = m
  BY QueueAssumption DEF Places, Held
<1> QED
  BY <1>1, <1>2 DEF MessagesOf, InFlight

\* To be open, for the outbox, is to have a copy, in any state.
LEMMA OpenHasCopy ==
    ASSUME NEW m
    PROVE  /\ Copies(m) # {} <=> m \in MessagesOf(queue) \cup InFlight
           /\ Copies(m)' # {} <=> m \in (MessagesOf(queue) \cup InFlight)'
<1>1. Copies(m) # {} <=> m \in MessagesOf(queue) \cup InFlight
  BY CopiesAreHeld
<1>2. (Copies(m) # {} <=> m \in MessagesOf(queue) \cup InFlight)'
  BY <1>1, PTL
<1> QED
  BY <1>1, <1>2

\* Every entry of the next state comes from one of this state's, no two from
\* the same: org[p][i] is the copy that the one at place p, position i was.
Moves(org) ==
    /\ \A p \in Places : \A i \in DOMAIN Held(p)' :
          \E q \in Places : \E j \in DOMAIN Held(q) :
              org[p][i] = <<q, j>> /\ Held(q)[j].msg = Held(p)'[i].msg
    /\ \A p, q \in Places : \A i \in DOMAIN Held(p)' : \A j \in DOMAIN Held(q)' :
          org[p][i] = org[q][j] => p = q /\ i = j

\* The copy c has no successor.
Lost(org, c) == \A p \in Places : \A i \in DOMAIN Held(p)' : org[p][i] # c

\* What only moves does not multiply, and if there was at most one copy and it
\* is lost, none is left.
LEMMA Moved ==
    ASSUME NEW m, NEW org, Moves(org), IsFiniteSet(Copies(m))
    PROVE  /\ IsFiniteSet(Copies(m)')
           /\ Cardinality(Copies(m)') <= Cardinality(Copies(m))
           /\ \A c \in Copies(m) :
                 Cardinality(Copies(m)) <= 1 /\ Lost(org, c) => Copies(m)' = {}
<1> DEFINE A == Copies(m)'
           B == Copies(m)
           f == [c \in A |-> org[c[1]][c[2]]]
<1>1. \A c \in A : \E p \in Places : \E i \in DOMAIN Held(p)' :
          c = <<p, i>> /\ f[c] = org[p][i] /\ f[c] \in B
  <2> SUFFICES ASSUME NEW c \in A
               PROVE  \E p \in Places : \E i \in DOMAIN Held(p)' :
                          c = <<p, i>> /\ f[c] = org[p][i] /\ f[c] \in B
    OBVIOUS
  <2>1. PICK p, i : p \in Places /\ i \in DOMAIN Held(p)' /\ Held(p)'[i].msg = m /\ c = <<p, i>>
    BY CopiesFacts
  <2>2. PICK q, j : q \in Places /\ j \in DOMAIN Held(q) /\ org[p][i] = <<q, j>> /\ Held(q)[j].msg = m
    BY <2>1 DEF Moves
  <2>3. <<q, j>> \in B
    BY <2>2, CopiesFacts
  <2>4. f[c] = org[p][i]
    BY <2>1
  <2> HIDE DEF f, B, A
  <2> QED
    BY <2>1, <2>2, <2>3, <2>4
<1>2. \A c, d \in A : f[c] = f[d] => c = d
  <2> SUFFICES ASSUME NEW c \in A, NEW d \in A, f[c] = f[d] PROVE c = d
    OBVIOUS
  <2>1. PICK p, i : p \in Places /\ i \in DOMAIN Held(p)' /\ c = <<p, i>> /\ f[c] = org[p][i]
    BY <1>1
  <2>2. PICK q, j : q \in Places /\ j \in DOMAIN Held(q)' /\ d = <<q, j>> /\ f[d] = org[q][j]
    BY <1>1
  <2> HIDE DEF f
  <2> QED
    BY <2>1, <2>2 DEF Moves
<1>3. f \in Injection(A, B)
  <2>1. f \in [A -> B]
    BY <1>1
  <2> QED
    BY <1>2, <2>1 DEF Injection, IsInjective
<1>4. IsFiniteSet(A) /\ Cardinality(A) <= Cardinality(B)
  BY <1>3, FS_Injection
<1>5. ASSUME NEW c \in B, Cardinality(B) <= 1, Lost(org, c), NEW d \in A PROVE FALSE
  <2>1. f[d] # c /\ f[d] \in B
    <3>1. PICK p, i : p \in Places /\ i \in DOMAIN Held(p)' /\ d = <<p, i>> /\ f[d] = org[p][i] /\ f[d] \in B
      BY <1>1
    <3> QED
      BY <1>5, <3>1 DEF Lost
  <2> HIDE DEF B, f
  <2>2. IsFiniteSet(B) /\ IsFiniteSet({c}) /\ Cardinality({c}) = 1 /\ {c} \in SUBSET B
    BY FS_Singleton, <1>5 DEF B
  <2>3. Cardinality({c}) <= Cardinality(B) /\ (Cardinality(B) = Cardinality({c}) => B = {c})
    BY <2>2, FS_Subset
  <2>4. Cardinality(B) \in Nat
    BY <2>2, FS_CardinalityType
  <2> QED
    BY <1>5, <2>1, <2>2, <2>3, <2>4
<1> QED
  BY <1>4, <1>5

\* The queue holds no more entries for a message than there are copies of it.
LEMMA QueueHasFew ==
    ASSUME NEW m, IsFiniteSet(Copies(m)')
    PROVE  Cardinality({i \in DOMAIN queue' : queue'[i].msg = m}) <= Cardinality(Copies(m)')
<1> DEFINE A == {i \in DOMAIN queue' : queue'[i].msg = m}
           f == [i \in A |-> <<"queue", i>>]
<1>1. \A i \in A : f[i] \in Copies(m)'
  <2> SUFFICES ASSUME NEW i \in A PROVE <<"queue", i>> \in Copies(m)'
    OBVIOUS
  <2>1. "queue" \in Places /\ i \in DOMAIN Held("queue")' /\ Held("queue")'[i].msg = m
    BY DEF Places, Held
  <2> QED
    BY <2>1, CopiesFacts
<1>2. f \in Injection(A, Copies(m)')
  <2>1. f \in [A -> Copies(m)']
    BY <1>1
  <2> QED
    BY <2>1 DEF Injection, IsInjective
<1> QED
  BY <1>2, FS_Injection

\* A step that only moves copies keeps the invariant on messages if it keeps
\* "new" honest, leaves no queued message without a copy and settles a message
\* only with the loss of a copy.
LEMMA MovesTraced ==
    ASSUME TypeOK, TypeOK', Traced, NEW org, Moves(org),
           resends' = resends, cut' = cut,
           persisted' \in {persisted, queue'},
           \A m \in Messages : fate'[m] = "new" => fate[m] = "new",
           \A m \in Messages :
              fate'[m] = "queued" => Copies(m)' # {} \/ (fate[m] = "queued" /\ Copies(m) = {}),
           \A m \in Messages :
              Settled(m)' => Settled(m) \/ \E c \in Copies(m) : Lost(org, c)
    PROVE  Traced'
<1>1. \A m \in Messages :
          /\ IsFiniteSet(Copies(m)) /\ IsFiniteSet(Copies(m)')
          /\ Cardinality(Copies(m)) <= 1 + resends
          /\ Cardinality(Copies(m)') <= Cardinality(Copies(m))
          /\ Cardinality(Copies(m)) \in Nat /\ Cardinality(Copies(m)') \in Nat
          /\ Copies(m) = {} => Copies(m)' = {}
          /\ \A c \in Copies(m) :
                Cardinality(Copies(m)) <= 1 /\ Lost(org, c) => Copies(m)' = {}
  <2> SUFFICES ASSUME NEW m \in Messages
               PROVE  /\ IsFiniteSet(Copies(m)) /\ IsFiniteSet(Copies(m)')
                      /\ Cardinality(Copies(m)) <= 1 + resends
                      /\ Cardinality(Copies(m)') <= Cardinality(Copies(m))
                      /\ Cardinality(Copies(m)) \in Nat /\ Cardinality(Copies(m)') \in Nat
                      /\ Copies(m) = {} => Copies(m)' = {}
                      /\ \A c \in Copies(m) :
                            Cardinality(Copies(m)) <= 1 /\ Lost(org, c) => Copies(m)' = {}
    OBVIOUS
  <2>1. IsFiniteSet(Copies(m)) /\ Cardinality(Copies(m)) <= 1 + resends
    BY DEF Traced, Few
  <2>2. /\ IsFiniteSet(Copies(m)')
        /\ Cardinality(Copies(m)') <= Cardinality(Copies(m))
        /\ \A c \in Copies(m) :
              Cardinality(Copies(m)) <= 1 /\ Lost(org, c) => Copies(m)' = {}
    BY <2>1, Moved
  <2>3. Cardinality(Copies(m)) \in Nat /\ Cardinality(Copies(m)') \in Nat
    BY <2>1, <2>2, FS_CardinalityType
  <2>4. Copies(m) = {} => Copies(m)' = {}
    <3>1. Copies(m) = {} => Cardinality(Copies(m)) = 0
      BY FS_EmptySet
    <3>2. Cardinality(Copies(m)') = 0 => Copies(m)' = {}
      BY <2>2, FS_EmptySet
    <3> QED
      BY <2>2, <2>3, <3>1, <3>2
  <2> QED
    BY <2>1, <2>2, <2>3, <2>4
<1>2. NewIsNowhere'
  <2> SUFFICES ASSUME NEW m \in Messages, fate'[m] = "new"
               PROVE  Copies(m)' = {} /\ m \notin MessagesOf(persisted)'
    BY DEF NewIsNowhere
  <2>1. Copies(m)' = {} /\ m \notin MessagesOf(persisted)
    BY <1>1 DEF Traced, NewIsNowhere
  <2>2. m \notin MessagesOf(queue')
    BY <2>1, CopiesFacts DEF MessagesOf, Places, Held
  <2> QED
    BY <2>1, <2>2
<1>3. Few'
  <2> SUFFICES ASSUME NEW m \in Messages
               PROVE  /\ IsFiniteSet(Copies(m)') /\ Cardinality(Copies(m)') <= 1 + resends'
                      /\ Cardinality({i \in DOMAIN persisted' : persisted'[i].msg = m}) <= 1 + resends'
    BY DEF Few
  <2>1. resends \in Nat
    BY QueueAssumption DEF TypeOK
  <2>2. IsFiniteSet(Copies(m)') /\ Cardinality(Copies(m)') <= 1 + resends'
    BY <1>1, <2>1
  <2>3. CASE persisted' = persisted
    BY <2>2, <2>3 DEF Traced, Few
  <2>4. CASE persisted' = queue'
    <3>1. Cardinality({i \in DOMAIN queue' : queue'[i].msg = m}) <= Cardinality(Copies(m)')
      BY <2>2, QueueHasFew
    <3>2. {i \in DOMAIN queue' : queue'[i].msg = m} \in SUBSET (1..Len(queue'))
      BY DEF TypeOK
    <3>3. Len(queue') \in Nat /\ IsFiniteSet(1..Len(queue'))
      BY FS_Interval DEF TypeOK
    <3>4. Cardinality({i \in DOMAIN queue' : queue'[i].msg = m}) \in Nat
      BY <3>2, <3>3, FS_Subset, FS_CardinalityType
    <3> QED
      BY <1>1, <2>1, <2>2, <2>4, <3>1, <3>4
  <2> QED
    BY <2>3, <2>4
<1>4. Tracked'
  BY <1>1 DEF Traced, Tracked
<1>5. Gone'
  <2> SUFFICES ASSUME resends = 0, NEW m \in Messages \ cut, Settled(m)' PROVE Copies(m)' = {}
    BY DEF Gone
  <2>1. Settled(m) => Copies(m) = {}
    BY DEF Traced, Gone
  <2> QED
    BY <1>1, <2>1
<1> QED
  BY <1>2, <1>3, <1>4, <1>5 DEF Traced

-----------------------------------------------------------------------------
\* The steps of one call redistribute the queue and what the call holds.

\* Each entry of s comes from the queue or from the hands of w, no two from the
\* same: from[k] is the copy that s[k] was.
From(w, from, s) ==
    /\ \A k \in DOMAIN s : \E p \in {"queue", w} : \E j \in DOMAIN Held(p) :
          from[k] = <<p, j>> /\ Held(p)[j].msg = s[k].msg
    /\ \A j, k \in DOMAIN s : from[j] = from[k] => j = k

\* The call w goes on with items over the queue q, made of the entries a and b.
Redistributes(w, op, a, items, b, q) ==
    /\ From(w, a, items)
    /\ From(w, b, q)
    /\ \A j \in DOMAIN items : \A k \in DOMAIN q : a[j] # b[k]
    /\ queue' = q
    /\ work'[w].todo = Remaining(op, items)
    /\ \A v \in Workers \ {w} : work'[v].todo = work[v].todo

\* The copy c is in neither part.
Left(a, items, b, q, c) == (\A k \in DOMAIN items : a[k] # c) /\ (\A k \in DOMAIN q : b[k] # c)

\* A copy of m was left out.
LeftOut(w, a, items, b, q, m) ==
    \E p \in {"queue", w} : \E j \in DOMAIN Held(p) :
        Held(p)[j].msg = m /\ Left(a, items, b, q, <<p, j>>)

\* Redistributing only moves copies; a message that is given up loses one, a
\* copy that was left out is lost, and any other message with a copy keeps one.
RedistributedBy(org, w, op, a, items, b, q) ==
    /\ Moves(org)
    /\ \A m \in GivenUp(op, items) : \E c \in Copies(m) : Lost(org, c)
    /\ \A p \in {"queue", w} : \A j \in DOMAIN Held(p) :
          Left(a, items, b, q, <<p, j>>) => Lost(org, <<p, j>>)
    /\ \A m : \/ m \in GivenUp(op, items)
              \/ LeftOut(w, a, items, b, q, m)
              \/ Copies(m) # {} => Copies(m)' # {}

\* What that means is what a redistribution does.
LEMMA RedistributeMoves ==
    ASSUME TypeOK, NEW w \in Workers, NEW op, NEW items \in Seq(Item), NEW q \in Seq(Item),
           NEW a, NEW b, Redistributes(w, op, a, items, b, q)
    PROVE  \E org : RedistributedBy(org, w, op, a, items, b, q)
<1>a. PICK n \in 0..Len(items) :
          /\ Remaining(op, items) \in Seq(Item)
          /\ Len(Remaining(op, items)) = Len(items) - n
          /\ \A k \in 1..(Len(items) - n) : Remaining(op, items)[k] = items[n + k]
          /\ \A m : m \in GivenUp(op, items) <=> \E i \in 1..n : items[i].msg = m
          /\ op # "tick" => n = 0
          /\ op = "tick" /\ n < Len(items) => items[n + 1].retry < MaxRetries
  BY PassFacts
<1> DEFINE rest == Remaining(op, items)
<1>1. /\ rest \in Seq(Item)
      /\ Len(rest) = Len(items) - n
      /\ \A k \in 1..(Len(items) - n) : rest[k] = items[n + k]
      /\ \A m : m \in GivenUp(op, items) <=> \E i \in 1..n : items[i].msg = m
  BY <1>a
<1> HIDE DEF rest
<1> DEFINE org == [p \in Places |-> [i \in Nat |->
                     IF p = "queue" THEN b[i] ELSE IF p = w THEN a[n + i] ELSE <<p, i>>]]
<1>2. \A p \in Places : \A i \in Nat :
          org[p][i] = IF p = "queue" THEN b[i] ELSE IF p = w THEN a[n + i] ELSE <<p, i>>
  OBVIOUS
<1> HIDE DEF org
<1>3. /\ w # "queue" /\ w \in Places /\ "queue" \in Places
      /\ Held("queue")' = q
      /\ Held(w)' = rest
      /\ \A p \in Places \ {"queue", w} : Held(p)' = Held(p) /\ p \in Workers
      /\ \A p \in Places : Held(p) \in Seq(Item) /\ Held(p)' \in Seq(Item)
      /\ \A p \in Places : DOMAIN Held(p)' \subseteq Nat
  <2>1. w # "queue" /\ w \in Places /\ "queue" \in Places
    BY QueueAssumption DEF Places
  <2>2. Held("queue")' = q /\ Held(w)' = rest
    BY <2>1 DEF Held, Redistributes, rest
  <2>3. ASSUME NEW p \in Places \ {"queue", w} PROVE Held(p)' = Held(p) /\ p \in Workers
    BY <2>3 DEF Places, Held, Redistributes
  <2>4. ASSUME NEW p \in Places PROVE Held(p) \in Seq(Item)
    BY <2>4 DEF Places, Held, TypeOK
  <2>5. ASSUME NEW p \in Places PROVE Held(p)' \in Seq(Item)
    <3>1. CASE p \in {"queue", w}
      BY <1>1, <2>2, <3>1
    <3>2. CASE p \notin {"queue", w}
      BY <2>3, <2>4, <3>2
    <3> QED
      BY <3>1, <3>2
  <2>6. ASSUME NEW p \in Places PROVE DOMAIN Held(p)' \subseteq Nat
    BY <2>5
  <2> QED
    BY <2>1, <2>2, <2>3, <2>4, <2>5, <2>6
<1>4. /\ DOMAIN rest = 1..(Len(items) - n) /\ DOMAIN items = 1..Len(items)
      /\ \A k \in DOMAIN rest : n + k \in DOMAIN items /\ rest[k] = items[n + k]
      /\ n \in Nat /\ Len(items) \in Nat
  <2>1. /\ DOMAIN rest = 1..(Len(items) - n) /\ DOMAIN items = 1..Len(items)
        /\ n \in Nat /\ Len(items) \in Nat
    BY <1>1
  <2>2. \A k \in 1..(Len(items) - n) : n + k \in 1..Len(items)
    BY <2>1
  <2> QED
    BY <1>1, <2>1, <2>2
<1>5. \A i \in DOMAIN q : i \in Nat /\ org["queue"][i] = b[i]
  BY <1>2, <1>3
<1>6. \A i \in DOMAIN rest : i \in Nat /\ org[w][i] = a[n + i]
  BY <1>2, <1>3, <1>4
<1>7. \A p \in Places \ {"queue", w} : \A i \in DOMAIN Held(p) : i \in Nat /\ org[p][i] = <<p, i>>
  BY <1>2, <1>3
<1>8. Moves(org)
  <2>1. ASSUME NEW p \in Places, NEW i \in DOMAIN Held(p)'
        PROVE  \E r \in Places : \E j \in DOMAIN Held(r) :
                  org[p][i] = <<r, j>> /\ Held(r)[j].msg = Held(p)'[i].msg
    <3>1. CASE p = "queue"
      <4>1. i \in DOMAIN q /\ Held(p)'[i] = q[i] /\ org[p][i] = b[i]
        BY <1>3, <1>5, <2>1, <3>1
      <4>2. PICK r, j : r \in {"queue", w} /\ j \in DOMAIN Held(r) /\ b[i] = <<r, j>> /\ Held(r)[j].msg = q[i].msg
        BY <4>1 DEF Redistributes, From
      <4>3. r \in Places
        BY <1>3, <4>2
      <4> QED
        BY <4>1, <4>2, <4>3
    <3>2. CASE p = w
      <4>1. i \in DOMAIN rest /\ n + i \in DOMAIN items /\ Held(p)'[i] = items[n + i] /\ org[p][i] = a[n + i]
        BY <1>3, <1>4, <1>6, <2>1, <3>2
      <4>2. PICK r, j : /\ r \in {"queue", w} /\ j \in DOMAIN Held(r)
                        /\ a[n + i] = <<r, j>> /\ Held(r)[j].msg = items[n + i].msg
        BY <4>1 DEF Redistributes, From
      <4>3. r \in Places
        BY <1>3, <4>2
      <4> QED
        BY <4>1, <4>2, <4>3
    <3>3. CASE p \notin {"queue", w}
      BY <1>3, <1>7, <2>1, <3>3
    <3> QED
      BY <3>1, <3>2, <3>3
  <2>2. ASSUME NEW p \in Places, NEW r \in Places,
               NEW i \in DOMAIN Held(p)', NEW j \in DOMAIN Held(r)', org[p][i] = org[r][j]
        PROVE  p = r /\ i = j
    <3>1. \A k \in DOMAIN q : \E t \in {"queue", w} : \E l : org["queue"][k] = <<t, l>>
      BY <1>5 DEF Redistributes, From
    <3>2. \A k \in DOMAIN rest : \E t \in {"queue", w} : \E l : org[w][k] = <<t, l>>
      BY <1>4, <1>6 DEF Redistributes, From
    <3>3. \A k \in DOMAIN q : \A l \in DOMAIN q : org["queue"][k] = org["queue"][l] => k = l
      BY <1>5 DEF Redistributes, From
    <3>4. \A k \in DOMAIN rest : \A l \in DOMAIN rest : org[w][k] = org[w][l] => k = l
      <4> SUFFICES ASSUME NEW k \in DOMAIN rest, NEW l \in DOMAIN rest, org[w][k] = org[w][l]
                   PROVE  k = l
        OBVIOUS
      <4>1. n + k = n + l
        BY <1>4, <1>6 DEF Redistributes, From
      <4> QED
        BY <1>4, <4>1
    <3>5. \A k \in DOMAIN q : \A l \in DOMAIN rest : org["queue"][k] # org[w][l]
      BY <1>4, <1>5, <1>6 DEF Redistributes
    <3>6. CASE p \in {"queue", w} /\ r \in {"queue", w}
      BY <1>3, <2>2, <3>3, <3>4, <3>5, <3>6
    <3>a. \A t \in {"queue", w} : \A k \in DOMAIN Held(t)' : \E u \in {"queue", w} : \E l : org[t][k] = <<u, l>>
      BY <1>3, <3>1, <3>2
    <3>b. \A t \in Places \ {"queue", w} : \A k \in DOMAIN Held(t)' : org[t][k] = <<t, k>>
      BY <1>3, <1>7
    <3>7. CASE p \notin {"queue", w} \/ r \notin {"queue", w}
      <4>1. CASE p \notin {"queue", w} /\ r \notin {"queue", w}
        BY <2>2, <3>b, <4>1
      <4>2. CASE p \in {"queue", w} /\ r \notin {"queue", w}
        <5>1. PICK u, l : u \in {"queue", w} /\ org[p][i] = <<u, l>>
          BY <2>2, <3>a, <4>2
        <5>2. org[r][j] = <<r, j>>
          BY <2>2, <3>b, <4>2
        <5> QED
          <6>1. <<u, l>> = <<r, j>>
            BY <2>2, <5>1, <5>2
          <6> QED
            BY <4>2, <5>1, <6>1
      <4>3. CASE p \notin {"queue", w} /\ r \in {"queue", w}
        <5>1. PICK u, l : u \in {"queue", w} /\ org[r][j] = <<u, l>>
          BY <2>2, <3>a, <4>3
        <5>2. org[p][i] = <<p, i>>
          BY <2>2, <3>b, <4>3
        <5> QED
          BY <2>2, <4>3, <5>1, <5>2
      <4> QED
        BY <3>7, <4>1, <4>2, <4>3
    <3> QED
      BY <3>6, <3>7
  <2> QED
    BY <2>1, <2>2 DEF Moves
<1>9. ASSUME NEW p \in {"queue", w}, NEW j \in DOMAIN Held(p),
             \A k \in DOMAIN q : b[k] # <<p, j>>,
             \A k \in DOMAIN rest : a[n + k] # <<p, j>>
      PROVE  Lost(org, <<p, j>>)
  <2> SUFFICES ASSUME NEW r \in Places, NEW i \in DOMAIN Held(r)' PROVE org[r][i] # <<p, j>>
    BY DEF Lost
  <2>1. CASE r = "queue"
    BY <1>3, <1>5, <1>9, <2>1
  <2>2. CASE r = w
    BY <1>3, <1>6, <1>9, <2>2
  <2>3. CASE r \notin {"queue", w}
    <3>1. org[r][i] = <<r, i>>
      BY <1>3, <1>7, <2>3
    <3> QED
      BY <2>3, <3>1
  <2> QED
    BY <2>1, <2>2, <2>3
<1>10. ASSUME NEW m \in GivenUp(op, items) PROVE \E c \in Copies(m) : Lost(org, c)
  <2>1. PICK i \in 1..n : items[i].msg = m
    BY <1>1
  <2>2. i \in DOMAIN items
    BY <1>4
  <2>3. PICK p, j : p \in {"queue", w} /\ j \in DOMAIN Held(p) /\ a[i] = <<p, j>> /\ Held(p)[j].msg = m
    BY <2>1, <2>2 DEF Redistributes, From
  <2>4. <<p, j>> \in Copies(m)
    BY <1>3, <2>3, CopiesFacts
  <2>5. \A k \in DOMAIN q : b[k] # <<p, j>>
    BY <2>2, <2>3 DEF Redistributes
  <2>6. \A k \in DOMAIN rest : n + k # i
    BY <1>4
  <2>7. \A k \in DOMAIN rest : a[n + k] # <<p, j>>
    <3>1. \A k \in DOMAIN items : a[k] = a[i] => k = i
      BY <2>2 DEF Redistributes, From
    <3> QED
      BY <1>4, <2>3, <2>6, <3>1
  <2> QED
    BY <1>9, <2>3, <2>4, <2>5, <2>7
<1>11. ASSUME NEW p \in {"queue", w}, NEW j \in DOMAIN Held(p), Left(a, items, b, q, <<p, j>>)
       PROVE  Lost(org, <<p, j>>)
  BY <1>4, <1>9, <1>11 DEF Left
<1>12. ASSUME NEW m, m \notin GivenUp(op, items), Copies(m) # {},
              \A p \in {"queue", w} : \A j \in DOMAIN Held(p) :
                  Held(p)[j].msg = m => ~Left(a, items, b, q, <<p, j>>)
       PROVE  Copies(m)' # {}
  <2>1. PICK p, j : p \in Places /\ j \in DOMAIN Held(p) /\ Held(p)[j].msg = m
    BY <1>12, CopiesFacts
  <2>2. CASE p \notin {"queue", w}
    <3>1. j \in DOMAIN Held(p)' /\ Held(p)'[j].msg = m
      BY <1>3, <2>1, <2>2
    <3>2. <<p, j>> \in Copies(m)'
      BY <2>1, <3>1, CopiesFacts
    <3> QED
      BY <3>2
  <2>3. CASE p \in {"queue", w}
    <3>1. ~Left(a, items, b, q, <<p, j>>)
      BY <1>12, <2>1, <2>3
    <3>2. CASE \E k \in DOMAIN q : b[k] = <<p, j>>
      <4>1. PICK k \in DOMAIN q : b[k] = <<p, j>>
        BY <3>2
      <4>2. q[k].msg = m
        <5>1. PICK t, l : t \in {"queue", w} /\ b[k] = <<t, l>> /\ Held(t)[l].msg = q[k].msg
          BY DEF Redistributes, From
        <5> QED
          BY <2>1, <4>1, <5>1
      <4>3. <<"queue", k>> \in Copies(m)'
        BY <1>3, <4>2, CopiesFacts
      <4> QED
        BY <4>3
    <3>3. CASE \E k \in DOMAIN items : a[k] = <<p, j>>
      <4>1. PICK k \in DOMAIN items : a[k] = <<p, j>>
        BY <3>3
      <4>2. items[k].msg = m
        <5>1. PICK t, l : t \in {"queue", w} /\ a[k] = <<t, l>> /\ Held(t)[l].msg = items[k].msg
          BY DEF Redistributes, From
        <5> QED
          BY <2>1, <4>1, <5>1
      <4>3. k - n \in DOMAIN rest /\ rest[k - n] = items[k]
        BY <1>1, <1>4, <1>12, <4>2
      <4>4. <<w, k - n>> \in Copies(m)'
        BY <1>3, <4>2, <4>3, CopiesFacts
      <4> QED
        BY <4>4
    <3> QED
      BY <3>1, <3>2, <3>3 DEF Left
  <2> QED
    BY <2>2, <2>3
<1> QED
  BY <1>8, <1>10, <1>11, <1>12 DEF RedistributedBy, LeftOut

\* What the step reports as queued has a copy, what it settles loses one, and
\* what loses one is settled; it says something new only of what it works on.
Reports(w, op, a, items, b, q) ==
    \A m \in Messages :
        /\ fate'[m] = "new" => fate[m] = "new"
        /\ fate'[m] = "queued" =>
              \/ m \in MessagesOf(queue')
              \/ /\ fate[m] = "queued" /\ m \notin GivenUp(op, items)
                 /\ ~LeftOut(w, a, items, b, q, m)
        /\ Settled(m)' =>
              Settled(m) \/ m \in GivenUp(op, items) \/ LeftOut(w, a, items, b, q, m)
        /\ m \in GivenUp(op, items) \/ LeftOut(w, a, items, b, q, m) =>
              Settled(m)' \/ m \in MessagesOf(queue')
        /\ fate'[m] # fate[m] =>
              /\ fate[m] # "sent"
              /\ Settled(m)' \/ fate'[m] = "queued"
              /\ \/ m \in GivenUp(op, items) \/ LeftOut(w, a, items, b, q, m)
                 \/ m \in MessagesOf(queue')

\* A message that had no copy gets none by moving.
LEMMA NoneMoved ==
    ASSUME NEW m, NEW org, Moves(org), Copies(m) = {}
    PROVE  Copies(m)' = {}
<1> SUFFICES ASSUME NEW c \in Copies(m)' PROVE FALSE
  OBVIOUS
<1>1. PICK p, i : p \in Places /\ i \in DOMAIN Held(p)' /\ Held(p)'[i].msg = m
  BY CopiesFacts
<1>2. PICK r, j : r \in Places /\ j \in DOMAIN Held(r) /\ Held(r)[j].msg = m
  BY <1>1 DEF Moves
<1>3. <<r, j>> \in Copies(m)
  BY <1>2, CopiesFacts
<1> QED
  BY <1>3

\* A call's step is, for the outbox, work on what is open.
LEMMA RedistributeWorks ==
    ASSUME TypeOK, TypeOK', Traced', NEW w \in Workers, NEW op,
           NEW items \in Seq(Item), NEW q \in Seq(Item), NEW a, NEW b,
           Redistributes(w, op, a, items, b, q),
           resends' = resends, cut' = cut,
           Reports(w, op, a, items, b, q)
    PROVE  Outbox!Work
<1> DEFINE touched(m) == m \in GivenUp(op, items) \/ LeftOut(w, a, items, b, q, m)
           open == MessagesOf(queue) \cup InFlight
<1>1. PICK org : RedistributedBy(org, w, op, a, items, b, q)
  BY RedistributeMoves
<1>2. /\ Moves(org)
      /\ \A m \in GivenUp(op, items) : \E c \in Copies(m) : Lost(org, c)
      /\ \A m : touched(m) \/ (Copies(m) # {} => Copies(m)' # {})
  BY <1>1 DEF RedistributedBy
<1>3. \A m : touched(m) => m \in open
  <2> SUFFICES ASSUME NEW m, touched(m) PROVE m \in open
    OBVIOUS
  <2>1. CASE m \in GivenUp(op, items)
    BY <1>2, <2>1, OpenHasCopy
  <2>2. CASE LeftOut(w, a, items, b, q, m)
    <3>1. PICK p, j : p \in {"queue", w} /\ j \in DOMAIN Held(p) /\ Held(p)[j].msg = m
      BY <2>2 DEF LeftOut
    <3>2. <<p, j>> \in Copies(m)
      BY <3>1, CopiesFacts DEF Places
    <3> QED
      BY <3>2, OpenHasCopy
  <2> QED
    BY <2>1, <2>2
<1>4. \A m : m \in open' => m \in open
  BY <1>2, NoneMoved, OpenHasCopy
<1>5. \A m : m \in MessagesOf(queue') => m \in open'
  OBVIOUS
<1>6. \A m : m \in open /\ m \notin open' => touched(m)
  BY <1>2, OpenHasCopy
<1>7. \A m : m \in open => m \in Messages
  <2>1. \A i \in DOMAIN queue : queue[i] \in Item
    BY DEF TypeOK
  <2>2. \A v \in Workers : \A i \in DOMAIN work[v].todo : work[v].todo[i] \in Item
    BY DEF TypeOK
  <2>3. \A item \in Item : item.msg \in Messages
    BY DEF Item
  <2> QED
    BY <2>1, <2>2, <2>3 DEF MessagesOf, InFlight
<1>8. \A m \in Messages :
          /\ touched(m) => Settled(m)' \/ m \in MessagesOf(queue')
          /\ fate'[m] # fate[m] =>
                /\ fate[m] # "sent" /\ (Settled(m)' \/ fate'[m] = "queued")
                /\ touched(m) \/ m \in MessagesOf(queue')
  BY DEF Reports
<1>9. \A m : m \in open' /\ m \notin cut /\ m \in Messages /\ resends = 0 => ~Settled(m)'
  BY OpenHasCopy DEF Traced, Gone
<1> HIDE DEF touched, open
<1>10. \A m : Settled(m)' <=> fate'[m] \in Outbox!Settled
  BY DEF Settled, Outbox!Settled
<1>11. open' \subseteq open
  BY <1>4
<1>12. \A m \in open \ open' : fate'[m] \in Outbox!Settled
  BY <1>5, <1>6, <1>7, <1>8, <1>10
<1>13. \A m \in Messages :
           fate'[m] = fate[m] \/ (m \in open /\ fate[m] # "sent" /\ fate'[m] \in Outbox!Settled \cup {"queued"})
  BY <1>3, <1>4, <1>5, <1>8, <1>10
<1>14. resends = 0 => \A m \in open' \ cut : fate'[m] \notin Outbox!Settled
  BY <1>4, <1>7, <1>9, <1>10
<1>15. fate' \in [Messages -> Outbox!Fates]
  <2>1. Fates = Outbox!Fates
    BY DEF Fates, Outbox!Fates, Outbox!Settled
  <2> QED
    BY <2>1 DEF TypeOK
<1> QED
  BY <1>11, <1>12, <1>13, <1>14, <1>15 DEF Outbox!Work, Outbox!Resolved, open

\* A call's step keeps the invariant on messages, and is work on what is open.
LEMMA RedistributeKeeps ==
    ASSUME TypeOK, TypeOK', Traced, NEW w \in Workers, NEW op,
           NEW items \in Seq(Item), NEW q \in Seq(Item), NEW a, NEW b,
           Redistributes(w, op, a, items, b, q),
           resends' = resends, cut' = cut, persisted' \in {persisted, queue'},
           Reports(w, op, a, items, b, q)
    PROVE  Traced' /\ Outbox!Work
<1>1. PICK org : RedistributedBy(org, w, op, a, items, b, q)
  BY RedistributeMoves
<1>2. \A m : m \in MessagesOf(queue') => Copies(m)' # {}
  <2> SUFFICES ASSUME NEW m, m \in MessagesOf(queue') PROVE Copies(m)' # {}
    OBVIOUS
  <2>1. PICK i \in DOMAIN queue' : queue'[i].msg = m
    BY DEF MessagesOf
  <2>2. "queue" \in Places /\ Held("queue")' = queue'
    BY DEF Places, Held
  <2>3. <<"queue", i>> \in Copies(m)'
    BY <2>1, <2>2, CopiesFacts
  <2> QED
    BY <2>3
<1>3. \A m \in Messages :
          fate'[m] = "queued" => Copies(m)' # {} \/ (fate[m] = "queued" /\ Copies(m) = {})
  <2> SUFFICES ASSUME NEW m \in Messages, fate'[m] = "queued", Copies(m)' = {}
               PROVE  fate[m] = "queued" /\ Copies(m) = {}
    OBVIOUS
  <2>1. m \notin MessagesOf(queue')
    BY <1>2
  <2>2. fate[m] = "queued" /\ m \notin GivenUp(op, items) /\ ~LeftOut(w, a, items, b, q, m)
    BY <2>1 DEF Reports
  <2>3. Copies(m) # {} => Copies(m)' # {}
    BY <1>1, <2>2 DEF RedistributedBy
  <2> QED
    BY <2>2, <2>3
<1>4. \A m \in Messages : Settled(m)' => Settled(m) \/ \E c \in Copies(m) : Lost(org, c)
  <2> SUFFICES ASSUME NEW m \in Messages, Settled(m)', ~Settled(m), m \notin GivenUp(op, items)
               PROVE  \E c \in Copies(m) : Lost(org, c)
    BY <1>1 DEF RedistributedBy, Reports
  <2>1. PICK p, j : /\ p \in {"queue", w} /\ j \in DOMAIN Held(p)
                    /\ Held(p)[j].msg = m /\ Left(a, items, b, q, <<p, j>>)
    BY DEF LeftOut, Reports
  <2>2. <<p, j>> \in Copies(m)
    BY <2>1, CopiesFacts DEF Places
  <2> QED
    BY <1>1, <2>1, <2>2 DEF RedistributedBy
<1>5. Moves(org)
  BY <1>1 DEF RedistributedBy
<1>6. \A m \in Messages : fate'[m] = "new" => fate[m] = "new"
  BY DEF Reports
<1>7. Traced'
  BY <1>3, <1>4, <1>5, <1>6, MovesTraced
<1> QED
  BY <1>7, RedistributeWorks

\* A pass that goes on leaves a well-formed state; it saves the queue when it ends.
LEMMA ProceedShape ==
    ASSUME TypeOK, InHand, NEW w \in Workers, NEW op \in Ops \ {"idle", "send"},
           NEW items \in Seq(Item), NEW q \in Seq(Item), NEW f \in [Messages -> Fates],
           op \in {"flush", "tick"} \/ items = <<>>,
           Proceed(w, op, items, q, f), UNCHANGED <<phase, resends, cut>>
    PROVE  /\ TypeOK' /\ InHand' /\ Saved'
           /\ queue' = q
           /\ work'[w].todo = Remaining(op, items)
           /\ \A v \in Workers \ {w} : work'[v].todo = work[v].todo
           /\ persisted' \in {persisted, queue'}
           /\ fate' = Failing(f, GivenUp(op, items))
<1>1. PICK n \in 0..Len(items) :
          /\ Remaining(op, items) \in Seq(Item)
          /\ Len(Remaining(op, items)) = Len(items) - n
          /\ \A k \in 1..(Len(items) - n) : Remaining(op, items)[k] = items[n + k]
          /\ \A m : m \in GivenUp(op, items) <=> \E i \in 1..n : items[i].msg = m
          /\ op # "tick" => n = 0
          /\ op = "tick" /\ n < Len(items) => items[n + 1].retry < MaxRetries
  BY PassFacts
<1> DEFINE rest == Remaining(op, items)
           next == IF rest = <<>> THEN Idle ELSE Busy(op, rest)
<1>2. /\ queue' = q
      /\ fate' = Failing(f, GivenUp(op, items))
      /\ work' = [work EXCEPT ![w] = next]
      /\ persisted' = IF rest = <<>> THEN q ELSE persisted
  BY DEF Proceed
<1>3. items = <<>> => rest = <<>>
  BY <1>1
<1>4. op = "tick" /\ rest # <<>> => rest[1].retry < MaxRetries
  BY <1>1
<1>5. rest \in Seq(Item)
  BY <1>1
<1> HIDE DEF rest
<1>6. /\ next \in [op : Ops, todo : Seq(Item), up : BOOLEAN]
      /\ next.todo = rest /\ (rest = <<>> <=> next.op = "idle")
      /\ next.op \in {"idle", op}
  BY <1>5 DEF Idle, Busy, Ops
<1> HIDE DEF next
<1>7. work'[w] = next /\ \A v \in Workers \ {w} : work'[v] = work[v]
  BY <1>2 DEF TypeOK
<1>8. fate' \in [Messages -> Fates]
  BY <1>2 DEF Failing, Fates
<1>9. TypeOK'
  BY <1>2, <1>6, <1>7, <1>8 DEF TypeOK
<1>10. InHand'
  BY <1>3, <1>4, <1>6, <1>7 DEF InHand
<1>11. Saved'
  BY <1>2, <1>6, <1>7 DEF Saved
<1> QED
  BY <1>2, <1>6, <1>7, <1>9, <1>10, <1>11 DEF rest

-----------------------------------------------------------------------------
\* Every step preserves the invariant.

\* What an idle call holds, and a busy one.
LEMMA HandFacts ==
    ASSUME TypeOK, NEW w \in Workers
    PROVE  /\ w # "queue" /\ Held(w) = work[w].todo /\ Held("queue") = queue
           /\ work[w].todo \in Seq(Item) /\ queue \in Seq(Item)
           /\ work[w] = Idle => work[w].todo = <<>> /\ work[w].op = "idle"
           /\ work[w].op # "idle" =>
                 /\ work[w].todo # <<>> /\ Head(work[w].todo) = work[w].todo[1]
                 /\ Head(work[w].todo) \in Item /\ 1 \in DOMAIN work[w].todo
                 /\ Tail(work[w].todo) \in Seq(Item)
                 /\ \A k \in DOMAIN Tail(work[w].todo) :
                       k + 1 \in DOMAIN work[w].todo /\ Tail(work[w].todo)[k] = work[w].todo[k + 1]
                 /\ \A k \in DOMAIN work[w].todo \ {1} : k - 1 \in DOMAIN Tail(work[w].todo)
<1>1. w # "queue" /\ Held(w) = work[w].todo /\ Held("queue") = queue
  BY QueueAssumption DEF Held
<1>2. work[w].todo \in Seq(Item) /\ queue \in Seq(Item)
  BY DEF TypeOK
<1>3. work[w] = Idle => work[w].todo = <<>> /\ work[w].op = "idle"
  BY DEF Idle
<1>4. work[w].op # "idle" => work[w].todo # <<>>
  BY DEF TypeOK
<1>5. \A s \in Seq(Item) : s # <<>> =>
          /\ Head(s) = s[1] /\ Head(s) \in Item /\ 1 \in DOMAIN s
          /\ Tail(s) \in Seq(Item)
          /\ \A k \in DOMAIN Tail(s) : k + 1 \in DOMAIN s /\ Tail(s)[k] = s[k + 1]
          /\ \A k \in DOMAIN s \ {1} : k - 1 \in DOMAIN Tail(s)
  OBVIOUS
<1> QED
  BY <1>1, <1>2, <1>3, <1>4, <1>5

\* The state before any send is queued.
LEMMA InitInv == Init => IInv
<1> SUFFICES ASSUME Init PROVE IInv
  OBVIOUS
<1>1. TypeOK
  BY QueueAssumption DEF Init, TypeOK, Idle, Ops, Phases, Fates
<1>2. InHand /\ Saved
  BY DEF Init, InHand, Saved, Idle
<1>3. \A m : Copies(m) = {}
  BY CopiesFacts, QueueAssumption DEF Init, Places, Held, Idle
<1>4. \A m : m \notin MessagesOf(persisted) /\ {i \in DOMAIN persisted : persisted[i].msg = m} = {}
  BY DEF Init, MessagesOf
<1>5. NewIsNowhere
  BY <1>3, <1>4 DEF NewIsNowhere
<1>6. Few
  BY <1>3, <1>4, FS_EmptySet DEF Few, Init
<1>7. Tracked /\ Gone
  BY <1>3 DEF Tracked, Gone, Init, Settled
<1> QED
  BY <1>1, <1>2, <1>5, <1>6, <1>7 DEF IInv, Traced

\* Taking all of the queue into the hands of a flush.
LEMMA FlushInv ==
    ASSUME IInv, NEW w \in Workers, Flush(w) \/ Ready(w)
    PROVE  IInv' /\ Outbox!Work
<1> DEFINE a == [k \in DOMAIN queue |-> <<"queue", k>>]
<1>1. TypeOK /\ InHand /\ Saved /\ Traced
  BY DEF IInv
<1>2. work[w].todo = <<>> /\ work[w].op = "idle" /\ queue \in Seq(Item) /\ Held("queue") = queue /\ Held(w) = <<>>
  BY <1>1, HandFacts DEF Flush, Ready
<1>3. /\ queue' = <<>> /\ persisted' = persisted /\ fate' = fate /\ resends' = resends /\ cut' = cut
      /\ phase' \in Phases
      /\ work' = IF queue = <<>> THEN work ELSE [work EXCEPT ![w] = Busy("flush", queue)]
  BY <1>1 DEF Flush, Ready, TypeOK, Phases
<1>4. work'[w].todo = queue /\ \A v \in Workers \ {w} : work'[v] = work[v]
  BY <1>1, <1>2, <1>3 DEF Busy, TypeOK
<1>5. queue # <<>> => work'[w].op = "flush"
  BY <1>1, <1>3 DEF Busy, TypeOK
<1>6. TypeOK'
  BY <1>1, <1>2, <1>3 DEF TypeOK, Busy, Ops
<1>7. InHand' /\ Saved'
  BY <1>1, <1>2, <1>3, <1>4, <1>5 DEF InHand, Saved
<1>8. Remaining("flush", queue) = queue /\ GivenUp("flush", queue) = {}
  BY DEF Remaining, GivenUp
<1>9. From(w, a, queue) /\ From(w, <<>>, <<>>)
  BY <1>2 DEF From
<1>10. Redistributes(w, "flush", a, queue, <<>>, <<>>)
  BY <1>3, <1>4, <1>8, <1>9 DEF Redistributes
<1>11. \A m : ~LeftOut(w, a, queue, <<>>, <<>>, m)
  BY <1>2 DEF LeftOut, Left
<1> HIDE DEF a
<1>12. Reports(w, "flush", a, queue, <<>>, <<>>)
  BY <1>3, <1>8, <1>11 DEF Reports, Settled
<1>13. Traced' /\ Outbox!Work
  <2>1. <<>> \in Seq(Item) /\ persisted' \in {persisted, queue'} /\ resends' = resends /\ cut' = cut
    BY <1>3
  <2> QED
    BY <1>1, <1>2, <1>6, <1>10, <1>12, <2>1, RedistributeKeeps
<1> QED
  BY <1>6, <1>7, <1>13 DEF IInv

\* Removing the entry at i.
LEMMA RemoveFacts ==
    ASSUME NEW s \in Seq(Item), NEW i \in DOMAIN s
    PROVE  LET q == SubSeq(s, 1, i - 1) \o SubSeq(s, i + 1, Len(s))
           IN  /\ q \in Seq(Item)
               /\ Len(q) = Len(s) - 1
               /\ \A k \in DOMAIN q :
                     LET j == IF k < i THEN k ELSE k + 1
                     IN  j \in DOMAIN s /\ j # i /\ q[k] = s[j]
<1> DEFINE b == SubSeq(s, 1, i - 1)
           c == SubSeq(s, i + 1, Len(s))
           q == b \o c
<1>1. i \in 1..Len(s) /\ Len(s) \in Nat
  OBVIOUS
<1>2. b \in Seq(Item) /\ Len(b) = i - 1 /\ \A k \in 1..(i - 1) : b[k] = s[k]
  <2>1. \A k \in 1..(i - 1) : s[k] \in Item
    BY <1>1
  <2> QED
    BY <1>1, <2>1, SubSeqProperties
<1>3. c \in Seq(Item) /\ Len(c) = Len(s) - i /\ \A k \in 1..(Len(s) - i) : c[k] = s[i + k]
  <2>1. \A k \in (i + 1)..Len(s) : s[k] \in Item
    BY <1>1
  <2> QED
    BY <1>1, <2>1, SubSeqProperties
<1> HIDE DEF b, c
<1>4. /\ q \in Seq(Item) /\ Len(q) = Len(b) + Len(c)
      /\ \A k \in 1..(Len(b) + Len(c)) : q[k] = IF k <= Len(b) THEN b[k] ELSE c[k - Len(b)]
  BY <1>2, <1>3, ConcatProperties
<1> HIDE DEF q
<1>5. Len(q) = Len(s) - 1 /\ DOMAIN q = 1..(Len(s) - 1) /\ DOMAIN s = 1..Len(s)
  BY <1>1, <1>2, <1>3, <1>4
<1>6. ASSUME NEW k \in DOMAIN q
      PROVE  LET j == IF k < i THEN k ELSE k + 1
             IN  j \in DOMAIN s /\ j # i /\ q[k] = s[j]
  <2>1. k \in 1..(Len(s) - 1)
    BY <1>5
  <2>2. CASE k < i
    <3>1. k \in 1..(i - 1) /\ k <= Len(b)
      BY <1>1, <1>2, <2>1, <2>2
    <3>2. k \in 1..(Len(b) + Len(c))
      BY <1>1, <1>2, <1>3, <2>1
    <3>3. q[k] = b[k]
      BY <1>4, <3>1, <3>2
    <3>4. q[k] = s[k]
      BY <1>2, <3>1, <3>3
    <3>5. k \in DOMAIN s /\ k # i
      BY <1>1, <1>5, <2>1, <2>2
    <3> QED
      BY <2>2, <3>4, <3>5
  <2>3. CASE ~(k < i)
    <3>1. k - (i - 1) \in 1..(Len(s) - i) /\ ~(k <= Len(b)) /\ i + (k - (i - 1)) = k + 1
      BY <1>1, <1>2, <2>1, <2>3
    <3>2. q[k] = c[k - (i - 1)]
      BY <1>2, <1>3, <1>4, <1>5, <2>1, <3>1
    <3>3. q[k] = s[k + 1]
      BY <1>3, <3>1, <3>2
    <3>4. k + 1 \in DOMAIN s /\ k + 1 # i
      BY <1>1, <1>5, <2>1, <2>3
    <3> QED
      BY <2>3, <3>3, <3>4
  <2> QED
    BY <2>2, <2>3
<1> QED
  BY <1>4, <1>5, <1>6 DEF q, b, c

\* A user's retry takes one entry into its hands.
LEMMA RetryInv ==
    ASSUME IInv, NEW w \in Workers, NEW m \in Messages, Retry(w, m)
    PROVE  IInv' /\ Outbox!Work
<1>1. PICK i \in DOMAIN queue :
          /\ queue' = SubSeq(queue, 1, i - 1) \o SubSeq(queue, i + 1, Len(queue))
          /\ work' = [work EXCEPT ![w] = Busy("retry", <<queue[i]>>)]
  BY DEF Retry
<1> DEFINE q == SubSeq(queue, 1, i - 1) \o SubSeq(queue, i + 1, Len(queue))
           items == <<queue[i]>>
           a == [k \in {1} |-> <<"queue", i>>]
           b == [k \in DOMAIN q |-> <<"queue", IF k < i THEN k ELSE k + 1>>]
<1>2. TypeOK /\ InHand /\ Saved /\ Traced
  BY DEF IInv
<1>3. /\ work[w].todo = <<>> /\ work[w].op = "idle" /\ queue \in Seq(Item)
      /\ Held("queue") = queue /\ Held(w) = <<>>
  BY <1>2, HandFacts DEF Retry
<1>4. /\ queue' = q /\ persisted' = persisted /\ fate' = fate /\ resends' = resends
      /\ cut' = cut /\ phase' = phase
  BY <1>1 DEF Retry
<1>5. /\ q \in Seq(Item)
      /\ \A k \in DOMAIN q :
            /\ k \in Nat
            /\ k < i => k \in DOMAIN queue /\ q[k] = queue[k]
            /\ ~(k < i) => k + 1 \in DOMAIN queue /\ q[k] = queue[k + 1]
  <2>1. /\ q \in Seq(Item)
        /\ \A k \in DOMAIN q :
              LET j == IF k < i THEN k ELSE k + 1
              IN  j \in DOMAIN queue /\ j # i /\ q[k] = queue[j]
    BY <1>3, RemoveFacts
  <2> HIDE DEF q
  <2> QED
    BY <2>1
<1>6. i \in Nat /\ \A j \in DOMAIN queue : j \in Nat
  BY <1>3
<1> HIDE DEF q
<1>7. items \in Seq(Item) /\ DOMAIN items = {1} /\ items[1] = queue[i] /\ Len(items) = 1 /\ items # <<>>
  BY <1>3
<1> HIDE DEF items
<1>8. /\ work'[w].todo = items /\ work'[w].op = "retry" /\ work'[w].up \in BOOLEAN
      /\ \A v \in Workers \ {w} : work'[v] = work[v]
  BY <1>1, <1>2 DEF Busy, TypeOK, items
<1>9. TypeOK'
  BY <1>1, <1>2, <1>4, <1>5, <1>7 DEF TypeOK, Busy, Ops, items
<1>10. InHand' /\ Saved'
  BY <1>2, <1>7, <1>8 DEF InHand, Saved
<1>11. Remaining("retry", items) = items /\ GivenUp("retry", items) = {}
  BY DEF Remaining, GivenUp
<1>12. From(w, a, items)
  BY <1>3, <1>7 DEF From
<1>13. \A k \in DOMAIN q : b[k] = <<"queue", IF k < i THEN k ELSE k + 1>>
  OBVIOUS
<1>14. a[1] = <<"queue", i>>
  OBVIOUS
<1> HIDE DEF a, b
<1>15. From(w, b, q)
  <2>1. ASSUME NEW k \in DOMAIN q
        PROVE  \E p \in {"queue", w} : \E j \in DOMAIN Held(p) : b[k] = <<p, j>> /\ Held(p)[j].msg = q[k].msg
    BY <1>3, <1>5, <1>13
  <2>2. ASSUME NEW j \in DOMAIN q, NEW k \in DOMAIN q, b[j] = b[k] PROVE j = k
    <3>1. (IF j < i THEN j ELSE j + 1) = (IF k < i THEN k ELSE k + 1)
      BY <1>13, <2>2
    <3> QED
      BY <1>5, <1>6, <3>1
  <2> QED
    BY <2>1, <2>2 DEF From
<1>16. \A j \in DOMAIN items : \A k \in DOMAIN q : a[j] # b[k]
  <2> SUFFICES ASSUME NEW k \in DOMAIN q PROVE a[1] # b[k]
    BY <1>7
  <2>1. (IF k < i THEN k ELSE k + 1) # i
    BY <1>5, <1>6
  <2> QED
    BY <1>13, <1>14, <2>1
<1>17. Redistributes(w, "retry", a, items, b, q)
  BY <1>4, <1>8, <1>11, <1>12, <1>15, <1>16 DEF Redistributes
<1>18. \A x : ~LeftOut(w, a, items, b, q, x)
  <2> SUFFICES ASSUME NEW p \in {"queue", w}, NEW j \in DOMAIN Held(p), Left(a, items, b, q, <<p, j>>)
               PROVE  FALSE
    BY DEF LeftOut
  <2>0. p = "queue" /\ j \in DOMAIN queue
    BY <1>3
  <2>1. j # i
    BY <1>7, <1>14, <2>0 DEF Left
  <2>2. PICK k \in DOMAIN q : (IF k < i THEN k ELSE k + 1) = j
    <3>1. Len(q) = Len(queue) - 1
      BY <1>3, RemoveFacts DEF q
    <3>2. DOMAIN q = 1..(Len(queue) - 1) /\ DOMAIN queue = 1..Len(queue) /\ Len(queue) \in Nat
      BY <1>3, <1>5, <3>1
    <3>3. i \in 1..Len(queue) /\ j \in 1..Len(queue)
      BY <2>0, <3>2
    <3>4. CASE j < i
      BY <3>2, <3>3, <3>4
    <3>5. CASE ~(j < i)
      <4>1. j - 1 \in DOMAIN q /\ ~(j - 1 < i) /\ (j - 1) + 1 = j
        BY <2>1, <3>2, <3>3, <3>5
      <4> QED
        BY <4>1
    <3> QED
      BY <3>4, <3>5
  <2>3. b[k] = <<"queue", j>>
    BY <1>13, <2>2
  <2> QED
    BY <2>0, <2>3 DEF Left
<1>19. Reports(w, "retry", a, items, b, q)
  BY <1>4, <1>11, <1>18 DEF Reports, Settled
<1>20. Traced' /\ Outbox!Work
  <2>1. persisted' \in {persisted, queue'}
    BY <1>4
  <2> QED
    BY <1>2, <1>4, <1>5, <1>7, <1>9, <1>17, <1>19, <2>1, RedistributeKeeps
<1> QED
  BY <1>9, <1>10, <1>20 DEF IInv

\* A tick takes what is due.
LEMMA TickInv ==
    ASSUME IInv, NEW w \in Workers, NEW due \in SUBSET DOMAIN queue, Tick(w, due)
    PROVE  IInv' /\ Outbox!Work
<1> DEFINE items == Subsequence(queue, due)
           q == Subsequence(queue, DOMAIN queue \ due)
<1>1. TypeOK /\ InHand /\ Saved /\ Traced
  BY DEF IInv
<1>2. /\ work[w].todo = <<>> /\ work[w].op = "idle" /\ queue \in Seq(Item)
      /\ Held("queue") = queue /\ Held(w) = <<>>
  BY <1>1, HandFacts DEF Tick
<1>3. PICK at : items \in Seq(Item) /\ Selects(at, items, queue, due)
  BY <1>2, SubsequenceFacts
<1>4. PICK to : q \in Seq(Item) /\ Selects(to, q, queue, DOMAIN queue \ due)
  <2> DEFINE left == DOMAIN queue \ due
  <2>1. left \in SUBSET DOMAIN queue /\ q = Subsequence(queue, left)
    OBVIOUS
  <2> HIDE DEF left
  <2>2. \E to : Subsequence(queue, left) \in Seq(Item) /\ Selects(to, Subsequence(queue, left), queue, left)
    BY <1>2, <2>1, SubsequenceFacts
  <2> QED
    BY <2>1, <2>2 DEF left
<1>5. Proceed(w, "tick", items, q, fate) /\ UNCHANGED <<phase, resends, cut>>
  BY DEF Tick
<1> HIDE DEF items, q
<1> DEFINE a == [k \in DOMAIN items |-> <<"queue", at[k]>>]
           b == [k \in DOMAIN q |-> <<"queue", to[k]>>]
<1>6. \A k \in DOMAIN items : a[k] = <<"queue", at[k]>> /\ at[k] \in DOMAIN queue
  BY <1>3 DEF Selects
<1>7. \A k \in DOMAIN q : b[k] = <<"queue", to[k]>> /\ to[k] \in DOMAIN queue
  BY <1>4 DEF Selects
<1> HIDE DEF a, b
<1>8. /\ TypeOK' /\ InHand' /\ Saved'
      /\ queue' = q
      /\ work'[w].todo = Remaining("tick", items)
      /\ \A v \in Workers \ {w} : work'[v].todo = work[v].todo
      /\ persisted' \in {persisted, queue'}
      /\ fate' = Failing(fate, GivenUp("tick", items))
  <2>1. "tick" \in Ops \ {"idle", "send"} /\ fate \in [Messages -> Fates]
    BY <1>1 DEF Ops, TypeOK
  <2> QED
    BY <1>1, <1>3, <1>4, <1>5, <2>1, ProceedShape DEF Selects
<1>9. From(w, a, items)
  <2>1. ASSUME NEW j \in DOMAIN items, NEW k \in DOMAIN items, a[j] = a[k] PROVE j = k
    <3>1. at[j] = at[k]
      BY <1>6, <2>1
    <3> QED
      BY <1>3, <3>1 DEF Selects
  <2>2. ASSUME NEW k \in DOMAIN items
        PROVE  \E p \in {"queue", w} : \E j \in DOMAIN Held(p) :
                  a[k] = <<p, j>> /\ Held(p)[j].msg = items[k].msg
    <3>1. a[k] = <<"queue", at[k]>> /\ at[k] \in DOMAIN Held("queue")
      BY <1>2, <1>6
    <3>2. Held("queue")[at[k]].msg = items[k].msg
      BY <1>2, <1>3 DEF Selects
    <3> QED
      BY <3>1, <3>2
  <2> QED
    BY <2>1, <2>2 DEF From
<1>10. From(w, b, q)
  <2>1. ASSUME NEW j \in DOMAIN q, NEW k \in DOMAIN q, b[j] = b[k] PROVE j = k
    <3>1. to[j] = to[k]
      BY <1>7, <2>1
    <3> QED
      BY <1>4, <3>1 DEF Selects
  <2>2. ASSUME NEW k \in DOMAIN q
        PROVE  \E p \in {"queue", w} : \E j \in DOMAIN Held(p) :
                  b[k] = <<p, j>> /\ Held(p)[j].msg = q[k].msg
    <3>1. b[k] = <<"queue", to[k]>> /\ to[k] \in DOMAIN Held("queue")
      BY <1>2, <1>7
    <3>2. Held("queue")[to[k]].msg = q[k].msg
      BY <1>2, <1>4 DEF Selects
    <3> QED
      BY <3>1, <3>2
  <2> QED
    BY <2>1, <2>2 DEF From
<1>11. \A j \in DOMAIN items : \A k \in DOMAIN q : a[j] # b[k]
  <2> SUFFICES ASSUME NEW j \in DOMAIN items, NEW k \in DOMAIN q, a[j] = b[k] PROVE FALSE
    OBVIOUS
  <2>1. at[j] = to[k]
    BY <1>6, <1>7
  <2> QED
    BY <1>3, <1>4, <2>1 DEF Selects
<1>12. Redistributes(w, "tick", a, items, b, q)
  BY <1>8, <1>9, <1>10, <1>11 DEF Redistributes
<1>13. \A m : ~LeftOut(w, a, items, b, q, m)
  <2> SUFFICES ASSUME NEW p \in {"queue", w}, NEW j \in DOMAIN Held(p), Left(a, items, b, q, <<p, j>>)
               PROVE  FALSE
    BY DEF LeftOut
  <2>1. p = "queue" /\ j \in DOMAIN queue
    BY <1>2
  <2>2. CASE j \in due
    BY <1>3, <1>6, <2>1, <2>2 DEF Left, Selects
  <2>3. CASE j \notin due
    <3>1. j \in DOMAIN queue \ due
      BY <2>1, <2>3
    <3>2. PICK k \in DOMAIN q : to[k] = j
      BY <1>4, <3>1 DEF Selects
    <3>3. b[k] = <<p, j>>
      BY <1>7, <2>1, <3>2
    <3> QED
      BY <3>2, <3>3 DEF Left
  <2> QED
    BY <2>2, <2>3
<1>14. Reports(w, "tick", a, items, b, q)
  <2>1. \A m \in Messages :
            fate'[m] = IF m \in GivenUp("tick", items) /\ fate[m] # "sent" THEN "failed" ELSE fate[m]
    BY <1>8 DEF Failing
  <2> QED
    BY <1>13, <2>1 DEF Reports, Settled
<1>15. Traced' /\ Outbox!Work
  BY <1>1, <1>3, <1>4, <1>5, <1>8, <1>12, <1>14, RedistributeKeeps DEF Selects
<1> QED
  BY <1>8, <1>15 DEF IInv

\* The first copy w holds, the one that was being sent.
First(w) == <<w, 1>>

\* The rest of what a call holds comes from there, without the first.
LEMMA RestFacts ==
    ASSUME TypeOK, NEW w \in Workers, work[w].op # "idle"
    PROVE  LET todo == work[w].todo
               a == [k \in DOMAIN Tail(todo) |-> <<w, k + 1>>]
           IN  /\ From(w, a, Tail(todo))
               /\ \A k \in DOMAIN Tail(todo) : \E j : a[k] = <<w, j>> /\ a[k] # First(w)
               /\ \A j \in DOMAIN todo \ {1} : \E k \in DOMAIN Tail(todo) : a[k] = <<w, j>>
<1> DEFINE todo == work[w].todo
           a == [k \in DOMAIN Tail(todo) |-> <<w, k + 1>>]
<1>1. /\ todo \in Seq(Item) /\ Tail(todo) \in Seq(Item) /\ Held(w) = todo
      /\ \A k \in DOMAIN Tail(todo) : k + 1 \in DOMAIN todo /\ Tail(todo)[k] = todo[k + 1]
      /\ \A k \in DOMAIN todo \ {1} : k - 1 \in DOMAIN Tail(todo)
  BY HandFacts
<1>2. \A k \in DOMAIN Tail(todo) : a[k] = <<w, k + 1>>
  OBVIOUS
<1>3. (\A k \in DOMAIN Tail(todo) : k \in Nat /\ k # 0) /\ (\A k \in DOMAIN todo : k \in Nat)
  BY <1>1
<1> HIDE DEF todo, a
<1>4. ASSUME NEW j \in DOMAIN Tail(todo), NEW k \in DOMAIN Tail(todo), a[j] = a[k] PROVE j = k
  <2>1. j + 1 = k + 1
    BY <1>2, <1>4
  <2> QED
    BY <1>3, <2>1
<1>5. From(w, a, Tail(todo))
  BY <1>1, <1>2, <1>4 DEF From
<1>6. ASSUME NEW k \in DOMAIN Tail(todo) PROVE \E j : a[k] = <<w, j>> /\ a[k] # First(w)
  <2>1. k + 1 # 1
    BY <1>3
  <2> QED
    BY <1>2, <2>1 DEF First
<1>7. ASSUME NEW j \in DOMAIN todo \ {1} PROVE \E k \in DOMAIN Tail(todo) : a[k] = <<w, j>>
  <2>1. j - 1 \in DOMAIN Tail(todo) /\ (j - 1) + 1 = j
    BY <1>1, <1>3
  <2> QED
    BY <1>2, <2>1
<1> QED
  BY <1>5, <1>6, <1>7 DEF todo, a

\* Over an unchanged queue the first entry is all that is left out.
LEMMA DoneRedistributes ==
    ASSUME TypeOK, NEW w \in Workers, work[w].op # "idle", NEW op,
           queue' = queue,
           work'[w].todo = Remaining(op, Tail(work[w].todo)),
           \A v \in Workers \ {w} : work'[v].todo = work[v].todo
    PROVE  LET items == Tail(work[w].todo)
               a == [k \in DOMAIN items |-> <<w, k + 1>>]
               b == [k \in DOMAIN queue |-> <<"queue", k>>]
           IN  /\ Redistributes(w, op, a, items, b, queue)
               /\ \A m : LeftOut(w, a, items, b, queue, m) <=> m = Head(work[w].todo).msg
<1> DEFINE items == Tail(work[w].todo)
           a == [k \in DOMAIN items |-> <<w, k + 1>>]
           b == [k \in DOMAIN queue |-> <<"queue", k>>]
<1>1. /\ w # "queue" /\ Held(w) = work[w].todo /\ Held("queue") = queue
      /\ queue \in Seq(Item) /\ 1 \in DOMAIN work[w].todo /\ Head(work[w].todo) = work[w].todo[1]
  BY HandFacts
<1>2. /\ From(w, a, items)
      /\ \A k \in DOMAIN items : \E j : a[k] = <<w, j>> /\ a[k] # First(w)
      /\ \A j \in DOMAIN work[w].todo \ {1} : \E k \in DOMAIN items : a[k] = <<w, j>>
  BY RestFacts
<1>3. \A k \in DOMAIN queue : b[k] = <<"queue", k>>
  OBVIOUS
<1> HIDE DEF a, b, items
<1>4. From(w, b, queue)
  BY <1>1, <1>3 DEF From
<1>5. \A j \in DOMAIN items : \A k \in DOMAIN queue : a[j] # b[k]
  BY <1>1, <1>2, <1>3
<1>6. Redistributes(w, op, a, items, b, queue)
  BY <1>2, <1>4, <1>5 DEF Redistributes, items
<1>7. Left(a, items, b, queue, First(w))
  BY <1>1, <1>2, <1>3 DEF Left, First
<1>8. ASSUME NEW p \in {"queue", w}, NEW j \in DOMAIN Held(p), Left(a, items, b, queue, <<p, j>>)
      PROVE  p = w /\ j = 1
  <2>1. CASE p = "queue"
    BY <1>1, <1>3, <1>8, <2>1 DEF Left
  <2>2. CASE p = w
    BY <1>1, <1>2, <1>8, <2>2 DEF Left
  <2> QED
    BY <2>1, <2>2
<1>9. \A m : LeftOut(w, a, items, b, queue, m) <=> m = Head(work[w].todo).msg
  BY <1>1, <1>7, <1>8 DEF LeftOut, First
<1> QED
  BY <1>6, <1>9 DEF items, a, b

\* A send that succeeds, or meets a peer that cannot take the message.
LEMMA DoneInv ==
    ASSUME IInv, NEW w \in Workers, NEW outcome \in {"sent", "unsupported"}, Done(w, outcome)
    PROVE  IInv' /\ Outbox!Work
<1> DEFINE op == work[w].op
           items == Tail(work[w].todo)
           m == Head(work[w].todo).msg
           f == [fate EXCEPT ![m] = IF @ = "sent" THEN @ ELSE outcome]
           a == [k \in DOMAIN items |-> <<w, k + 1>>]
           b == [k \in DOMAIN queue |-> <<"queue", k>>]
<1>1. TypeOK /\ InHand /\ Saved /\ Traced
  BY DEF IInv
<1>2. op # "idle" /\ op \in Ops /\ UNCHANGED <<phase, resends, cut>>
  BY <1>1 DEF Done, TypeOK
<1>3. items \in Seq(Item) /\ queue \in Seq(Item) /\ m \in Messages
  BY <1>1, <1>2, HandFacts DEF Item
<1>4. op \in {"send", "retry"} => items = <<>>
  <2> SUFFICES ASSUME op \in {"send", "retry"} PROVE items = <<>>
    OBVIOUS
  <2>1. work[w].todo \in Seq(Item) /\ Len(work[w].todo) = 1 /\ work[w].todo # <<>>
    BY <1>1 DEF InHand, TypeOK
  <2>2. Len(items) = 0
    BY <2>1, HeadTailProperties
  <2> QED
    BY <1>3, <2>2, EmptySeq
<1>5. f \in [Messages -> Fates] /\ \A x \in Messages : f[x] = IF x = m /\ fate[x] # "sent" THEN outcome ELSE fate[x]
  BY <1>1, <1>3 DEF TypeOK, Fates
<1>6. /\ TypeOK' /\ InHand' /\ Saved'
      /\ queue' = queue
      /\ work'[w].todo = Remaining(op, items)
      /\ \A v \in Workers \ {w} : work'[v].todo = work[v].todo
      /\ persisted' \in {persisted, queue'}
      /\ fate' = Failing(f, GivenUp(op, items))
  <2>1. CASE op = "send"
    <3>1. work' = [work EXCEPT ![w] = Idle] /\ fate' = f /\ UNCHANGED <<queue, persisted>>
      BY <2>1 DEF Done
    <3>2. Remaining(op, items) = <<>> /\ GivenUp(op, items) = {}
      BY <1>4, <2>1 DEF Remaining, GivenUp
    <3>3. fate' = Failing(f, GivenUp(op, items))
      BY <1>5, <3>1, <3>2 DEF Failing
    <3>4. work'[w] = Idle /\ \A v \in Workers \ {w} : work'[v] = work[v]
      BY <1>1, <3>1 DEF TypeOK
    <3> HIDE DEF f, items
    <3>5. TypeOK'
      BY <1>1, <1>2, <1>5, <3>1 DEF TypeOK, Idle, Ops
    <3>6. InHand' /\ Saved'
      BY <1>1, <2>1, <3>1, <3>4 DEF InHand, Saved, Idle
    <3> QED
      BY <3>1, <3>2, <3>3, <3>4, <3>5, <3>6 DEF Idle
  <2>2. CASE op # "send"
    <3>1. Proceed(w, op, items, queue, f)
      BY <2>2 DEF Done
    <3>2. op \in {"flush", "tick"} \/ items = <<>>
      BY <1>2, <1>4, <2>2 DEF Ops
    <3> HIDE DEF f, items, op
    <3> QED
      BY <1>1, <1>2, <1>3, <1>5, <2>2, <3>1, <3>2, ProceedShape
  <2> QED
    BY <2>1, <2>2
<1>7. /\ Redistributes(w, op, a, items, b, queue)
      /\ \A x : LeftOut(w, a, items, b, queue, x) <=> x = m
  BY <1>1, <1>2, <1>6, DoneRedistributes
<1> HIDE DEF a, b, items, f, m
<1>8. Reports(w, op, a, items, b, queue)
  <2>1. \A x \in Messages :
            fate'[x] = IF x \in GivenUp(op, items) /\ f[x] # "sent" THEN "failed" ELSE f[x]
    BY <1>6 DEF Failing
  <2> QED
    BY <1>5, <1>7, <2>1 DEF Reports, Settled
<1> HIDE DEF op
<1>9. Traced' /\ Outbox!Work
  BY <1>1, <1>2, <1>3, <1>6, <1>7, <1>8, RedistributeKeeps
<1> QED
  BY <1>6, <1>9 DEF IInv

\* A pass puts the entry it could not send at the end of the queue.
LEMMA PutBackInv ==
    ASSUME IInv, NEW w \in Workers, PutBack(w)
    PROVE  IInv' /\ Outbox!Work
<1> DEFINE op == work[w].op
           items == Tail(work[w].todo)
           first == Head(work[w].todo)
           q == Append(queue, PushedBack(op, first))
           a == [k \in DOMAIN items |-> <<w, k + 1>>]
           b == [k \in DOMAIN q |-> IF k \in DOMAIN queue THEN <<"queue", k>> ELSE First(w)]
<1>1. TypeOK /\ InHand /\ Saved /\ Traced
  BY DEF IInv
<1>2. op \in {"flush", "tick"} /\ Proceed(w, op, items, q, fate) /\ UNCHANGED <<phase, resends, cut>>
  BY DEF PutBack
<1>3. /\ items \in Seq(Item) /\ queue \in Seq(Item) /\ first \in Item /\ first = work[w].todo[1]
      /\ w # "queue" /\ Held(w) = work[w].todo /\ Held("queue") = queue /\ 1 \in DOMAIN work[w].todo
  BY <1>1, <1>2, HandFacts
<1>4. PushedBack(op, first) \in Item /\ PushedBack(op, first).msg = first.msg
  <2>1. op = "tick" => first.retry < MaxRetries
    BY <1>1, <1>3 DEF InHand
  <2> HIDE DEF op, first
  <2> QED
    BY <1>3, <2>1, PushedBackFacts
<1>5. /\ q \in Seq(Item) /\ DOMAIN q = 1..(Len(queue) + 1) /\ DOMAIN queue = 1..Len(queue)
      /\ \A k \in DOMAIN queue : q[k] = queue[k]
      /\ q[Len(queue) + 1] = PushedBack(op, first)
      /\ Len(queue) \in Nat
  BY <1>3, <1>4
<1>6. /\ From(w, a, items)
      /\ \A k \in DOMAIN items : \E j : a[k] = <<w, j>> /\ a[k] # First(w)
      /\ \A j \in DOMAIN work[w].todo \ {1} : \E k \in DOMAIN items : a[k] = <<w, j>>
  BY <1>1, <1>2, RestFacts
<1>7. \A k \in DOMAIN q : b[k] = IF k \in DOMAIN queue THEN <<"queue", k>> ELSE First(w)
  OBVIOUS
<1> HIDE DEF a, b, items, q, first
<1>8. \A k \in DOMAIN q \ DOMAIN queue : k = Len(queue) + 1
  BY <1>5
<1>9. From(w, b, q)
  <2>1. ASSUME NEW k \in DOMAIN q
        PROVE  \E p \in {"queue", w} : \E j \in DOMAIN Held(p) : b[k] = <<p, j>> /\ Held(p)[j].msg = q[k].msg
    <3>1. CASE k \in DOMAIN queue
      BY <1>3, <1>5, <1>7, <3>1
    <3>2. CASE k \notin DOMAIN queue
      <4>1. b[k] = <<w, 1>> /\ q[k].msg = first.msg
        BY <1>4, <1>5, <1>7, <1>8, <3>2 DEF First
      <4> QED
        BY <1>3, <4>1
    <3> QED
      BY <3>1, <3>2
  <2>2. ASSUME NEW j \in DOMAIN q, NEW k \in DOMAIN q, b[j] = b[k] PROVE j = k
    <3>1. \A i \in DOMAIN queue : <<"queue", i>> # First(w)
      BY <1>3 DEF First
    <3>2. j \in DOMAIN queue <=> k \in DOMAIN queue
      BY <1>7, <2>2, <3>1
    <3>3. CASE j \in DOMAIN queue
      <4>1. b[j] = <<"queue", j>> /\ b[k] = <<"queue", k>>
        BY <1>7, <3>2, <3>3
      <4>2. <<"queue", j>> = <<"queue", k>>
        BY <2>2, <4>1
      <4> QED
        BY <4>2
    <3>4. CASE j \notin DOMAIN queue
      BY <1>8, <3>2, <3>4
    <3> QED
      BY <3>3, <3>4
  <2> QED
    BY <2>1, <2>2 DEF From
<1>10. \A j \in DOMAIN items : \A k \in DOMAIN q : a[j] # b[k]
  <2> SUFFICES ASSUME NEW j \in DOMAIN items, NEW k \in DOMAIN q PROVE a[j] # b[k]
    OBVIOUS
  <2>1. PICK i : a[j] = <<w, i>> /\ a[j] # First(w)
    BY <1>6
  <2>2. CASE k \in DOMAIN queue
    <3>1. b[k] = <<"queue", k>>
      BY <1>7, <2>2
    <3>2. <<"queue", k>> # <<w, i>>
      BY <1>3
    <3> QED
      BY <2>1, <3>1, <3>2
  <2>3. CASE k \notin DOMAIN queue
    <3>1. b[k] = First(w)
      BY <1>7, <2>3
    <3> QED
      BY <2>1, <3>1
  <2> QED
    BY <2>2, <2>3
<1>11. /\ TypeOK' /\ InHand' /\ Saved'
       /\ queue' = q
       /\ work'[w].todo = Remaining(op, items)
       /\ \A v \in Workers \ {w} : work'[v].todo = work[v].todo
       /\ persisted' \in {persisted, queue'}
       /\ fate' = Failing(fate, GivenUp(op, items))
  <2>1. op \in Ops \ {"idle", "send"} /\ fate \in [Messages -> Fates]
    BY <1>1, <1>2 DEF Ops, TypeOK
  <2> HIDE DEF op
  <2> QED
    BY <1>1, <1>2, <1>3, <1>5, <2>1, ProceedShape
<1>12. Redistributes(w, op, a, items, b, q)
  BY <1>6, <1>9, <1>10, <1>11 DEF Redistributes
<1>13. \A x : ~LeftOut(w, a, items, b, q, x)
  <2> SUFFICES ASSUME NEW p \in {"queue", w}, NEW j \in DOMAIN Held(p), Left(a, items, b, q, <<p, j>>)
               PROVE  FALSE
    BY DEF LeftOut
  <2>1. CASE p = "queue"
    <3>1. j \in DOMAIN queue /\ j \in DOMAIN q
      BY <1>3, <1>5, <2>1
    <3> QED
      BY <1>7, <2>1, <3>1 DEF Left
  <2>2. CASE p = w /\ j = 1
    <3>1. Len(queue) + 1 \in DOMAIN q /\ Len(queue) + 1 \notin DOMAIN queue
      BY <1>5
    <3> QED
      BY <1>7, <2>2, <3>1 DEF Left, First
  <2>3. CASE p = w /\ j # 1
    BY <1>3, <1>6, <2>3 DEF Left
  <2> QED
    BY <2>1, <2>2, <2>3
<1>14. Reports(w, op, a, items, b, q)
  <2>1. \A x \in Messages :
            fate'[x] = IF x \in GivenUp(op, items) /\ fate[x] # "sent" THEN "failed" ELSE fate[x]
    BY <1>11 DEF Failing
  <2> QED
    BY <1>13, <2>1 DEF Reports, Settled
<1> HIDE DEF op
<1>15. Traced' /\ Outbox!Work
  BY <1>1, <1>2, <1>3, <1>5, <1>11, <1>12, <1>14, RedistributeKeeps
<1> QED
  BY <1>11, <1>15 DEF IInv

\* A first send or a user's retry that fails puts its entry at the end of the
\* queue, without the queue's first entry if there is no room (skip is then 1).
Enqueues(w, skip, q) ==
    /\ skip = 1 => queue # <<>>
    /\ Len(q) = Len(queue) - skip + 1
    /\ \A k \in 1..(Len(queue) - skip) : q[k] = queue[k + skip]
    /\ q[Len(q)].msg = Head(work[w].todo).msg
    /\ queue' = q
    /\ work[w].op # "idle" /\ Tail(work[w].todo) = <<>> /\ work'[w].todo = <<>>
    /\ \A v \in Workers \ {w} : work'[v].todo = work[v].todo

LEMMA EnqueueRedistributes ==
    ASSUME TypeOK, NEW w \in Workers, NEW op, op # "tick",
           NEW skip \in {0, 1}, NEW q \in Seq(Item), Enqueues(w, skip, q)
    PROVE  \E b : /\ Redistributes(w, op, <<>>, <<>>, b, q)
                  /\ \A m : LeftOut(w, <<>>, <<>>, b, q, m) <=> skip = 1 /\ m = queue[1].msg
<1> DEFINE b == [k \in DOMAIN q |-> IF k = Len(q) THEN First(w) ELSE <<"queue", k + skip>>]
           n == Len(queue)
<1>0. /\ skip = 1 => queue # <<>>
      /\ Len(q) = Len(queue) - skip + 1
      /\ \A k \in 1..(Len(queue) - skip) : q[k] = queue[k + skip]
      /\ q[Len(q)].msg = Head(work[w].todo).msg
      /\ queue' = q
      /\ work[w].op # "idle" /\ Tail(work[w].todo) = <<>> /\ work'[w].todo = <<>>
      /\ \A v \in Workers \ {w} : work'[v].todo = work[v].todo
  BY DEF Enqueues
<1>1. /\ w # "queue" /\ Held(w) = work[w].todo /\ Held("queue") = queue
      /\ queue \in Seq(Item) /\ 1 \in DOMAIN work[w].todo /\ Head(work[w].todo) = work[w].todo[1]
      /\ \A j \in DOMAIN work[w].todo \ {1} : j - 1 \in DOMAIN Tail(work[w].todo)
  BY <1>0, HandFacts
<1>2. DOMAIN work[w].todo = {1}
  <2>1. \A j \in DOMAIN work[w].todo \ {1} : j - 1 \in DOMAIN <<>>
    BY <1>0, <1>1
  <2> QED
    BY <1>1, <2>1
<1>3. /\ n \in Nat /\ Len(q) = n - skip + 1 /\ DOMAIN queue = 1..n /\ DOMAIN q = 1..(n - skip + 1)
      /\ skip = 1 => n >= 1
  BY <1>0, <1>1
<1>4. \A k \in DOMAIN q : b[k] = IF k = Len(q) THEN First(w) ELSE <<"queue", k + skip>>
  OBVIOUS
<1> HIDE DEF b, n
<1>5. \A k \in DOMAIN q : k # Len(q) => k \in 1..(n - skip) /\ k + skip \in DOMAIN queue /\ q[k] = queue[k + skip]
  <2> SUFFICES ASSUME NEW k \in DOMAIN q, k # Len(q)
               PROVE  k \in 1..(n - skip) /\ k + skip \in 1..n
    BY <1>0, <1>3 DEF n
  <2> QED
    BY <1>3
<1>6. \A k : <<"queue", k>> # First(w)
  BY <1>1 DEF First
<1>7. From(w, b, q)
  <2>1. ASSUME NEW k \in DOMAIN q
        PROVE  \E p \in {"queue", w} : \E j \in DOMAIN Held(p) : b[k] = <<p, j>> /\ Held(p)[j].msg = q[k].msg
    <3>1. CASE k = Len(q)
      <4>1. b[k] = <<w, 1>>
        BY <1>4, <3>1 DEF First
      <4>2. 1 \in DOMAIN Held(w) /\ Held(w)[1].msg = q[k].msg
        BY <1>0, <1>1, <3>1
      <4> QED
        BY <4>1, <4>2
    <3>2. CASE k # Len(q)
      <4>1. b[k] = <<"queue", k + skip>>
        BY <1>4, <3>2
      <4>2. k + skip \in DOMAIN Held("queue") /\ Held("queue")[k + skip].msg = q[k].msg
        BY <1>1, <1>5, <3>2
      <4> QED
        BY <4>1, <4>2
    <3> QED
      BY <3>1, <3>2
  <2>2. ASSUME NEW j \in DOMAIN q, NEW k \in DOMAIN q, b[j] = b[k] PROVE j = k
    <3>1. j = Len(q) <=> k = Len(q)
      BY <1>4, <1>6, <2>2
    <3>2. CASE j # Len(q)
      <4>1. <<"queue", j + skip>> = <<"queue", k + skip>>
        BY <1>4, <2>2, <3>1, <3>2
      <4>2. j + skip = k + skip
        BY <4>1
      <4> QED
        BY <1>3, <4>2
    <3> QED
      BY <3>1, <3>2
  <2> QED
    BY <2>1, <2>2 DEF From
<1>8. Redistributes(w, op, <<>>, <<>>, b, q)
  <2>1. From(w, <<>>, <<>>)
    BY DEF From
  <2>2. Remaining(op, <<>>) = <<>>
    BY DEF Remaining
  <2> QED
    BY <1>0, <1>7, <2>1, <2>2 DEF Redistributes
<1>9. ASSUME NEW p \in {"queue", w}, NEW j \in DOMAIN Held(p), Left(<<>>, <<>>, b, q, <<p, j>>)
      PROVE  p = "queue" /\ skip = 1 /\ j = 1
  <2>1. p # w
    <3>1. Len(q) \in DOMAIN q
      BY <1>3
    <3>3. b[Len(q)] = First(w)
      BY <1>4, <3>1
    <3>2. p = w => j = 1
      BY <1>1, <1>2
    <3> QED
      BY <1>9, <3>1, <3>2, <3>3 DEF Left, First
  <2>2. j \in 1..n
    BY <1>1, <1>3, <2>1
  <2>3. ASSUME skip = 0 \/ j # 1 PROVE FALSE
    <3>1. j - skip \in DOMAIN q /\ j - skip # Len(q) /\ (j - skip) + skip = j
      BY <1>3, <2>2, <2>3
    <3>2. b[j - skip] = <<"queue", j>>
      BY <1>4, <3>1
    <3> QED
      BY <1>9, <2>1, <3>1, <3>2 DEF Left
  <2> QED
    BY <2>1, <2>3
<1>10. skip = 1 => 1 \in DOMAIN queue /\ Left(<<>>, <<>>, b, q, <<"queue", 1>>)
  <2> SUFFICES ASSUME skip = 1, NEW k \in DOMAIN q PROVE b[k] # <<"queue", 1>>
    BY <1>3 DEF Left
  <2>1. CASE k = Len(q)
    BY <1>4, <1>6, <2>1
  <2>2. CASE k # Len(q)
    <3>1. k + skip # 1
      BY <1>3
    <3>2. <<"queue", k + skip>> # <<"queue", 1>>
      BY <3>1
    <3> QED
      BY <1>4, <2>2, <3>2
  <2> QED
    BY <2>1, <2>2
<1>11. \A m : LeftOut(w, <<>>, <<>>, b, q, m) <=> skip = 1 /\ m = queue[1].msg
  BY <1>1, <1>9, <1>10 DEF LeftOut
<1> QED
  BY <1>8, <1>11

\* A first send or a user's retry that fails.
LEMMA RequeuedInv ==
    ASSUME IInv, NEW w \in Workers, Requeued(w)
    PROVE  IInv' /\ Outbox!Work
<1> DEFINE op == work[w].op
           m == Head(work[w].todo).msg
<1>1. TypeOK /\ InHand /\ Saved /\ Traced
  BY DEF IInv
<1>2. /\ op \in {"send", "retry"}
      /\ queue' = Enqueued(queue, m)
      /\ persisted' = IF op = "send" /\ m \in MessagesOf(queue) THEN persisted ELSE queue'
      /\ fate' = FateOfEnqueue(m)
      /\ work' = [work EXCEPT ![w] = Idle]
      /\ UNCHANGED <<phase, resends, cut>>
  BY DEF Requeued
<1>3. /\ queue \in Seq(Item) /\ m \in Messages
      /\ Tail(work[w].todo) \in Seq(Item) /\ work[w].todo # <<>> /\ work[w].todo \in Seq(Item)
  BY <1>1, <1>2, HandFacts DEF Item
<1>4. Tail(work[w].todo) = <<>>
  <2>1. Len(work[w].todo) = 1
    BY <1>1, <1>2 DEF InHand
  <2>2. Len(Tail(work[w].todo)) = 0
    BY <1>3, <2>1, HeadTailProperties
  <2> QED
    BY <1>3, <2>2, EmptySeq
<1>5. NewItem(m) \in Item /\ NewItem(m).msg = m
  BY <1>3, QueueAssumption DEF NewItem, Item
<1> DEFINE s == IF Evicts(queue, m) THEN Tail(queue) ELSE queue
           skip == IF Evicts(queue, m) THEN 1 ELSE 0
<1>6. Evicts(queue, m) => queue # <<>>
  BY <1>3, QueueAssumption DEF Evicts
<1>7. /\ s \in Seq(Item) /\ Len(s) = Len(queue) - skip
      /\ \A k \in 1..(Len(queue) - skip) : s[k] = queue[k + skip]
  BY <1>3, <1>6
<1>8. queue' = IF m \in MessagesOf(queue) THEN queue ELSE Append(s, NewItem(m))
  BY <1>2 DEF Enqueued
<1> HIDE DEF s, m
<1>9. queue' \in Seq(Item)
  BY <1>3, <1>5, <1>7, <1>8
<1> DEFINE evicted == IF Evicts(queue, m) THEN {Head(queue).msg} ELSE {}
<1>10. \A x \in Messages : fate'[x] = IF x = m THEN IF fate[x] = "sent" THEN "sent" ELSE "queued"
                                   ELSE IF x \in evicted /\ fate[x] # "sent" THEN "failed" ELSE fate[x]
  BY <1>2, <1>3 DEF FateOfEnqueue, Failing, m
<1>11. fate' \in [Messages -> Fates]
  BY <1>1, <1>2, <1>3 DEF FateOfEnqueue, Failing, Fates, TypeOK, m
<1>12. work'[w] = Idle /\ \A v \in Workers \ {w} : work'[v] = work[v]
  BY <1>1, <1>2 DEF TypeOK
<1>13. TypeOK'
  BY <1>1, <1>2, <1>9, <1>11 DEF TypeOK, Idle, Ops
<1>14. InHand'
  BY <1>1, <1>12 DEF InHand, Idle
<1>15. Saved'
  BY <1>1, <1>2, <1>8, <1>12 DEF Saved
<1>16. work'[w].todo = <<>>
  BY <1>12 DEF Idle
<1>17. GivenUp(op, <<>>) = {}
  BY <1>2 DEF GivenUp
<1>18. CASE m \in MessagesOf(queue)
  <2> DEFINE a == [k \in DOMAIN Tail(work[w].todo) |-> <<w, k + 1>>]
             b == [k \in DOMAIN queue |-> <<"queue", k>>]
  <2>1. Remaining(op, Tail(work[w].todo)) = <<>> /\ GivenUp(op, Tail(work[w].todo)) = {}
    BY <1>2, <1>4 DEF Remaining, GivenUp
  <2>2. /\ Redistributes(w, op, a, Tail(work[w].todo), b, queue)
        /\ \A x : LeftOut(w, a, Tail(work[w].todo), b, queue, x) <=> x = Head(work[w].todo).msg
    <3>1. work[w].op # "idle"
      BY <1>2
    <3> HIDE DEF op
    <3> QED
      BY <1>1, <1>8, <1>12, <1>16, <1>18, <2>1, <3>1, DoneRedistributes
  <2> HIDE DEF a, b
  <2>3. evicted = {} /\ m \in MessagesOf(queue')
    BY <1>8, <1>18 DEF Evicts
  <2>4. Reports(w, op, a, Tail(work[w].todo), b, queue)
    BY <1>10, <2>1, <2>2, <2>3 DEF Reports, Settled, m
  <2>5. persisted' \in {persisted, queue'} /\ resends' = resends /\ cut' = cut
    BY <1>2
  <2> HIDE DEF op
  <2>6. Traced' /\ Outbox!Work
    BY <1>1, <1>3, <1>13, <2>2, <2>4, <2>5, RedistributeKeeps
  <2> QED
    BY <1>13, <1>14, <1>15, <2>6 DEF IInv
<1>19. CASE m \notin MessagesOf(queue)
  <2> DEFINE q == Append(s, NewItem(m))
  <2>1. /\ q \in Seq(Item) /\ Len(q) = Len(queue) - skip + 1
        /\ \A k \in 1..(Len(queue) - skip) : q[k] = queue[k + skip]
        /\ q[Len(q)] = NewItem(m)
    BY <1>5, <1>7, AppendProperties
  <2>2. queue' = q /\ m \in MessagesOf(queue')
    <3>1. Len(q) \in DOMAIN q
      BY <1>5, <1>7, AppendProperties
    <3> QED
      BY <1>5, <1>8, <1>19, <2>1, <3>1 DEF MessagesOf
  <2> HIDE DEF q
  <2>3. q[Len(q)].msg = Head(work[w].todo).msg
    BY <1>5, <2>1 DEF m
  <2>4. skip \in {0, 1} /\ (skip = 1 => queue # <<>>) /\ (skip = 1 <=> Evicts(queue, m))
    BY <1>6
  <2> HIDE DEF skip
  <2>5. PICK b : /\ Redistributes(w, op, <<>>, <<>>, b, q)
                 /\ \A x : LeftOut(w, <<>>, <<>>, b, q, x) <=> skip = 1 /\ x = queue[1].msg
    <3>1. work[w].op # "idle" /\ op # "tick"
      BY <1>2
    <3> HIDE DEF op
    <3>2. Enqueues(w, skip, q)
      BY <1>4, <1>12, <1>16, <2>1, <2>2, <2>3, <2>4, <3>1 DEF Enqueues
    <3>3. TypeOK /\ skip \in {0, 1} /\ q \in Seq(Item) /\ op # "tick"
      BY <1>1, <2>1, <2>4, <3>1
    <3> QED
      BY <3>2, <3>3, EnqueueRedistributes
  <2>6. \A x : x \in evicted <=> skip = 1 /\ x = queue[1].msg
    BY <1>3, <2>4
  <2>7. Reports(w, op, <<>>, <<>>, b, q)
    <3> HIDE DEF evicted
    <3> QED
      BY <1>10, <1>17, <2>2, <2>5, <2>6 DEF Reports, Settled
  <2>8. persisted' \in {persisted, queue'} /\ resends' = resends /\ cut' = cut /\ <<>> \in Seq(Item)
    BY <1>2
  <2> HIDE DEF op
  <2>9. Traced' /\ Outbox!Work
    BY <1>1, <1>13, <2>1, <2>5, <2>7, <2>8, RedistributeKeeps
  <2> QED
    BY <1>13, <1>14, <1>15, <2>9 DEF IInv
<1> QED
  BY <1>18, <1>19
\* One entry more in the hands of an idle call.
LEMMA CopyAdded ==
    ASSUME TypeOK, NEW w \in Workers, work[w] = Idle, NEW item, queue' = queue,
           work' = [work EXCEPT ![w] = Busy("send", <<item>>)]
    PROVE  /\ \A x : Copies(x)' = Copies(x) \cup (IF x = item.msg THEN {<<w, 1>>} ELSE {})
           /\ \A x : <<w, 1>> \notin Copies(x)
<1>1. w # "queue" /\ Held("queue") = queue /\ Held("queue")' = queue
  BY HandFacts DEF Held
<1>2. Held(w) = <<>> /\ Held(w)' = <<item>>
  <2>1. work'[w].todo = <<item>>
    BY DEF TypeOK, Busy
  <2> QED
    BY <1>1, <2>1 DEF Held, Idle
<1>3. \A p \in Places \ {w} : Held(p)' = Held(p)
  BY DEF TypeOK, Held, Places
<1>4. DOMAIN Held(w) = {} /\ DOMAIN Held(w)' = {1} /\ Held(w)'[1] = item
  BY <1>2
<1>5. w \in Places
  BY DEF Places
<1>6. ASSUME NEW x, NEW c
      PROVE  c \in Copies(x)' <=> c \in Copies(x) \/ (x = item.msg /\ c = <<w, 1>>)
  <2>1. ASSUME c \in Copies(x)' PROVE c \in Copies(x) \/ (x = item.msg /\ c = <<w, 1>>)
    <3>1. PICK p, i : p \in Places /\ i \in DOMAIN Held(p)' /\ Held(p)'[i].msg = x /\ c = <<p, i>>
      BY <2>1, CopiesFacts
    <3>2. CASE p = w
      BY <1>4, <3>1, <3>2
    <3>3. CASE p # w
      BY <1>3, <3>1, <3>3, CopiesFacts
    <3> QED
      BY <3>2, <3>3
  <2>2. ASSUME c \in Copies(x) PROVE c \in Copies(x)'
    <3>1. PICK p, i : p \in Places /\ i \in DOMAIN Held(p) /\ Held(p)[i].msg = x /\ c = <<p, i>>
      BY <2>2, CopiesFacts
    <3>2. p # w
      BY <1>4, <3>1
    <3>3. i \in DOMAIN Held(p)' /\ Held(p)'[i].msg = x
      BY <1>3, <3>1, <3>2
    <3> QED
      BY <3>1, <3>3, CopiesFacts
  <2>3. x = item.msg => <<w, 1>> \in Copies(x)'
    BY <1>4, <1>5, CopiesFacts
  <2> QED
    BY <2>1, <2>2, <2>3
<1>7. ASSUME NEW x, <<w, 1>> \in Copies(x) PROVE FALSE
  <2>1. PICK p, i : p \in Places /\ i \in DOMAIN Held(p) /\ <<w, 1>> = <<p, i>>
    BY <1>7, CopiesFacts
  <2> QED
    BY <1>4, <2>1
<1> QED
  BY <1>6, <1>7

\* A message handed to the session, for the first time or again.
LEMMA SendInv ==
    ASSUME IInv, NEW w \in Workers, NEW m \in Messages, SendNew(w, m) \/ Resend(w, m)
    PROVE  IInv'
<1>1. TypeOK /\ InHand /\ Saved /\ Traced /\ work[w] = Idle
  BY DEF IInv, SendNew, Resend
<1>2. /\ queue' = queue /\ persisted' = persisted /\ cut' = cut /\ phase' = phase
      /\ work' = [work EXCEPT ![w] = Busy("send", <<NewItem(m)>>)]
  BY DEF SendNew, Resend
<1>3. NewItem(m) \in Item /\ NewItem(m).msg = m
  BY QueueAssumption DEF NewItem, Item
<1>4. \/ /\ fate[m] = "new" /\ fate' = [fate EXCEPT ![m] = "sending"] /\ resends' = resends
      \/ /\ resends < MaxResends /\ fate[m] # "new" /\ fate' = fate /\ resends' = resends + 1
  BY DEF SendNew, Resend
<1>5. resends \in Nat /\ resends' \in 0..MaxResends
  BY <1>1, <1>4, QueueAssumption DEF TypeOK
<1>6. fate' \in [Messages -> Fates]
  BY <1>1, <1>4 DEF TypeOK, Fates
<1>7. \A v \in Workers : v # w => work'[v] = work[v]
  BY <1>1, <1>2 DEF TypeOK
<1>8. work'[w] = Busy("send", <<NewItem(m)>>) /\ work[w].op = "idle"
  BY <1>1, <1>2 DEF TypeOK, Idle
<1>9. TypeOK'
  BY <1>1, <1>2, <1>3, <1>5, <1>6 DEF TypeOK, Busy, Ops
<1>10. InHand' /\ Saved'
  BY <1>1, <1>2, <1>7, <1>8 DEF InHand, Saved, Busy
<1>11. /\ \A x : Copies(x)' = Copies(x) \cup (IF x = m THEN {<<w, 1>>} ELSE {})
       /\ \A x : <<w, 1>> \notin Copies(x)
  BY <1>1, <1>2, <1>3, CopyAdded
<1>12. NewIsNowhere'
  <2> SUFFICES ASSUME NEW x \in Messages, fate'[x] = "new"
               PROVE  Copies(x)' = {} /\ x \notin MessagesOf(persisted)'
    BY DEF NewIsNowhere
  <2>1. fate[x] = "new" /\ x # m
    BY <1>1, <1>4 DEF TypeOK
  <2> QED
    BY <1>1, <1>2, <1>11, <2>1 DEF Traced, NewIsNowhere
<1>13. Few'
  <2> SUFFICES ASSUME NEW x \in Messages
               PROVE  /\ IsFiniteSet(Copies(x)') /\ Cardinality(Copies(x)') <= 1 + resends'
                      /\ Cardinality({i \in DOMAIN persisted' : persisted'[i].msg = x}) <= 1 + resends'
    BY DEF Few
  <2>1. /\ IsFiniteSet(Copies(x)) /\ Cardinality(Copies(x)) <= 1 + resends
        /\ Cardinality({i \in DOMAIN persisted : persisted[i].msg = x}) <= 1 + resends
    BY <1>1 DEF Traced, Few
  <2>2. Cardinality({i \in DOMAIN persisted' : persisted'[i].msg = x}) <= 1 + resends'
    <3>1. persisted \in Seq(Item) /\ Len(persisted) \in Nat
      BY <1>1 DEF TypeOK
    <3>2. IsFiniteSet(DOMAIN persisted)
      BY <3>1, FS_Interval
    <3>3. Cardinality({i \in DOMAIN persisted : persisted[i].msg = x}) \in Nat
      BY <3>2, FS_Subset, FS_CardinalityType
    <3> QED
      BY <1>2, <1>4, <1>5, <2>1, <3>3
  <2>3. Cardinality(Copies(x)) \in Nat
    BY <2>1, FS_CardinalityType
  <2>4. CASE x # m
    BY <1>4, <1>5, <1>11, <2>1, <2>2, <2>3, <2>4
  <2>5. CASE x = m
    <3>1. Copies(x)' = Copies(x) \cup {<<w, 1>>} /\ <<w, 1>> \notin Copies(x)
      BY <1>11, <2>5
    <3>2. IsFiniteSet(Copies(x)') /\ Cardinality(Copies(x)') = Cardinality(Copies(x)) + 1
      BY <2>1, <3>1, FS_AddElement
    <3>3. fate[m] = "new" => Cardinality(Copies(x)) = 0
      BY <1>1, <2>5, FS_EmptySet DEF Traced, NewIsNowhere
    <3> QED
      BY <1>4, <1>5, <2>1, <2>2, <2>3, <3>2, <3>3
  <2> QED
    BY <2>4, <2>5
<1>14. Tracked'
  <2> SUFFICES ASSUME NEW x \in Messages, fate'[x] = "queued" PROVE Copies(x)' # {} \/ x \in cut'
    BY DEF Tracked
  <2>1. fate[x] = "queued"
    BY <1>1, <1>4 DEF TypeOK
  <2> QED
    BY <1>1, <1>2, <1>11, <2>1 DEF Traced, Tracked
<1>15. Gone'
  <2> SUFFICES ASSUME resends' = 0, NEW x \in Messages, x \notin cut', Settled(x)' PROVE Copies(x)' = {}
    BY DEF Gone
  <2>1. resends = 0 /\ fate[m] = "new" /\ fate' = [fate EXCEPT ![m] = "sending"]
    BY <1>4, <1>5
  <2>2. x # m /\ Settled(x)
    BY <1>1, <2>1 DEF Settled, TypeOK
  <2> QED
    BY <1>1, <1>2, <1>11, <2>1, <2>2 DEF Traced, Gone
<1> QED
  BY <1>9, <1>10, <1>12, <1>13, <1>14, <1>15 DEF IInv, Traced

\* Where nothing moves, the queue may be persisted.
LEMMA StillTraced ==
    ASSUME TypeOK, TypeOK', Traced, queue' = queue, work' = work, fate' = fate,
           resends' = resends, cut' = cut, persisted' \in {persisted, queue'}
    PROVE  Traced'
<1> DEFINE org == [p \in Places |-> [i \in DOMAIN Held(p) |-> <<p, i>>]]
<1>1. \A p \in Places : Held(p)' = Held(p)
  BY DEF Held
<1>2. \A p \in Places : \A i \in DOMAIN Held(p) : org[p][i] = <<p, i>>
  OBVIOUS
<1> HIDE DEF org
<1>3. Moves(org)
  <2>1. ASSUME NEW p \in Places, NEW i \in DOMAIN Held(p)'
        PROVE  \E q \in Places : \E j \in DOMAIN Held(q) :
                   org[p][i] = <<q, j>> /\ Held(q)[j].msg = Held(p)'[i].msg
    BY <1>1, <1>2
  <2>2. ASSUME NEW p \in Places, NEW q \in Places, NEW i \in DOMAIN Held(p)', NEW j \in DOMAIN Held(q)',
               org[p][i] = org[q][j]
        PROVE  p = q /\ i = j
    <3>1. <<p, i>> = <<q, j>>
      BY <1>1, <1>2, <2>2
    <3> QED
      BY <3>1
  <2> QED
    BY <2>1, <2>2 DEF Moves
<1>4. \A m \in Messages : Copies(m)' = Copies(m)
  <2>1. \A m : \A c : c \in Copies(m)' <=> c \in Copies(m)
    BY <1>1, CopiesFacts
  <2> QED
    BY <2>1
<1>5. /\ \A m \in Messages : fate'[m] = "new" => fate[m] = "new"
      /\ \A m \in Messages :
            fate'[m] = "queued" => Copies(m)' # {} \/ (fate[m] = "queued" /\ Copies(m) = {})
      /\ \A m \in Messages :
            Settled(m)' => Settled(m) \/ \E c \in Copies(m) : Lost(org, c)
  BY <1>4 DEF Settled
<1> QED
  BY <1>3, <1>5, MovesTraced

\* The node starts, or stops.
LEMMA NodeInv ==
    ASSUME IInv, Start \/ Stop \/ StopFails
    PROVE  IInv'
<1>1. TypeOK /\ InHand /\ Saved /\ Traced
  BY DEF IInv
<1>2. /\ queue' = queue /\ work' = work /\ fate' = fate /\ resends' = resends /\ cut' = cut
      /\ persisted' \in {persisted, queue'} /\ phase' \in Phases
  BY DEF Start, Stop, StopFails, Phases
<1>3. TypeOK'
  BY <1>1, <1>2 DEF TypeOK
<1>4. InHand' /\ Saved'
  BY <1>1, <1>2 DEF InHand, Saved
<1>5. Traced'
  BY <1>1, <1>2, <1>3, StillTraced
<1> QED
  BY <1>3, <1>4, <1>5 DEF IInv

\* A reload: the copies of a message are those that localStorage holds.
LEMMA ReloadInv ==
    ASSUME IInv, Reload
    PROVE  IInv'
<1>1. TypeOK /\ InHand /\ Saved /\ Traced
  BY DEF IInv
<1>2. /\ queue' = persisted /\ work' = [w \in Workers |-> Idle] /\ phase' = "stopped"
      /\ cut' = cut \cup InFlight \cup (MessagesOf(persisted) \ MessagesOf(queue))
                    \cup (MessagesOf(queue) \ MessagesOf(persisted))
      /\ persisted' = persisted /\ fate' = fate /\ resends' = resends
  BY DEF Reload
<1>3. TypeOK'
  BY <1>1, <1>2 DEF TypeOK, Idle, Ops, Phases
<1>4. InHand' /\ Saved'
  BY <1>2 DEF InHand, Saved, Idle
<1>5. \A x, c : c \in Copies(x)' <=> \E i \in DOMAIN persisted : persisted[i].msg = x /\ c = <<"queue", i>>
  <2>1. Held("queue")' = persisted
    BY <1>2 DEF Held
  <2>2. \A w \in Workers : Held(w)' = <<>> /\ DOMAIN Held(w)' = {}
    BY <1>2, QueueAssumption DEF Held, Idle
  <2>3. Places = {"queue"} \cup Workers
    BY DEF Places
  <2> QED
    BY <2>1, <2>2, <2>3, CopiesFacts
<1>6. \A x : Copies(x)' # {} <=> x \in MessagesOf(persisted)
  BY <1>5 DEF MessagesOf
<1>7. \A x : Copies(x) # {} <=> x \in MessagesOf(queue) \cup InFlight
  BY CopiesAreHeld
<1>8. \A x : x \notin cut' => (Copies(x)' # {} <=> Copies(x) # {}) /\ x \notin cut
  BY <1>2, <1>6, <1>7
<1>9. NewIsNowhere'
  BY <1>1, <1>2, <1>6 DEF Traced, NewIsNowhere
<1>10. Few'
  <2> SUFFICES ASSUME NEW x \in Messages
               PROVE  /\ IsFiniteSet(Copies(x)') /\ Cardinality(Copies(x)') <= 1 + resends'
                      /\ Cardinality({i \in DOMAIN persisted' : persisted'[i].msg = x}) <= 1 + resends'
    BY DEF Few
  <2> DEFINE B == {i \in DOMAIN persisted : persisted[i].msg = x}
             f == [c \in Copies(x)' |-> c[2]]
  <2>1. Cardinality(B) <= 1 + resends
    BY <1>1 DEF Traced, Few
  <2>2. IsFiniteSet(B)
    <3>1. persisted \in Seq(Item) /\ Len(persisted) \in Nat
      BY <1>1 DEF TypeOK
    <3>2. IsFiniteSet(DOMAIN persisted)
      BY <3>1, FS_Interval
    <3> QED
      BY <3>2, FS_Subset
  <2>3. f \in Injection(Copies(x)', B)
    <3>1. \A c \in Copies(x)' : c[2] \in B /\ c = <<"queue", c[2]>>
      BY <1>5
    <3> QED
      BY <3>1 DEF Injection, IsInjective
  <2>4. IsFiniteSet(Copies(x)') /\ Cardinality(Copies(x)') <= Cardinality(B)
    BY <2>2, <2>3, FS_Injection
  <2>5. Cardinality(B) \in Nat /\ Cardinality(Copies(x)') \in Nat /\ resends \in Nat
    BY <1>1, <2>2, <2>4, FS_CardinalityType, QueueAssumption DEF TypeOK
  <2> QED
    BY <1>2, <2>1, <2>4, <2>5
<1>11. Tracked'
  BY <1>1, <1>2, <1>8 DEF Traced, Tracked
<1>12. Gone'
  BY <1>1, <1>2, <1>8 DEF Traced, Gone, Settled
<1> QED
  BY <1>3, <1>4, <1>9, <1>10, <1>11, <1>12 DEF IInv, Traced

-----------------------------------------------------------------------------
\* The theorems.

\* IInv holds in every state of every behaviour.
LEMMA Inductive == Spec => []IInv
<1>1. ASSUME IInv, [Next]_vars PROVE IInv'
  <2>1. CASE \E w \in Workers : \E m \in Messages : SendNew(w, m) \/ Resend(w, m) \/ Retry(w, m)
    BY <1>1, <2>1, SendInv, RetryInv
  <2>2. CASE \E w \in Workers : Flush(w) \/ Ready(w)
    BY <1>1, <2>2, FlushInv
  <2>3. CASE \E w \in Workers : \E due \in SUBSET DOMAIN queue : Tick(w, due)
    BY <1>1, <2>3, TickInv
  <2>4. CASE \E w \in Workers : Return(w)
    <3>1. PICK w \in Workers : Delivered(w) \/ Unsupported(w) \/ Requeued(w) \/ PutBack(w)
      BY <2>4 DEF Return
    <3> QED
      BY <1>1, <3>1, DoneInv, RequeuedInv, PutBackInv DEF Delivered, Unsupported
  <2>5. CASE Start \/ Stop \/ StopFails
    BY <1>1, <2>5, NodeInv
  <2>6. CASE Reload
    BY <1>1, <2>6, ReloadInv
  <2>7. CASE UNCHANGED vars
    <3>1. /\ queue' = queue /\ work' = work /\ fate' = fate /\ resends' = resends /\ cut' = cut
          /\ persisted' \in {persisted, queue'} /\ persisted' = persisted /\ phase' = phase
      BY <2>7 DEF vars
    <3>2. TypeOK' /\ InHand' /\ Saved'
      BY <1>1, <3>1 DEF IInv, TypeOK, InHand, Saved
    <3>3. Traced'
      BY <1>1, <3>1, <3>2, StillTraced DEF IInv
    <3> QED
      BY <3>2, <3>3 DEF IInv
  <2> QED
    BY <1>1, <2>1, <2>2, <2>3, <2>4, <2>5, <2>6, <2>7 DEF Next
<1> QED
  BY <1>1, InitInv, PTL DEF Spec

\* Whatever overlaps, memory and localStorage agree whenever no call is under
\* way, and a message has more copies than one only by as many as there were
\* sends the user repeated: flushes, retries, overlapping ticks, stops and
\* reloads never multiply it (enqueue, flushQueue and the retry loop).
THEOREM QueueSound == Spec => []QueueIsSound
<1>1. ASSUME IInv PROVE QueueIsSound
  <2>1. TypeOK /\ CopiesBounded
    BY <1>1 DEF IInv, Traced, Few, CopiesBounded
  <2>2. QuiescentPersisted
    BY <1>1 DEF IInv, Saved, QuiescentPersisted, Idle
  <2> QED
    BY <2>1, <2>2 DEF QueueIsSound
<1> QED
  BY <1>1, Inductive, PTL

\* The reports on a message are true.  One reported as queued is in the queue or
\* in the hands of a call, or a reload took it from one: nothing drops it
\* silently (sendChatMessageToPeer answered false).  One that has gone out, failed or cannot be
\* delivered has no copy left for a later pass to send, unless the user repeated
\* a send or a reload cut a pass short.
THEOREM FateTrue == Spec => []FateIsTrue
<1>1. ASSUME IInv PROVE FateIsTrue
  <2>1. QueuedIsTracked
    BY <1>1, CopiesAreHeld DEF IInv, Traced, Tracked, QueuedIsTracked
  <2>2. SettledIsGone
    BY <1>1, CopiesAreHeld DEF IInv, Traced, Gone, Settled, SettledIsGone
  <2> QED
    BY <2>1, <2>2 DEF FateIsTrue
<1> QED
  BY <1>1, Inductive, PTL

-----------------------------------------------------------------------------
\* The queue implements the outbox.

\* A first send hands a message over, a repeated one opens it again.
LEMMA SendOpens ==
    ASSUME IInv, NEW w \in Workers, NEW m \in Messages, SendNew(w, m) \/ Resend(w, m)
    PROVE  Outbox!Hand(m) \/ Outbox!Repeat(m)
<1> DEFINE open == MessagesOf(queue) \cup InFlight
<1>1. TypeOK /\ work[w] = Idle /\ queue' = queue /\ cut' = cut
      /\ work' = [work EXCEPT ![w] = Busy("send", <<NewItem(m)>>)]
  BY DEF IInv, SendNew, Resend
<1>2. NewItem(m).msg = m
  BY DEF NewItem
<1>3. \A x : Copies(x)' = Copies(x) \cup (IF x = m THEN {<<w, 1>>} ELSE {})
  BY <1>1, <1>2, CopyAdded
<1>4. \A x : x \in open' <=> x \in open \/ x = m
  BY <1>3, OpenHasCopy
<1> HIDE DEF open
<1>5. open' = open \cup {m}
  BY <1>4
<1>6. CASE SendNew(w, m)
  BY <1>1, <1>5, <1>6 DEF SendNew, Outbox!Hand, open
<1>7. CASE Resend(w, m)
  BY <1>1, <1>5, <1>7 DEF Resend, Outbox!Repeat, open
<1> QED
  BY <1>6, <1>7

\* A reload closes and reopens only what it is blamed for.
LEMMA ReloadForgets ==
    ASSUME IInv, Reload
    PROVE  Outbox!Forget
<1> DEFINE open == MessagesOf(queue) \cup InFlight
<1>1. /\ queue' = persisted /\ work' = [w \in Workers |-> Idle]
      /\ cut' = cut \cup InFlight \cup (MessagesOf(persisted) \ MessagesOf(queue))
                    \cup (MessagesOf(queue) \ MessagesOf(persisted))
      /\ fate' = fate /\ resends' = resends
  BY DEF Reload
<1>2. InFlight' = {}
  BY <1>1 DEF InFlight, MessagesOf, Idle
<1>3. open' = MessagesOf(persisted)
  <2>1. MessagesOf(queue)' = MessagesOf(persisted)
    BY <1>1 DEF MessagesOf
  <2> QED
    BY <1>2, <2>1
<1>4. \A m \in MessagesOf(persisted) : m \in Messages /\ fate[m] # "new"
  <2>1. \A m \in MessagesOf(persisted) : m \in Messages
    <3>1. \A i \in DOMAIN persisted : persisted[i] \in Item
      BY DEF IInv, TypeOK
    <3>2. \A item \in Item : item.msg \in Messages
      BY DEF Item
    <3> QED
      BY <3>1, <3>2 DEF MessagesOf
  <2> QED
    BY <2>1 DEF IInv, Traced, NewIsNowhere
<1>5. cut \subseteq cut' /\ cut' \ cut \subseteq open \cup open'
  BY <1>1, <1>3
<1>6. open \ cut' = open' \ cut'
  BY <1>1, <1>3
<1> HIDE DEF open
<1>7. \A m \in open' : fate[m] # "new"
  BY <1>3, <1>4
<1> QED
  BY <1>1, <1>5, <1>6, <1>7 DEF Outbox!Forget, open

\* From outside, every step hands a message over, works on what is open, loses
\* track of some in a reload, or does nothing.
LEMMA StepsRefine == IInv /\ [Next]_vars => [Outbox!Next]_(Outbox!vars)
<1> SUFFICES ASSUME IInv, [Next]_vars PROVE [Outbox!Next]_(Outbox!vars)
  OBVIOUS
<1>1. CASE \E w \in Workers : \E m \in Messages : SendNew(w, m) \/ Resend(w, m)
  BY <1>1, SendOpens DEF Outbox!Next
<1>2. CASE \E w \in Workers : \E m \in Messages : Retry(w, m)
  BY <1>2, RetryInv DEF Outbox!Next
<1>3. CASE \E w \in Workers : Flush(w) \/ Ready(w)
  BY <1>3, FlushInv DEF Outbox!Next
<1>4. CASE \E w \in Workers : \E due \in SUBSET DOMAIN queue : Tick(w, due)
  BY <1>4, TickInv DEF Outbox!Next
<1>5. CASE \E w \in Workers : Return(w)
  <2>1. PICK w \in Workers : Delivered(w) \/ Unsupported(w) \/ Requeued(w) \/ PutBack(w)
    BY <1>5 DEF Return
  <2>2. Outbox!Work
    BY <2>1, DoneInv, RequeuedInv, PutBackInv DEF Delivered, Unsupported
  <2> QED
    BY <2>2 DEF Outbox!Next
<1>6. CASE Reload
  BY <1>6, ReloadForgets DEF Outbox!Next
<1>7. CASE Start \/ Stop \/ StopFails \/ UNCHANGED vars
  <2>1. queue' = queue /\ work' = work /\ fate' = fate /\ resends' = resends /\ cut' = cut
    BY <1>7 DEF Start, Stop, StopFails, vars
  <2> QED
    BY <2>1 DEF Outbox!vars, MessagesOf, InFlight
<1> QED
  BY <1>1, <1>2, <1>3, <1>4, <1>5, <1>6, <1>7 DEF Next

\* Whatever sends, flushes, retries, ticks, stops and reloads overlap, the queue
\* and its passes look from outside like an outbox: every message handed to
\* sendChatMessageToPeer stays open until one final outcome closes it.
THEOREM QueueImplementsOutbox == Spec => ImplementsOutbox
<1>1. Init => Outbox!Init
  <2> SUFFICES ASSUME Init PROVE Outbox!Init
    OBVIOUS
  <2>1. MessagesOf(queue) \cup InFlight = {}
    BY DEF Init, MessagesOf, InFlight, Idle
  <2> QED
    BY <2>1 DEF Init, Outbox!Init
<1> QED
  BY <1>1, StepsRefine, Inductive, PTL DEF Spec, ImplementsOutbox, Outbox!Spec
=============================================================================
