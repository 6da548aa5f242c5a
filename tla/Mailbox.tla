------------------------------ MODULE Mailbox ------------------------------
(***************************************************************************)
(* What the relay mailbox promises its clients: for every recipient a      *)
(* bounded set of envelopes, each held from its acceptance until the       *)
(* recipient acknowledges it, its expiry passes or the relay restarts.     *)
(* Expired envelopes leave at once and there is no second index; that the  *)
(* store, which prunes lazily, looks like this from outside is the         *)
(* refinement MailboxStore!ImplementsMailbox.                              *)
(***************************************************************************)
EXTENDS MailboxQueue

CONSTANTS
    Peers,            \* recipients (and the peers that connect as them)
    EnvelopeIds,      \* envelope ids, "mbx-<message id>"
    SentAts,          \* the senders' clock readings
    Expiries,         \* expiry times a sender may ask for
    DefaultTTL,       \* lifetime of an envelope whose sender asks for none
    MaxPerRecipient,  \* capacity of one queue
    Horizon,          \* bound on the clock
    MaxAppends        \* bound on the number of accepted envelopes

\* What a module that instantiates this one assumes of its constants.
MailboxAssumption ==
    /\ NoCursor \notin EnvelopeIds
    /\ SentAts \subseteq Nat
    /\ Expiries \subseteq Nat
    /\ DefaultTTL \in Nat \ {0}
    /\ MaxPerRecipient \in Nat \ {0}
    /\ Horizon \in Nat
    /\ MaxAppends \in Nat

VARIABLES
    held,      \* held[r]: the envelopes kept for r, none of them expired
    now,       \* the relay's clock
    appended,  \* how many envelopes were appended so far (orders equal sentAt)
    answer     \* the answer to the latest request, when that was an enqueue

vars == <<held, now, appended, answer>>

Entry == [envelopeId : EnvelopeIds, sentAt : Nat, expiresAt : Nat, arrival : Nat \ {0}]
Answer == [recipient : Peers, envelopeId : EnvelopeIds, expiresAt : Nat, accepted : BOOLEAN]
NoAnswer == [accepted |-> FALSE]

\* The expiry an accepted envelope gets: the sender's, or the relay's default.
GrantedExpiries(t) == Expiries \cup {t + DefaultTTL}

\* The replies of the enqueue handler: accepted, with the expiry of the envelope
\* that is held, or refused, with none.
Accepted(r, id, expiry) ==
    [recipient |-> r, envelopeId |-> id, expiresAt |-> expiry, accepted |-> TRUE]
Refused(r, id) ==
    [recipient |-> r, envelopeId |-> id, expiresAt |-> 0, accepted |-> FALSE]

-----------------------------------------------------------------------------

Init ==
    /\ held = [r \in Peers |-> {}]
    /\ now = 0
    /\ appended = 0
    /\ answer = NoAnswer

\* A new envelope within the capacity is held, unless it arrives expired.
Accept(r, id, sentAt, expiry) ==
    /\ id \notin Ids(held[r])
    /\ Cardinality(held[r]) < MaxPerRecipient
    /\ appended < MaxAppends
    /\ appended' = appended + 1
    /\ held' = [held EXCEPT ![r] = @ \cup Live({[envelopeId |-> id, sentAt |-> sentAt,
                                                expiresAt |-> expiry, arrival |-> appended + 1]}, now)]
    /\ answer' = Accepted(r, id, expiry)
    /\ UNCHANGED now

\* An envelope that is already held is accepted again without a second copy, and
\* keeps the expiry it has.
AcceptAgain(r, id) ==
    /\ \E e \in held[r] : e.envelopeId = id /\ answer' = Accepted(r, id, e.expiresAt)
    /\ UNCHANGED <<held, now, appended>>

\* Only a queue full of live envelopes refuses a new one.
Refuse(r, id) ==
    /\ id \notin Ids(held[r])
    /\ Cardinality(held[r]) >= MaxPerRecipient
    /\ answer' = Refused(r, id)
    /\ UNCHANGED <<held, now, appended>>

\* The recipient, and nobody else, takes envelopes out of its own queue.
Acknowledge(r, ids) ==
    /\ held' = [held EXCEPT ![r] = {e \in @ : e.envelopeId \notin ids}]
    /\ answer' = NoAnswer
    /\ UNCHANGED <<now, appended>>

\* A request that reads.
Read ==
    /\ answer' = NoAnswer
    /\ UNCHANGED <<held, now, appended>>

\* Time passes; what expires is gone.
Tick ==
    /\ now < Horizon
    /\ now' = now + 1
    /\ held' = [r \in Peers |-> Live(held[r], now + 1)]
    /\ answer' = NoAnswer
    /\ UNCHANGED appended

\* The relay process restarts with an empty mailbox.
Restart ==
    /\ held' = [r \in Peers |-> {}]
    /\ answer' = NoAnswer
    /\ UNCHANGED <<now, appended>>

Next ==
    \/ \E r \in Peers, id \in EnvelopeIds :
          \/ \E sentAt \in SentAts, expiry \in GrantedExpiries(now) : Accept(r, id, sentAt, expiry)
          \/ AcceptAgain(r, id)
          \/ Refuse(r, id)
    \/ \E r \in Peers, ids \in SUBSET EnvelopeIds : Acknowledge(r, ids)
    \/ Read
    \/ Tick
    \/ Restart

Spec == Init /\ [][Next]_vars
=============================================================================
