--------------------------- MODULE MailboxDrain ---------------------------
(***************************************************************************)
(* A device empties its mailbox: the drain effect of apps/web/src/App.tsx, *)
(* over requestMailboxProtocol of packages/network/src/session.ts, against *)
(* what the relay promises (Mailbox; MailboxStore implements it).          *)
(*                                                                         *)
(* A drain walks the pages of one relay: pull a page, ingest and save each *)
(* item, acknowledge the page, go on from the cursor.  Every change of the *)
(* connection state cancels the current drain and starts another, and a    *)
(* cancelled one keeps running until it next looks at its flag; requests   *)
(* and replies get lost, and an acknowledgement may reach the relay after  *)
(* its sender stopped waiting.  Several relays are drained one after the   *)
(* other by the same loop, so one is enough.                               *)
(*                                                                         *)
(* An ingested item is in the state in memory at once and on disk after an *)
(* await, which may fail; an item found in memory is a duplicate and is    *)
(* acknowledged without one.  That ingestions and other saves also write   *)
(* over one another is the subject of ChatState.                           *)
(***************************************************************************)
EXTENDS MailboxQueue

CONSTANTS
    Me,           \* the recipient
    EnvelopeIds, SentAts, Expiries, DefaultTTL, MaxPerRecipient, Horizon, MaxAppends,
    Drains,       \* drains that may overlap: the current one and cancelled ones
    PageSize,     \* the limit of a pull, 50 in the code
    MaxFaults,    \* bound on lost requests, interruptions, reloads and restarts
    CanRepeat     \* senders retry an enqueue whose envelope has left the relay

VARIABLES
    held, now, appended, answer,  \* the relay, see Mailbox
    drains,  \* drains[d]: where d stands in its walk
    late,    \* acknowledgements nobody waits for that may still reach the relay
    memory,  \* ids of the envelopes whose message is in the state in memory
    saved,   \* ids of those written to disk
    unsaved, \* ids acknowledged as duplicates while they were not (history)
    offered, \* ids the relay has accepted so far
    faults   \* faults so far

Relay == INSTANCE Mailbox WITH Peers <- {Me}

relayVars == <<held, now, appended, answer>>
chatVars == <<memory, saved, unsaved>>
vars == <<held, now, appended, answer, drains, late, memory, saved, unsaved, offered, faults>>

ASSUME DrainAssumption ==
    /\ Relay!MailboxAssumption
    /\ PageSize \in Nat \ {0}
    /\ MaxFaults \in Nat
    /\ CanRepeat \in BOOLEAN

box == held[Me]

\* at: pull   - the request for a page is on its way
\*     reply  - the relay has answered, the reply is on its way
\*     ingest - the first of todo is to be ingested
\*     saving - it is in memory, its write to disk is under way
\*     ack    - the acknowledgement of the page is on its way
\*     done   - the walk reached its end; cut: it stopped before
\* present: what the mailbox has held without a break since the walk began
\* seen: the ids the walk was handed
Steps == {"pull", "reply", "ingest", "saving", "ack", "done", "cut"}
Drain == [at : Steps, cursor : EnvelopeIds \cup {NoCursor}, todo : SUBSET Relay!Entry,
          acking : SUBSET EnvelopeIds, cancelled : BOOLEAN,
          present : SUBSET Relay!Entry, seen : SUBSET EnvelopeIds]

NewDrain == [at |-> "pull", cursor |-> NoCursor, todo |-> {}, acking |-> {},
             cancelled |-> FALSE, present |-> box, seen |-> {}]
NoDrain == [NewDrain EXCEPT !.at = "cut", !.present = {}]

Ended(d) == drains[d].at \in {"done", "cut"}

\* A request, a reply or a whole page of work is lost.
Fault == faults < MaxFaults /\ faults' = faults + 1

\* Envelopes that leave the mailbox are no longer there throughout a walk.
StillPresent(ds) == [d \in Drains |-> [ds[d] EXCEPT !.present = @ \cap held'[Me]]]

Init ==
    /\ Relay!Init
    /\ drains = [d \in Drains |-> NoDrain]
    /\ late = {}
    /\ memory = {}
    /\ saved = {}
    /\ unsaved = {}
    /\ offered = {}
    /\ faults = 0

-----------------------------------------------------------------------------
\* Senders and the relay's clock.

Enqueue(id, sentAt, expiry) ==
    /\ CanRepeat \/ id \notin offered \ Ids(box)
    /\ \/ Relay!Accept(Me, id, sentAt, expiry)
       \/ Relay!AcceptAgain(Me, id)
       \/ Relay!Refuse(Me, id)
    /\ offered' = IF answer'.accepted THEN offered \cup {id} ELSE offered
    /\ UNCHANGED <<drains, late, chatVars, faults>>

Expire ==
    /\ Relay!Tick
    /\ drains' = StillPresent(drains)
    /\ UNCHANGED <<late, chatVars, offered, faults>>

RelayRestart ==
    /\ Relay!Restart
    /\ Fault
    /\ drains' = StillPresent(drains)
    /\ UNCHANGED <<late, chatVars, offered>>

-----------------------------------------------------------------------------
\* The drain effect.

Cancelled(d) == IF Ended(d) THEN drains[d] ELSE [drains[d] EXCEPT !.cancelled = TRUE]

\* The effect runs: its cleanup cancels the drain before, a new one starts.
\* Interrupting a drain that still runs counts as a fault.
Connected(d) ==
    /\ Ended(d)
    /\ drains' = [c \in Drains |-> IF c = d THEN NewDrain ELSE Cancelled(c)]
    /\ IF \A c \in Drains : Ended(c) THEN UNCHANGED faults ELSE Fault
    /\ UNCHANGED <<relayVars, late, chatVars, offered>>

\* The relay answers the pull.
Pull(d) ==
    LET cursor == drains[d].cursor
    IN  /\ drains[d].at = "pull"
        /\ Relay!Read
        /\ drains' = [drains EXCEPT ![d].at = "reply",
                                    ![d].todo = Page(box, PageSize, cursor),
                                    ![d].cursor = NextCursor(box, PageSize, cursor)]
        /\ UNCHANGED <<late, chatVars, offered, faults>>

\* The reply is in: an empty page ends the walk; a cancelled drain stops before
\* its first item.
Receive(d) ==
    LET w == drains[d]
    IN  /\ w.at = "reply"
        /\ drains' = [drains EXCEPT ![d] =
                          IF w.todo = {} THEN [w EXCEPT !.at = "done"]
                          ELSE IF w.cancelled THEN NoDrain
                          ELSE [w EXCEPT !.at = "ingest", !.seen = w.seen \cup Ids(w.todo), !.acking = {}]]
        /\ UNCHANGED <<relayVars, late, chatVars, offered, faults>>

\* No reply: requestMailboxProtocol returns null, and the walk breaks off.
PullFails(d) ==
    /\ drains[d].at \in {"pull", "reply"}
    /\ Fault
    /\ drains' = [drains EXCEPT ![d] = NoDrain]
    /\ UNCHANGED <<relayVars, late, chatVars, offered>>

First(page) == CHOOSE e \in page : \A f \in page \ {e} : Precedes(e, f)
Item(d) == First(drains[d].todo)

\* The item joins the page's acknowledgement; a cancelled drain stops before its
\* next item, not after its last.
Advance(d) ==
    LET w == drains[d]
        rest == w.todo \ {Item(d)}
    IN  [drains EXCEPT ![d] =
            IF rest # {} /\ w.cancelled THEN NoDrain
            ELSE [w EXCEPT !.todo = rest,
                           !.acking = w.acking \cup {Item(d).envelopeId},
                           !.at = IF rest = {} THEN "ack" ELSE "ingest"]]

\* Mutant of Ingest: the loop does not wait for the item to be saved.
IngestUnawaited(d) ==
    /\ drains[d].at = "ingest"
    /\ Item(d).envelopeId \notin memory
    /\ memory' = memory \cup {Item(d).envelopeId}
    /\ drains' = Advance(d)
    /\ UNCHANGED <<relayVars, late, saved, unsaved, offered, faults>>

\* A message that memory does not hold is added to it, and its write begins.
Ingest(d) ==
    /\ drains[d].at = "ingest"
    /\ Item(d).envelopeId \notin memory
    /\ memory' = memory \cup {Item(d).envelopeId}
    /\ drains' = [drains EXCEPT ![d] = [@ EXCEPT !.at = "saving"]]
    /\ UNCHANGED <<relayVars, late, saved, unsaved, offered, faults>>

\* One that memory holds is a duplicate, whether or not it is on disk yet.
IngestDuplicate(d) ==
    /\ drains[d].at = "ingest"
    /\ Item(d).envelopeId \in memory
    /\ unsaved' = unsaved \cup ({Item(d).envelopeId} \ saved)
    /\ drains' = Advance(d)
    /\ UNCHANGED <<relayVars, late, memory, saved, offered, faults>>

\* The item is on disk.
SaveItem(d) ==
    /\ drains[d].at = "saving"
    /\ saved' = saved \cup {Item(d).envelopeId}
    /\ drains' = Advance(d)
    /\ UNCHANGED <<relayVars, late, memory, unsaved, offered, faults>>

\* The write fails: the rejection ends the walk, and the message stays in memory.
SaveFails(d) ==
    /\ drains[d].at = "saving"
    /\ Fault
    /\ drains' = [drains EXCEPT ![d] = NoDrain]
    /\ UNCHANGED <<relayVars, late, chatVars, offered>>

\* Where the loop goes after the acknowledgement, whatever came of it.
AfterAck(d) ==
    [drains EXCEPT ![d] =
        IF @.cursor = NoCursor THEN [@ EXCEPT !.at = "done", !.acking = {}]
        ELSE IF @.cancelled THEN NoDrain
        ELSE [@ EXCEPT !.at = "pull", !.acking = {}]]

\* Mutant of AckPage: the last page is never acknowledged.
AckPageUnlessLast(d) ==
    /\ drains[d].at = "ack"
    /\ IF drains[d].cursor = NoCursor THEN Relay!Read ELSE Relay!Acknowledge(Me, drains[d].acking)
    /\ drains' = StillPresent(AfterAck(d))
    /\ UNCHANGED <<late, chatVars, offered, faults>>

AckPage(d) ==
    /\ drains[d].at = "ack"
    /\ Relay!Acknowledge(Me, drains[d].acking)
    /\ drains' = StillPresent(AfterAck(d))
    /\ UNCHANGED <<late, chatVars, offered, faults>>

\* The wait for the reply times out; the request may still be under way.
AckTimesOut(d) ==
    /\ drains[d].at = "ack"
    /\ Fault
    /\ late' = late \cup {drains[d].acking}
    /\ drains' = AfterAck(d)
    /\ UNCHANGED <<relayVars, chatVars, offered>>

LateAck(ids) ==
    /\ ids \in late
    /\ Relay!Acknowledge(Me, ids)
    /\ late' = late \ {ids}
    /\ drains' = StillPresent(drains)
    /\ UNCHANGED <<chatVars, offered, faults>>

\* The page reloads between two steps of its drains; the state is read from disk.
Reload ==
    /\ Fault
    /\ drains' = [d \in Drains |-> NoDrain]
    /\ memory' = saved
    /\ UNCHANGED <<relayVars, late, saved, unsaved, offered>>

\* The steps of a drain that lead on with nothing lost.
Proceed(d) == Pull(d) \/ Receive(d) \/ Ingest(d) \/ IngestDuplicate(d) \/ SaveItem(d) \/ AckPage(d)

Next ==
    \/ \E id \in EnvelopeIds, sentAt \in SentAts, expiry \in Relay!GrantedExpiries(now) :
          Enqueue(id, sentAt, expiry)
    \/ Expire
    \/ RelayRestart
    \/ \E d \in Drains : Connected(d) \/ Proceed(d) \/ PullFails(d) \/ SaveFails(d) \/ AckTimesOut(d)
    \/ \E ids \in late : LateAck(ids)
    \/ Reload

Spec == Init /\ [][Next]_vars

\* Requests are answered and saves complete; a device with no drain under way
\* is sooner or later connected to its relay again.
Fairness ==
    /\ \A d \in Drains : WF_vars(Proceed(d))
    /\ WF_vars((\A d \in Drains : Ended(d)) /\ \E d \in Drains : Connected(d))

FairSpec == Spec /\ Fairness

-----------------------------------------------------------------------------

\* The state is well formed.
TypeOK ==
    /\ held \in [{Me} -> SUBSET Relay!Entry]
    /\ now \in Nat
    /\ appended \in Nat
    /\ answer \in Relay!Answer \cup {Relay!NoAnswer}
    /\ drains \in [Drains -> Drain]
    /\ \A d \in Drains : drains[d].at \in {"ingest", "saving"} => drains[d].todo # {}
    /\ late \subseteq SUBSET EnvelopeIds
    /\ memory \subseteq EnvelopeIds
    /\ saved \subseteq EnvelopeIds
    /\ unsaved \subseteq EnvelopeIds
    /\ offered \subseteq EnvelopeIds
    /\ faults \in 0..MaxFaults

\* What a drain may acknowledge: saved envelopes, and those it found in memory
\* while their write was pending or had failed.
Acknowledgeable == saved \cup unsaved

\* An envelope leaves the relay only once the device has saved it, it expired,
\* or the relay lost its memory: no reload, lost reply, late acknowledgement,
\* failed write or overlap of drains makes the relay drop a message the device
\* does not have, except one a drain met in memory before it was on disk.
OnlySavedIsDropped ==
    [][\A e \in box : \/ e \in held'[Me]
                    \/ e.envelopeId \in Acknowledgeable
                    \/ e.expiresAt <= now'
                    \/ RelayRestart]_vars

\* Only those envelopes are ever named in an acknowledgement, sent or under way.
AcksAreSaved ==
    /\ \A d \in Drains :
          drains[d].at \in {"ingest", "saving", "ack"} => drains[d].acking \subseteq Acknowledgeable
    /\ \A ids \in late : ids \subseteq Acknowledgeable

\* "Pull pagination is stable under concurrent ack": a walk that reached its end
\* was handed every envelope that was in the mailbox all along, although pages
\* were acknowledged, envelopes expired and earlier-dated ones arrived between
\* its pulls, and although its cursor may name an envelope that is gone.  (It
\* takes that no id comes back once it has left: with CanRepeat it may, with a new
\* date, and the cursor of a running walk moves with it.)
WalkMissesNothing ==
    \A d \in Drains : drains[d].at = "done" => Ids(drains[d].present) \subseteq drains[d].seen

\* What a drain acknowledges it has saved, and what it walked past it has seen.
WalkIsSound == TypeOK /\ AcksAreSaved /\ WalkMissesNothing

\* Once faults stop, every envelope is taken out of the mailbox; with
\* OnlySavedIsDropped that means ingested, unless it expired first.
MailboxEmpties == \A id \in EnvelopeIds : id \in Ids(box) ~> id \notin Ids(box)

-----------------------------------------------------------------------------
\* What holds in every state and makes these properties hold in the next.

\* The mailbox is ordered, and holds what was offered.
BoxIsOrdered ==
    /\ IsFiniteSet(box)
    /\ \A e \in box : e.arrival <= appended
    /\ \A e, f \in box : (e.arrival = f.arrival \/ e.envelopeId = f.envelopeId) => e = f
    /\ Ids(box) \subseteq offered

\* So is the page a drain works through, which is empty only at the end.
PagesAreOrdered ==
    \A d \in Drains :
        /\ \A e, f \in drains[d].todo : e.arrival = f.arrival => e = f
        /\ drains[d].at = "reply" /\ drains[d].todo = {} => drains[d].cursor = NoCursor

\* What a walk has not been handed yet is on the page that is on its way, or
\* comes after the cursor it goes on from.
Ahead(d, e) ==
    /\ drains[d].at = "pull" \/ drains[d].cursor # NoCursor
    /\ \A c \in box : c.envelopeId = drains[d].cursor => Precedes(c, e)

WalkAdvances ==
    \A d \in Drains :
        /\ drains[d].present \subseteq box
        /\ drains[d].cursor \in offered \cup {NoCursor}
        /\ \A e \in drains[d].present :
              \/ Ended(d) \/ CanRepeat
              \/ e.envelopeId \in drains[d].seen
              \/ drains[d].at = "reply" /\ e \in drains[d].todo
              \/ Ahead(d, e)

IInv ==
    /\ TypeOK /\ BoxIsOrdered /\ PagesAreOrdered /\ AcksAreSaved /\ WalkAdvances
    /\ CanRepeat \/ WalkMissesNothing
=============================================================================
