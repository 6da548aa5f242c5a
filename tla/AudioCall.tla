----------------------------- MODULE AudioCall -----------------------------
(***************************************************************************)
(* Audio calls between two devices: apps/web/src/hooks/useAudioCall.ts.    *)
(*                                                                         *)
(* Each signal travels on a stream of its own, so signals arrive in any    *)
(* order, or not at all.  What happens between two awaits of startCall,    *)
(* acceptCall and rejectCall is a step.                                    *)
(* The state of the call is React state: handlers and buttons read the     *)
(* copy an effect makes of it after rendering (activeCallRef), so they may *)
(* read an older one.  React renders a click's own change before the next  *)
(* event, so a button's action changes the copy too.                       *)
(* The phases ended and error differ in what is shown only: both are       *)
(* "over".  Muting and the audio itself are in AudioStream, the sounds of  *)
(* a call in CallEarcons; the call history is left out.                    *)
(***************************************************************************)
EXTENDS Naturals, FiniteSets

CONSTANTS
    Devices,  \* the two ends
    CallIds,  \* bounds how many calls are made
    NoId,     \* the id of no call
    MaxFlows,   \* bound on pending flows
    MaxSignals  \* bound on signals under way

ASSUME CallAssumption ==
    /\ IsFiniteSet(Devices) /\ Cardinality(Devices) = 2
    /\ NoId \notin CallIds
    /\ MaxFlows \in Nat
    /\ MaxSignals \in Nat

VARIABLES
    call,       \* call[d]: the call state of d
    shown,      \* shown[d]: activeCallRef, the state last rendered
    abort,      \* abort[d]: startCallAbortRef
    held,       \* held[d]: localStreamRef holds a microphone stream
    open,       \* open[d]: how many microphone streams are open
    recording,  \* recording[d]: a recorder runs and its chunks are enabled
    tasks,      \* tasks[d]: the pending flows of d and where each stands
    signals,    \* signals under way
    placed,     \* ids used so far
    accepted,   \* calls somebody chose to answer
    finished,   \* <<d, id>>: the call was over at d at some moment
    strayed,    \* calls changed by a flow, or by a handler that saw another call
    late        \* devices that were given the microphone after their call was over

ends == <<call, shown, abort, held, open, recording, tasks>>
history == <<placed, accepted, finished, strayed, late>>
vars == <<call, shown, abort, held, open, recording, tasks, signals,
          placed, accepted, finished, strayed, late>>

Phases == {"idle", "requesting-media", "connecting", "ringing", "incoming", "connected", "over"}
Call == [id : CallIds \cup {NoId}, outgoing : BOOLEAN, phase : Phases]
NoCall == [id |-> NoId, outgoing |-> FALSE, phase |-> "idle"]

\* at: media - waits for the microphone; dial - waits for dialPeerById;
\*     send  - waits for sendSignal
Task == [op : {"start", "accept", "reject"}, id : CallIds,
         at : {"media", "dial", "send"}]
Signal == [type : {"offer", "ringing", "accept", "reject", "busy", "hangup"},
           id : CallIds, to : Devices]

Live(c) == c.phase \notin {"idle", "over"}
Other(d) == CHOOSE e \in Devices : e # d
SignalTo(d, type, id) == [type |-> type, id |-> id, to |-> d]

\* A signal goes out, "taken" having been taken in.
Send(signal, taken) ==
    /\ signals' = (signals \ taken) \cup {signal}
    /\ Cardinality(signals') <= MaxSignals

Init ==
    /\ call = [d \in Devices |-> NoCall]
    /\ shown = [d \in Devices |-> NoCall]
    /\ abort = [d \in Devices |-> FALSE]
    /\ held = [d \in Devices |-> FALSE]
    /\ open = [d \in Devices |-> 0]
    /\ recording = [d \in Devices |-> FALSE]
    /\ tasks = [d \in Devices |-> {}]
    /\ signals = {}
    /\ placed = {}
    /\ accepted = {}
    /\ finished = {}
    /\ strayed = {}
    /\ late = {}

-----------------------------------------------------------------------------
\* A flow that belongs to call "id", or a signal whose handler saw that call,
\* changes the state, whichever call it holds by now.

Stray(d, id) ==
    strayed' = IF call[d] # NoCall /\ call[d].id # id THEN strayed \cup {call[d].id} ELSE strayed

\* setCall((current) => current ? { ...current, phase } : current).
SetPhase(d, id, phase) ==
    /\ call' = [call EXCEPT ![d] = IF @ = NoCall THEN @ ELSE [@ EXCEPT !.phase = phase]]
    /\ Stray(d, id)

\* Mutant of StopAudio: the recorder stops, the microphone stays on.
StopRecorderOnly(d) ==
    /\ recording' = [recording EXCEPT ![d] = FALSE]
    /\ UNCHANGED <<held, open>>

\* stopOutgoingAudio and stopLocalAudio: the recorder stops, and the stream
\* that is held is closed.
StopAudio(d) ==
    /\ recording' = [recording EXCEPT ![d] = FALSE]
    /\ held' = [held EXCEPT ![d] = FALSE]
    /\ open' = [open EXCEPT ![d] = IF held[d] THEN @ - 1 ELSE @]

\* finalizeCall: the call that is there is over.
Finalize(d, id) ==
    /\ abort' = [abort EXCEPT ![d] = TRUE]
    /\ StopAudio(d)
    /\ SetPhase(d, id, "over")
    /\ finished' = IF call[d] = NoCall THEN finished ELSE finished \cup {<<d, call[d].id>>}

-----------------------------------------------------------------------------
\* The buttons.

Begin(d, op, id, at) ==
    /\ Cardinality(tasks[d]) + Cardinality(tasks[Other(d)]) < MaxFlows
    /\ tasks' = [tasks EXCEPT ![d] = @ \cup {[op |-> op, id |-> id, at |-> at]}]

\* acquireLocalAudio returns at once if a stream is held: the flow goes on to
\* its dial, and the phase with it.
BeginWithMedia(d, op, id) == Begin(d, op, id, IF held[d] THEN "dial" ELSE "media")
FirstPhase(d) == IF held[d] THEN "connecting" ELSE "requesting-media"

\* startCall up to its first await, unless a call is on.
StartCall(d, id) ==
    /\ ~Live(shown[d])
    /\ id \notin placed
    /\ placed' = placed \cup {id}
    /\ abort' = [abort EXCEPT ![d] = FALSE]
    /\ call' = [call EXCEPT ![d] = [id |-> id, outgoing |-> TRUE, phase |-> FirstPhase(d)]]
    /\ shown' = [shown EXCEPT ![d] = call'[d]]
    /\ BeginWithMedia(d, "start", id)
    /\ UNCHANGED <<held, open, recording, signals, accepted, finished, strayed, late>>

\* acceptCall up to its first await.
AcceptCall(d) ==
    LET id == shown[d].id
    IN  /\ shown[d].phase = "incoming"
        /\ accepted' = accepted \cup {id}
        /\ SetPhase(d, id, FirstPhase(d))
        /\ shown' = [shown EXCEPT ![d] = call'[d]]
        /\ BeginWithMedia(d, "accept", id)
        /\ UNCHANGED <<abort, held, open, recording, signals, placed, finished, late>>

\* rejectCall up to its await on sendSignal.
RejectCall(d) ==
    LET id == shown[d].id
    IN  /\ shown[d].phase = "incoming"
        /\ Send(SignalTo(Other(d), "reject", id), {})
        /\ Begin(d, "reject", id, "send")
        /\ UNCHANGED <<call, shown, abort, held, open, recording, history>>

\* The end button: endCall, which waits for nothing, and dismissCall.
EndCall(d) ==
    LET id == shown[d].id
    IN  /\ Live(shown[d])
        /\ abort' = [abort EXCEPT ![d] = TRUE]
        /\ Send(SignalTo(Other(d), "hangup", id), {})
        /\ StopAudio(d)
        /\ call' = [call EXCEPT ![d] = NoCall]
        /\ shown' = [shown EXCEPT ![d] = NoCall]
        /\ finished' = finished \cup {<<d, id>>}
        /\ UNCHANGED <<tasks, placed, accepted, strayed, late>>

\* dismissCall, offered once the call is over.
DismissCall(d) ==
    /\ shown[d].phase = "over"
    /\ StopAudio(d)
    /\ call' = [call EXCEPT ![d] = NoCall]
    /\ shown' = [shown EXCEPT ![d] = NoCall]
    /\ UNCHANGED <<abort, tasks, signals, history>>

-----------------------------------------------------------------------------
\* The flows go on after an await.

Drop(d, t) == tasks' = [tasks EXCEPT ![d] = @ \ {t}]
Advance(d, t, at) == tasks' = [tasks EXCEPT ![d] = (@ \ {t}) \cup {[t EXCEPT !.at = at]}]

\* startCall looks at its flag after every await, the others do not.
Aborted(d, t) == t.op = "start" /\ abort[d]

\* The microphone is granted: the new stream replaces one that came meanwhile.
MediaReady(d, t) ==
    /\ t.at = "media"
    /\ held' = [held EXCEPT ![d] = TRUE]
    /\ open' = [open EXCEPT ![d] = @ + 1]
    /\ late' = IF held[d] \/ ~Live(call[d]) THEN late \cup {d} ELSE late
    /\ IF Aborted(d, t)
       THEN Drop(d, t) /\ UNCHANGED <<call, strayed>>
       ELSE Advance(d, t, "dial") /\ SetPhase(d, t.id, "connecting")
    /\ UNCHANGED <<shown, abort, recording, signals, placed, accepted, finished>>

\* dialPeerById returns, and the offer or the acceptance goes out.
Dialed(d, t) ==
    /\ t.at = "dial"
    /\ IF Aborted(d, t)
       THEN Drop(d, t) /\ UNCHANGED signals
       ELSE /\ Advance(d, t, "send")
            /\ Send(SignalTo(Other(d), IF t.op = "start" THEN "offer" ELSE "accept", t.id), {})
    /\ UNCHANGED <<call, shown, abort, held, open, recording, history>>

\* sendSignal returns; for a flow that needs it, with success.
SignalSent(d, t) ==
    /\ t.at = "send"
    /\ Drop(d, t)
    /\ IF t.op = "reject"
       THEN Finalize(d, t.id)
       ELSE /\ IF Aborted(d, t)
               THEN UNCHANGED <<call, strayed>>
               ELSE SetPhase(d, t.id, IF t.op = "start" THEN "ringing" ELSE "connected")
            /\ UNCHANGED <<abort, held, open, recording, finished>>
    /\ UNCHANGED <<shown, signals, placed, accepted, late>>

\* The microphone is refused, the dial fails or the signal was not delivered:
\* the flow ends the call.  (An undelivered offer that was aborted does not.)
FlowFails(d, t) ==
    /\ t.op # "reject"
    /\ ~(t.at = "send" /\ Aborted(d, t))
    /\ Drop(d, t)
    /\ Finalize(d, t.id)
    /\ UNCHANGED <<shown, signals, placed, accepted, late>>

-----------------------------------------------------------------------------

\* The state is rendered, and the effects run: the copy is made, and the
\* recorder starts on a connected call or stops when there is none.
Render(d) ==
    /\ shown[d] # call[d]
    /\ shown' = [shown EXCEPT ![d] = call[d]]
    /\ recording' = [recording EXCEPT ![d] =
                        IF call[d].phase = "connected" THEN @ \/ held[d]
                        ELSE @ /\ Live(call[d])]
    /\ UNCHANGED <<call, abort, held, open, tasks, signals, history>>

\* The recorder cannot start, or fails.
RecorderFails(d) ==
    /\ recording[d]
    /\ Finalize(d, call[d].id)
    /\ UNCHANGED <<shown, tasks, signals, placed, accepted, late>>

-----------------------------------------------------------------------------
\* handleIncomingSignal.

\* Mutant of IsBusy: an offer replaces whatever call there is.
NeverBusy(d, id) == FALSE

\* An offer of another call finds a call that is on.
IsBusy(d, id) == Live(shown[d]) /\ shown[d].id # id

ReceiveOffer(d, id) ==
    LET reply == SignalTo(Other(d), IF IsBusy(d, id) THEN "busy" ELSE "ringing", id)
    IN  /\ SignalTo(d, "offer", id) \in signals
        /\ Send(reply, {SignalTo(d, "offer", id)})
        /\ call' = IF IsBusy(d, id)
                   THEN call
                   ELSE [call EXCEPT ![d] = [id |-> id, outgoing |-> FALSE, phase |-> "incoming"]]
        /\ UNCHANGED <<shown, abort, held, open, recording, tasks, history>>

\* Mutant of IsOurs: any signal is taken for the present call's.
AnyIsOurs(d, id) == shown[d] # NoCall

\* A signal of a call that is not the present one is ignored.
IsOurs(d, id) == shown[d].id = id

\* ringing and accept set the phase, whatever it was.
ReceiveProgress(d, id, type) ==
    /\ type \in {"ringing", "accept"}
    /\ SignalTo(d, type, id) \in signals
    /\ signals' = signals \ {SignalTo(d, type, id)}
    /\ IF IsOurs(d, id)
       THEN SetPhase(d, shown[d].id, IF type = "ringing" THEN "ringing" ELSE "connected")
       ELSE UNCHANGED <<call, strayed>>
    /\ UNCHANGED <<shown, abort, held, open, recording, tasks, placed, accepted, finished, late>>

\* reject, busy and hangup end the call.
ReceiveEnd(d, id, type) ==
    /\ type \in {"reject", "busy", "hangup"}
    /\ SignalTo(d, type, id) \in signals
    /\ signals' = signals \ {SignalTo(d, type, id)}
    /\ IF IsOurs(d, id)
       THEN Finalize(d, shown[d].id)
       ELSE UNCHANGED <<call, abort, held, open, recording, finished, strayed>>
    /\ UNCHANGED <<shown, tasks, placed, accepted, late>>

\* A signal is lost.
Lose(signal) ==
    /\ signals' = signals \ {signal}
    /\ UNCHANGED <<ends, history>>

Next ==
    \/ \E signal \in signals : Lose(signal)
    \/ \E d \in Devices :
           \/ \E id \in CallIds : StartCall(d, id)
           \/ AcceptCall(d)
           \/ RejectCall(d)
           \/ EndCall(d)
           \/ DismissCall(d)
           \/ \E t \in tasks[d] : MediaReady(d, t) \/ Dialed(d, t) \/ SignalSent(d, t) \/ FlowFails(d, t)
           \/ Render(d)
           \/ RecorderFails(d)
           \/ \E id \in CallIds :
                 \/ ReceiveOffer(d, id)
                 \/ \E type \in {"ringing", "accept"} : ReceiveProgress(d, id, type)
                 \/ \E type \in {"reject", "busy", "hangup"} : ReceiveEnd(d, id, type)

Spec == Init /\ [][Next]_vars

-----------------------------------------------------------------------------

\* The state is well formed; only calls that were placed are accepted or over.
TypeOK ==
    /\ call \in [Devices -> Call]
    /\ shown \in [Devices -> Call]
    /\ abort \in [Devices -> BOOLEAN]
    /\ held \in [Devices -> BOOLEAN]
    /\ open \in [Devices -> Nat]
    /\ \A d \in Devices : held[d] => open[d] > 0
    /\ recording \in [Devices -> BOOLEAN]
    /\ tasks \in [Devices -> SUBSET Task]
    /\ signals \subseteq Signal
    /\ placed \subseteq CallIds
    /\ accepted \subseteq placed
    /\ finished \subseteq Devices \X placed
    /\ strayed \subseteq placed
    /\ late \subseteq Devices

\* The microphone is recorded only into a call that is on: no order of signals,
\* failures and buttons leaves a recorder running behind a call that is over.
RecordingNeedsCall == \A d \in Devices : recording[d] => held[d] /\ Live(call[d])

\* When no call is on and nothing is pending the microphone is off, unless it
\* was granted after the call that asked for it had ended, or twice.
MicrophoneReleased ==
    \A d \in Devices \ late : ~Live(call[d]) /\ tasks[d] = {} => open[d] = 0

\* The microphone is open and recorded for calls alone.
MicrophoneIsForCalls == TypeOK /\ RecordingNeedsCall /\ MicrophoneReleased

\* Nobody is connected in a call the callee has not answered, whatever arrives
\* in whatever order, unless a flow or handler of another call changed this one.
ConnectedNeedsConsent ==
    \A d \in Devices : call[d].phase = "connected" => call[d].id \in accepted \cup strayed

\* When both call each other at once and neither gives up, they never end up
\* connected in different calls, each waiting for the other's voice.
NoCrossedCalls ==
    \A d, e \in Devices :
        call[d].phase = "connected" /\ call[e].phase = "connected" /\ call[d].id # call[e].id =>
            \E id \in {call[d].id, call[e].id} : id \in strayed \/ \E f \in Devices : <<f, id>> \in finished

\* "Set to true by finalizeCall/endCall so a slow dialPeerById cannot revive the
\* call", the comment on startCallAbortRef: no flow that comes back from an await
\* turns a call that is over into one that is on.
NeverRevived ==
    [][\A d \in Devices : \A t \in tasks[d] :
          MediaReady(d, t) \/ SignalSent(d, t) => ~(call[d].phase = "over" /\ Live(call'[d]))]_vars
=============================================================================
