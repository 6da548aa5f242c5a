---------------------------- MODULE CallEarcons ----------------------------
(***************************************************************************)
(* The tones of a call on one device: apps/web/src/hooks/useCallEarcons.ts *)
(* and the places of useAudioCall.ts that play and stop them.              *)
(*                                                                         *)
(* playEarcon looks at the audio context first.  If it is suspended the    *)
(* rest waits for ctx.resume(), and stopLooping, which only clears what is *)
(* already repeating, cannot reach it.  The promises of all waiting plays  *)
(* are resolved together and in order, so only the last one tells: each    *)
(* clears what repeats before it begins.                                   *)
(* Of the call only the phase is kept, and how many flows still wait in    *)
(* startCall, acceptCall and rejectCall; AudioCall.tla has the rest.       *)
(***************************************************************************)
EXTENDS Naturals, FiniteSets

CONSTANT MaxFlows  \* bound on the flows of each kind that wait

VARIABLES
    call,     \* "none", "calling", "ringing", "incoming", "answering", "connected", "over"
    mine,     \* its direction is outgoing
    abort,    \* startCallAbortRef
    flows,    \* how many flows of each kind wait for the network
    ctx,      \* sharedAudioCtx: "none" before the first click, "suspended", "running"
    waiting,  \* the last tone that waits for ctx.resume(), or "none"
    loops,    \* the intervals that are set
    crossed   \* a stop missed a tone that waited, or a flow changed another call

vars == <<call, mine, abort, flows, ctx, waiting, loops, crossed>>

Looping == {"ring", "ringing-outbound", "busy"}
Flows == {"start", "accept", "reject"}

Init ==
    /\ call = "none" /\ mine = FALSE /\ abort = FALSE
    /\ flows = [f \in Flows |-> 0]
    /\ ctx = "none" /\ waiting = "none" /\ loops = {}
    /\ crossed = FALSE

-----------------------------------------------------------------------------
\* playEarcon clears what repeats and begins tone, "once" for any that does not
\* repeat; or all of that waits for the context.
BegunBeside(tone) == loops \cup ({tone} \cap Looping)
Begun(tone) == {tone} \cap Looping
AfterWaiting(tone) == IF ctx = "suspended" THEN tone ELSE waiting

Play(tone) ==
    /\ waiting' = AfterWaiting(tone)
    /\ loops' = IF ctx = "running" THEN Begun(tone) ELSE loops

\* stopLooping before a tone that does not repeat, or after any tone: what
\* repeats is over, what waits is not.
StopAndPlay(tone) == waiting' = AfterWaiting(tone) /\ loops' = {}

Flow(f, n) == flows' = [flows EXCEPT ![f] = @ + n]
FlowEnds(f) == flows[f] > 0 /\ flows' = [flows EXCEPT ![f] = @ - 1]

-----------------------------------------------------------------------------
\* startCall, up to its first await.
Dial ==
    /\ call \in {"none", "over"} /\ flows["start"] < MaxFlows
    /\ call' = "calling" /\ mine' = TRUE /\ abort' = FALSE
    /\ Flow("start", 1) /\ Play("once")
    /\ UNCHANGED <<ctx, crossed>>

\* The offer is delivered.  The flow looks at the flag, not at the call, which
\* may be answered already or be another one.
Delivered ==
    /\ FlowEnds("start")
    /\ IF abort
       THEN UNCHANGED <<call, waiting, loops, crossed>>
       ELSE /\ call' = IF call = "none" THEN "none" ELSE "ringing"
            /\ Play("ringing-outbound")
            /\ crossed' = (crossed \/ call \notin {"calling", "ringing"})
    /\ UNCHANGED <<mine, abort, ctx>>

\* finalizeCall after the tone.
Over == call' = IF call = "none" THEN "none" ELSE "over"

StartFails ==
    /\ FlowEnds("start")
    /\ abort' = TRUE /\ Over /\ StopAndPlay("once")
    /\ UNCHANGED <<mine, ctx, crossed>>

\* acceptCall, from the click to its end.
AcceptClicked ==
    /\ call = "incoming" /\ flows["accept"] < MaxFlows
    /\ call' = "answering" /\ Flow("accept", 1)
    /\ UNCHANGED <<mine, abort, ctx, waiting, loops, crossed>>

Answered ==
    /\ FlowEnds("accept")
    /\ call' = IF call = "none" THEN "none" ELSE "connected"
    /\ StopAndPlay("once")
    /\ UNCHANGED <<mine, abort, ctx, crossed>>

AnswerFails ==
    /\ FlowEnds("accept")
    /\ abort' = TRUE /\ Over /\ StopAndPlay("once")
    /\ UNCHANGED <<mine, ctx, crossed>>

\* rejectCall: an incoming call is over only once the signal was sent.
RejectClicked ==
    /\ call \in {"incoming", "answering"} /\ flows["reject"] < MaxFlows
    /\ Flow("reject", 1) /\ StopAndPlay("once")
    /\ UNCHANGED <<mine, call, abort, ctx, crossed>>

Rejected ==
    /\ FlowEnds("reject")
    /\ abort' = TRUE /\ Over /\ loops' = {}
    /\ crossed' = (crossed \/ waiting \in Looping)
    /\ UNCHANGED <<mine, ctx, waiting>>

EndClicked ==
    /\ call # "none"
    /\ call' = "none" /\ abort' = TRUE /\ StopAndPlay("once")
    /\ UNCHANGED <<mine, flows, ctx, crossed>>

\* dismissCall stops no tone.
Dismiss ==
    /\ call = "over"
    /\ call' = "none"
    /\ UNCHANGED <<mine, abort, flows, ctx, waiting, loops, crossed>>

ToggleMute ==
    /\ call \notin {"none", "over"}
    /\ Play("once")
    /\ UNCHANGED <<mine, call, abort, flows, ctx, crossed>>

-----------------------------------------------------------------------------
\* handleIncomingSignal.  Of the signals of the call it has, the device looks
\* at no phase; a device that is in a call answers an offer with busy.
Offer ==
    /\ call \in {"none", "over"}
    /\ call' = "incoming" /\ mine' = FALSE /\ Play("ring")
    /\ UNCHANGED <<abort, flows, ctx, crossed>>

SignalRinging ==
    /\ mine /\ call # "none"
    /\ call' = "ringing"
    /\ UNCHANGED <<mine, abort, flows, ctx, waiting, loops, crossed>>

SignalAccept ==
    /\ mine /\ call # "none"
    /\ call' = "connected" /\ StopAndPlay("once")
    /\ UNCHANGED <<mine, abort, flows, ctx, crossed>>

\* reject and hangup.
SignalOver ==
    /\ call # "none"
    /\ Over /\ abort' = TRUE /\ StopAndPlay("once")
    /\ UNCHANGED <<mine, flows, ctx, crossed>>

\* The busy tone is started and stopped in one go, unless it has to wait.
SignalBusy ==
    /\ mine /\ call # "none"
    /\ Over /\ abort' = TRUE /\ StopAndPlay("busy")
    /\ crossed' = (crossed \/ ctx = "suspended")
    /\ UNCHANGED <<mine, flows, ctx>>

-----------------------------------------------------------------------------
\* The first click makes the context and asks the browser to let it run.
Click ==
    /\ ctx = "none"
    /\ ctx' = "suspended"
    /\ UNCHANGED <<mine, call, abort, flows, waiting, loops, crossed>>

\* The browser lets it run: the plays that wait go on.
Resumed ==
    /\ ctx = "suspended"
    /\ ctx' = "running" /\ waiting' = "none"
    /\ loops' = IF waiting = "none" THEN loops ELSE Begun(waiting)
    /\ UNCHANGED <<mine, call, abort, flows, crossed>>

\* It does not, and the plays give up.
Blocked ==
    /\ ctx = "suspended" /\ waiting # "none"
    /\ waiting' = "none"
    /\ UNCHANGED <<mine, call, abort, flows, ctx, loops, crossed>>

\* The browser suspends it on its own account.
Suspended ==
    /\ ctx = "running"
    /\ ctx' = "suspended"
    /\ UNCHANGED <<mine, call, abort, flows, waiting, loops, crossed>>

Next ==
    \/ Dial \/ Delivered \/ StartFails
    \/ AcceptClicked \/ Answered \/ AnswerFails \/ RejectClicked \/ Rejected
    \/ EndClicked \/ Dismiss \/ ToggleMute
    \/ Offer \/ SignalRinging \/ SignalAccept \/ SignalOver \/ SignalBusy
    \/ Click \/ Resumed \/ Blocked \/ Suspended

Spec == Init /\ [][Next]_vars

-----------------------------------------------------------------------------
\* The state is well formed.
TypeOK ==
    /\ call \in {"none", "calling", "ringing", "incoming", "answering", "connected", "over"}
    /\ {mine, abort, crossed} \subseteq BOOLEAN /\ flows \in [Flows -> 0..MaxFlows]
    /\ ctx \in {"none", "suspended", "running"}
    /\ waiting \in Looping \cup {"none", "once"} /\ loops \subseteq Looping
    /\ ctx # "suspended" => waiting = "none"

\* A tone repeats only while there is a call it belongs to, and only one does:
\* however calls end, flows return late and the context is suspended and let
\* go, unless a stop missed a tone that was waiting, or startCall went on in a
\* call that was answered or another one (useCallEarcons.ts, playEarcon and
\* stopLooping).
NothingRingsOn ==
    /\ Cardinality(loops) <= 1
    /\ "ring" \in loops => call \in {"incoming", "answering"} \/ crossed
    /\ "ringing-outbound" \in loops => call = "ringing" \/ crossed
    /\ "busy" \in loops => crossed

\* The tone belongs to the call there is.
Belongs(tone) ==
    \/ tone = "ring" /\ call \in {"incoming", "answering"} /\ ~mine
    \/ tone = "ringing-outbound" /\ call = "ringing"

\* At most one tone repeats, and it, or the one that waits to, belongs to the call.
IInv ==
    /\ TypeOK
    /\ \A s, t \in loops : s = t
    /\ crossed \/ \A t \in loops \cup ({waiting} \cap Looping) : Belongs(t)
=============================================================================
