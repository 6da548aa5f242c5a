---------------------------- MODULE AudioStream ----------------------------
(***************************************************************************)
(* The sound of one direction of an audio call, hooks/useAudioCall.ts: the *)
(* chunks one side records and numbers, their order and their playback on  *)
(* the other side, and the mute button with the signal it sends.           *)
(*                                                                         *)
(* Every chunk and every signal has a libp2p stream of its own: they are   *)
(* lost, and arrive in any order.  The SourceBuffer of the browser, which  *)
(* is external, opens late and refuses appends at will.  A chunk is its    *)
(* sequence number; the limit of the playback queue counts chunks where    *)
(* the code counts bytes.  How a call comes about, and which side ends it, *)
(* is in AudioCall; here either side may drop it at any time.              *)
(***************************************************************************)
EXTENDS Integers, Sequences, FiniteSets, SequencesExt, Subsequences

CONSTANTS
    MaxChunks,   \* bound on recorded chunks
    MaxPending,  \* MAX_PENDING_AUDIO_CHUNKS
    MaxQueued,   \* MAX_PLAYBACK_QUEUE_BYTES
    MaxPresses   \* bound on presses of the mute button

VARIABLES
    phase,    \* of the sender's call: "setup", "connected", "over"; "closing" is
              \* over with chunks that were handed out before and are numbered yet
    track,    \* its audio track: "none" before the microphone is granted
    muted,    \* isMuted
    recorded, \* outboundSequenceRef
    chunks,   \* chunks under way
    end,      \* the end marker: "none", "sent", "taken", "lost"
    presses,  \* how often mute was pressed
    signals,  \* mute signals under way, numbered by press
    heard,    \* the last mute signal taken in, and what it said: remoteMuted
    crossed,  \* a mute signal was lost, or taken in after a later one
    early,    \* mute was pressed before the track was there
    pending,  \* keys of pendingBySequence
    expected, \* expectedSequence
    queue,    \* chunks to be appended
    last,     \* the last one appended
    buffer,   \* the SourceBuffer of the pipeline: "none", "idle", "updating";
              \* "absent" without a pipeline
    jumped,   \* too many chunks waited behind a gap, or the end found some waiting
    call,     \* activeCallRef: "live", "ended" and torn down, "gone"
    played    \* the chunks appended so far, by all pipelines

sender == <<phase, track, muted, recorded, presses, early>>
network == <<chunks, end, signals, crossed>>
pipeline == <<pending, expected, queue, last, buffer, jumped>>
receiver == <<pipeline, call, played>>
vars == <<sender, network, heard, receiver>>

Init ==
    /\ phase = "setup" /\ track = "none" /\ muted = FALSE /\ recorded = 0
    /\ chunks = {} /\ end = "none"
    /\ presses = 0 /\ signals = {} /\ heard = [press |-> 0, muted |-> FALSE]
    /\ crossed = FALSE /\ early = FALSE
    /\ pending = {} /\ expected = 0 /\ queue = <<>> /\ last = -1
    /\ buffer = "absent" /\ jumped = FALSE
    /\ call = "live" /\ played = {}

-----------------------------------------------------------------------------
\* The sender.

\* acquireLocalAudio: a new track is enabled, whatever was pressed before.
Granted ==
    /\ phase = "setup" /\ track = "none"
    /\ track' = "enabled"
    /\ UNCHANGED <<phase, muted, recorded, presses, early, network, heard, receiver>>

Connected ==
    /\ phase = "setup" /\ track # "none"
    /\ phase' = "connected"
    /\ UNCHANGED <<track, muted, recorded, presses, early, network, heard, receiver>>

\* The recorder hands out a chunk, which is numbered once it is read, and sent.
Record ==
    /\ phase \in {"connected", "closing"} /\ recorded < MaxChunks
    /\ chunks' = chunks \cup {recorded}
    /\ recorded' = recorded + 1
    /\ UNCHANGED <<phase, track, muted, presses, early, end, signals, crossed, heard, receiver>>

\* Mutant of ToggleMute: only what is shown changes.
ToggleMuteLabel ==
    /\ phase \in {"setup", "connected"} /\ presses < MaxPresses
    /\ muted' = ~muted
    /\ presses' = presses + 1
    /\ early' = (early \/ track = "none")
    /\ signals' = signals \cup {[press |-> presses', muted |-> muted']}
    /\ UNCHANGED <<phase, track, recorded, chunks, end, crossed, heard, receiver>>

\* toggleMute: the tracks there are, what is shown, and the signal.
ToggleMute ==
    /\ phase \in {"setup", "connected"} /\ presses < MaxPresses
    /\ muted' = ~muted
    /\ track' = IF track = "none" THEN "none" ELSE IF muted' THEN "disabled" ELSE "enabled"
    /\ presses' = presses + 1
    /\ early' = (early \/ track = "none")
    /\ signals' = signals \cup {[press |-> presses', muted |-> muted']}
    /\ UNCHANGED <<phase, recorded, chunks, end, crossed, heard, receiver>>

\* The call is over for the sender: the recorder and the microphone stop.  After
\* the button, endCall, the end marker follows the last chunk; finalizeCall, after
\* a signal of the other side or an error, sends none.
End(marked) ==
    /\ phase \in {"setup", "connected"}
    /\ phase' = IF phase = "connected" THEN "closing" ELSE "over"
    /\ track' = "none"
    /\ end' = IF marked THEN "sent" ELSE end
    /\ UNCHANGED <<muted, recorded, presses, early, chunks, signals, crossed, heard, receiver>>

-----------------------------------------------------------------------------
\* The streams.  What comes when the receiver does not have the call yet, or no
\* longer, counts as lost.

LoseChunk(n) ==
    /\ chunks' = chunks \ {n}
    /\ UNCHANGED <<sender, end, signals, crossed, heard, receiver>>

LoseEnd ==
    /\ end = "sent" /\ end' = "lost"
    /\ UNCHANGED <<sender, chunks, signals, crossed, heard, receiver>>

LoseSignal(s) ==
    /\ signals' = signals \ {s}
    /\ crossed' = TRUE
    /\ UNCHANGED <<sender, chunks, end, heard, receiver>>

-----------------------------------------------------------------------------
\* The receiver.

\* handleIncomingSignal, mute.
ReceiveMute(s) ==
    /\ call # "gone"
    /\ signals' = signals \ {s}
    /\ heard' = s
    /\ crossed' = (crossed \/ s.press < heard.press)
    /\ UNCHANGED <<sender, chunks, end, receiver>>

\* ensurePlaybackPipeline: without a pipeline, a chunk or end marker makes one.
Made == IF buffer = "absent" THEN "none" ELSE buffer

\* flushPlaybackQueue on q: chunks whose append throws are dropped, and the
\* next one, if any, is appended.
Flush(q, free) ==
    IF ~free
    THEN queue' = q /\ buffer' = Made /\ UNCHANGED <<last, played>>
    ELSE \/ \E i \in DOMAIN q :
               /\ last' = q[i] /\ played' = played \cup {q[i]}
               /\ queue' = SubSeq(q, i + 1, Len(q)) /\ buffer' = "updating"
         \/ queue' = <<>> /\ buffer' = "idle" /\ UNCHANGED <<last, played>>

\* sourceopen, and updateend.
BufferReady ==
    /\ buffer \in {"none", "updating"}
    /\ Flush(queue, TRUE)
    /\ UNCHANGED <<sender, network, heard, pending, expected, jumped, call>>

\* drainPendingIntoPlaybackQueue without force: the chunks from e on that
\* follow each other.
Run(S, e) == {n \in S : n >= e /\ \A k \in e..n : k \in S}

\* The oldest chunks beyond the limit are dropped.
Limited(q) == IF Len(q) <= MaxQueued THEN q ELSE SubSeq(q, Len(q) - MaxQueued + 1, Len(q))

\* Mutant of Expecting: every chunk that comes moves the sequence on.
ExpectingNext(S, n) == IF expected \in S THEN expected ELSE n

\* Where draining starts when n has come: with too many chunks pending, at the
\* oldest of them, which gives up what is missing before it.
Expecting(S, n) == IF Cardinality(S) > MaxPending THEN CHOOSE k \in S : \A j \in S : k <= j ELSE expected

\* handleIncomingAudioChunk: a chunk that is late is dropped, any other waits
\* for its turn.
ReceiveChunk(n) ==
    /\ call # "gone"
    /\ chunks' = chunks \ {n}
    /\ IF n < expected
       THEN UNCHANGED receiver
       ELSE LET waiting == pending \cup {n}
                from == Expecting(waiting, n)
                run == Run(waiting, from)
            IN  /\ pending' = waiting \ run
                /\ expected' = from + Cardinality(run)
                /\ jumped' = (jumped \/ Cardinality(waiting) > MaxPending)
                /\ Flush(Limited(queue \o Ascending(run)), buffer = "idle")
                /\ UNCHANGED call
    /\ UNCHANGED <<sender, end, signals, crossed, heard>>

\* The end marker: all that is pending is played, with its gaps.
ReceiveEnd ==
    /\ call # "gone"
    /\ end = "sent" /\ end' = "taken"
    /\ pending' = {}
    /\ expected' = IF pending = {} THEN expected ELSE Last(Ascending(pending)) + 1
    /\ jumped' = (jumped \/ pending # {})
    /\ Flush(queue \o Ascending(pending), buffer = "idle")
    /\ UNCHANGED <<sender, chunks, signals, crossed, heard, call>>

\* cleanupPlayback: the pipeline is discarded, as finalizeCall, endCall and
\* dismissCall do.  The call itself is still there, for finalizeCall shows how it
\* ended, and setCall takes effect after the others return: what comes then makes
\* a new pipeline, which starts at 0.
Discard ==
    /\ call # "gone" /\ call' = "ended"
    /\ pending' = {} /\ expected' = 0 /\ queue' = <<>> /\ last' = -1
    /\ buffer' = "absent" /\ jumped' = FALSE
    /\ UNCHANGED <<sender, network, heard, played>>

\* setCall(null) reaches activeCallRef.
Forget ==
    /\ call = "ended" /\ call' = "gone"
    /\ UNCHANGED <<sender, network, heard, pipeline, played>>

Next ==
    \/ Granted \/ Connected \/ Record \/ ToggleMute
    \/ \E marked \in BOOLEAN : End(marked)
    \/ \E n \in chunks : LoseChunk(n) \/ ReceiveChunk(n)
    \/ LoseEnd \/ ReceiveEnd
    \/ \E s \in signals : LoseSignal(s) \/ ReceiveMute(s)
    \/ BufferReady \/ Discard \/ Forget

Spec == Init /\ [][Next]_vars

-----------------------------------------------------------------------------

\* Only what was recorded travels and waits.
TypeOK ==
    /\ phase \in {"setup", "connected", "closing", "over"}
    /\ track \in {"none", "enabled", "disabled"}
    /\ recorded \in 0..MaxChunks
    /\ chunks \cup pending \cup ToSet(queue) \cup played \subseteq 0..(recorded - 1)
    /\ \A s \in signals \cup {heard} : s.press <= presses
    /\ buffer \in {"absent", "none", "idle", "updating"}
    /\ call \in {"live", "ended", "gone"}
    /\ {muted, crossed, early, jumped} \subseteq BOOLEAN

\* Whatever is lost, late, overflowing or refused, no chunk is played twice, not
\* even when the receiver tears the call down and a late chunk makes a new pipeline
\* that starts anew; until then, and by each pipeline after, chunks are played in
\* the order they were recorded in; a gap holds back no more than
\* MAX_PENDING_AUDIO_CHUNKS; and a chunk that is still on its way will be dropped
\* as late only if the pipeline gave up a gap, because too many chunks waited
\* behind it or the end had come.
PlayedInOrder ==
    /\ played \cap (chunks \cup pending \cup ToSet(queue)) = {}
    /\ call = "live" => \A n \in played : n <= last
    /\ \A i, j \in DOMAIN queue : i < j => queue[i] < queue[j]
    /\ \A i \in DOMAIN queue : last < queue[i] /\ queue[i] < expected
    /\ \A n \in pending : n > expected
    /\ Cardinality(pending) <= MaxPending
    /\ ~jumped => \A n \in chunks : n >= expected

\* Who is shown as muted is not heard, unless mute was pressed before the
\* microphone was granted: the track comes enabled then.  And the other side
\* shows it, once the signals of all presses have arrived in order.
MuteIsTrue ==
    /\ muted /\ track = "enabled" => early
    /\ signals = {} /\ ~crossed => heard.muted = muted

\* Why: what the last press said is on its way or was heard last, unless signals
\* crossed, and no other signal has its number.
Latest == [press |-> presses, muted |-> muted]
LatestArrives ==
    /\ presses \in Nat
    /\ signals \cup {heard} \subseteq [press : 0..presses, muted : BOOLEAN]
    /\ \A s \in signals \cup {heard} : s.press = presses => s = Latest
    /\ ~crossed => Latest \in signals \/ heard = Latest

\* A press before the track is there is early, as long as that track can come.
TrackFollows ==
    /\ muted /\ track = "enabled" => early
    /\ muted /\ track = "none" /\ phase = "setup" => early

\* Everything a pipeline played or queued is below what it expects, and what
\* waits is no longer on its way.
InTurn(q, from, to) ==
    /\ q \in Seq(Nat)
    /\ \A i, j \in DOMAIN q : i < j => q[i] < q[j]
    /\ \A i \in DOMAIN q : from < q[i] /\ q[i] < to

NothingReordered ==
    /\ recorded \in Nat /\ expected \in 0..recorded
    /\ last \in Int /\ last < expected
    /\ chunks \cup pending \subseteq 0..(recorded - 1)
    /\ chunks \cap pending = {}
    /\ InTurn(queue, last, expected)
    /\ \A n \in pending : n > expected
    /\ Cardinality(pending) <= MaxPending
    /\ ~jumped => \A n \in chunks : n >= expected

\* What was played is nowhere else, and what is queued is no longer on its way.
PlayedApart ==
    /\ played \subseteq 0..(recorded - 1)
    /\ played \cap (chunks \cup pending \cup ToSet(queue)) = {}
    /\ chunks \cap ToSet(queue) = {}
    /\ call = "live" => \A n \in played : n <= last

IInv == TypeOK /\ LatestArrives /\ TrackFollows /\ NothingReordered /\ PlayedApart
=============================================================================
