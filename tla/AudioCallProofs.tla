-------------------------- MODULE AudioCallProofs --------------------------
(***************************************************************************)
(* Proofs about AudioCall, for any number of calls and any bound on the    *)
(* flows and signals under way: the microphone is for calls alone, nobody  *)
(* is connected without the callee's consent, and two devices that call    *)
(* each other never end up connected in different calls.                   *)
(***************************************************************************)
EXTENDS AudioCall, FiniteSetTheorems, TLAPS

-----------------------------------------------------------------------------
\* The inductive invariant.

\* A call state names a placed call, and an incoming one is not our own; so
\* does a flow, and one that rejects waits for its signal only.
Formed(c) ==
    /\ c.id = NoId \/ c.phase = "idle" => c = NoCall
    /\ c.id \in placed \cup {NoId}
    /\ c.phase = "incoming" => ~c.outgoing

FormedFlow(t) == t.id \in placed /\ (t.op = "reject" => t.at = "send")

WellFormed ==
    /\ \A d \in Devices : Formed(call[d]) /\ Formed(shown[d]) /\ \A t \in tasks[d] : FormedFlow(t)
    /\ \A s \in signals : s.id \in placed

\* The microphone: one stream while a call is on, unless it came late.
Accounted ==
    \A d \in Devices \ late : open[d] = (IF held[d] THEN 1 ELSE 0) /\ (held[d] => Live(call[d]))

\* Who accepts, or says so, does it for a call somebody chose to answer.
Answered ==
    /\ \A d \in Devices : \A t \in tasks[d] : t.op = "accept" => t.id \in accepted
    /\ \A s \in signals : s.type = "accept" => s.id \in accepted

\* d is in call id and shows it, or was and finished it.
Kept(d, id) == <<d, id>> \in finished \/ (call[d].id = id /\ shown[d].id = id)

\* A call on the screen is the one there is, and a call that is over was finished.
Faithful ==
    \A d \in Devices :
        /\ Live(shown[d]) => call[d].id = shown[d].id
        /\ call[d].phase = "over" => <<d, call[d].id>> \in finished
        /\ shown[d].phase = "over" => <<d, shown[d].id>> \in finished

\* Whoever is called was called by the other end, which keeps that call until
\* it finishes it, and so does everybody in a call that was answered.
Called ==
    /\ \A d \in Devices :
          /\ call[d] # NoCall /\ ~call[d].outgoing => Kept(Other(d), call[d].id)
          /\ shown[d] # NoCall /\ ~shown[d].outgoing => Kept(Other(d), shown[d].id)
          /\ \A t \in tasks[d] : t.op = "start" => Kept(d, t.id)
    /\ \A s \in signals : s.type = "offer" => Kept(Other(s.to), s.id)
    /\ \A id \in accepted : \A d \in Devices : Kept(d, id)

IInv ==
    /\ TypeOK /\ WellFormed
    /\ RecordingNeedsCall /\ Accounted
    /\ Answered /\ ConnectedNeedsConsent
    /\ Faithful /\ Called

-----------------------------------------------------------------------------
\* What the operators of the model do.

\* The two devices are each other's other end.
LEMMA OtherFacts ==
    \A d \in Devices :
        /\ Other(d) \in Devices /\ Other(d) # d /\ Other(Other(d)) = d
        /\ \A e \in Devices : e = d \/ e = Other(d)
<1>1. PICK x, y : x # y /\ Devices = {x, y}
  <2>1. Devices # {}
    BY CallAssumption, FS_EmptySet
  <2>2. PICK x : x \in Devices
    BY <2>1
  <2>3. IsFiniteSet(Devices \ {x}) /\ Cardinality(Devices \ {x}) = 1
    BY <2>2, CallAssumption, FS_RemoveElement
  <2>4. PICK y : Devices \ {x} = {y}
    BY <2>3, FS_Singleton
  <2>5. x # y /\ Devices = {x, y}
    BY <2>2, <2>4
  <2> QED
    BY <2>5
<1>2. \A d \in Devices : Other(d) \in Devices /\ Other(d) # d
  BY <1>1 DEF Other
<1> QED
  BY <1>1, <1>2

\* A change of phase keeps the call, and marks it if another call's flow or
\* handler made it.
LEMMA PhaseFacts ==
    ASSUME TypeOK, WellFormed, NEW d \in Devices, NEW id,
           NEW phase \in Phases \ {"idle", "incoming"}, SetPhase(d, id, phase)
    PROVE  /\ call' \in [Devices -> Call]
           /\ \A e \in Devices :
                 /\ call'[e].id = call[e].id /\ call'[e].outgoing = call[e].outgoing
                 /\ call'[e] = NoCall <=> call[e] = NoCall
                 /\ e # d => call'[e] = call[e]
           /\ call[d] # NoCall => call'[d].phase = phase
           /\ call[d] # NoCall => call[d].id = id \/ call[d].id \in strayed'
           /\ strayed \subseteq strayed' /\ strayed' \subseteq placed
<1>1. /\ call' = [call EXCEPT ![d] = IF @ = NoCall THEN @ ELSE [@ EXCEPT !.phase = phase]]
      /\ strayed' = IF call[d] # NoCall /\ call[d].id # id THEN strayed \cup {call[d].id} ELSE strayed
  BY DEF SetPhase, Stray
<1>2. call \in [Devices -> Call] /\ strayed \subseteq placed
  BY DEF TypeOK
<1>3. call[d] # NoCall => call[d].id \in placed
  BY DEF WellFormed, Formed
<1>4. phase # "idle" /\ NoCall.phase = "idle"
  BY DEF NoCall
<1>5. \A e \in Devices \ {d} : call'[e] = call[e]
  BY <1>1, <1>2
<1>6. call'[d] = IF call[d] = NoCall THEN NoCall ELSE [call[d] EXCEPT !.phase = phase]
  BY <1>1, <1>2
<1>7. /\ call'[d] \in Call /\ call'[d].id = call[d].id /\ call'[d].outgoing = call[d].outgoing
      /\ call[d] # NoCall => call'[d].phase = phase /\ call'[d] # NoCall
  BY <1>2, <1>4, <1>6 DEF Call
<1>8. call' \in [Devices -> Call]
  BY <1>1, <1>2, <1>5, <1>7
<1> QED
  BY <1>1, <1>2, <1>3, <1>5, <1>6, <1>7, <1>8

\* The microphone that is held is closed, and nothing is recorded.
LEMMA AudioFacts ==
    ASSUME TypeOK, NEW d \in Devices, StopAudio(d)
    PROVE  /\ recording' \in [Devices -> BOOLEAN] /\ held' \in [Devices -> BOOLEAN]
           /\ open' \in [Devices -> Nat]
           /\ ~recording'[d] /\ ~held'[d] /\ open'[d] = IF held[d] THEN open[d] - 1 ELSE open[d]
           /\ \A e \in Devices \ {d} :
                 recording'[e] = recording[e] /\ held'[e] = held[e] /\ open'[e] = open[e]
<1>1. open[d] \in Nat /\ (held[d] => open[d] > 0)
  BY DEF TypeOK
<1>2. (IF held[d] THEN open[d] - 1 ELSE open[d]) \in Nat
  BY <1>1
<1> QED
  BY <1>2 DEF TypeOK, StopAudio

\* The call that is there is over.
LEMMA FinalizeFacts ==
    ASSUME TypeOK, WellFormed, NEW d \in Devices, NEW id, Finalize(d, id)
    PROVE  /\ abort' \in [Devices -> BOOLEAN]
           /\ finished \subseteq finished' /\ finished' \subseteq Devices \X placed
           /\ call[d] # NoCall => <<d, call[d].id>> \in finished' /\ call'[d].phase = "over"
           /\ StopAudio(d) /\ SetPhase(d, id, "over")
<1>1. call[d] # NoCall => call[d].id \in placed
  BY DEF WellFormed, Formed
<1>2. "over" \in Phases \ {"idle", "incoming"} /\ SetPhase(d, id, "over")
  BY DEF Phases, Finalize
<1>3. call[d] # NoCall => call'[d].phase = "over"
  BY <1>2, PhaseFacts
<1> QED
  BY <1>1, <1>2, <1>3 DEF TypeOK, Finalize

\* A device keeps a call until it has finished it.
LEMMA KeptStays ==
    ASSUME NEW d, NEW id, Kept(d, id), finished \subseteq finished',
           \/ <<d, shown[d].id>> \in finished'
           \/ call'[d].id = call[d].id /\ shown'[d].id \in {shown[d].id, call[d].id}
    PROVE  Kept(d, id)'
BY DEF Kept

-----------------------------------------------------------------------------
\* Every step preserves the invariant.

\* Before any call.
LEMMA InitInv == Init => IInv
<1> SUFFICES ASSUME Init PROVE IInv
  OBVIOUS
<1>1. NoCall \in Call /\ NoCall.id = NoId /\ ~Live(NoCall) /\ NoCall.phase = "idle"
  BY DEF NoCall, Call, Phases, Live
<1>2. \A d \in Devices : call[d] = NoCall /\ shown[d] = NoCall
  BY DEF Init
<1>3. TypeOK
  BY <1>1 DEF Init, TypeOK
<1>4. WellFormed /\ Faithful
  BY <1>1, <1>2 DEF Init, WellFormed, Formed, Faithful, Live
<1>5. RecordingNeedsCall /\ Accounted
  BY DEF Init, RecordingNeedsCall, Accounted
<1>6. Answered /\ Called
  BY <1>2 DEF Init, Answered, Called
<1>7. ConnectedNeedsConsent
  BY <1>1, <1>2 DEF ConnectedNeedsConsent
<1> QED
  BY <1>3, <1>4, <1>5, <1>6, <1>7 DEF IInv

\* The steps that begin no call hand on the flows there are, or begin one that
\* rejects, send signals that are true, and show calls there are.
GoodSignal(s) ==
    /\ s \in Signal /\ s.id \in placed
    /\ s.type = "accept" => s.id \in accepted
    /\ s.type = "offer" => Kept(Other(s.to), s.id)

Handed ==
    /\ tasks' \in [Devices -> SUBSET Task]
    /\ \A d \in Devices : \A t \in tasks'[d] :
          /\ t.op = "reject" => t.at = "send"
          /\ t.id \in placed
          /\ t.op # "reject" => \E u \in tasks[d] : u.op = t.op /\ u.id = t.id
    /\ \A s \in signals' : s \in signals \/ GoodSignal(s)

Continues(c, d) ==
    c # NoCall => \E b \in {call[d], shown[d]} : b # NoCall /\ c.id = b.id /\ c.outgoing = b.outgoing

AllKept == \A d \in Devices : \A id \in CallIds : Kept(d, id) => Kept(d, id)'

LEMMA HandedInv ==
    ASSUME IInv, Handed, placed' = placed, accepted' = accepted, AllKept,
           \A d \in Devices : Continues(call'[d], d) /\ Continues(shown'[d], d)
    PROVE  /\ Answered' /\ Called'
           /\ signals' \subseteq Signal /\ \A s \in signals' : s.id \in placed
           /\ \A d \in Devices : \A t \in tasks'[d] : FormedFlow(t)'
<1>1. TypeOK /\ WellFormed /\ Answered /\ Called
  BY DEF IInv
<1>2. /\ signals' \subseteq Signal /\ \A s \in signals' : s.id \in placed
      /\ \A d \in Devices : \A t \in tasks'[d] : FormedFlow(t)'
  BY <1>1 DEF Handed, GoodSignal, WellFormed, FormedFlow, TypeOK
<1>3. Answered'
  BY <1>1 DEF Handed, GoodSignal, Answered
<1>4. placed \subseteq CallIds /\ accepted \subseteq placed
  BY <1>1 DEF TypeOK
<1>5. ASSUME NEW d \in Devices, NEW c, Continues(c, d), c # NoCall, ~c.outgoing
      PROVE  Kept(Other(d), c.id)'
  <2>1. PICK b \in {call[d], shown[d]} : b # NoCall /\ c.id = b.id /\ ~b.outgoing
    BY <1>5 DEF Continues
  <2>2. Kept(Other(d), c.id)
    BY <1>1, <2>1 DEF Called
  <2>3. c.id \in CallIds
    BY <1>1, <1>4, <2>1 DEF WellFormed, Formed
  <2> QED
    BY <2>2, <2>3, OtherFacts DEF AllKept
<1>6. ASSUME NEW d \in Devices, NEW t \in tasks'[d], t.op = "start" PROVE Kept(d, t.id)'
  <2>1. Kept(d, t.id)
    BY <1>1, <1>6 DEF Handed, Called
  <2>2. t.id \in CallIds
    BY <1>2, <1>4 DEF FormedFlow
  <2> QED
    BY <2>1, <2>2 DEF AllKept
<1>7. ASSUME NEW s \in signals', s.type = "offer" PROVE Kept(Other(s.to), s.id)'
  <2>1. Kept(Other(s.to), s.id)
    BY <1>1, <1>7 DEF Handed, GoodSignal, Called
  <2>2. s.id \in CallIds /\ s.to \in Devices
    BY <1>2, <1>4 DEF Signal
  <2> QED
    BY <2>1, <2>2, OtherFacts DEF AllKept
<1>8. ASSUME NEW id \in accepted', NEW d \in Devices PROVE Kept(d, id)'
  BY <1>1, <1>4 DEF Called, AllKept
<1>9. Called'
  BY <1>5, <1>6, <1>7, <1>8 DEF Called
<1> QED
  BY <1>2, <1>3, <1>9

\* A step that leaves the ends of the call alone.
LEMMA QuietInv ==
    ASSUME IInv, Handed, UNCHANGED <<call, shown, abort, held, open, recording, history>>
    PROVE  IInv'
<1>1. /\ TypeOK /\ WellFormed /\ RecordingNeedsCall /\ Accounted
      /\ ConnectedNeedsConsent /\ Faithful
  BY DEF IInv
<1>2. /\ call' = call /\ shown' = shown /\ abort' = abort /\ held' = held /\ open' = open
      /\ recording' = recording /\ placed' = placed /\ accepted' = accepted
      /\ finished' = finished /\ strayed' = strayed /\ late' = late
  BY DEF history
<1>3. AllKept
  BY <1>2 DEF AllKept, Kept
<1>4. \A d \in Devices : Continues(call'[d], d) /\ Continues(shown'[d], d)
  BY <1>2 DEF Continues
<1>5. /\ Answered' /\ Called'
      /\ signals' \subseteq Signal /\ \A s \in signals' : s.id \in placed
      /\ \A d \in Devices : \A t \in tasks'[d] : FormedFlow(t)'
  BY <1>2, <1>3, <1>4, HandedInv
<1>6. TypeOK'
  BY <1>1, <1>2, <1>5 DEF TypeOK, Handed
<1>7. WellFormed'
  BY <1>1, <1>2, <1>5 DEF WellFormed, Formed
<1>8. RecordingNeedsCall' /\ Accounted' /\ ConnectedNeedsConsent' /\ Faithful'
  BY <1>1, <1>2 DEF RecordingNeedsCall, Accounted, ConnectedNeedsConsent, Faithful
<1> QED
  BY <1>5, <1>6, <1>7, <1>8 DEF IInv

\* A step that changes the phase of the call, with the microphone as it is.
LEMMA PhaseInv ==
    ASSUME IInv, Handed, NEW d \in Devices, NEW id,
           NEW phase \in Phases \ {"idle", "incoming", "over"}, SetPhase(d, id, phase),
           phase = "connected" => id \in accepted,
           held' \in [Devices -> BOOLEAN], open' \in [Devices -> Nat],
           \A e \in Devices : held[e] => held'[e], \A e \in Devices : held'[e] => open'[e] > 0,
           late \subseteq late', late' \subseteq Devices,
           \A e \in Devices \ late' :
              \/ held'[e] = held[e] /\ open'[e] = open[e]
              \/ held'[e] /\ open'[e] = 1 /\ Live(call[e]),
           UNCHANGED <<shown, abort, recording, placed, accepted, finished>>
    PROVE  IInv'
<1>1. /\ TypeOK /\ WellFormed /\ RecordingNeedsCall /\ Accounted
      /\ ConnectedNeedsConsent /\ Faithful
  BY DEF IInv
<1>2. phase \in Phases \ {"idle", "incoming"}
  OBVIOUS
<1>3. /\ call' \in [Devices -> Call]
      /\ \A e \in Devices :
            /\ call'[e].id = call[e].id /\ call'[e].outgoing = call[e].outgoing
            /\ call'[e] = NoCall <=> call[e] = NoCall
            /\ e # d => call'[e] = call[e]
      /\ call[d] # NoCall => call'[d].phase = phase
      /\ call[d] # NoCall => call[d].id = id \/ call[d].id \in strayed'
      /\ strayed \subseteq strayed' /\ strayed' \subseteq placed
  BY <1>1, <1>2, PhaseFacts
<1>4. AllKept
  BY <1>3 DEF AllKept, Kept
<1>5. \A e \in Devices : Continues(call'[e], e) /\ Continues(shown'[e], e)
  BY <1>3 DEF Continues
<1>6. /\ Answered' /\ Called'
      /\ signals' \subseteq Signal /\ \A s \in signals' : s.id \in placed
      /\ \A e \in Devices : \A t \in tasks'[e] : FormedFlow(t)'
  BY <1>4, <1>5, HandedInv
<1>7. TypeOK'
  BY <1>1, <1>3, <1>6 DEF TypeOK, Handed
<1>8. \A e \in Devices : call'[e] # NoCall => call'[e].phase \notin {"idle", "incoming"} \/ call'[e] = call[e]
  BY <1>3
<1>9. WellFormed'
  BY <1>1, <1>3, <1>6, <1>8 DEF WellFormed, Formed
<1>10. \A e \in Devices : Live(call[e]) => Live(call'[e])
  BY <1>3 DEF Live, NoCall
<1>11. RecordingNeedsCall'
  BY <1>1, <1>10 DEF RecordingNeedsCall
<1>12. Accounted'
  BY <1>1, <1>10 DEF Accounted
<1>13. ConnectedNeedsConsent'
  BY <1>1, <1>3 DEF ConnectedNeedsConsent, NoCall
<1>14. Faithful'
  BY <1>1, <1>3 DEF Faithful, NoCall
<1> QED
  BY <1>6, <1>7, <1>9, <1>11, <1>12, <1>13, <1>14 DEF IInv

\* A step that ends the call there is.
LEMMA FinalizeInv ==
    ASSUME IInv, Handed, NEW d \in Devices, NEW id, Finalize(d, id),
           UNCHANGED <<shown, placed, accepted, late>>
    PROVE  IInv'
<1>1. /\ TypeOK /\ WellFormed /\ RecordingNeedsCall /\ Accounted
      /\ ConnectedNeedsConsent /\ Faithful
  BY DEF IInv
<1>2. /\ abort' \in [Devices -> BOOLEAN]
      /\ finished \subseteq finished' /\ finished' \subseteq Devices \X placed
      /\ call[d] # NoCall => <<d, call[d].id>> \in finished' /\ call'[d].phase = "over"
      /\ StopAudio(d) /\ SetPhase(d, id, "over")
  BY <1>1, FinalizeFacts
<1>3. "over" \in Phases \ {"idle", "incoming"}
  BY DEF Phases
<1>4. /\ call' \in [Devices -> Call]
      /\ \A e \in Devices :
            /\ call'[e].id = call[e].id /\ call'[e].outgoing = call[e].outgoing
            /\ call'[e] = NoCall <=> call[e] = NoCall
            /\ e # d => call'[e] = call[e]
      /\ strayed \subseteq strayed' /\ strayed' \subseteq placed
  BY <1>1, <1>2, <1>3, PhaseFacts
<1>5. /\ recording' \in [Devices -> BOOLEAN] /\ held' \in [Devices -> BOOLEAN]
      /\ open' \in [Devices -> Nat]
      /\ ~recording'[d] /\ ~held'[d] /\ open'[d] = IF held[d] THEN open[d] - 1 ELSE open[d]
      /\ \A e \in Devices \ {d} :
            recording'[e] = recording[e] /\ held'[e] = held[e] /\ open'[e] = open[e]
  BY <1>1, <1>2, AudioFacts
<1>6. AllKept
  BY <1>2, <1>4 DEF AllKept, Kept
<1>7. \A e \in Devices : Continues(call'[e], e) /\ Continues(shown'[e], e)
  BY <1>4 DEF Continues
<1>8. /\ Answered' /\ Called'
      /\ signals' \subseteq Signal /\ \A s \in signals' : s.id \in placed
      /\ \A e \in Devices : \A t \in tasks'[e] : FormedFlow(t)'
  BY <1>6, <1>7, HandedInv
<1>9. TypeOK'
  BY <1>1, <1>2, <1>4, <1>5, <1>8 DEF TypeOK, Handed
<1>10. WellFormed'
  BY <1>1, <1>2, <1>4, <1>8 DEF WellFormed, Formed
<1>11. RecordingNeedsCall'
  BY <1>1, <1>4, <1>5 DEF RecordingNeedsCall
<1>12. Accounted'
  BY <1>1, <1>4, <1>5 DEF Accounted
<1>13. ConnectedNeedsConsent'
  <2>1. \A e \in Devices : call'[e].phase = "connected" => call'[e] = call[e]
    BY <1>2, <1>4
  <2> QED
    BY <1>1, <1>4, <2>1 DEF ConnectedNeedsConsent
<1>14. Faithful'
  <2>1. shown' = shown /\ \A e \in Devices : call'[e].id = call[e].id
    BY <1>4
  <2>2. ASSUME NEW e \in Devices, call'[e].phase = "over" PROVE <<e, call'[e].id>> \in finished'
    <3>1. CASE e = d
      <4>1. NoCall.phase # "over"
        BY DEF NoCall
      <4>2. call[d] # NoCall
        BY <1>4, <2>2, <3>1, <4>1
      <4> QED
        BY <1>2, <2>1, <3>1, <4>2
    <3>2. CASE e # d
      BY <1>1, <1>2, <1>4, <2>2, <3>2 DEF Faithful
    <3> QED
      BY <3>1, <3>2
  <2>3. ASSUME NEW e \in Devices, shown'[e].phase = "over" PROVE <<e, shown'[e].id>> \in finished'
    BY <1>1, <1>2, <2>1, <2>3 DEF Faithful
  <2>4. ASSUME NEW e \in Devices, Live(shown'[e]) PROVE call'[e].id = shown'[e].id
    BY <1>1, <2>1, <2>4 DEF Faithful
  <2> QED
    BY <2>2, <2>3, <2>4 DEF Faithful
<1> QED
  BY <1>8, <1>9, <1>10, <1>11, <1>12, <1>13, <1>14 DEF IInv

\* A flow that ends, or goes on to wait for something else.
LEMMA FlowsHanded ==
    ASSUME TypeOK, WellFormed, NEW d \in Devices, NEW t \in tasks[d],
           Drop(d, t) \/ (t.at # "send" /\ (Advance(d, t, "dial") \/ Advance(d, t, "send"))),
           \A s \in signals' : s \in signals \/ GoodSignal(s)
    PROVE  Handed
<1>1. tasks \in [Devices -> SUBSET Task] /\ t \in Task
  BY DEF TypeOK
<1>2. CASE Drop(d, t)
  <2>1. tasks' = [tasks EXCEPT ![d] = @ \ {t}]
    BY <1>2 DEF Drop
  <2>2. tasks' \in [Devices -> SUBSET Task] /\ \A e \in Devices : \A v \in tasks'[e] : v \in tasks[e]
    BY <1>1, <2>1
  <2> QED
    BY <2>2 DEF Handed, WellFormed, FormedFlow
<1>3. ASSUME NEW at \in {"dial", "send"}, t.at # "send", Advance(d, t, at) PROVE Handed
  <2> DEFINE u == [t EXCEPT !.at = at]
  <2>1. u \in Task /\ u.op = t.op /\ u.id = t.id /\ u.op # "reject" /\ u.id \in placed
    BY <1>1, <1>3 DEF Task, WellFormed, FormedFlow
  <2>2. tasks' = [tasks EXCEPT ![d] = (@ \ {t}) \cup {u}]
    BY <1>3 DEF Advance
  <2> HIDE DEF u
  <2>3. tasks' \in [Devices -> SUBSET Task]
    BY <1>1, <2>1, <2>2
  <2>4. \A e \in Devices : \A v \in tasks'[e] : v \in tasks[e] \/ (e = d /\ v = u)
    BY <1>1, <2>2
  <2> QED
    BY <2>1, <2>3, <2>4 DEF Handed, WellFormed, FormedFlow
<1> QED
  BY <1>2, <1>3

\* startCall: the caller is in its call and shows it.
LEMMA StartCallInv ==
    ASSUME IInv, NEW d \in Devices, NEW id \in CallIds, StartCall(d, id)
    PROVE  IInv'
<1> DEFINE c == [id |-> id, outgoing |-> TRUE, phase |-> FirstPhase(d)]
           t == [op |-> "start", id |-> id, at |-> IF held[d] THEN "dial" ELSE "media"]
<1>1. /\ TypeOK /\ WellFormed /\ RecordingNeedsCall /\ Accounted /\ Answered
      /\ ConnectedNeedsConsent /\ Faithful /\ Called
  BY DEF IInv
<1>2. /\ ~Live(shown[d]) /\ placed' = placed \cup {id}
      /\ abort' = [abort EXCEPT ![d] = FALSE]
      /\ call' = [call EXCEPT ![d] = c] /\ shown' = [shown EXCEPT ![d] = call'[d]]
      /\ tasks' = [tasks EXCEPT ![d] = @ \cup {t}]
      /\ held' = held /\ open' = open /\ recording' = recording /\ signals' = signals
      /\ accepted' = accepted /\ finished' = finished /\ strayed' = strayed /\ late' = late
  BY DEF StartCall, BeginWithMedia, Begin
<1>3. /\ c \in Call /\ c.id = id /\ c.outgoing /\ Live(c) /\ c.phase \notin {"incoming", "connected", "idle", "over"}
      /\ t \in Task /\ t.op = "start" /\ t.id = id
  BY DEF Call, FirstPhase, Phases, Live, Task
<1> HIDE DEF c, t
<1>4. /\ call'[d] = c /\ shown'[d] = c /\ \A e \in Devices : e # d => call'[e] = call[e] /\ shown'[e] = shown[e]
      /\ \A e \in Devices : \A u \in tasks'[e] : u \in tasks[e] \/ (e = d /\ u = t)
  BY <1>1, <1>2 DEF TypeOK
<1>5. TypeOK'
  BY <1>1, <1>2, <1>3 DEF TypeOK
<1>6. id # NoId /\ NoCall.id = NoId
  BY CallAssumption DEF NoCall
<1>7. WellFormed'
  <2>1. ASSUME NEW e \in Devices PROVE Formed(call[e])' /\ Formed(shown[e])'
    BY <1>1, <1>2, <1>3, <1>4, <1>6 DEF WellFormed, Formed
  <2>2. ASSUME NEW e \in Devices, NEW u \in tasks'[e] PROVE FormedFlow(u)'
    BY <1>1, <1>2, <1>3, <1>4 DEF WellFormed, FormedFlow
  <2> QED
    BY <1>1, <1>2, <2>1, <2>2 DEF WellFormed
<1>8. RecordingNeedsCall' /\ Accounted' /\ ConnectedNeedsConsent'
  BY <1>1, <1>2, <1>3, <1>4 DEF RecordingNeedsCall, Accounted, ConnectedNeedsConsent
<1>9. Answered'
  BY <1>1, <1>2, <1>3, <1>4 DEF Answered
<1>10. Faithful'
  <2> SUFFICES ASSUME NEW e \in Devices
               PROVE  /\ Live(shown'[e]) => call'[e].id = shown'[e].id
                      /\ call'[e].phase = "over" => <<e, call'[e].id>> \in finished
                      /\ shown'[e].phase = "over" => <<e, shown'[e].id>> \in finished
    BY <1>2 DEF Faithful, Live
  <2>1. CASE e = d
    BY <1>3, <1>4, <2>1
  <2>2. CASE e # d
    BY <1>1, <1>4, <2>2 DEF Faithful
  <2> QED
    BY <2>1, <2>2
<1>11. ASSUME NEW e \in Devices, NEW i \in CallIds, Kept(e, i) PROVE Kept(e, i)'
  <2>1. CASE e # d
    BY <1>2, <1>4, <1>11, <2>1 DEF Kept
  <2>2. CASE e = d /\ shown[d].id = i
    <3>1. shown[d] # NoCall
      BY <1>6, <2>2, CallAssumption
    <3>2. shown[d].phase = "over"
      BY <1>1, <1>2, <3>1 DEF Live, WellFormed, Formed
    <3>3. <<d, i>> \in finished
      BY <1>1, <2>2, <3>2 DEF Faithful
    <3> QED
      BY <1>2, <2>2, <3>3 DEF Kept
  <2>3. CASE e = d /\ shown[d].id # i
    BY <1>2, <1>11, <2>3 DEF Kept
  <2> QED
    BY <2>1, <2>2, <2>3
<1>12. Kept(d, id)'
  BY <1>3, <1>4 DEF Kept
<1>13. placed \subseteq CallIds /\ accepted \subseteq placed
  BY <1>1 DEF TypeOK
<1>14. ASSUME NEW e \in Devices, NEW b \in {call'[e], shown'[e]}, b # NoCall, ~b.outgoing
       PROVE  Kept(Other(e), b.id)'
  <2>1. e # d /\ b \in {call[e], shown[e]}
    BY <1>3, <1>4, <1>14
  <2>2. Kept(Other(e), b.id) /\ b.id \in CallIds
    BY <1>1, <1>13, <1>14, <2>1 DEF Called, WellFormed, Formed
  <2> QED
    BY <1>11, <2>2, OtherFacts
<1>15. ASSUME NEW e \in Devices, NEW u \in tasks'[e], u.op = "start" PROVE Kept(e, u.id)'
  <2>1. CASE u \in tasks[e]
    <3>1. Kept(e, u.id) /\ u.id \in CallIds
      BY <1>1, <1>13, <1>15, <2>1 DEF Called, WellFormed, FormedFlow
    <3> QED
      BY <1>11, <3>1
  <2>2. CASE e = d /\ u = t
    BY <1>3, <1>12, <2>2
  <2> QED
    BY <1>4, <2>1, <2>2
<1>16. ASSUME NEW s \in signals', s.type = "offer" PROVE Kept(Other(s.to), s.id)'
  <2>1. s \in signals /\ Kept(Other(s.to), s.id) /\ s.id \in CallIds
    BY <1>1, <1>2, <1>13, <1>16 DEF Called, WellFormed
  <2>2. s.to \in Devices
    BY <1>1, <2>1 DEF TypeOK, Signal
  <2> QED
    BY <1>11, <2>1, <2>2, OtherFacts
<1>17. \A i \in accepted' : \A e \in Devices : Kept(e, i)'
  BY <1>1, <1>2, <1>11, <1>13 DEF Called
<1>18. Called'
  BY <1>14, <1>15, <1>16, <1>17 DEF Called
<1> QED
  BY <1>5, <1>7, <1>8, <1>9, <1>10, <1>18 DEF IInv

\* acceptCall: both ends keep the call that is answered.
LEMMA AcceptCallInv ==
    ASSUME IInv, NEW d \in Devices, AcceptCall(d)
    PROVE  IInv'
<1> DEFINE id == shown[d].id
           t == [op |-> "accept", id |-> id, at |-> IF held[d] THEN "dial" ELSE "media"]
<1>1. /\ TypeOK /\ WellFormed /\ RecordingNeedsCall /\ Accounted /\ Answered
      /\ ConnectedNeedsConsent /\ Faithful /\ Called
  BY DEF IInv
<1>2. /\ shown[d].phase = "incoming" /\ accepted' = accepted \cup {id}
      /\ SetPhase(d, id, FirstPhase(d))
      /\ shown' = [shown EXCEPT ![d] = call'[d]]
      /\ tasks' = [tasks EXCEPT ![d] = @ \cup {t}]
      /\ abort' = abort /\ held' = held /\ open' = open /\ recording' = recording
      /\ signals' = signals /\ placed' = placed /\ finished' = finished /\ late' = late
  BY DEF AcceptCall, BeginWithMedia, Begin
<1>3. FirstPhase(d) \in {"requesting-media", "connecting"} /\ NoCall.phase = "idle" /\ NoCall.id = NoId
  BY DEF FirstPhase, NoCall
<1>4. /\ shown[d] # NoCall /\ id \in placed /\ call[d].id = id /\ call[d] # NoCall
      /\ ~shown[d].outgoing
  <2>1. shown[d] # NoCall /\ Live(shown[d])
    BY <1>2, <1>3 DEF Live
  <2>2. id \in placed /\ ~shown[d].outgoing
    BY <1>1, <1>2, <2>1 DEF WellFormed, Formed
  <2>3. id # NoId
    BY <1>1, <2>2, CallAssumption DEF TypeOK
  <2> QED
    BY <1>1, <1>3, <2>1, <2>2, <2>3 DEF Faithful
<1>5. FirstPhase(d) \in Phases \ {"idle", "incoming"}
  BY <1>3 DEF Phases
<1>6. /\ call' \in [Devices -> Call]
      /\ \A e \in Devices :
            /\ call'[e].id = call[e].id /\ call'[e].outgoing = call[e].outgoing
            /\ call'[e] = NoCall <=> call[e] = NoCall
            /\ e # d => call'[e] = call[e]
      /\ call[d] # NoCall => call'[d].phase = FirstPhase(d)
      /\ strayed \subseteq strayed' /\ strayed' \subseteq placed
  BY <1>1, <1>2, <1>5, PhaseFacts
<1>7. t \in Task /\ t.op = "accept" /\ t.id = id
  BY <1>1, <1>4 DEF Task, TypeOK
<1> HIDE DEF t, id
<1>8. /\ \A e \in Devices : \A u \in tasks'[e] : u \in tasks[e] \/ (e = d /\ u = t)
      /\ shown'[d] = call'[d] /\ \A e \in Devices : e # d => shown'[e] = shown[e]
  BY <1>1, <1>2 DEF TypeOK
<1>9. TypeOK'
  <2>1. shown' \in [Devices -> Call] /\ tasks' \in [Devices -> SUBSET Task]
    BY <1>1, <1>2, <1>6, <1>7 DEF TypeOK
  <2> QED
    BY <1>1, <1>2, <1>4, <1>6, <2>1 DEF TypeOK
<1>10. Live(call'[d]) /\ call'[d].phase \notin {"idle", "incoming", "connected", "over"}
  BY <1>3, <1>4, <1>6 DEF Live
<1>11. WellFormed'
  <2>1. ASSUME NEW e \in Devices PROVE Formed(call[e])' /\ Formed(shown[e])'
    BY <1>1, <1>2, <1>6, <1>8, <1>10 DEF WellFormed, Formed
  <2>2. ASSUME NEW e \in Devices, NEW u \in tasks'[e] PROVE FormedFlow(u)'
    BY <1>1, <1>2, <1>4, <1>7, <1>8 DEF WellFormed, FormedFlow
  <2> QED
    BY <1>1, <1>2, <2>1, <2>2 DEF WellFormed
<1>12. RecordingNeedsCall' /\ Accounted'
  BY <1>1, <1>2, <1>6, <1>10 DEF RecordingNeedsCall, Accounted
<1>13. ConnectedNeedsConsent'
  BY <1>1, <1>2, <1>6, <1>10 DEF ConnectedNeedsConsent
<1>14. Answered'
  BY <1>1, <1>2, <1>7, <1>8 DEF Answered
<1>15. Faithful'
  BY <1>1, <1>2, <1>6, <1>8, <1>10 DEF Faithful
<1>16. ASSUME NEW e \in Devices, NEW i, Kept(e, i) PROVE Kept(e, i)'
  BY <1>2, <1>6, <1>8, <1>16 DEF Kept
<1>17. Kept(d, id) /\ Kept(Other(d), id)
  BY <1>1, <1>4 DEF Called, Kept, id
<1>18. ASSUME NEW e \in Devices, NEW b \in {call'[e], shown'[e]}, b # NoCall, ~b.outgoing
       PROVE  Kept(Other(e), b.id)'
  <2>1. Kept(Other(e), b.id)
    BY <1>1, <1>6, <1>8, <1>18 DEF Called
  <2> QED
    BY <1>16, <2>1, OtherFacts
<1>19. \A e \in Devices : \A u \in tasks'[e] : u.op = "start" => Kept(e, u.id)'
  BY <1>1, <1>7, <1>8, <1>16 DEF Called
<1>20. ASSUME NEW s \in signals', s.type = "offer" PROVE Kept(Other(s.to), s.id)'
  <2>1. s \in signals /\ Kept(Other(s.to), s.id) /\ s.to \in Devices
    BY <1>1, <1>2, <1>20 DEF Called, TypeOK, Signal
  <2> QED
    BY <1>16, <2>1, OtherFacts
<1>21. \A i \in accepted' : \A e \in Devices : Kept(e, i)'
  BY <1>1, <1>2, <1>16, <1>17, OtherFacts DEF Called
<1>22. Called'
  BY <1>18, <1>19, <1>20, <1>21 DEF Called
<1> QED
  BY <1>9, <1>11, <1>12, <1>13, <1>14, <1>15, <1>22 DEF IInv

\* rejectCall begins a flow, and its signal is on its way.
LEMMA RejectCallInv ==
    ASSUME IInv, NEW d \in Devices, RejectCall(d)
    PROVE  IInv'
<1> DEFINE id == shown[d].id
           t == [op |-> "reject", id |-> id, at |-> "send"]
<1>1. TypeOK /\ WellFormed
  BY DEF IInv
<1>2. /\ shown[d].phase = "incoming"
      /\ signals' = (signals \ {}) \cup {SignalTo(Other(d), "reject", id)}
      /\ tasks' = [tasks EXCEPT ![d] = @ \cup {t}]
      /\ UNCHANGED <<call, shown, abort, held, open, recording, history>>
  BY DEF RejectCall, Send, Begin
<1>3. id \in placed /\ id \in CallIds
  <2>1. shown[d] # NoCall
    BY <1>2 DEF NoCall
  <2> QED
    BY <1>1, <2>1 DEF WellFormed, Formed, TypeOK
<1>4. t \in Task /\ t.op = "reject" /\ t.id = id /\ t.at = "send"
  BY <1>3 DEF Task
<1>5. GoodSignal(SignalTo(Other(d), "reject", id))
  BY <1>3, OtherFacts DEF GoodSignal, SignalTo, Signal
<1> HIDE DEF id, t
<1>6. Handed
  <2>1. tasks' \in [Devices -> SUBSET Task]
    BY <1>1, <1>2, <1>4 DEF TypeOK
  <2>2. \A e \in Devices : \A u \in tasks'[e] : u \in tasks[e] \/ u = t
    BY <1>1, <1>2 DEF TypeOK
  <2> QED
    BY <1>1, <1>2, <1>3, <1>4, <1>5, <2>1, <2>2 DEF Handed, WellFormed, FormedFlow
<1> QED
  BY <1>2, <1>6, QuietInv

\* endCall and dismissCall: the screen is cleared, and a call that was on is
\* finished.
LEMMA ClearInv ==
    ASSUME IInv, NEW d \in Devices, EndCall(d) \/ DismissCall(d)
    PROVE  IInv'
<1>1. /\ TypeOK /\ WellFormed /\ RecordingNeedsCall /\ Accounted
      /\ ConnectedNeedsConsent /\ Faithful
  BY DEF IInv
<1>2. /\ StopAudio(d)
      /\ call' = [call EXCEPT ![d] = NoCall] /\ shown' = [shown EXCEPT ![d] = NoCall]
      /\ tasks' = tasks /\ placed' = placed /\ accepted' = accepted /\ strayed' = strayed /\ late' = late
      /\ abort' \in {abort, [abort EXCEPT ![d] = TRUE]}
      /\ finished \subseteq finished'
  BY DEF EndCall, DismissCall, history
<1>3. shown[d] # NoCall
  BY DEF EndCall, DismissCall, Live, NoCall
<1>4. shown[d].id \in placed /\ shown[d].id \in CallIds
  BY <1>1, <1>3 DEF WellFormed, Formed, TypeOK
<1>5. finished' \in {finished, finished \cup {<<d, shown[d].id>>}} /\ <<d, shown[d].id>> \in finished'
  <2>1. CASE EndCall(d)
    BY <2>1 DEF EndCall
  <2>2. CASE DismissCall(d)
    BY <1>1, <2>2 DEF DismissCall, Faithful, history
  <2> QED
    BY <2>1, <2>2
<1>6. \A s \in signals' : s \in signals \/ GoodSignal(s)
  <2>1. GoodSignal(SignalTo(Other(d), "hangup", shown[d].id))
    BY <1>4, OtherFacts DEF GoodSignal, SignalTo, Signal
  <2> QED
    BY <2>1 DEF EndCall, DismissCall, Send
<1>7. Handed
  BY <1>1, <1>2, <1>6 DEF Handed, TypeOK, WellFormed, FormedFlow
<1>8. NoCall \in Call /\ NoCall.id = NoId /\ NoCall.phase = "idle" /\ ~Live(NoCall)
  BY DEF NoCall, Call, Phases, Live
<1>9. /\ call'[d] = NoCall /\ shown'[d] = NoCall
      /\ \A e \in Devices : e # d => call'[e] = call[e] /\ shown'[e] = shown[e]
  BY <1>1, <1>2 DEF TypeOK
<1>10. AllKept
  <2> SUFFICES ASSUME NEW e \in Devices, NEW i \in CallIds, Kept(e, i) PROVE Kept(e, i)'
    BY DEF AllKept
  <2>1. CASE e = d
    BY <1>2, <1>5, <2>1 DEF Kept
  <2>2. CASE e # d
    BY <1>2, <1>9, <2>2 DEF Kept
  <2> QED
    BY <2>1, <2>2
<1>11. \A e \in Devices : Continues(call'[e], e) /\ Continues(shown'[e], e)
  BY <1>9 DEF Continues
<1>12. /\ Answered' /\ Called'
       /\ signals' \subseteq Signal /\ \A s \in signals' : s.id \in placed
       /\ \A e \in Devices : \A t \in tasks'[e] : FormedFlow(t)'
  BY <1>2, <1>7, <1>10, <1>11, HandedInv
<1>13. /\ recording' \in [Devices -> BOOLEAN] /\ held' \in [Devices -> BOOLEAN]
       /\ open' \in [Devices -> Nat]
       /\ ~recording'[d] /\ ~held'[d] /\ open'[d] = IF held[d] THEN open[d] - 1 ELSE open[d]
       /\ \A e \in Devices \ {d} :
             recording'[e] = recording[e] /\ held'[e] = held[e] /\ open'[e] = open[e]
  BY <1>1, <1>2, AudioFacts
<1>14. TypeOK'
  <2>1. call' \in [Devices -> Call] /\ shown' \in [Devices -> Call] /\ abort' \in [Devices -> BOOLEAN]
    BY <1>1, <1>2, <1>8 DEF TypeOK
  <2>2. finished' \subseteq Devices \X placed
    BY <1>1, <1>4, <1>5 DEF TypeOK
  <2>3. \A e \in Devices : held'[e] => open'[e] > 0
    BY <1>1, <1>13 DEF TypeOK
  <2> QED
    BY <1>1, <1>2, <1>7, <1>12, <1>13, <2>1, <2>2, <2>3 DEF TypeOK, Handed
<1>15. WellFormed'
  BY <1>1, <1>2, <1>8, <1>9, <1>12 DEF WellFormed, Formed
<1>16. RecordingNeedsCall' /\ Accounted'
  BY <1>1, <1>2, <1>9, <1>13 DEF RecordingNeedsCall, Accounted
<1>17. ConnectedNeedsConsent'
  BY <1>1, <1>2, <1>8, <1>9 DEF ConnectedNeedsConsent
<1>18. Faithful'
  BY <1>1, <1>2, <1>8, <1>9 DEF Faithful
<1> QED
  BY <1>12, <1>14, <1>15, <1>16, <1>17, <1>18 DEF IInv

\* The microphone is granted.
LEMMA MediaReadyInv ==
    ASSUME IInv, NEW d \in Devices, NEW t \in tasks[d], MediaReady(d, t)
    PROVE  IInv'
<1>1. /\ TypeOK /\ WellFormed /\ RecordingNeedsCall /\ Accounted
      /\ ConnectedNeedsConsent /\ Faithful
  BY DEF IInv
<1>2. /\ held' = [held EXCEPT ![d] = TRUE] /\ open' = [open EXCEPT ![d] = @ + 1]
      /\ late' = IF held[d] \/ ~Live(call[d]) THEN late \cup {d} ELSE late
      /\ shown' = shown /\ abort' = abort /\ recording' = recording /\ signals' = signals
      /\ placed' = placed /\ accepted' = accepted /\ finished' = finished
      /\ t.at # "send"
      /\ \/ Drop(d, t) /\ call' = call /\ strayed' = strayed
         \/ Advance(d, t, "dial") /\ SetPhase(d, t.id, "connecting")
  BY DEF MediaReady
<1>3. Handed
  BY <1>1, <1>2, FlowsHanded
<1>4. held[d] \in BOOLEAN /\ open[d] \in Nat
  BY <1>1 DEF TypeOK
<1>5. /\ held' \in [Devices -> BOOLEAN] /\ open' \in [Devices -> Nat]
      /\ held'[d] /\ open'[d] = open[d] + 1 /\ open[d] + 1 > 0
      /\ \A e \in Devices : e # d => held'[e] = held[e] /\ open'[e] = open[e]
  BY <1>1, <1>2, <1>4 DEF TypeOK
<1>6. /\ \A e \in Devices : held[e] => held'[e]
      /\ \A e \in Devices : held'[e] => open'[e] > 0
      /\ late \subseteq late' /\ late' \subseteq Devices
  BY <1>1, <1>2, <1>5 DEF TypeOK
<1>7. \A e \in Devices \ late' :
          \/ held'[e] = held[e] /\ open'[e] = open[e]
          \/ held'[e] /\ open'[e] = 1 /\ Live(call[e])
  <2> SUFFICES ASSUME NEW e \in Devices, e \notin late'
               PROVE  \/ held'[e] = held[e] /\ open'[e] = open[e]
                      \/ held'[e] /\ open'[e] = 1 /\ Live(call[e])
    OBVIOUS
  <2>1. CASE e # d
    BY <1>5, <2>1
  <2>2. CASE e = d
    <3>1. ~held[d] /\ Live(call[d]) /\ d \notin late
      BY <1>2, <2>2
    <3>2. open[d] = 0
      BY <1>1, <3>1 DEF Accounted
    <3> QED
      BY <1>5, <2>2, <3>1, <3>2
  <2> QED
    BY <2>1, <2>2
<1>8. CASE SetPhase(d, t.id, "connecting")
  <2>1. "connecting" \in Phases \ {"idle", "incoming", "over"}
    BY DEF Phases
  <2> QED
    BY <1>2, <1>3, <1>5, <1>6, <1>7, <1>8, <2>1, PhaseInv
<1>9. CASE call' = call /\ strayed' = strayed
  <2>1. AllKept
    BY <1>2, <1>9 DEF AllKept, Kept
  <2>2. \A e \in Devices : Continues(call'[e], e) /\ Continues(shown'[e], e)
    BY <1>2, <1>9 DEF Continues
  <2>3. /\ Answered' /\ Called'
        /\ signals' \subseteq Signal /\ \A s \in signals' : s.id \in placed
        /\ \A e \in Devices : \A u \in tasks'[e] : FormedFlow(u)'
    BY <1>2, <1>3, <2>1, <2>2, HandedInv
  <2>4. TypeOK'
    BY <1>1, <1>2, <1>3, <1>5, <1>6, <1>9, <2>3 DEF TypeOK, Handed
  <2>5. WellFormed'
    BY <1>1, <1>2, <1>9, <2>3 DEF WellFormed, Formed
  <2>6. RecordingNeedsCall' /\ Accounted'
    BY <1>1, <1>2, <1>5, <1>6, <1>7, <1>9 DEF RecordingNeedsCall, Accounted
  <2>7. ConnectedNeedsConsent' /\ Faithful'
    BY <1>1, <1>2, <1>9 DEF ConnectedNeedsConsent, Faithful
  <2> QED
    BY <2>3, <2>4, <2>5, <2>6, <2>7 DEF IInv
<1> QED
  BY <1>2, <1>8, <1>9

\* A phase that changes with no change to the microphone.
LEMMA OnlyPhaseInv ==
    ASSUME IInv, Handed, NEW d \in Devices, NEW id,
           NEW phase \in {"connecting", "ringing", "connected"}, SetPhase(d, id, phase),
           phase = "connected" => id \in accepted,
           UNCHANGED <<shown, abort, held, open, recording, placed, accepted, finished, late>>
    PROVE  IInv'
<1>1. phase \in Phases \ {"idle", "incoming", "over"}
  BY DEF Phases
<1>2. /\ held' \in [Devices -> BOOLEAN] /\ open' \in [Devices -> Nat]
      /\ \A e \in Devices : held[e] => held'[e]
      /\ \A e \in Devices : held'[e] => open'[e] > 0
      /\ late \subseteq late' /\ late' \subseteq Devices
      /\ \A e \in Devices \ late' :
            \/ held'[e] = held[e] /\ open'[e] = open[e]
            \/ held'[e] /\ open'[e] = 1 /\ Live(call[e])
  BY DEF IInv, TypeOK
<1> QED
  BY <1>1, <1>2, PhaseInv

\* The offer or the acceptance goes out.
LEMMA DialedInv ==
    ASSUME IInv, NEW d \in Devices, NEW t \in tasks[d], Dialed(d, t)
    PROVE  IInv'
<1> DEFINE s == SignalTo(Other(d), IF t.op = "start" THEN "offer" ELSE "accept", t.id)
<1>1. TypeOK /\ WellFormed /\ Answered /\ Called
  BY DEF IInv
<1>2. /\ t.at = "dial"
      /\ Drop(d, t) \/ Advance(d, t, "send")
      /\ signals' \in {signals, (signals \ {}) \cup {s}}
      /\ UNCHANGED <<call, shown, abort, held, open, recording, history>>
  BY DEF Dialed, Send
<1>3. t.id \in placed /\ t.id \in CallIds /\ t.op # "reject" /\ t.op \in {"start", "accept", "reject"}
  BY <1>1, <1>2 DEF WellFormed, FormedFlow, TypeOK, Task
<1>4. GoodSignal(s)
  <2>1. s \in Signal /\ s.id = t.id /\ s.to = Other(d) /\ Other(s.to) = d
    BY <1>3, OtherFacts DEF SignalTo, Signal
  <2>2. s.type = IF t.op = "start" THEN "offer" ELSE "accept"
    BY DEF SignalTo
  <2>3. s.type = "accept" => s.id \in accepted
    <3>1. s.type = "accept" => t.op = "accept"
      BY <1>3, <2>2
    <3>2. t.op = "accept" => t.id \in accepted
      BY <1>1 DEF Answered
    <3> HIDE DEF s
    <3> QED
      BY <2>1, <3>1, <3>2
  <2>4. s.type = "offer" => Kept(Other(s.to), s.id)
    <3>1. s.type = "offer" => t.op = "start"
      BY <2>2
    <3>2. t.op = "start" => Kept(d, t.id)
      BY <1>1 DEF Called
    <3> HIDE DEF s
    <3> QED
      BY <2>1, <3>1, <3>2
  <2> QED
    BY <1>3, <2>1, <2>3, <2>4 DEF GoodSignal
<1> HIDE DEF s
<1>5. Handed
  BY <1>1, <1>2, <1>4, FlowsHanded
<1> QED
  BY <1>2, <1>5, QuietInv

\* A signal was sent, or a flow failed.
LEMMA FlowEndsInv ==
    ASSUME IInv, NEW d \in Devices, NEW t \in tasks[d], SignalSent(d, t) \/ FlowFails(d, t)
    PROVE  IInv'
<1>1. TypeOK /\ WellFormed /\ Answered
  BY DEF IInv
<1>2. Drop(d, t) /\ signals' = signals /\ UNCHANGED <<shown, placed, accepted, late>>
  BY DEF SignalSent, FlowFails
<1>3. Handed
  BY <1>1, <1>2, FlowsHanded
<1>4. t.op \in {"start", "accept", "reject"}
  BY <1>1 DEF TypeOK, Task
<1>5. CASE Finalize(d, t.id)
  BY <1>2, <1>3, <1>5, FinalizeInv
<1>6. CASE SignalSent(d, t) /\ t.op # "reject"
  <2>1. abort' = abort /\ held' = held /\ open' = open /\ recording' = recording /\ finished' = finished
    BY <1>6 DEF SignalSent
  <2>2. CASE call' = call /\ strayed' = strayed
    <3>1. UNCHANGED <<call, shown, abort, held, open, recording, history>>
      BY <1>2, <2>1, <2>2 DEF history
    <3> QED
      BY <1>3, <3>1, QuietInv
  <2>3. ASSUME NEW phase \in {"ringing", "connected"}, SetPhase(d, t.id, phase),
               phase = "connected" => t.op = "accept"
        PROVE  IInv'
    <3>1. phase = "connected" => t.id \in accepted
      BY <1>1, <2>3 DEF Answered
    <3>2. phase \in {"connecting", "ringing", "connected"}
      OBVIOUS
    <3> QED
      BY <1>2, <1>3, <2>1, <2>3, <3>1, <3>2, OnlyPhaseInv
  <2>4. \/ call' = call /\ strayed' = strayed
        \/ t.op = "start" /\ SetPhase(d, t.id, "ringing")
        \/ t.op = "accept" /\ SetPhase(d, t.id, "connected")
    BY <1>4, <1>6 DEF SignalSent
  <2> QED
    BY <2>2, <2>3, <2>4
<1> QED
  BY <1>5, <1>6 DEF SignalSent, FlowFails

\* The state is rendered.
LEMMA RenderInv ==
    ASSUME IInv, NEW d \in Devices, Render(d)
    PROVE  IInv'
<1>1. /\ TypeOK /\ WellFormed /\ RecordingNeedsCall /\ Accounted
      /\ ConnectedNeedsConsent /\ Faithful
  BY DEF IInv
<1>2. /\ shown' = [shown EXCEPT ![d] = call[d]]
      /\ recording' = [recording EXCEPT ![d] =
                          IF call[d].phase = "connected" THEN @ \/ held[d] ELSE @ /\ Live(call[d])]
      /\ call' = call /\ abort' = abort /\ held' = held /\ open' = open /\ tasks' = tasks
      /\ signals' = signals /\ placed' = placed /\ accepted' = accepted
      /\ finished' = finished /\ strayed' = strayed /\ late' = late
  BY DEF Render, history
<1>3. shown'[d] = call[d] /\ \A e \in Devices : e # d => shown'[e] = shown[e]
  BY <1>1, <1>2 DEF TypeOK
<1>4. Handed
  BY <1>1, <1>2 DEF Handed, TypeOK, WellFormed, FormedFlow
<1>5. AllKept
  BY <1>2, <1>3 DEF AllKept, Kept
<1>6. \A e \in Devices : Continues(call'[e], e) /\ Continues(shown'[e], e)
  BY <1>2, <1>3 DEF Continues
<1>7. Answered' /\ Called'
  BY <1>2, <1>4, <1>5, <1>6, HandedInv
<1>8. recording' \in [Devices -> BOOLEAN]
  BY <1>1, <1>2 DEF TypeOK, Live
<1>9. shown' \in [Devices -> Call]
  BY <1>1, <1>2 DEF TypeOK
<1>10. TypeOK'
  BY <1>1, <1>2, <1>8, <1>9 DEF TypeOK
<1>11. WellFormed'
  BY <1>1, <1>2, <1>3 DEF WellFormed, Formed, FormedFlow
<1>12. RecordingNeedsCall'
  <2> SUFFICES ASSUME NEW e \in Devices, recording'[e] PROVE held[e] /\ Live(call[e])
    BY <1>2 DEF RecordingNeedsCall, Live
  <2>1. CASE e # d
    BY <1>1, <1>2, <2>1 DEF RecordingNeedsCall, TypeOK
  <2>2. CASE e = d
    <3>1. recording'[d] = IF call[d].phase = "connected" THEN recording[d] \/ held[d]
                          ELSE recording[d] /\ Live(call[d])
      BY <1>1, <1>2 DEF TypeOK
    <3> QED
      BY <1>1, <2>2, <3>1 DEF RecordingNeedsCall, Live
  <2> QED
    BY <2>1, <2>2
<1>13. Accounted' /\ ConnectedNeedsConsent'
  BY <1>1, <1>2 DEF Accounted, ConnectedNeedsConsent
<1>14. Faithful'
  <2> SUFFICES ASSUME NEW e \in Devices
               PROVE  /\ Live(shown'[e]) => call[e].id = shown'[e].id
                      /\ call[e].phase = "over" => <<e, call[e].id>> \in finished
                      /\ shown'[e].phase = "over" => <<e, shown'[e].id>> \in finished
    BY <1>2 DEF Faithful, Live
  <2>1. shown'[e] = call[e] \/ shown'[e] = shown[e]
    BY <1>3
  <2> QED
    BY <1>1, <2>1 DEF Faithful
<1> QED
  BY <1>7, <1>10, <1>11, <1>12, <1>13, <1>14 DEF IInv

\* The recorder cannot start, or fails.
LEMMA RecorderFailsInv ==
    ASSUME IInv, NEW d \in Devices, RecorderFails(d)
    PROVE  IInv'
<1>1. TypeOK /\ WellFormed
  BY DEF IInv
<1>2. /\ Finalize(d, call[d].id) /\ tasks' = tasks /\ signals' = signals
      /\ UNCHANGED <<shown, placed, accepted, late>>
  BY DEF RecorderFails
<1>3. Handed
  BY <1>1, <1>2 DEF Handed, TypeOK, WellFormed, FormedFlow
<1> QED
  BY <1>2, <1>3, FinalizeInv

\* An offer arrives: it is turned down, or the call it names is incoming.
LEMMA ReceiveOfferInv ==
    ASSUME IInv, NEW d \in Devices, NEW id \in CallIds, ReceiveOffer(d, id)
    PROVE  IInv'
<1> DEFINE offer == SignalTo(d, "offer", id)
           reply == SignalTo(Other(d), IF IsBusy(d, id) THEN "busy" ELSE "ringing", id)
           c == [id |-> id, outgoing |-> FALSE, phase |-> "incoming"]
<1>1. /\ TypeOK /\ WellFormed /\ RecordingNeedsCall /\ Accounted /\ Answered
      /\ ConnectedNeedsConsent /\ Faithful /\ Called
  BY DEF IInv
<1>2. /\ offer \in signals
      /\ signals' = (signals \ {offer}) \cup {reply}
      /\ call' = IF IsBusy(d, id) THEN call ELSE [call EXCEPT ![d] = c]
      /\ UNCHANGED <<shown, abort, held, open, recording, tasks, history>>
  BY DEF ReceiveOffer, Send
<1>3. offer.type = "offer" /\ offer.id = id /\ offer.to = d
  BY DEF SignalTo
<1>4. id \in placed /\ Kept(Other(d), id) /\ id # NoId
  BY <1>1, <1>2, <1>3, CallAssumption DEF WellFormed, Called
<1>5. reply \in Signal /\ reply.id = id /\ reply.type \notin {"offer", "accept"}
  BY OtherFacts DEF SignalTo, Signal
<1>6. GoodSignal(reply)
  BY <1>4, <1>5 DEF GoodSignal
<1>7. /\ c \in Call /\ c.id = id /\ ~c.outgoing /\ c # NoCall /\ Live(c)
      /\ c.phase = "incoming"
  BY <1>4 DEF Call, Phases, NoCall, Live
<1> HIDE DEF offer, reply, c
<1>8. Handed
  BY <1>1, <1>2, <1>6 DEF Handed, TypeOK, WellFormed, FormedFlow
<1>9. CASE IsBusy(d, id)
  BY <1>2, <1>8, <1>9, QuietInv
<1>10. CASE ~IsBusy(d, id)
  <2>1. /\ call' = [call EXCEPT ![d] = c]
        /\ shown' = shown /\ abort' = abort /\ held' = held /\ open' = open
        /\ recording' = recording /\ tasks' = tasks /\ placed' = placed /\ accepted' = accepted
        /\ finished' = finished /\ strayed' = strayed /\ late' = late
    BY <1>2, <1>10 DEF history
  <2>2. call'[d] = c /\ \A e \in Devices : e # d => call'[e] = call[e]
    BY <1>1, <2>1 DEF TypeOK
  <2>3. ~Live(shown[d]) \/ shown[d].id = id
    BY <1>10 DEF IsBusy
  <2>4. signals' \subseteq Signal /\ \A s \in signals' : s.id \in placed
    BY <1>1, <1>2, <1>4, <1>5 DEF TypeOK, WellFormed
  <2>5. TypeOK'
    <3>1. call' \in [Devices -> Call]
      BY <1>1, <1>7, <2>1 DEF TypeOK
    <3> QED
      BY <1>1, <2>1, <2>4, <3>1 DEF TypeOK
  <2>6. WellFormed'
    <3>1. \A e \in Devices : Formed(call[e])' /\ Formed(shown[e])'
      BY <1>1, <1>4, <1>7, <2>1, <2>2 DEF WellFormed, Formed
    <3> QED
      BY <1>1, <2>1, <2>4, <3>1 DEF WellFormed, FormedFlow
  <2>7. RecordingNeedsCall' /\ Accounted' /\ ConnectedNeedsConsent'
    BY <1>1, <1>7, <2>1, <2>2 DEF RecordingNeedsCall, Accounted, ConnectedNeedsConsent
  <2>8. Answered'
    BY <1>1, <1>2, <1>5, <2>1 DEF Answered
  <2>9. Faithful'
    <3> SUFFICES ASSUME NEW e \in Devices
                 PROVE  /\ Live(shown[e]) => call'[e].id = shown[e].id
                        /\ call'[e].phase = "over" => <<e, call'[e].id>> \in finished
                        /\ shown[e].phase = "over" => <<e, shown[e].id>> \in finished
      BY <2>1 DEF Faithful, Live
    <3>1. CASE e = d
      BY <1>1, <1>7, <2>2, <2>3, <3>1 DEF Faithful
    <3>2. CASE e # d
      BY <1>1, <2>2, <3>2 DEF Faithful
    <3> QED
      BY <3>1, <3>2
  <2>10. ASSUME NEW e \in Devices, NEW i \in CallIds, Kept(e, i) PROVE Kept(e, i)'
    <3>1. CASE e # d \/ <<e, i>> \in finished
      BY <2>1, <2>2, <2>10, <3>1 DEF Kept
    <3>2. CASE e = d /\ call[d].id = i /\ shown[d].id = i
      <4>1. CASE shown[d].id = id
        BY <1>7, <2>1, <2>2, <3>2, <4>1 DEF Kept
      <4>2. CASE ~Live(shown[d])
        <5>1. shown[d] # NoCall
          BY <3>2, CallAssumption DEF NoCall
        <5>2. shown[d].phase = "over"
          BY <1>1, <4>2, <5>1 DEF Live, WellFormed, Formed
        <5> QED
          BY <1>1, <2>1, <3>2, <5>2 DEF Faithful, Kept
      <4> QED
        BY <2>3, <4>1, <4>2
    <3> QED
      BY <2>10, <3>1, <3>2 DEF Kept
  <2>11. placed \subseteq CallIds /\ accepted \subseteq placed
    BY <1>1 DEF TypeOK
  <2>12. ASSUME NEW e \in Devices, NEW b \in {call'[e], shown'[e]}, b # NoCall, ~b.outgoing
         PROVE  Kept(Other(e), b.id)'
    <3>1. Kept(Other(e), b.id) /\ b.id \in CallIds
      <4>1. CASE b = c /\ e = d
        BY <1>4, <1>7, <4>1
      <4>2. CASE b \in {call[e], shown[e]}
        BY <1>1, <2>11, <2>12, <4>2 DEF Called, WellFormed, Formed
      <4> QED
        BY <2>1, <2>2, <4>1, <4>2
    <3> QED
      BY <2>10, <3>1, OtherFacts
  <2>13. \A e \in Devices : \A t \in tasks'[e] : t.op = "start" => Kept(e, t.id)'
    BY <1>1, <2>1, <2>10, <2>11 DEF Called, WellFormed, FormedFlow
  <2>14. ASSUME NEW s \in signals', s.type = "offer" PROVE Kept(Other(s.to), s.id)'
    <3>1. s \in signals
      BY <1>2, <1>5, <2>14
    <3>2. Kept(Other(s.to), s.id) /\ s.id \in CallIds /\ s.to \in Devices
      BY <1>1, <2>11, <2>14, <3>1 DEF Called, WellFormed, TypeOK, Signal
    <3> QED
      BY <2>10, <3>2, OtherFacts
  <2>15. \A i \in accepted' : \A e \in Devices : Kept(e, i)'
    BY <1>1, <2>1, <2>10, <2>11 DEF Called
  <2>16. Called'
    BY <2>12, <2>13, <2>14, <2>15 DEF Called
  <2> QED
    BY <2>5, <2>6, <2>7, <2>8, <2>9, <2>16 DEF IInv
<1> QED
  BY <1>9, <1>10

\* Any other signal arrives, or one is lost.
LEMMA ReceiveInv ==
    ASSUME IInv, NEW d \in Devices, NEW id \in CallIds, NEW type,
           ReceiveProgress(d, id, type) \/ ReceiveEnd(d, id, type)
    PROVE  IInv'
<1>1. TypeOK /\ WellFormed /\ Answered
  BY DEF IInv
<1>2. /\ SignalTo(d, type, id) \in signals /\ signals' = signals \ {SignalTo(d, type, id)}
      /\ tasks' = tasks /\ shown' = shown /\ placed' = placed /\ accepted' = accepted /\ late' = late
  BY DEF ReceiveProgress, ReceiveEnd
<1>3. Handed
  BY <1>1, <1>2 DEF Handed, TypeOK, WellFormed, FormedFlow
<1>4. CASE ReceiveProgress(d, id, type) /\ IsOurs(d, id)
  <2> DEFINE phase == IF type = "ringing" THEN "ringing" ELSE "connected"
  <2>1. /\ SetPhase(d, shown[d].id, phase) /\ shown[d].id = id /\ type \in {"ringing", "accept"}
        /\ UNCHANGED <<shown, abort, held, open, recording, placed, accepted, finished, late>>
    BY <1>4 DEF ReceiveProgress, IsOurs
  <2>2. phase = "connected" => shown[d].id \in accepted
    <3>1. SignalTo(d, type, id).type = type /\ SignalTo(d, type, id).id = id
      BY DEF SignalTo
    <3> QED
      BY <1>1, <1>2, <2>1, <3>1 DEF Answered
  <2>3. phase \in {"connecting", "ringing", "connected"}
    OBVIOUS
  <2> HIDE DEF phase
  <2> QED
    BY <1>3, <2>1, <2>2, <2>3, OnlyPhaseInv
<1>5. CASE ReceiveEnd(d, id, type) /\ IsOurs(d, id)
  <2>1. Finalize(d, shown[d].id)
    BY <1>5 DEF ReceiveEnd
  <2> QED
    BY <1>2, <1>3, <2>1, FinalizeInv
<1>6. CASE ~IsOurs(d, id)
  <2>1. UNCHANGED <<call, shown, abort, held, open, recording, history>>
    BY <1>6 DEF ReceiveProgress, ReceiveEnd, history
  <2> QED
    BY <1>3, <2>1, QuietInv
<1> QED
  BY <1>4, <1>5, <1>6

-----------------------------------------------------------------------------
\* The theorems.

\* IInv holds in every state of every behaviour.
LEMMA Inductive == Spec => []IInv
<1>1. ASSUME IInv, [Next]_vars PROVE IInv'
  <2>1. CASE \E signal \in signals : Lose(signal)
    <3>1. /\ UNCHANGED <<call, shown, abort, held, open, recording, history>>
          /\ tasks' = tasks /\ signals' \subseteq signals
      BY <2>1 DEF Lose, ends
    <3>2. Handed
      BY <1>1, <3>1 DEF IInv, TypeOK, Handed, WellFormed, FormedFlow
    <3> QED
      BY <1>1, <3>1, <3>2, QuietInv
  <2>2. CASE \E d \in Devices : \E id \in CallIds : StartCall(d, id)
    BY <1>1, <2>2, StartCallInv
  <2>3. CASE \E d \in Devices : AcceptCall(d) \/ RejectCall(d)
    BY <1>1, <2>3, AcceptCallInv, RejectCallInv
  <2>4. CASE \E d \in Devices : EndCall(d) \/ DismissCall(d)
    BY <1>1, <2>4, ClearInv
  <2>5. CASE \E d \in Devices : \E t \in tasks[d] :
                 MediaReady(d, t) \/ Dialed(d, t) \/ SignalSent(d, t) \/ FlowFails(d, t)
    <3>1. PICK d, t : /\ d \in Devices /\ t \in tasks[d]
                      /\ MediaReady(d, t) \/ Dialed(d, t) \/ SignalSent(d, t) \/ FlowFails(d, t)
      BY <2>5
    <3>2. CASE MediaReady(d, t)
      BY <1>1, <3>1, <3>2, MediaReadyInv
    <3>3. CASE Dialed(d, t)
      BY <1>1, <3>1, <3>3, DialedInv
    <3>4. CASE SignalSent(d, t) \/ FlowFails(d, t)
      BY <1>1, <3>1, <3>4, FlowEndsInv
    <3> QED
      BY <3>1, <3>2, <3>3, <3>4
  <2>6. CASE \E d \in Devices : Render(d) \/ RecorderFails(d)
    BY <1>1, <2>6, RenderInv, RecorderFailsInv
  <2>7. CASE \E d \in Devices : \E id \in CallIds : ReceiveOffer(d, id)
    BY <1>1, <2>7, ReceiveOfferInv
  <2>8. CASE \E d \in Devices : \E id \in CallIds :
                 \/ \E type \in {"ringing", "accept"} : ReceiveProgress(d, id, type)
                 \/ \E type \in {"reject", "busy", "hangup"} : ReceiveEnd(d, id, type)
    BY <1>1, <2>8, ReceiveInv
  <2>9. CASE UNCHANGED vars
    <3>1. /\ UNCHANGED <<call, shown, abort, held, open, recording, history>>
          /\ tasks' = tasks /\ signals' = signals
      BY <2>9 DEF vars, history
    <3>2. Handed
      BY <1>1, <3>1 DEF IInv, TypeOK, Handed, WellFormed, FormedFlow
    <3> QED
      BY <1>1, <3>1, <3>2, QuietInv
  <2> QED
    BY <1>1, <2>1, <2>2, <2>3, <2>4, <2>5, <2>6, <2>7, <2>8, <2>9 DEF Next
<1> QED
  BY <1>1, InitInv, PTL DEF Spec

\* The recorder runs only into a call that is on, and the microphone is off
\* when none is, whatever order signals, grants, failures and buttons come in
\* (stopOutgoingAudio, stopLocalAudio and the recording effect): only a
\* microphone granted after its call was over, or twice, stays open.
THEOREM MicrophoneForCalls == Spec => []MicrophoneIsForCalls
<1>1. ASSUME IInv PROVE MicrophoneIsForCalls
  <2>1. MicrophoneReleased
    BY <1>1 DEF IInv, Accounted, MicrophoneReleased
  <2> QED
    BY <1>1, <2>1 DEF IInv, MicrophoneIsForCalls
<1> QED
  BY <1>1, Inductive, PTL

\* Nobody is connected in a call nobody chose to answer, unless a flow or a
\* handler of another call changed it (the functional setCall updates).
THEOREM ConsentNeeded == Spec => []ConnectedNeedsConsent
<1>1. IInv => ConnectedNeedsConsent
  BY DEF IInv
<1> QED
  BY <1>1, Inductive, PTL

\* An end that is in an answered call keeps it until it finishes it, so the
\* two ends of two calls made at once are never connected in different ones
\* (the busy reply and the checks on the id of a signal).
THEOREM CallsNeverCross == Spec => []NoCrossedCalls
<1>1. ASSUME IInv PROVE NoCrossedCalls
  <2> SUFFICES ASSUME NEW d \in Devices, NEW e \in Devices,
                      call[d].phase = "connected", call[d].id # call[e].id,
                      call[d].id \notin strayed, \A f \in Devices : <<f, call[d].id>> \notin finished
               PROVE  FALSE
    BY DEF NoCrossedCalls
  <2>1. call[d].id \in accepted
    BY <1>1 DEF IInv, ConnectedNeedsConsent
  <2>2. Kept(e, call[d].id)
    BY <1>1, <2>1 DEF IInv, Called
  <2> QED
    BY <2>2 DEF Kept
<1> QED
  BY <1>1, Inductive, PTL
=============================================================================
