---------------------- MODULE SessionLifecycleProofs ----------------------
(***************************************************************************)
(* Proofs about SessionLifecycle, for any number of starts, stops and      *)
(* pending calls: a running session has a node, a starting one is on its   *)
(* way, and unless calls crossed or a stop was rejected no node runs       *)
(* behind the session's back and the status at rest tells the truth.       *)
(***************************************************************************)
EXTENDS SessionLifecycle, TLAPS

\* While calls do not cross, at most one of them is busy with the node, and it
\* is busy with the node the session has.
Exclusive ==
    ~crossed =>
        /\ \A f, g \in Busy : f = g
        /\ \A f \in Flows :
              /\ at[f] = "creating" => node = NoNode
              /\ at[f] \in {"handling", "booting", "stopping"} => on[f] = node
              /\ at[f] = "handling" => life[node] = "made"
              /\ at[f] = "booting" => life[node] = "booting"
              /\ at[f] = "stopping" => /\ life[node] = "up" => status = "running"
                                       /\ status \notin {"idle", "stopped"}
        /\ \A n \in Nodes : life[n] = "up" => n = node \/ n \in refused

\* ... and between two of them the status fits the node.
Settled ==
    ~crossed /\ Busy = {} =>
        /\ node # NoNode /\ life[node] = "up" => status = "running"
        /\ status = "running" => \/ node \in refused
                                 \/ /\ life[node] = "up"
                                    /\ timers \/ \E f \in Flows : at[f] = "dialing"
        /\ status \in {"idle", "stopped"} => node = NoNode

IInv == TypeOK /\ RunningHasNode /\ StartingIsPending /\ Exclusive /\ Settled

-----------------------------------------------------------------------------

\* A session that was just made satisfies the invariant.
LEMMA InitInv == Init => IInv
BY SessionAssumption
   DEF Init, IInv, TypeOK, Statuses, Lives, Waits, Idle, RunningHasNode, StartingIsPending, Exclusive, Settled, Busy

\* A start crosses every busy call and every node, or begins alone.
LEMMA StartInv ==
    ASSUME IInv, NEW f \in Flows, Start(f)
    PROVE  IInv'
<1> USE SessionAssumption DEF Start, MayStart, Wait
<1>1. TypeOK'
  BY DEF IInv, TypeOK, Statuses, Lives, Waits, Idle
<1>2. RunningHasNode'
  BY DEF IInv, TypeOK, RunningHasNode
<1>3. StartingIsPending'
  BY DEF IInv, TypeOK, StartingIsPending, Idle
<1>4. Exclusive'
  <2>1. ASSUME ~crossed' PROVE ~crossed /\ Busy = {} /\ node = NoNode
    BY <2>1 DEF IInv, TypeOK
  <2>2. \A g \in Flows : at'[g] = IF g = f THEN "creating" ELSE at[g]
    BY DEF IInv, TypeOK
  <2>3. ~crossed' => \A g \in Flows : at'[g] \in {"creating", "handling", "booting", "stopping"} => g = f
    BY <2>1, <2>2 DEF Busy
  <2>4. ~crossed' => \A g, h \in Busy' : g = h
    BY <2>3 DEF Busy
  <2>5. ~crossed' => \A n \in Nodes : life'[n] = "up" => n = node' \/ n \in refused'
    BY <2>1 DEF IInv, Exclusive
  <2>6. QED
    BY <2>1, <2>2, <2>3, <2>4, <2>5 DEF Exclusive
<1>5. Settled'
  BY DEF IInv, TypeOK, Exclusive, Settled, Busy, Lives, Waits, Idle, Statuses, RunningHasNode
<1> QED
  BY <1>1, <1>2, <1>3, <1>4, <1>5 DEF IInv

\* A start without a node ends in error, and no other is busy.
LEMMA CreateFailsInv ==
    ASSUME IInv, NEW f \in Flows, CreateFails(f)
    PROVE  IInv'
<1> USE SessionAssumption DEF CreateFails, StartFails, Return, Wait
<1>1. TypeOK'
  BY DEF IInv, TypeOK, Statuses, Lives, Waits, Idle
<1>2. RunningHasNode'
  BY DEF IInv, TypeOK, RunningHasNode
<1>3. StartingIsPending'
  BY DEF IInv, TypeOK, StartingIsPending, Idle
<1>4. Exclusive'
  BY DEF IInv, TypeOK, Exclusive, Busy, Lives, Waits, Idle
<1>5. Settled'
  BY DEF IInv, TypeOK, Exclusive, Settled, Busy, Lives, Waits, Idle, Statuses, RunningHasNode
<1> QED
  BY <1>1, <1>2, <1>3, <1>4, <1>5 DEF IInv

\* The node that was made is the only one, unless calls crossed.
LEMMA CreatedInv ==
    ASSUME IInv, NEW f \in Flows, NEW n \in Nodes, Created(f, n)
    PROVE  IInv'
<1> USE SessionAssumption DEF Created, Wait
<1>1. TypeOK'
  BY DEF IInv, TypeOK, Statuses, Lives, Waits, Idle
<1>2. RunningHasNode'
  BY DEF IInv, TypeOK, RunningHasNode
<1>3. StartingIsPending'
  BY DEF IInv, TypeOK, StartingIsPending, Idle
<1>4. Exclusive'
  BY DEF IInv, TypeOK, Exclusive, Busy, Lives, Waits, Idle
<1>5. Settled'
  BY DEF IInv, TypeOK, Exclusive, Settled, Busy, Lives, Waits, Idle, Statuses, RunningHasNode
<1> QED
  BY <1>1, <1>2, <1>3, <1>4, <1>5 DEF IInv

\* The node that boots is the one that was made, unless calls crossed.
LEMMA HandledInv ==
    ASSUME IInv, NEW f \in Flows, Handled(f)
    PROVE  IInv'
<1> USE SessionAssumption DEF Handled, Wait
<1>1. TypeOK'
  BY DEF IInv, TypeOK, Statuses, Lives, Waits, Idle
<1>2. RunningHasNode'
  BY DEF IInv, TypeOK, RunningHasNode
<1>3. StartingIsPending'
  BY DEF IInv, TypeOK, StartingIsPending, Idle
<1>4. Exclusive'
  BY DEF IInv, TypeOK, Exclusive, Busy, Lives, Waits, Idle
<1>5. Settled'
  BY DEF IInv, TypeOK, Exclusive, Settled, Busy, Lives, Waits, Idle, Statuses, RunningHasNode
<1> QED
  BY <1>1, <1>2, <1>3, <1>4, <1>5 DEF IInv

\* A refused handler ends the start: the made node stays, in error.
LEMMA HandleFailsInv ==
    ASSUME IInv, NEW f \in Flows, HandleFails(f)
    PROVE  IInv'
<1> USE SessionAssumption DEF HandleFails, StartFails, Return, Wait
<1>1. TypeOK'
  BY DEF IInv, TypeOK, Statuses, Lives, Waits, Idle
<1>2. RunningHasNode'
  BY DEF IInv, TypeOK, RunningHasNode
<1>3. StartingIsPending'
  BY DEF IInv, TypeOK, StartingIsPending, Idle
<1>4. Exclusive'
  BY DEF IInv, TypeOK, Exclusive, Busy, Lives, Waits, Idle
<1>5. Settled'
  BY DEF IInv, TypeOK, Exclusive, Settled, Busy, Lives, Waits, Idle, Statuses, RunningHasNode
<1> QED
  BY <1>1, <1>2, <1>3, <1>4, <1>5 DEF IInv

\* The node is up when the status says so.
LEMMA BootedInv ==
    ASSUME IInv, NEW f \in Flows, Booted(f)
    PROVE  IInv'
<1> USE SessionAssumption DEF Booted, StartFails, Return, Wait
<1>1. TypeOK'
  BY DEF IInv, TypeOK, Statuses, Lives, Waits, Idle
<1>2. RunningHasNode'
  BY DEF IInv, TypeOK, RunningHasNode
<1>3. StartingIsPending'
  BY DEF IInv, TypeOK, StartingIsPending, Idle
<1>4. Exclusive'
  BY DEF IInv, TypeOK, Exclusive, Busy, Lives, Waits, Idle
<1>5. Settled'
  BY DEF IInv, TypeOK, Exclusive, Settled, Busy, Lives, Waits, Idle, Statuses, RunningHasNode
<1> QED
  BY <1>1, <1>2, <1>3, <1>4, <1>5 DEF IInv

\* A node that failed to boot is down when the start ends in error.
LEMMA BootFailsInv ==
    ASSUME IInv, NEW f \in Flows, BootFails(f)
    PROVE  IInv'
<1> USE SessionAssumption DEF BootFails, StartFails, Return, Wait
<1>1. TypeOK'
  BY DEF IInv, TypeOK, Statuses, Lives, Waits, Idle
<1>2. RunningHasNode'
  BY DEF IInv, TypeOK, RunningHasNode
<1>3. StartingIsPending'
  BY DEF IInv, TypeOK, StartingIsPending, Idle
<1>4. Exclusive'
  BY DEF IInv, TypeOK, Exclusive, Busy, Lives, Waits, Idle
<1>5. Settled'
  BY DEF IInv, TypeOK, Exclusive, Settled, Busy, Lives, Waits, Idle, Statuses, RunningHasNode
<1> QED
  BY <1>1, <1>2, <1>3, <1>4, <1>5 DEF IInv

\* The timers run when the start is over.
LEMMA DialedInv ==
    ASSUME IInv, NEW f \in Flows, Dialed(f)
    PROVE  IInv'
<1> USE SessionAssumption DEF Dialed, Return, Wait
<1>1. TypeOK'
  BY DEF IInv, TypeOK, Statuses, Lives, Waits, Idle
<1>2. RunningHasNode'
  BY DEF IInv, TypeOK, RunningHasNode
<1>3. StartingIsPending'
  BY DEF IInv, TypeOK, StartingIsPending, Idle
<1>4. Exclusive'
  BY DEF IInv, TypeOK, Exclusive, Busy, Lives, Waits, Idle
<1>5. Settled'
  BY DEF IInv, TypeOK, Exclusive, Settled, Busy, Lives, Waits, Idle, Statuses, RunningHasNode
<1> QED
  BY <1>1, <1>2, <1>3, <1>4, <1>5 DEF IInv

\* With no node to dial with, the status is error.
LEMMA DialThrowsInv ==
    ASSUME IInv, NEW f \in Flows, DialThrows(f)
    PROVE  IInv'
<1> USE SessionAssumption DEF DialThrows, StartFails, Return, Wait
<1>1. TypeOK'
  BY DEF IInv, TypeOK, Statuses, Lives, Waits, Idle
<1>2. RunningHasNode'
  BY DEF IInv, TypeOK, RunningHasNode
<1>3. StartingIsPending'
  BY DEF IInv, TypeOK, StartingIsPending, Idle
<1>4. Exclusive'
  BY DEF IInv, TypeOK, Exclusive, Busy, Lives, Waits, Idle
<1>5. Settled'
  BY DEF IInv, TypeOK, Exclusive, Settled, Busy, Lives, Waits, Idle, Statuses, RunningHasNode
<1> QED
  BY <1>1, <1>2, <1>3, <1>4, <1>5 DEF IInv

\* Both ways to stop, by the user and by the app that drops the session.  When
\* nothing crosses, no call was busy, and the stop is the only one that is.
LEMMA StopSessionInv ==
    ASSUME IInv, NEW f \in Flows, StopSession(f), attached' \in BOOLEAN
    PROVE  IInv'
<1> USE SessionAssumption DEF StopSession, StopTimers, Wait
<1>1. TypeOK'
  BY DEF IInv, TypeOK, Statuses, Lives, Waits, Idle
<1>2. RunningHasNode'
  BY DEF IInv, TypeOK, RunningHasNode
<1>3. StartingIsPending'
  BY DEF IInv, TypeOK, StartingIsPending, Idle
<1>4. Exclusive'
  <2>1. ASSUME ~crossed' PROVE ~crossed /\ Busy = {}
    BY <2>1 DEF IInv, TypeOK
  <2>2. CASE node = NoNode
    BY <2>1, <2>2 DEF IInv, TypeOK, Exclusive, Busy
  <2>3. CASE node # NoNode
    <3>1. \A g \in Flows : at'[g] = IF g = f THEN "stopping" ELSE at[g]
      BY <2>3 DEF IInv, TypeOK
    <3>2. on'[f] = node
      BY <2>3 DEF IInv, TypeOK
    <3>3. ~crossed' => \A g \in Busy' : g = f
      BY <2>1, <3>1 DEF Busy
    <3>4. ~crossed' => \A g \in Flows : at'[g] \in {"creating", "handling", "booting", "stopping"} => g = f
      BY <3>3 DEF Busy
    <3>5. ~crossed' => \A n \in Nodes : life'[n] = "up" => n = node' \/ n \in refused'
      BY <2>1 DEF IInv, Exclusive
    <3>6. ~crossed' => /\ life'[node'] = "up" => status' = "running"
                       /\ status' \notin {"idle", "stopped"}
      BY <2>1, <2>3 DEF IInv, Settled
    <3>7. QED
      BY <3>1, <3>2, <3>3, <3>4, <3>5, <3>6 DEF Exclusive
  <2>4. QED
    BY <2>2, <2>3
<1>5. Settled'
  BY DEF IInv, TypeOK, Exclusive, Settled, Busy, Lives, Waits, Idle, Statuses, RunningHasNode
<1> QED
  BY <1>1, <1>2, <1>3, <1>4, <1>5 DEF IInv

\* The node goes down before it is forgotten.
LEMMA StoppedInv ==
    ASSUME IInv, NEW f \in Flows, Stopped(f)
    PROVE  IInv'
<1> USE SessionAssumption DEF Stopped, GoesDown, Return, Wait
<1>1. TypeOK'
  BY DEF IInv, TypeOK, Statuses, Lives, Waits, Idle
<1>2. RunningHasNode'
  BY DEF IInv, TypeOK, RunningHasNode
<1>3. StartingIsPending'
  BY DEF IInv, TypeOK, StartingIsPending, Idle
<1>4. Exclusive'
  BY DEF IInv, TypeOK, Exclusive, Busy, Lives, Waits, Idle
<1>5. Settled'
  BY DEF IInv, TypeOK, Exclusive, Settled, Busy, Lives, Waits, Idle, Statuses, RunningHasNode
<1> QED
  BY <1>1, <1>2, <1>3, <1>4, <1>5 DEF IInv

\* A stop that is rejected leaves the node to itself.
LEMMA StopFailsInv ==
    ASSUME IInv, NEW f \in Flows, StopFails(f)
    PROVE  IInv'
<1> USE SessionAssumption DEF StopFails, GoesDown, Return, Wait
<1>1. TypeOK'
  BY DEF IInv, TypeOK, Statuses, Lives, Waits, Idle
<1>2. RunningHasNode'
  BY DEF IInv, TypeOK, RunningHasNode
<1>3. StartingIsPending'
  BY DEF IInv, TypeOK, StartingIsPending, Idle
<1>4. Exclusive'
  BY DEF IInv, TypeOK, Exclusive, Busy, Lives, Waits, Idle
<1>5. Settled'
  BY DEF IInv, TypeOK, Exclusive, Settled, Busy, Lives, Waits, Idle, Statuses, RunningHasNode
<1> QED
  BY <1>1, <1>2, <1>3, <1>4, <1>5 DEF IInv

\* The probe has no part in the invariant.
LEMMA TickInv ==
    ASSUME IInv, Tick
    PROVE  IInv'
<1>1. /\ probe' = FALSE /\ status' = status /\ node' = node /\ life' = life /\ at' = at /\ on' = on
      /\ timers' = timers /\ stray' = stray /\ attached' = attached /\ crossed' = crossed
      /\ refused' = refused
  BY DEF Tick
<1>2. Busy' = Busy
  BY <1>1 DEF Busy
<1>3. TypeOK'
  BY <1>1 DEF IInv, TypeOK
<1>4. RunningHasNode'
  BY <1>1 DEF IInv, RunningHasNode
<1>5. StartingIsPending'
  BY <1>1 DEF IInv, StartingIsPending
<1>6. Exclusive'
  BY <1>1, <1>2 DEF IInv, Exclusive
<1>7. Settled'
  BY <1>1, <1>2 DEF IInv, Settled
<1> QED
  BY <1>3, <1>4, <1>5, <1>6, <1>7 DEF IInv

\* Every step of start, of stop and of the probe keeps the invariant.
LEMMA NextInv == IInv /\ [Next]_vars => IInv'
<1> SUFFICES ASSUME IInv, [Next]_vars
             PROVE  IInv'
  OBVIOUS
<1>1. CASE UNCHANGED vars
  BY <1>1 DEF vars, IInv, TypeOK, RunningHasNode, StartingIsPending, Exclusive, Settled, Busy
<1>2. ASSUME NEW f \in Flows, Start(f) PROVE IInv'
  BY <1>2, StartInv
<1>3. ASSUME NEW f \in Flows, NEW n \in Nodes, Created(f, n) PROVE IInv'
  BY <1>3, CreatedInv
<1>4. ASSUME NEW f \in Flows, CreateFails(f) \/ HandleFails(f) \/ BootFails(f) \/ DialThrows(f) PROVE IInv'
  BY <1>4, CreateFailsInv, HandleFailsInv, BootFailsInv, DialThrowsInv
<1>5. ASSUME NEW f \in Flows, Handled(f) \/ Booted(f) \/ Dialed(f) PROVE IInv'
  BY <1>5, HandledInv, BootedInv, DialedInv
<1>6. ASSUME NEW f \in Flows, Stop(f) \/ Discard(f) PROVE IInv'
  <2>1. StopSession(f) /\ attached' \in BOOLEAN
    BY <1>6 DEF Stop, Discard, IInv, TypeOK
  <2>2. QED
    BY <2>1, StopSessionInv
<1>7. ASSUME NEW f \in Flows, Stopped(f) \/ StopFails(f) PROVE IInv'
  BY <1>7, StoppedInv, StopFailsInv
<1>8. CASE Tick
  BY <1>8, TickInv
<1>9. QED
  BY <1>1, <1>2, <1>3, <1>4, <1>5, <1>6, <1>7, <1>8 DEF Next

\* The invariant holds in every state of a session, whatever is called when.
THEOREM SessionInvariant == Spec => []IInv
BY InitInv, NextInv, PTL DEF Spec

-----------------------------------------------------------------------------

\* Every variable of a session keeps its type.
THEOREM SessionTypeOK == Spec => []TypeOK
<1>1. IInv => TypeOK
  BY DEF IInv
<1> QED
  BY <1>1, SessionInvariant, PTL

\* However starts and stops cross, a running session has a node.
THEOREM SessionRunningHasNode == Spec => []RunningHasNode
<1>1. IInv => RunningHasNode
  BY DEF IInv
<1> QED
  BY <1>1, SessionInvariant, PTL

\* However starts and stops cross, a starting session is on its way: the status
\* that makes start and recoverConnectivity return at once does not stay.
THEOREM SessionStartingIsPending == Spec => []StartingIsPending
<1>1. IInv => StartingIsPending
  BY DEF IInv
<1> QED
  BY <1>1, SessionInvariant, PTL

\* However starts and stops cross, the session is not stuck in what it shows.
THEOREM SessionSound == Spec => []SessionIsSound
BY SessionTypeOK, SessionRunningHasNode, SessionStartingIsPending, PTL DEF SessionIsSound

\* While calls do not cross, only the session's own node runs, and those whose
\* stop was rejected.
THEOREM SessionNoOrphan == Spec => []NoOrphan
<1>1. IInv => NoOrphan
  BY DEF IInv, Exclusive, NoOrphan
<1> QED
  BY <1>1, SessionInvariant, PTL

\* While calls do not cross, the status of a session at rest tells the truth
\* about its node and its timers, but for a node whose stop was rejected.
THEOREM SessionRestIsConsistent == Spec => []RestIsConsistent
<1>1. ASSUME IInv, Pending = {} PROVE Busy = {} /\ \A f \in Flows : at[f] # "dialing"
  BY <1>1 DEF Pending, Busy, Idle
<1>2. IInv => RestIsConsistent
  BY <1>1 DEF IInv, Settled, RestIsConsistent
<1> QED
  BY <1>2, SessionInvariant, PTL
=============================================================================
