---------------------------- MODULE RelayProcess ----------------------------
(***************************************************************************)
(* The relay as a process: `skypier-relay serve` of                        *)
(* src/relay/cmd/skypier-relay/main.go, which loads its configuration,     *)
(* makes sure it has an identity (internal/config) and then serves, counts *)
(* reservations from libp2p's callbacks (internal/node, internal/metrics)  *)
(* and writes a status file for `skypier-relay status` every 30 seconds.   *)
(*                                                                         *)
(* The process can die between any two steps.  Callbacks run in libp2p's   *)
(* goroutines after its lock is released, so they overlap and overtake     *)
(* each other.  A step is one atomic operation or one system call.         *)
(***************************************************************************)
EXTENDS Integers, FiniteSets

CONSTANTS
    Peers,      \* peers that reserve
    Workers,    \* bound on the callbacks under way
    MaxKeys     \* bound on the keys ever generated

VARIABLES
    file,       \* the identity_key in config.yaml
    status,     \* the status file: "none", "whole" or "torn"
    temp,       \* the temporary file next to it, likewise
    proc,       \* "down", "loaded", "creating", "writing", "ready", "hosting", "serving"
    key,        \* cfg.IdentityKey in memory; 0 is none
    keys,       \* keys generated so far
    served,     \* identities the relay has been reachable under
    held,       \* peers that hold a reservation
    gauge,      \* Metrics.reservations
    calls,      \* calls[w]: AddReservations under way
    writer,     \* PollMetrics: "idle", "writing" the temporary file, "renaming" it
    swallowed   \* a delta was clamped

identity == <<file, key, keys, served>>
snapshot == <<status, temp, writer>>
counting == <<held, gauge, calls, swallowed>>
vars == <<file, status, temp, proc, key, keys, served, held, gauge, calls, writer, swallowed>>

None == [at |-> "none"]
Unset == 0
Broken == -1  \* an identity_key that does not decode, or a file that does not parse

Init ==
    /\ file = Unset
    /\ status = "none" /\ temp = "none" /\ writer = "idle"
    /\ proc = "down"
    /\ key = Unset /\ keys = 0 /\ served = {}
    /\ held = {} /\ gauge = 0 /\ calls = [w \in Workers |-> None]
    /\ swallowed = FALSE

-----------------------------------------------------------------------------
\* Start.

\* Load: a missing file means defaults, one that does not parse ends the process.
Load ==
    /\ proc = "down"
    /\ proc' = IF file = Broken THEN "down" ELSE "loaded"
    /\ key' = IF file = Broken THEN Unset ELSE file
    /\ UNCHANGED <<file, snapshot, keys, served, counting>>

\* EnsureIdentity: without a key one is generated and saved first.
EnsureIdentity ==
    /\ proc = "loaded"
    /\ IF key # Unset
       THEN proc' = "ready" /\ UNCHANGED <<key, keys>>
       ELSE /\ keys < MaxKeys
            /\ keys' = keys + 1 /\ key' = keys + 1
            /\ proc' = "creating"
    /\ UNCHANGED <<file, snapshot, served, counting>>

\* Save: os.WriteFile truncates the file, the operator's settings included, and
\* then writes all of it.  An error of either ends the process.
Truncate ==
    /\ proc = "creating"
    /\ \/ proc' = "writing" /\ file' = Unset
       \/ proc' = "down" /\ UNCHANGED file
    /\ UNCHANGED <<snapshot, key, keys, served, counting>>

Save ==
    /\ proc = "writing"
    /\ \/ proc' = "ready" /\ file' = key
       \/ proc' = "down" /\ file' \in {Unset, Broken, key}
    /\ UNCHANGED <<snapshot, key, keys, served, counting>>

\* node.New: the host comes up under the identity, and the relay service with
\* its tracer on it, or the process ends.
Boot ==
    /\ proc = "ready"
    /\ \/ proc' = "hosting" /\ served' = served \cup {key}
       \/ proc' = "down" /\ UNCHANGED served
    /\ UNCHANGED <<file, snapshot, key, keys, counting>>

\* StartUnreadCheckHTTP and PollMetrics: the metrics are written from here on.
\* The signal that stops the relay, and an error of node.New once the host is
\* up, end the process (Die).
Serve ==
    /\ proc = "hosting"
    /\ proc' = "serving"
    /\ UNCHANGED <<identity, snapshot, counting>>

\* The process ends, by itself or killed: what is in memory is gone, what it
\* was writing is cut anywhere.
Die ==
    /\ proc # "down"
    /\ proc' = "down"
    /\ key' = Unset
    /\ file' \in IF proc = "writing" THEN {Unset, Broken, key} ELSE {file}
    /\ held' = {} /\ gauge' = 0 /\ calls' = [w \in Workers |-> None]
    /\ swallowed' = FALSE /\ writer' = "idle"
    /\ UNCHANGED <<status, temp, keys, served>>

-----------------------------------------------------------------------------
\* Counting.

Free(w) == calls[w] = None
Busy == {w \in Workers : ~Free(w)}
Up == proc \in {"hosting", "serving"}

\* The relay service grants a reservation; renewals are not counted.
Reserve(p, w) ==
    /\ Up /\ p \notin held /\ Free(w)
    /\ held' = held \cup {p}
    /\ calls' = [calls EXCEPT ![w] = [at |-> "load", delta |-> 1]]
    /\ UNCHANGED <<identity, snapshot, proc, gauge, swallowed>>

\* Reservations expire together or are lost with a connection: ReservationClosed(cnt).
Release(ps, w) ==
    /\ Up /\ ps # {} /\ ps \subseteq held /\ Free(w)
    /\ held' = held \ ps
    /\ calls' = [calls EXCEPT ![w] = [at |-> "load", delta |-> -Cardinality(ps)]]
    /\ UNCHANGED <<identity, snapshot, proc, gauge, swallowed>>

\* AddReservations, one round of its loop: load, clamp, compare and swap.
LoadGauge(w) ==
    /\ Up /\ calls[w].at = "load"
    /\ calls' = [calls EXCEPT ![w] = [at |-> "swap", delta |-> @.delta, current |-> gauge]]
    /\ UNCHANGED <<identity, snapshot, proc, held, gauge, swallowed>>

Clamped(n) == IF n < 0 THEN 0 ELSE n

\* Mutant of Swap: the value is stored without comparing.
SwapBlindly(w) ==
    /\ Up /\ calls[w].at = "swap"
    /\ gauge' = Clamped(calls[w].current + calls[w].delta)
    /\ calls' = [calls EXCEPT ![w] = None]
    /\ swallowed' = (swallowed \/ calls[w].current + calls[w].delta < 0)
    /\ UNCHANGED <<identity, snapshot, proc, held>>

Swap(w) ==
    /\ Up /\ calls[w].at = "swap"
    /\ LET next == calls[w].current + calls[w].delta
       IN  IF gauge = calls[w].current
           THEN /\ gauge' = Clamped(next)
                /\ calls' = [calls EXCEPT ![w] = None]
                /\ swallowed' = (swallowed \/ next < 0)
           ELSE /\ calls' = [calls EXCEPT ![w] = [at |-> "load", delta |-> @.delta]]
                /\ UNCHANGED <<gauge, swallowed>>
    /\ UNCHANGED <<identity, snapshot, proc, held>>

-----------------------------------------------------------------------------
\* The status file.

\* Mutant of WriteStatus: the status file itself is written.
WriteStatusInPlace ==
    /\ proc = "serving" /\ writer = "idle"
    /\ status' = "torn"
    /\ writer' = "writing"
    /\ UNCHANGED <<identity, temp, proc, counting>>

\* WriteStatus opens the temporary file, which empties one left there ...
WriteStatus ==
    /\ proc = "serving" /\ writer = "idle"
    /\ temp' = "torn"
    /\ writer' = "writing"
    /\ UNCHANGED <<identity, status, proc, counting>>

\* ... writes the snapshot, of which an error may leave any part ...
Written ==
    /\ writer = "writing"
    /\ \/ writer' = "renaming" /\ temp' = "whole"
       \/ writer' = "idle" /\ UNCHANGED temp
    /\ UNCHANGED <<identity, status, proc, counting>>

\* ... and renames the file, which can fail too.
Rename ==
    /\ writer = "renaming"
    /\ \/ status' = temp /\ temp' = "none"
       \/ UNCHANGED <<status, temp>>
    /\ writer' = "idle"
    /\ UNCHANGED <<identity, proc, counting>>

Next ==
    \/ Load \/ EnsureIdentity \/ Truncate \/ Save \/ Boot \/ Serve \/ Die
    \/ \E w \in Workers :
          \/ \E p \in Peers : Reserve(p, w)
          \/ \E ps \in SUBSET Peers : Release(ps, w)
          \/ LoadGauge(w) \/ Swap(w)
    \/ WriteStatus \/ Written \/ Rename

Spec == Init /\ [][Next]_vars

-----------------------------------------------------------------------------

\* A callback adds one, or takes one or more off.
Deltas == {n \in Int : n = 1 \/ n < 0}
Callback == {None} \cup [at : {"load"}, delta : Deltas]
                   \cup [at : {"swap"}, delta : Deltas, current : Nat]

\* A key is in memory from its generation on; only a relay that is up counts.
TypeOK ==
    /\ file \in {Unset, Broken} \cup 1..keys
    /\ {status, temp} \subseteq {"none", "torn", "whole"}
    /\ writer \in {"idle", "writing", "renaming"}
    /\ proc \in {"down", "loaded", "creating", "writing", "ready", "hosting", "serving"}
    /\ keys \in 0..MaxKeys /\ served \subseteq 1..keys
    /\ key \in 0..keys
    /\ proc \notin {"down", "loaded"} => key # Unset
    /\ gauge \in Nat /\ held \subseteq Peers /\ calls \in [Workers -> Callback]
    /\ swallowed \in BOOLEAN
    /\ ~Up => held = {} /\ gauge = 0 /\ Busy = {} /\ writer = "idle"

\* Clients have the relay's peer id in their bootstrap list: whenever and
\* however often the process dies, also while it saves, it never comes back
\* under another identity once it has served under one.
OneIdentity == Cardinality(served) <= 1 /\ served \subseteq {file} /\ (Up => served = {key})

\* `status` reads a whole snapshot or none, whatever the writer is doing,
\* whichever of its calls fail and wherever it died, also over what an earlier
\* process left in the temporary file.
StatusIsWhole == status # "torn"

\* Concurrent callbacks lose no update.  Once they are through, the gauge is
\* the number of reservations held, unless a release overtook its own grant and
\* was clamped; then it shows too many, never too few.
GaugeIsExact ==
    Busy = {} => IF swallowed THEN gauge > Cardinality(held) ELSE gauge = Cardinality(held)

\* Wherever the process dies, what it left on disk does not mislead: the relay
\* has one identity, and the status no part of a snapshot.  A first save that is
\* cut can leave a configuration that no later process starts with (Load).
FilesSurviveCrashes == OneIdentity /\ StatusIsWhole

\* What was served under is on disk: a new identity is made, and the file without
\* one written, only as long as none was.
IdentityIsKept ==
    /\ served \subseteq {file}
    /\ proc = "loaded" => key = file
    /\ proc \in {"creating", "writing"} => served = {}
    /\ proc \in {"ready", "hosting", "serving"} => file = key
    /\ Up => served = {key}

\* What is renamed is written, whatever was left in the temporary file.
SnapshotIsWritten == StatusIsWhole /\ (writer = "renaming" => temp = "whole")

\* The reservations whose grant or release is not counted yet.
Granting == {w \in Busy : calls[w].delta = 1}
Releasing == UNION {{w} \X (1..-calls[w].delta) : w \in Busy}

\* With them the gauge is exact at any moment, or too high once one was clamped.
GaugeAdvances ==
    /\ IsFiniteSet(Releasing) /\ IsFiniteSet(Granting)
    /\ LET expected == Cardinality(held) + Cardinality(Releasing) - Cardinality(Granting)
       IN  IF swallowed THEN gauge > expected ELSE gauge = expected

IInv == TypeOK /\ IdentityIsKept /\ SnapshotIsWritten /\ GaugeAdvances
=============================================================================
