----------------------------- MODULE EnsHandles -----------------------------
(***************************************************************************)
(* ENS names that stand for peer ids: the lookups of                       *)
(* apps/web/src/ens/ensHandles.ts with their cache, the publication of     *)
(* one's own peer id (ens/ensPublish.ts, from components/EnsHandlePanel),  *)
(* and the page /u/<name>, which looks a name up and goes on to the chat   *)
(* (an effect of App.tsx).                                                 *)
(*                                                                         *)
(* The chain, which is external, holds one text record per name: records   *)
(* are numbered as they are written, 0 is none.  A request reads the chain *)
(* at some moment and its answer arrives later, or never.  A step is what  *)
(* runs between two awaits; entries expire by choice.                      *)
(***************************************************************************)
EXTENDS Naturals, FiniteSets

CONSTANTS
    Names,
    MaxRecord  \* bound on the records written to a name

VARIABLES
    chain,     \* the record of each name
    cache,     \* memoryCache: what was found, or Missing
    stored,    \* its copy in localStorage
    hydrated,  \* that copy was read since the page was loaded
    inflight,  \* where the shared request for each name stands
    publish,   \* where the publication stands
    floor,     \* the record of each name when its entry was last dropped
    crossed,   \* names whose record was read before that and arrived after
    token,     \* the name in the address bar, as a set of at most one
    resolving, \* handleResolvingRef, likewise
    visits,    \* each name's visit: "none", "heeded" or "disposed"
    shown,     \* handleResolution: "idle", "resolving", "error" or "failed"
    returned   \* it came back to a name whose disposed visit was still pending

lookups == <<cache, stored, hydrated, inflight, floor, crossed>>
page == <<token, resolving, visits, shown, returned>>
vars == <<chain, lookups, publish, page>>

Records == 0..MaxRecord
Missing == [none |-> TRUE]
Found(r) == [rec |-> r]
Entries == {Missing} \cup {Found(r) : r \in Records}
None == [at |-> "none"]
AtMostOne == {{}} \cup {{n} : n \in Names}

Init ==
    /\ chain = [n \in Names |-> 0]
    /\ cache = [n \in Names |-> Missing] /\ stored = cache /\ hydrated = FALSE
    /\ inflight = [n \in Names |-> None]
    /\ publish = None
    /\ floor = [n \in Names |-> 0] /\ crossed = {}
    /\ token = {} /\ resolving = {} /\ visits = [n \in Names |-> "none"]
    /\ shown = "idle" /\ returned = FALSE

-----------------------------------------------------------------------------
\* The cache.

\* readCache: the first call after a load reads localStorage.
Hydrated == IF hydrated THEN cache ELSE [n \in Names |-> IF stored[n] # Missing THEN stored[n] ELSE cache[n]]

\* An entry that is found answers at once; otherwise the request under way is
\* shared, or one is made.
Ask(n) ==
    /\ cache' = Hydrated /\ hydrated' = TRUE
    /\ inflight' = IF Hydrated[n] = Missing /\ inflight[n] = None
                   THEN [inflight EXCEPT ![n] = [at |-> "asked"]]
                   ELSE inflight
    /\ UNCHANGED <<stored, floor, crossed>>

\* A name is looked up for a new chat.
Lookup(n) == Ask(n) /\ UNCHANGED <<chain, publish, page>>

Read(n) ==
    /\ inflight[n].at = "asked"
    /\ inflight' = [inflight EXCEPT ![n] = [at |-> "read", rec |-> chain[n]]]
    /\ UNCHANGED <<chain, cache, stored, hydrated, floor, crossed, publish, page>>

Expire(n) ==
    /\ \/ cache' = [cache EXCEPT ![n] = Missing] /\ UNCHANGED stored
       \/ stored' = [stored EXCEPT ![n] = Missing] /\ UNCHANGED cache
    /\ UNCHANGED <<chain, hydrated, inflight, floor, crossed, publish, page>>

-----------------------------------------------------------------------------
\* The page /u/<name>.

\* The visit of n is answered: if it is still heeded, the page goes on to the
\* chat (and is idle), or says why not.
Leave(n, outcome) ==
    /\ visits' = [visits EXCEPT ![n] = "none"]
    /\ resolving' = resolving \ {n}
    /\ UNCHANGED returned
    /\ IF visits[n] = "heeded"
       THEN token' = (IF outcome = "idle" THEN {} ELSE token) /\ shown' = outcome
       ELSE UNCHANGED <<token, shown>>

Outcome(r) == IF r = 0 THEN "error" ELSE "idle"

Disposed == [n \in Names |-> IF visits[n] = "none" THEN "none" ELSE "disposed"]

\* The effect looks n up; what the cache holds answers at once.
Enter(n) ==
    /\ Ask(n)
    /\ returned' = FALSE
    /\ IF Hydrated[n] = Missing
       THEN /\ token' = {n} /\ resolving' = {n} /\ shown' = "resolving"
            /\ visits' = [Disposed EXCEPT ![n] = "heeded"]
       ELSE /\ shown' = Outcome(Hydrated[n].rec)
            /\ token' = IF shown' = "idle" THEN {} ELSE {n}
            /\ resolving' = {}
            /\ visits' = Disposed

\* The address changes: the visit there was is disposed of.  For a name it takes
\* for being resolved the effect does nothing.
Visit(next) ==
    /\ next # token
    /\ IF next = {} \/ next = resolving
       THEN /\ token' = next /\ visits' = Disposed
            /\ shown' = IF next = {} THEN "idle" ELSE shown
            /\ returned' = (\E n \in next : visits[n] # "none")
            /\ UNCHANGED <<lookups, resolving>>
       ELSE \E n \in next : Enter(n)
    /\ UNCHANGED <<chain, publish>>

\* "Try again", offered after a failure.
Retry ==
    /\ shown = "failed"
    /\ \E n \in token : Enter(n)
    /\ UNCHANGED <<chain, publish>>

\* The request for n is answered, the answer kept, and the visit goes on.
Answered(n) ==
    /\ inflight[n].at = "read"
    /\ inflight' = [inflight EXCEPT ![n] = None]
    /\ LET r == inflight[n].rec
       IN  /\ cache' = [cache EXCEPT ![n] = Found(r)]
           /\ stored' = cache'
           /\ crossed' = IF r < floor[n] THEN crossed \cup {n} ELSE crossed \ {n}
           /\ Leave(n, Outcome(r))
    /\ UNCHANGED <<chain, hydrated, floor, publish>>

\* A failure is not kept.
Fails(n) ==
    /\ inflight[n] # None
    /\ inflight' = [inflight EXCEPT ![n] = None]
    /\ Leave(n, "failed")
    /\ UNCHANGED <<chain, cache, stored, hydrated, floor, crossed, publish>>

-----------------------------------------------------------------------------
\* Publication.

\* The wallet is connected, on the right chain, and may write (simulated); there
\* is nothing to sign if the record is published already.
Publish(n) ==
    /\ publish = None
    /\ publish' \in [at : {"signing", "mined"}, name : {n}]
    /\ UNCHANGED <<chain, lookups, page>>

\* The signature is refused, or the transaction fails.
PublishFails ==
    /\ publish # None
    /\ publish' = None
    /\ UNCHANGED <<chain, lookups, page>>

\* A transaction is mined: this one, or one sent from elsewhere.
Write(n) ==
    /\ chain[n] < MaxRecord
    /\ chain' = [chain EXCEPT ![n] = @ + 1]
    /\ IF publish = [at |-> "signing", name |-> n]
       THEN publish' \in {publish, [publish EXCEPT !.at = "mined"]}
       ELSE UNCHANGED publish
    /\ UNCHANGED <<lookups, page>>

\* Mutant of Dropped: the name is not the one the entry is filed under.
DroppedNothing(n) == cache

\* invalidateEnsHandle: the entry goes, from memory and from localStorage.
Dropped(n) == [cache EXCEPT ![n] = Missing]

\* The receipt has arrived.
Published ==
    /\ publish.at = "mined"
    /\ LET n == publish.name
       IN  /\ cache' = Dropped(n) /\ stored' = Dropped(n)
           /\ floor' = [floor EXCEPT ![n] = chain[n]]
           /\ crossed' = crossed \ {n}
    /\ publish' = None
    /\ UNCHANGED <<chain, hydrated, inflight, page>>

-----------------------------------------------------------------------------

\* The page is loaded anew.
Reload ==
    /\ cache' = [n \in Names |-> Missing] /\ hydrated' = FALSE
    /\ inflight' = [n \in Names |-> None] /\ publish' = None
    /\ token' = {} /\ resolving' = {} /\ visits' = [n \in Names |-> "none"]
    /\ shown' = "idle" /\ returned' = FALSE
    /\ UNCHANGED <<chain, stored, floor, crossed>>

Next ==
    \/ \E n \in Names :
          \/ Lookup(n) \/ Read(n) \/ Answered(n) \/ Fails(n) \/ Expire(n)
          \/ Publish(n) \/ Write(n)
    \/ \E next \in AtMostOne : Visit(next)
    \/ Retry \/ PublishFails \/ Published \/ Reload

Spec == Init /\ [][Next]_vars

-----------------------------------------------------------------------------

Requests == {None} \cup [at : {"asked"}] \cup [at : {"read"}, rec : Records]

\* Before localStorage is read nothing is in memory, and at most the name in the
\* address bar has a visit that is heeded.
TypeOK ==
    /\ chain \in [Names -> Records] /\ floor \in [Names -> Records]
    /\ cache \in [Names -> Entries] /\ stored \in [Names -> Entries]
    /\ inflight \in [Names -> Requests] /\ publish \in {None} \cup [at : {"signing", "mined"}, name : Names]
    /\ crossed \in SUBSET Names /\ {hydrated, returned} \subseteq BOOLEAN
    /\ \A n \in Names : inflight[n] # None => hydrated
    /\ ~hydrated => \A n \in Names : cache[n] = Missing
    /\ {token, resolving} \subseteq AtMostOne /\ visits \in [Names -> {"none", "heeded", "disposed"}]
    /\ \A n \in Names : visits[n] = "heeded" => n \in token \cap resolving /\ inflight[n] # None
    /\ shown \in {"idle", "resolving", "error", "failed"}

\* "Drop a cached entry so a freshly published record is visible immediately":
\* what the cache or its stored copy says of a name is no older than the record
\* when the entry was last dropped, unless an answer read before crossed that.
PublishedIsVisible ==
    \A n \in Names \ crossed : \A r \in Records :
        Found(r) \in {cache[n], stored[n]} => r >= floor[n]

\* The page that says it looks a name up does: it waits for a request that will
\* be heeded, unless it came back to a name while its disposed visit was pending.
VisitIsHeeded ==
    \A n \in token : shown \notin {"error", "failed"} => visits[n] = "heeded" \/ returned

\* What the cache and the page say of a handle is current.
HandleIsCurrent == PublishedIsVisible /\ VisitIsHeeded

\* No record was dropped for one that is not on the chain, and the name that is
\* taken for being resolved is, if only by a visit that was disposed of.
FloorsAndVisits ==
    /\ \A n \in Names : floor[n] <= chain[n]
    /\ \A n \in resolving : visits[n] # "none"

IInv == TypeOK /\ FloorsAndVisits /\ HandleIsCurrent
=============================================================================
