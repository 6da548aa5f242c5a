------------------------------- MODULE Outbox -------------------------------
(***************************************************************************)
(* What a session promises whoever sends a chat message: from the moment   *)
(* it is handed over the message stays open, and the first outcome that    *)
(* closes it is final: it is sent, has failed, or its peer cannot take it. *)
(* So no message is dropped without an outcome, and none goes out after it *)
(* had one.  Only two things qualify this: a user who sends a message      *)
(* again, and a reload that cut a pass over the queue short.               *)
(* There is no queue here, no retry and no copy in localStorage: that the  *)
(* session, with any number of calls that take entries out of its queue    *)
(* and put them back, looks like this from outside is the refinement       *)
(* OutboundQueue!ImplementsOutbox.                                         *)
(***************************************************************************)
EXTENDS Naturals

CONSTANT Messages  \* messageIds

VARIABLES
    fate,     \* what became of each message so far
    open,     \* the messages that the session may still send
    repeats,  \* how many sends repeated an earlier one
    cut       \* the messages of which some reload lost track

vars == <<fate, open, repeats, cut>>

Settled == {"sent", "failed", "unsupported"}
Fates == {"new", "sending", "queued"} \cup Settled

Init ==
    /\ fate = [m \in Messages |-> "new"]
    /\ open = {} /\ repeats = 0 /\ cut = {}

\* A message is handed over.
Hand(m) ==
    /\ fate[m] = "new"
    /\ fate' = [fate EXCEPT ![m] = "sending"]
    /\ open' = open \cup {m}
    /\ UNCHANGED <<repeats, cut>>

\* The user sends a message again that is not known to have gone out.
Repeat(m) ==
    /\ fate[m] \notin {"new", "sent"}
    /\ open' = open \cup {m}
    /\ repeats' = repeats + 1
    /\ UNCHANGED <<fate, cut>>

\* Only an open message gets an outcome or is queued, and one that has gone out
\* stays sent.
Resolved(m) == m \in open /\ fate[m] # "sent" /\ fate'[m] \in Settled \cup {"queued"}

\* The session works on what is open.  It closes nothing without an outcome, and
\* what has one is closed.
Work ==
    /\ open' \subseteq open
    /\ fate' \in [Messages -> Fates]
    /\ \A m \in Messages : fate'[m] = fate[m] \/ Resolved(m)
    /\ \A m \in open \ open' : fate'[m] \in Settled
    /\ repeats = 0 => \A m \in open' \ cut : fate'[m] \notin Settled
    /\ UNCHANGED <<repeats, cut>>

\* A reload.  It decides on no outcome, it may close or reopen only the messages
\* it lost track of, and it opens none that was never handed over.
Forget ==
    /\ \A m \in open' : fate[m] # "new"
    /\ cut \subseteq cut' /\ cut' \ cut \subseteq open \cup open'
    /\ open \ cut' = open' \ cut'
    /\ UNCHANGED <<fate, repeats>>

Next == (\E m \in Messages : Hand(m) \/ Repeat(m)) \/ Work \/ Forget

Spec == Init /\ [][Next]_vars
=============================================================================
