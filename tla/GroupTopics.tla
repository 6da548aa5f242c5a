---------------------------- MODULE GroupTopics ----------------------------
(***************************************************************************)
(* The gossipsub topics of group conversations: joinGroupTopic,            *)
(* leaveGroupTopic and publishGroupMessage of                              *)
(* packages/network/src/session.ts, and the effect of apps/web/src/App.tsx *)
(* that joins the topic of the open group and leaves it again.             *)
(*                                                                         *)
(* Gossipsub, which is external, subscribes in the call itself; only the   *)
(* bookkeeping in activeGroupTopics waits for the await behind it, and     *)
(* nothing else runs in between but what the same task still does.  React  *)
(* runs the effect's cleanup and its body in one task, so a step is both.  *)
(***************************************************************************)
EXTENDS FiniteSets

CONSTANT Topics

VARIABLES
    node,    \* "off", "up", or "stopping": node.stop() is awaited, or was rejected
    open,    \* the topic of the open group, as a set of at most one
    sub,     \* what gossipsub is subscribed to
    active,  \* activeGroupTopics
    late,    \* topics that became active while the node was stopping
    missed   \* the open group was changed, not just opened, since it was opened

vars == <<node, open, sub, active, late, missed>>

AtMostOne == {{}} \cup {{t} : t \in Topics}

Init ==
    /\ node = "off"
    /\ open = {} /\ sub = {} /\ active = {} /\ late = {}
    /\ missed = FALSE

-----------------------------------------------------------------------------
\* The effect.

\* The cleanup leaves the open topic if it is active and the body joins the next
\* one if it is not.  Leaving takes a topic out of activeGroupTopics after its
\* await, so the body still finds it there.
Rerun(next) ==
    LET left == open \cap active
        joined == next \ active
    IN  /\ sub' = (sub \ left) \cup joined
        /\ active' = (active \ left) \cup joined

\* While the node stops, gossipsub may be down already, and then both throw
\* before they touch activeGroupTopics.
Select(next) ==
    /\ open' = next
    /\ CASE node = "off" -> UNCHANGED <<sub, active>>
         [] node = "up" -> Rerun(next)
         [] OTHER -> Rerun(next) \/ UNCHANGED <<sub, active>>
    /\ late' = (IF node = "stopping" THEN late \cup (active' \ active) ELSE late) \cap active'
    /\ UNCHANGED node

\* The user opens another conversation, a group or not.
Open(next) ==
    /\ next # open
    /\ Select(next)
    /\ missed' = FALSE

\* A message, a name or a read mark makes a new object of the open group.
Change ==
    /\ open # {}
    /\ Select(open)
    /\ missed' = (missed \/ node # "off")

\* publishGroupMessage, for the group that was open when the message was
\* composed: a topic that is not active is subscribed to first.
Publish(t) ==
    /\ node # "off"
    /\ \/ /\ sub' = IF t \in active THEN sub ELSE sub \cup {t}
          /\ active' = active \cup {t}
          /\ late' = IF node = "stopping" /\ t \notin active THEN late \cup {t} ELSE late
       \/ node = "stopping" /\ UNCHANGED <<sub, active, late>>
    /\ UNCHANGED <<node, open, missed>>

-----------------------------------------------------------------------------
\* The session.

\* The session is running, and the effect joins the open group.
Start ==
    /\ node = "off"
    /\ node' = "up"
    /\ sub' = open \ active
    /\ active' = active \cup open
    /\ missed' = FALSE
    /\ UNCHANGED <<open, late>>

\* Mutant of Stop: the set survives the stop.
StopKeepsTopics ==
    /\ node # "off"
    /\ node' = "stopping"
    /\ UNCHANGED <<open, sub, active, late, missed>>

\* The set is cleared before node.stop() is awaited.  If that is rejected, the
\* session stays as it is here until it is stopped again.
Stop ==
    /\ node # "off"
    /\ node' = "stopping"
    /\ active' = {}
    /\ late' = {}
    /\ UNCHANGED <<open, sub, missed>>

\* The node is gone, and the cleanup of the effect finds no gossipsub.
Stopped ==
    /\ node = "stopping"
    /\ node' = "off"
    /\ sub' = {}
    /\ active' = active \ open
    /\ late' = late \cap active'
    /\ UNCHANGED <<open, missed>>

Next ==
    \/ \E next \in AtMostOne : Open(next)
    \/ Change
    \/ \E t \in Topics : Publish(t)
    \/ Start \/ Stop \/ Stopped

Spec == Init /\ [][Next]_vars

-----------------------------------------------------------------------------

\* Only topics that are active are late, all of them unless the node is up, and
\* a stopped node hears nothing.
TypeOK ==
    /\ node \in {"off", "up", "stopping"}
    /\ open \in AtMostOne
    /\ late \subseteq active /\ active \in SUBSET Topics
    /\ sub \in SUBSET Topics
    /\ node = "off" => sub = {}
    /\ node # "up" => active = late
    /\ missed \in BOOLEAN

\* joinGroupTopic trusts activeGroupTopics across restarts of the node: while
\* it is up, that is what gossipsub is subscribed to, except for topics a
\* message was published to while the last node was stopping.  And the open
\* group is heard, unless it changed since it was opened: then the effect's
\* cleanup and body cross, and the body takes a topic for joined that is being
\* left.
OpenGroupIsHeard ==
    node = "up" =>
        /\ sub \subseteq active
        /\ active \ sub \subseteq late
        /\ open \subseteq sub \/ missed \/ open \subseteq late

\* Both together hold in every state because they held in the one before.
IInv == TypeOK /\ OpenGroupIsHeard
=============================================================================
