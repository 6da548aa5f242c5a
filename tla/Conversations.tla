--------------------------- MODULE Conversations ---------------------------
(***************************************************************************)
(* The list of chats and the chat that is open: what useChatController.ts  *)
(* does to create, receive, read and delete conversations, and the effects *)
(* of App.tsx that keep the selected one in step with the address bar.     *)
(*                                                                         *)
(* A direct conversation with a peer is known by an id drawn here          *)
(* ("ours") or by the one the peer drew ("theirs"); both sides may draw    *)
(* one for the same chat.  A group has one id.  Messages are left out:     *)
(* ChatState is about them.  A step is what runs between two awaits.       *)
(***************************************************************************)
EXTENDS Naturals

CONSTANTS
    Peers,
    Groups,
    Calls,  \* messages being decrypted at once
    Tasks   \* creations whose save is under way at once

VARIABLES
    state,    \* stateRef: the conversations, and those with unread messages
    selected, \* selectedConversationId, as a set of at most one
    route,    \* what the address bar names: nothing, a peer or a conversation
    creating, \* deepLinkConversationCreatingRef, as a set of at most one peer
    tasks,    \* what each creation does when its save is done
    calls,    \* each message being decrypted, with the state it was read in
    removed,  \* peers whose chat went away since a link last opened it
    crossed   \* a message was filed in a state that had moved on since

vars == <<state, selected, route, creating, tasks, calls, removed, crossed>>

Ids == (Peers \X {"ours", "theirs"}) \cup (Groups \X {"group"})
IsDirect(i) == i[2] # "group"
Home == [at |-> "home"]
PeerPage(p) == [at |-> "peer", peer |-> p]
ChatPage(i) == [at |-> "chat", id |-> i]
Routes == {Home} \cup {PeerPage(p) : p \in Peers} \cup {ChatPage(i) : i \in Ids}
States == {s \in [convs : SUBSET Ids, unread : SUBSET Ids] : s.unread \subseteq s.convs}
None == [kind |-> "none"]
AtMostOne(S) == {{}} \cup {{x} : x \in S}

Init ==
    /\ state = [convs |-> {}, unread |-> {}]
    /\ selected = {}
    /\ route \in {Home} \cup {PeerPage(p) : p \in Peers}
    /\ creating = {}
    /\ tasks = [t \in Tasks |-> None] /\ calls = [c \in Calls |-> None]
    /\ removed = {} /\ crossed = FALSE

\* The direct conversations with a peer in s.
Direct(s, p) == {i \in s.convs : IsDirect(i) /\ i[1] = p}

\* routeConversationId: the conversation the address bar stands for.
Matched ==
    CASE route.at = "home" -> {}
      [] route.at = "chat" -> state.convs \cap {route.id}
      [] route.at = "peer" -> Direct(state, route.peer)

-----------------------------------------------------------------------------
\* The selected conversation.

\* A newly selected conversation is read: the effect that calls
\* markConversationRead runs when the selection changes.
Select(x, s) ==
    /\ selected' = x
    /\ state' = IF x = selected THEN s ELSE [s EXCEPT !.unread = @ \ x]

\* The effect that makes the selection follow the address bar.
FollowRoute ==
    /\ selected # Matched
    /\ Select(Matched, state)
    /\ UNCHANGED <<route, creating, tasks, calls, removed, crossed>>

\* The user follows a link, goes back, or leaves the chats.
Visit(r) ==
    /\ r # route /\ route' = r
    /\ UNCHANGED <<state, selected, creating, tasks, calls, removed, crossed>>

\* A conversation is chosen in the list.
Click(i) ==
    /\ i \in state.convs
    /\ Select({i}, state) /\ route' = ChatPage(i)
    /\ UNCHANGED <<creating, tasks, calls, removed, crossed>>

\* deleteConversation
Delete(i) ==
    /\ i \in state.convs
    /\ state' = [convs |-> state.convs \ {i}, unread |-> state.unread \ {i}]
    /\ selected' = selected \ {i}
    /\ removed' = IF IsDirect(i) THEN removed \cup {i[1]} ELSE removed
    /\ UNCHANGED <<route, creating, tasks, calls, crossed>>

-----------------------------------------------------------------------------
\* Creation.

\* createConversationWithPeers: the state has the conversation at once, the
\* rest waits for the save.
Add(t, i, next) ==
    /\ tasks[t] = None
    /\ state' = [state EXCEPT !.convs = @ \cup {i}]
    /\ tasks' = [tasks EXCEPT ![t] = [kind |-> "saving", conv |-> i, next |-> next]]

\* handleCreateChat, or a contact's chat button.  A chat that exists is opened.
Start(t, p) ==
    /\ IF Direct(state, p) # {}
       THEN /\ \E i \in Direct(state, p) : Select({i}, state)
            /\ route' = PeerPage(p) /\ UNCHANGED tasks
       ELSE Add(t, <<p, "ours">>, PeerPage(p)) /\ UNCHANGED <<selected, route>>
    /\ UNCHANGED <<creating, calls, removed, crossed>>

StartGroup(t, g) ==
    /\ <<g, "group">> \notin state.convs  \* a new group has a new id
    /\ Add(t, <<g, "group">>, ChatPage(<<g, "group">>))
    /\ UNCHANGED <<selected, route, creating, calls, removed, crossed>>

\* The deep-link effect: the address bar names a peer there is no chat with.
\* The new chat changes what the effect depends on, so it is disposed before
\* the save is done and leaves creating as it is.
OpenLinked(t) ==
    /\ route.at = "peer" /\ Matched = {} /\ route.peer \notin creating
    /\ creating' = {route.peer}
    /\ Add(t, <<route.peer, "ours">>, Home)
    /\ removed' = removed \ {route.peer}
    /\ UNCHANGED <<selected, route, calls, crossed>>

\* The save is done: the conversation is selected, and shown if a button
\* asked for it.
Created(t) ==
    /\ tasks[t] # None /\ tasks' = [tasks EXCEPT ![t] = None]
    /\ Select({tasks[t].conv}, state)
    /\ route' = IF tasks[t].next = Home THEN route ELSE tasks[t].next
    /\ UNCHANGED <<creating, calls, removed, crossed>>

\* A failed save that takes the conversation back.
CreateRollsBack(t) ==
    /\ tasks[t] # None /\ tasks' = [tasks EXCEPT ![t] = None]
    /\ state' = [state EXCEPT !.convs = @ \ {tasks[t].conv}, !.unread = @ \ {tasks[t].conv}]
    /\ UNCHANGED <<selected, route, creating, calls, removed, crossed>>

\* The save fails: the state keeps the conversation, nothing else follows.
CreateFails(t) ==
    /\ tasks[t] # None /\ tasks' = [tasks EXCEPT ![t] = None]
    /\ UNCHANGED <<state, selected, route, creating, calls, removed, crossed>>

-----------------------------------------------------------------------------
\* Incoming messages.

\* Looked up by the id alone.
FoundById(s, i) == s.convs \cap {i}

\* The conversation a message with this id is filed in: the one with the id,
\* else the direct chat with its sender, else a new one.
Found(s, i) ==
    CASE i \in s.convs -> {i}
      [] i \notin s.convs /\ IsDirect(i) -> Direct(s, i[1])
      [] OTHER -> {}

\* A message filed with the selection compared to the sender's id.
FiledBySender(s, i) ==
    LET conv == IF Found(s, i) = {} THEN i ELSE CHOOSE j \in Found(s, i) : TRUE
    IN  [convs  |-> s.convs \cup {conv},
         unread |-> IF i \in selected THEN s.unread ELSE s.unread \cup {conv}]

\* s with a message for i: unread unless its conversation is selected.
Filed(s, i) ==
    LET conv == IF Found(s, i) = {} THEN i ELSE CHOOSE j \in Found(s, i) : TRUE
    IN  [convs  |-> s.convs \cup {conv},
         unread |-> IF conv \in selected THEN s.unread ELSE s.unread \cup {conv}]

\* A message that is not encrypted is filed at once.
Receive(i) ==
    /\ state' = Filed(state, i)
    /\ UNCHANGED <<selected, route, creating, tasks, calls, removed, crossed>>

Decrypt(c, i) ==
    /\ calls[c] = None
    /\ calls' = [calls EXCEPT ![c] = [kind |-> "decrypting", id |-> i, snap |-> state]]
    /\ UNCHANGED <<state, selected, route, creating, tasks, removed, crossed>>

\* The message is filed in the state read before it was decrypted.
Decrypted(c) ==
    LET call == calls[c]
        next == Filed(call.snap, call.id)
    IN  /\ call # None
        /\ calls' = [calls EXCEPT ![c] = None]
        /\ state' = next
        /\ removed' = removed \cup {p \in Peers : Direct(state, p) # {} /\ Direct(next, p) = {}}
        /\ crossed' = (crossed \/ call.snap # state)
        /\ UNCHANGED <<selected, route, creating, tasks>>

Next ==
    \/ FollowRoute
    \/ \E r \in Routes : Visit(r)
    \/ \E i \in Ids : Click(i) \/ Delete(i) \/ Receive(i)
    \/ \E t \in Tasks :
          \/ \E p \in Peers : Start(t, p)
          \/ \E g \in Groups : StartGroup(t, g)
          \/ OpenLinked(t) \/ Created(t) \/ CreateFails(t)
    \/ \E c \in Calls : Decrypted(c) \/ \E i \in Ids : Decrypt(c, i)

Spec == Init /\ [][Next]_vars

-----------------------------------------------------------------------------
\* The state is well formed.
TypeOK ==
    /\ state \in States
    /\ selected \in AtMostOne(Ids) /\ route \in Routes
    /\ creating \in AtMostOne(Peers)
    /\ tasks \in [Tasks -> {None} \cup [kind : {"saving"}, conv : Ids, next : Routes]]
    /\ calls \in [Calls -> {None} \cup [kind : {"decrypting"}, id : Ids, snap : States]]
    /\ removed \in SUBSET Peers /\ crossed \in BOOLEAN

OneDirectIn(s) == \A p \in Peers : \A i, j \in Direct(s, p) : i = j

\* There is one direct chat with a peer, whichever side began it, however
\* creations and messages under either id overlap, and even when a message
\* brings an old state back (useChatController.ts, createConversationWithPeers
\* and ingestIncomingEnvelope).
OneDirect == OneDirectIn(state)

\* The open chat has nothing unread, under whichever id its messages come and
\* however the address bar, the list and a creation change what is open;
\* until a message is filed in a state that is no longer current (App.tsx, the
\* effects on selectedConversationId; ingestIncomingEnvelope).
OpenChatIsRead == crossed \/ selected \cap state.unread = {}

\* A link to a peer opens a chat with it: the page never waits for a creation
\* that is over, unless the chat it made is gone again (App.tsx, the deep-link
\* effect, whose mark outlives the creation).
LinkOpensChat ==
    (route.at = "peer" /\ route.peer \in creating /\ Matched = {}) => route.peer \in removed

-----------------------------------------------------------------------------
\* What holds in every state and makes these properties hold in the next.

\* A state that a message may bring back has one chat with each peer too.
SnapsOneDirect == \A c \in Calls : calls[c] # None => OneDirectIn(calls[c].snap)

\* A peer marked as being opened has a chat, or has lost it since.
MarkedHasChat == \A p \in creating : Direct(state, p) # {} \/ p \in removed

IInv == TypeOK /\ OneDirect /\ SnapsOneDirect /\ OpenChatIsRead /\ MarkedHasChat
=============================================================================
