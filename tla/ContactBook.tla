---------------------------- MODULE ContactBook ----------------------------
(***************************************************************************)
(* The contacts and the ENS name each one is shown under: saveContact,     *)
(* deleteContact and applyRemotePeerProfile of useChatController.ts, the   *)
(* contacts page that edits them, and the two places of App.tsx that save  *)
(* the name a chat was opened through.                                     *)
(*                                                                         *)
(* A contact's id is the peer id it was added with; editing may give it    *)
(* another peer id and keeps the id.  Names, bios and avatars are left     *)
(* out.  Every operation reads and replaces the state in one step.         *)
(***************************************************************************)
CONSTANTS
    Peers,
    Names  \* ENS names

VARIABLES
    contacts, \* the contacts, each with the mark described below
    chats,    \* peers with a conversation
    marker,   \* handlePersistedRef: the name last saved from a link
    echoed    \* which names each peer's own profile has named

vars == <<contacts, chats, marker, echoed>>

NoName == "none"
Labels == Names \cup {NoName}

\* moved: a lookup or an edit gave the contact another name or peer id since
\* its name was last compared with a profile.
Contact(i, p, n, c, m) == [id |-> i, peer |-> p, ens |-> n, confirmed |-> c, moved |-> m]
Contacts == [id : Peers, peer : Peers, ens : Labels, confirmed : BOOLEAN, moved : BOOLEAN]
AtMostOne(S) == {{}} \cup {{x} : x \in S}

Init == contacts = {} /\ chats = {} /\ marker = {} /\ echoed = {}

WithId(i) == {c \in contacts : c.id = i}
Of(p) == {c \in contacts : c.peer = p}

-----------------------------------------------------------------------------
\* saveContact: what the caller does not give is kept, the confirmation too.
Merged(c, p, n) ==
    LET ens == IF n = NoName THEN c.ens ELSE n
    IN  Contact(c.id, p, ens, c.confirmed, c.moved \/ <<p, ens>> # <<c.peer, c.ens>>)

Save(i, p, n) ==
    \/ /\ WithId(i) = {}
       /\ contacts' = contacts \cup {Contact(i, p, n, FALSE, FALSE)}
    \/ \E c \in WithId(i) : contacts' = (contacts \ WithId(i)) \cup {Merged(c, p, n)}

\* The contacts page: a contact is added or edited; what is typed may be an
\* ENS name, which was looked up before.
Edit(i, p, n) ==
    /\ WithId(i) # {} \/ i = p
    /\ Save(i, p, n) /\ UNCHANGED <<chats, marker, echoed>>

\* deleteContact
Delete(i) ==
    /\ WithId(i) # {} /\ contacts' = contacts \ WithId(i)
    /\ UNCHANGED <<chats, marker, echoed>>

\* handleCreateChat with a name that stands for p.
StartChat(p, n) ==
    /\ chats' = chats \cup {p}
    /\ IF n = NoName THEN UNCHANGED contacts ELSE Save(p, p, n)
    /\ UNCHANGED <<marker, echoed>>

\* The page /u/<name> went on to p's chat, and an effect saves the name,
\* unless it is the name saved last.
Arrive(p, n) ==
    /\ chats' = chats \cup {p}
    /\ marker' = {<<p, n>>}
    /\ IF <<p, n>> \in marker THEN UNCHANGED contacts ELSE Save(p, p, n)
    /\ UNCHANGED echoed

\* deleteConversation
DeleteChat(p) ==
    /\ p \in chats /\ chats' = chats \ {p}
    /\ UNCHANGED <<contacts, marker, echoed>>

-----------------------------------------------------------------------------
\* A profile that leaves the name alone and confirms it.
UpdatedTrusting(c, n) ==
    IF n = NoName \/ c.ens = NoName THEN c ELSE Contact(c.id, c.peer, c.ens, TRUE, FALSE)

\* A contact whose peer's profile names n: the name is replaced, and it is
\* confirmed if it was the contact's name before.
Updated(c, n) ==
    IF n = NoName THEN c
    ELSE Contact(c.id, c.peer, n, IF c.ens = NoName THEN c.confirmed ELSE c.ens = n, FALSE)

\* applyRemotePeerProfile: an unknown peer becomes a contact.  The contacts
\* are saved if a conversation has the peer, the contact is new, or the first
\* contact with this peer id changed its confirmation.
Profile(p, n) ==
    /\ echoed' = IF n = NoName THEN echoed ELSE echoed \cup {<<p, n>>}
    /\ \/ /\ Of(p) = {}
          /\ contacts' = contacts \cup {Contact(p, p, n, FALSE, FALSE)}
       \/ \E c \in Of(p) :
             contacts' = IF p \in chats \/ Updated(c, n).confirmed # c.confirmed
                         THEN (contacts \ Of(p)) \cup {Updated(d, n) : d \in Of(p)}
                         ELSE contacts
    /\ UNCHANGED <<chats, marker>>

Next ==
    \E p \in Peers :
       \/ Delete(p) \/ DeleteChat(p)
       \/ \E n \in Names : Arrive(p, n)
       \/ \E n \in Labels : StartChat(p, n) \/ Profile(p, n) \/ \E i \in Peers : Edit(i, p, n)

Spec == Init /\ [][Next]_vars

-----------------------------------------------------------------------------
\* The state is well formed.
TypeOK ==
    /\ contacts \in SUBSET Contacts /\ chats \in SUBSET Peers
    /\ marker \in AtMostOne(Peers \X Names) /\ echoed \in SUBSET (Peers \X Names)

Echoed(c) == <<c.peer, c.ens>> \in echoed

\* A contact is shown as confirmed only under a name its peer's own profile
\* has named, whatever profiles, lookups and edits came before, until a lookup
\* or an edit gives the contact another name or peer id
\* (useChatController.ts, applyRemotePeerProfile and saveContact).
LabelIsEchoed == \A c \in contacts : c.confirmed => (c.moved \/ Echoed(c))

\* docs/ens-handles.md: "A resolved handle shows as claimed via ENS,
\* unconfirmed, until the peer's own shared profile echoes the same name back".
ConfirmedIsEchoed == \A c \in contacts : c.confirmed => Echoed(c)

IInv == TypeOK /\ LabelIsEchoed
=============================================================================
