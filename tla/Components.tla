---------------------------- MODULE Components ----------------------------
(***************************************************************************)
(* The chat state, and the components that are small and share no state    *)
(* with it or with each other, side by side: part says which of them a     *)
(* behaviour is of.  The chat state is extended, the others are instances; *)
(* what is of a component that the behaviour is not of stays 0.            *)
(***************************************************************************)
EXTENDS ChatState, FiniteSets

\* The constants of each module, in its order.
CONSTANTS
    Remotes, Relays, Limit, PoolConns, Trims,        \* ConnectionPool
    DialConns, Sends, Upgrades, MaxRequests,         \* PeerDialing
    TopicNames,                                      \* GroupTopics
    MaxChunks, MaxPending, MaxQueued, MaxPresses,    \* AudioStream
    MaxFlows,                                        \* CallEarcons
    Starts, MaxStreams,                              \* CameraCapture
    ChatPeers, ChatGroups, Decryptions, Creations,   \* Conversations
    BookPeers, BookNames,                            \* ContactBook
    Identities, NoIdentity,                          \* Onboarding
    HandleNames, MaxRecord,                          \* EnsHandles
    Events, MaxUnread, MaxPushes,                    \* UnreadCheck
    RelayPeers, Callbacks, MaxKeys,                  \* RelayProcess
    Inbound, MaxSignals                              \* Bot

\* The bounds, and the peers of the relay's reservations, are finite.
ASSUME PoolAssumption == Limit \in Nat
ASSUME StreamAssumption == {MaxChunks, MaxPending, MaxQueued, MaxPresses} \subseteq Nat
ASSUME FlowsAssumption == MaxFlows \in Nat
ASSUME StreamsAssumption == MaxStreams \in Nat
ASSUME RecordsAssumption == MaxRecord \in Nat
ASSUME UnreadAssumption == MaxUnread \in Nat /\ MaxPushes \in Nat
ASSUME RelayAssumption == IsFiniteSet(RelayPeers) /\ MaxKeys \in Nat
ASSUME SignalsAssumption == MaxSignals \in Nat

\* The variables of each module, in its order.
VARIABLES
    part,
    poolConns, seen, poolShown, trims, disturbed,           \* ConnectionPool
    dialingConns, redial, cooldown, dialingSends, recent,   \* PeerDialing
    cleared, upgrades, profile, requested, awaited, emitted,
    byId,
    topicsNode, topicsOpen, sub, active, late, missed,      \* GroupTopics
    streamPhase, track, muted, recorded, chunks, end,       \* AudioStream
    presses, streamSignals, streamHeard, streamCrossed,
    early, streamPending, expected, queue, last, buffer,
    jumped, streamCall, played,
    call, mine, abort, flows, ctx, waiting, loops,          \* CallEarcons
    earconsCrossed,
    cameraOpen, photo, starting, failed, starts, shot,      \* CameraCapture
    cameraHeld, live, cameraCrossed,
    state, selected, route, creating, chatsTasks,           \* Conversations
    chatsCalls, removed, chatsCrossed,
    contacts, chats, marker, echoed,                        \* ContactBook
    path, returnTo, inject, loaded, account, unlocked,      \* Onboarding
    wizard, linking, finish, wizardCrossed, gated,
    chain, cache, handlesStored, hydrated, inflight,        \* EnsHandles
    publish, floor, handlesCrossed, token, resolving,
    visits, handlesShown, returned,
    unread, subscribed, pushes, page, granted, mem, saved,  \* UnreadCheck
    workerTasks, configured, alerts, forgot,
    file, status, temp, proc, key, keys, served, relayHeld, \* RelayProcess
    gauge, relayCalls, writer, swallowed,
    program, clientPhase, clientNode, started, listening,   \* Bot
    timer, inFlight, clientSends, stops, clientSignals,
    clientHeard, answer

Pool == INSTANCE ConnectionPool WITH
    ConnIds <- PoolConns,
    conns <- poolConns, shown <- poolShown

Dialing == INSTANCE PeerDialing WITH
    ConnIds <- DialConns,
    conns <- dialingConns, sends <- dialingSends

Topics == INSTANCE GroupTopics WITH
    Topics <- TopicNames,
    node <- topicsNode, open <- topicsOpen

Stream == INSTANCE AudioStream WITH
    phase <- streamPhase,
    signals <- streamSignals, heard <- streamHeard, crossed <- streamCrossed,
    pending <- streamPending, call <- streamCall

Earcons == INSTANCE CallEarcons WITH crossed <- earconsCrossed

Camera == INSTANCE CameraCapture WITH
    open <- cameraOpen,
    held <- cameraHeld, crossed <- cameraCrossed

Chats == INSTANCE Conversations WITH
    Peers <- ChatPeers,
    Groups <- ChatGroups, Calls <- Decryptions, Tasks <- Creations,
    tasks <- chatsTasks, calls <- chatsCalls, crossed <- chatsCrossed

Book == INSTANCE ContactBook WITH Peers <- BookPeers, Names <- BookNames

Wizard == INSTANCE Onboarding WITH
    Ids <- Identities, NoId <- NoIdentity,
    crossed <- wizardCrossed

Handles == INSTANCE EnsHandles WITH
    Names <- HandleNames,
    stored <- handlesStored, crossed <- handlesCrossed, shown <- handlesShown

Worker == INSTANCE UnreadCheck WITH Tasks <- Events, tasks <- workerTasks

Relay == INSTANCE RelayProcess WITH
    Peers <- RelayPeers,
    Workers <- Callbacks, held <- relayHeld, calls <- relayCalls

Client == INSTANCE Bot WITH
    phase <- clientPhase, node <- clientNode,
    sends <- clientSends, signals <- clientSignals, heard <- clientHeard

-----------------------------------------------------------------------------
\* The variables of each component.
poolVars == <<poolConns, seen, poolShown, trims, disturbed>>
dialingVars == <<dialingConns, redial, cooldown, dialingSends, recent,
                 cleared, upgrades, profile, requested, awaited, emitted,
                 byId>>
topicsVars == <<topicsNode, topicsOpen, sub, active, late, missed>>
streamVars == <<streamPhase, track, muted, recorded, chunks, end, presses,
                streamSignals, streamHeard, streamCrossed, early,
                streamPending, expected, queue, last, buffer, jumped,
                streamCall, played>>
earconsVars == <<call, mine, abort, flows, ctx, waiting, loops, earconsCrossed>>
cameraVars == <<cameraOpen, photo, starting, failed, starts, shot, cameraHeld,
                live, cameraCrossed>>
chatsVars == <<state, selected, route, creating, chatsTasks, chatsCalls,
               removed, chatsCrossed>>
bookVars == <<contacts, chats, marker, echoed>>
wizardVars == <<path, returnTo, inject, loaded, account, unlocked, wizard,
                linking, finish, wizardCrossed, gated>>
handlesVars == <<chain, cache, handlesStored, hydrated, inflight, publish,
                 floor, handlesCrossed, token, resolving, visits, handlesShown,
                 returned>>
workerVars == <<unread, subscribed, pushes, page, granted, mem, saved,
                workerTasks, configured, alerts, forgot>>
relayVars == <<file, status, temp, proc, key, keys, served, relayHeld,
               gauge, relayCalls, writer, swallowed>>
clientVars == <<program, clientPhase, clientNode, started, listening, timer,
                inFlight, clientSends, stops, clientSignals, clientHeard,
                answer>>

\* What a component has that the behaviour is not of.
NoPool ==
    /\ poolConns = 0 /\ seen = 0 /\ poolShown = 0 /\ trims = 0
    /\ disturbed = 0
NoDialing ==
    /\ dialingConns = 0 /\ redial = 0 /\ cooldown = 0
    /\ dialingSends = 0 /\ recent = 0 /\ cleared = 0
    /\ upgrades = 0 /\ profile = 0 /\ requested = 0 /\ awaited = 0
    /\ emitted = 0 /\ byId = 0
NoTopics ==
    /\ topicsNode = 0 /\ topicsOpen = 0 /\ sub = 0 /\ active = 0
    /\ late = 0 /\ missed = 0
NoStream ==
    /\ streamPhase = 0 /\ track = 0 /\ muted = 0 /\ recorded = 0
    /\ chunks = 0 /\ end = 0 /\ presses = 0 /\ streamSignals = 0
    /\ streamHeard = 0 /\ streamCrossed = 0 /\ early = 0
    /\ streamPending = 0 /\ expected = 0 /\ queue = 0 /\ last = 0
    /\ buffer = 0 /\ jumped = 0 /\ streamCall = 0 /\ played = 0
NoEarcons ==
    /\ call = 0 /\ mine = 0 /\ abort = 0 /\ flows = 0 /\ ctx = 0
    /\ waiting = 0 /\ loops = 0 /\ earconsCrossed = 0
NoCamera ==
    /\ cameraOpen = 0 /\ photo = 0 /\ starting = 0 /\ failed = 0
    /\ starts = 0 /\ shot = 0 /\ cameraHeld = 0 /\ live = 0
    /\ cameraCrossed = 0
NoChats ==
    /\ state = 0 /\ selected = 0 /\ route = 0 /\ creating = 0
    /\ chatsTasks = 0 /\ chatsCalls = 0 /\ removed = 0
    /\ chatsCrossed = 0
NoBook ==
    /\ contacts = 0 /\ chats = 0 /\ marker = 0 /\ echoed = 0
NoWizard ==
    /\ path = 0 /\ returnTo = 0 /\ inject = 0 /\ loaded = 0
    /\ account = 0 /\ unlocked = 0 /\ wizard = 0 /\ linking = 0
    /\ finish = 0 /\ wizardCrossed = 0 /\ gated = 0
NoHandles ==
    /\ chain = 0 /\ cache = 0 /\ handlesStored = 0 /\ hydrated = 0
    /\ inflight = 0 /\ publish = 0 /\ floor = 0
    /\ handlesCrossed = 0 /\ token = 0 /\ resolving = 0
    /\ visits = 0 /\ handlesShown = 0 /\ returned = 0
NoWorker ==
    /\ unread = 0 /\ subscribed = 0 /\ pushes = 0 /\ page = 0
    /\ granted = 0 /\ mem = 0 /\ saved = 0 /\ workerTasks = 0
    /\ configured = 0 /\ alerts = 0 /\ forgot = 0
NoRelay ==
    /\ file = 0 /\ status = 0 /\ temp = 0 /\ proc = 0 /\ key = 0 /\ keys = 0
    /\ served = 0 /\ relayHeld = 0 /\ gauge = 0 /\ relayCalls = 0
    /\ writer = 0 /\ swallowed = 0
NoClient ==
    /\ program = 0 /\ clientPhase = 0 /\ clientNode = 0
    /\ started = 0 /\ listening = 0 /\ timer = 0 /\ inFlight = 0
    /\ clientSends = 0 /\ stops = 0 /\ clientSignals = 0
    /\ clientHeard = 0 /\ answer = 0

Parts == {"chat", "Pool", "Dialing", "Topics", "Stream", "Earcons", "Camera", "Chats", "Book",
          "Wizard", "Handles", "Worker", "Relay", "Client"}

ComponentsInit ==
    /\ Init
    /\ part \in Parts
    /\ IF part = "Pool" THEN Pool!Init ELSE NoPool
    /\ IF part = "Dialing" THEN Dialing!Init ELSE NoDialing
    /\ IF part = "Topics" THEN Topics!Init ELSE NoTopics
    /\ IF part = "Stream" THEN Stream!Init ELSE NoStream
    /\ IF part = "Earcons" THEN Earcons!Init ELSE NoEarcons
    /\ IF part = "Camera" THEN Camera!Init ELSE NoCamera
    /\ IF part = "Chats" THEN Chats!Init ELSE NoChats
    /\ IF part = "Book" THEN Book!Init ELSE NoBook
    /\ IF part = "Wizard" THEN Wizard!Init ELSE NoWizard
    /\ IF part = "Handles" THEN Handles!Init ELSE NoHandles
    /\ IF part = "Worker" THEN Worker!Init ELSE NoWorker
    /\ IF part = "Relay" THEN Relay!Init ELSE NoRelay
    /\ IF part = "Client" THEN Client!Init ELSE NoClient

\* A step is one of the component the behaviour is of.
ComponentsNext ==
    /\ UNCHANGED part
    /\ IF part = "chat" THEN Next ELSE UNCHANGED vars
    /\ IF part = "Pool" THEN Pool!Next ELSE UNCHANGED poolVars
    /\ IF part = "Dialing" THEN Dialing!Next ELSE UNCHANGED dialingVars
    /\ IF part = "Topics" THEN Topics!Next ELSE UNCHANGED topicsVars
    /\ IF part = "Stream" THEN Stream!Next ELSE UNCHANGED streamVars
    /\ IF part = "Earcons" THEN Earcons!Next ELSE UNCHANGED earconsVars
    /\ IF part = "Camera" THEN Camera!Next ELSE UNCHANGED cameraVars
    /\ IF part = "Chats" THEN Chats!Next ELSE UNCHANGED chatsVars
    /\ IF part = "Book" THEN Book!Next ELSE UNCHANGED bookVars
    /\ IF part = "Wizard" THEN Wizard!Next ELSE UNCHANGED wizardVars
    /\ IF part = "Handles" THEN Handles!Next ELSE UNCHANGED handlesVars
    /\ IF part = "Worker" THEN Worker!Next ELSE UNCHANGED workerVars
    /\ IF part = "Relay" THEN Relay!Next ELSE UNCHANGED relayVars
    /\ IF part = "Client" THEN Client!Next ELSE UNCHANGED clientVars

allVars ==
    <<part, vars, poolVars, dialingVars, topicsVars, streamVars, earconsVars, cameraVars,
      chatsVars, bookVars, wizardVars, handlesVars, workerVars, relayVars,
      clientVars>>

ComponentsSpec == ComponentsInit /\ [][ComponentsNext]_allVars

-----------------------------------------------------------------------------
\* The properties of each component, stated in its module, in the behaviours
\* that are of it.

\* Every component's state is well formed.
TypesOK ==
    /\ part \in Parts
    /\ part = "chat" => TypeOK
    /\ part = "Pool" => Pool!TypeOK
    /\ part = "Dialing" => Dialing!TypeOK
    /\ part = "Topics" => Topics!TypeOK
    /\ part = "Stream" => Stream!TypeOK
    /\ part = "Earcons" => Earcons!TypeOK
    /\ part = "Camera" => Camera!TypeOK
    /\ part = "Chats" => Chats!TypeOK
    /\ part = "Book" => Book!TypeOK
    /\ part = "Wizard" => Wizard!TypeOK
    /\ part = "Handles" => Handles!TypeOK
    /\ part = "Worker" => Worker!TypeOK
    /\ part = "Relay" => Relay!TypeOK
    /\ part = "Client" => Client!TypeOK

\* Who is shown as connected is, and a trim keeps the limit (session.ts).
ShownIsConnected == part = "Pool" => Pool!ShownIsConnected
TrimKeepsLimit == [][part = "Pool" => Pool!TrimStep]_allVars

\* Upgrades do not overlap, and a profile is not repeated unasked (session.ts).
EffortIsShared == part = "Dialing" => Dialing!EffortIsShared

\* The open group is heard (App.tsx, session.ts).
OpenGroupIsHeard == part = "Topics" => Topics!OpenGroupIsHeard

\* Audio is played in order, and who is shown as muted is (useAudioCall.ts).
PlayedInOrder == part = "Stream" => Stream!PlayedInOrder
MuteIsTrue == part = "Stream" => Stream!MuteIsTrue

\* Tones end with their call (useCallEarcons.ts).
NothingRingsOn == part = "Earcons" => Earcons!NothingRingsOn

\* The camera is off unless it is shown (CameraCaptureDrawer.tsx).
CameraIsOff == part = "Camera" => Camera!CameraIsOff

\* One chat with each peer, read while it is open, opened by its link
\* (useChatController.ts, App.tsx).
OneDirect == part = "Chats" => Chats!OneDirect
OpenChatIsRead == part = "Chats" => Chats!OpenChatIsRead
LinkOpensChat == part = "Chats" => Chats!LinkOpensChat

\* Only what a peer's profile named is shown as confirmed (useChatController.ts).
LabelIsEchoed == part = "Book" => Book!LabelIsEchoed

\* A wallet's proof is for the identity it is stored with (OnboardingWizard.tsx).
ProofIsForIdentity == part = "Wizard" => Wizard!ProofIsForIdentity

\* What is shown of a handle is current (ensHandles.ts, App.tsx).
HandleIsCurrent == part = "Handles" => Handles!HandleIsCurrent

\* One alert in two minutes (sw.js).
OneAlert == part = "Worker" => Worker!OneAlert

\* The relay keeps its identity over crashes, and counts its reservations
\* (config.go, metrics.go).
FilesSurviveCrashes == part = "Relay" => Relay!FilesSurviveCrashes
GaugeIsExact == part = "Relay" => Relay!GaugeIsExact

\* A running bot hears, is on schedule, and stops its node (client.ts,
\* scheduler.ts, randomWikiBot.ts).
BotIsReliable == part = "Client" => Client!BotIsReliable
=============================================================================
