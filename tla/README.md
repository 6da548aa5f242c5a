# Skypier: a TLA+ verification project

Skypier is a peer-to-peer chat.  Browsers (and bots) run a libp2p node, talk to
each other over streams, and fall back on a relay that also keeps a mailbox for
peers that are offline.  This directory models the parts of it where state is
shared, retried, persisted or reordered, checks them with TLC on small
instances, and proves the central invariants with TLAPS for every instance.

Paths below are relative to `src/`.

## 1. Inventory

| Component | Where | State | Operations | Status |
|---|---|---|---|---|
| Relay mailbox store | `relay/internal/mailbox/store.go` | queue and id index per recipient, push subscriptions | Enqueue, Pull, Ack, Stats, UnreadCount, expiry | `MailboxStore`; subscriptions only in `UnreadCheck` |
| Relay process and handlers | `relay/internal/node`, `metrics`, `config`, `cmd` | host, store, gauge, config and status files | the mailbox streams, serve, status, callbacks, unread endpoint | `MailboxStore`, `RelayProcess`, `UnreadCheck` |
| Mailbox drain | `apps/web/src/App.tsx` (drain effect) | cursor, page, cancellation flag | pull, ingest, acknowledge, repeat | `MailboxDrain` |
| Outbound queue | `packages/network/src/session.ts` | queue, retry loop, copy in localStorage | send, enqueue, flush, retry, tick, start, stop | `OutboundQueue` |
| Chat state | `apps/web/src/useChatController.ts`, `packages/storage/src/index.ts` | one immutable snapshot, its copy on disk | send, log a call, touch, ingest, mark, delete, persist, load | `ChatState` |
| Conversations | `useChatController.ts`, `App.tsx` | the chats, the open one, the address bar, a creation guard | create, receive, select, delete, follow a link | `Conversations` |
| Contacts | `useChatController.ts`, `App.tsx`, `ContactsPage.tsx` | contacts with an ENS name and its confirmation | add, edit, delete, profile of a peer | `ContactBook` (names, bios, avatars left out) |
| Onboarding and gates | `App.tsx`, `OnboardingWizard.tsx`, `BiometricUnlock.tsx` | account, address bar and its return page, the wizard | gate, generate, import, link a wallet, unlock | `Onboarding` |
| Live session | `session.ts`, `useLiveChatSession.ts`, `browser.ts` | node, connections, dials in flight, cooldowns, topics | start, stop, recover, redial, dial by id, upgrade, trim, join, ask for a profile | `SessionLifecycle`, `ConnectionPool`, `PeerDialing`, `GroupTopics`; relay reservations only as a step of a dial, and as timers |
| Delivery status | `App.tsx` | status of each own message | queue events, receipts, send flow, retries | `DeliveryStatus` |
| Audio calls | `hooks/useAudioCall.ts`, `useCallEarcons.ts` | the call, microphone, recorder, playback, tones | start, accept, reject, end, mute, signals, chunks | `AudioCall`, `AudioStream`, `CallEarcons` |
| Camera | `components/CameraCaptureDrawer.tsx` | stream, photo | open, flip, take, redo, send, close | `CameraCapture` |
| Service worker | `apps/web/public/sw.js`, `main.tsx`, `useNotifications.ts` | last unread count, its saved copy, app-shell cache | check, push, configure, fetch | `UnreadCheck`; the app-shell cache not |
| ENS handles | `apps/web/src/ens/` | cache, its stored copy, lookups in flight | lookup, publish, invalidate | `EnsHandles` |
| Bot client, scheduler | `packages/bot/src/`, `apps/bot-example/src/` | node, listeners, interval guard | start, stop, send, tick | `Bot` |
| Encryption, backup, wire formats, rendering | `packages/crypto`, `backup`, `protocol`, `ui`, `components` | none between calls | conversions, rendering | not modelled |

How they interact.  A send goes through the session: direct stream first, then
the outbound queue, and the relay's mailbox as a fall-back.  The recipient's
drain pulls envelopes from the relay and ingests them into the chat state,
beside those that arrive on live streams and in sync replays.  Queue events,
receipts and the relay's answers write the delivery status of own messages into
the same chat state.  Everything in a browser is one JavaScript thread: what
interleaves is what stands between two awaits.  In the relay the store's mutex
makes every operation one step.

What is hard, and what must hold in spite of it:

* retries and lost replies: an envelope enqueued again must not be doubled, an
  accepted one must be held, an acknowledged one must have been saved;
* late pruning: what expired but is still stored must not show;
* pagination over a mailbox that changes: a walk must not miss what was there;
* overlapping passes over one queue, with eviction, persistence and reloads: no
  message may vanish silently or go out after it was settled;
* a snapshot read before an await and written after it: which changes survive;
* a status written from four sides: what it shows must have happened, or be under
  way;
* calls that share a variable across awaits, start and stop: the status must fit
  the node, and no node may be left running;
* everything sent must settle, everything in the mailbox must leave it;
* requests to the browser, a wallet, a chain or a peer that are answered when the
  question is no longer asked: the answer must not undo what was done since;
* work on a list or a record that others change meanwhile: connections that are
  trimmed, upgrades that overlap, topics that are left and joined;
* a worker or a process that dies between two steps: what it left must do;
* a call that fails after it has done half of its work: a stop that is rejected, a
  write to disk that is.

`PROJECT.json` lists these as `hazards`, each at its line.

## 2. Modules

| Module | Models | Extends / instantiates |
|---|---|---|
| `MailboxQueue` | one recipient's queue and the pages of it | |
| `Mailbox` | what the relay promises its clients | `MailboxQueue` |
| `MailboxStore` | the store as written: lazy pruning, two maps | `MailboxQueue`, refines `Mailbox` |
| `MailboxStoreProofs` | proofs about the store | `MailboxStore` |
| `MailboxDrain` | a device emptying its mailbox | `MailboxQueue`, composes `Mailbox` |
| `MailboxDrainProofs` | proofs about drains | `MailboxDrain`, `SubsequencesProofs` |
| `Subsequences` | parts of sequences: the filters and the sorting of the code's lists | |
| `SubsequencesProofs` | what they return; induction over a set of naturals | `Subsequences` |
| `Outbox` | what a session promises whoever sends a message | |
| `OutboundQueue` | the queue of a session and its persisted copy | `Subsequences`, refines `Outbox` |
| `OutboundQueueProofs` | proofs about the queue | `OutboundQueue`, `SubsequencesProofs` |
| `ChatState` | the snapshot in memory and on disk | |
| `DeliveryStatus` | the status of one own message | |
| `DeliveryStatusProofs` | proofs about it | `DeliveryStatus` |
| `SessionLifecycle` | start, stop and drop of a session | |
| `SessionLifecycleProofs` | proofs about it | `SessionLifecycle` |
| `AudioCall` | calls between two devices | |
| `AudioCallProofs` | proofs about calls | `AudioCall` |
| `AudioStream` | chunks and mute of one direction of a call | `Subsequences` |
| `CallEarcons` | the tones of a call | |
| `CameraCapture` | the camera drawer | |
| `ConnectionPool` | announcements and the limit of connections | `Subsequences` |
| `PeerDialing` | redials, dials by id, upgrades and profile requests of one peer | `Subsequences` |
| `GroupTopics` | gossipsub topics of groups | |
| `Conversations` | the list of chats and the open one | |
| `ContactBook` | contacts and their ENS labels | |
| `Onboarding` | gate, wizard and lock | |
| `EnsHandles` | lookups, caches and publication of handles | |
| `UnreadCheck` | the service worker against the relay | |
| `RelayProcess` | identity, status file and gauge of the relay | |
| `Bot` | bot client and interval task | |
| `Components` | one instance of `ChatState` and of each of the thirteen modules from `AudioStream` to `Bot`, and their properties | extends `ChatState`, instantiates the others |
| `ComponentsProofs` | proofs about the chat state and those components | `Components`, `SubsequencesProofs` |
| other `MC...` | TLC instances | the module of that name |

### MailboxQueue, Mailbox, MailboxStore

The Go slice is re-sorted by `SentAt`, stably, after every append; so it is the
set of its envelopes ordered by `<<sentAt, arrival>>`, and `MailboxQueue` keeps
that set.  `AfterCursor`, `Page` and `NextCursor` are what `Pull` returns.
`MailboxStore` has `byRecipient` and `byRecipientByID` as the code does, and one
action per outcome of each operation: `EnqueueNew`, `EnqueueKnown`,
`EnqueueFull`, `Ack`, and `Prune` for the operations that only prune.  Each
begins with `cleanupLocked`.  `answer` is what the last caller was told, with the
expiry: that of the envelope held, when the id was known.  Time moves by `Tick`; `Restart` is the loss of a
store that lives in memory.  `Mailbox` is the abstract specification: expired
envelopes leave at once, there is no index.  The refinement maps the store to
its live envelopes.

### MailboxDrain

Each drain walks pull, reply, ingest, ack, next page.  A drain is cancelled when
the connection state changes and goes on until it next looks at its flag, so two
overlap.  `AckTimesOut` leaves the acknowledgement under way (`late`), and
`LateAck` lets the relay act on it at any later moment.  `present` and `seen`
record what a walk should have been handed and what it was.  An ingested item is
in `memory` at once and in `saved` when its write completes (`SaveItem`), which may
fail (`SaveFails`: the drain stops).  An item that is in memory already is a
duplicate, and the drain goes on to acknowledge it without waiting for anything
(`IngestDuplicate`), also while the first write is pending or has failed: `unsaved`
records those.  `saved` grows only: that an ingested envelope stays saved when other
snapshots are written over it is the subject of `ChatState`, where it has
exceptions.

### Outbox, OutboundQueue

A worker is an asynchronous call that waits for a send: a first send, a user's
retry, a flush, a tick.  Nothing in the code keeps two from overlapping, and the
module does not either.  `Proceed` is what a pass does between two sends: it
drops the exhausted entries it reaches, sends the next one, or ends and
persists.  `fate` is what the callbacks reported about a message.  Only chat
messages are modelled; receipts and sync requests are sent without being queued.
`Start` and `Stop` are the session's lifecycle as far as the queue sees it;
`StopFails` is a stop that is rejected after it has ended the retry loop (`phase`
is "halted": sends go on, ticks do not).  `savePendingQueue` is taken to succeed:
the code swallows the error of a full localStorage.
`Outbox` is the abstract specification: a set of open messages, no queue, no
passes and no localStorage.  A message handed over stays open until an outcome
closes it.  Once it has one, and no reload lost track of it, it is open again
only if the user repeated a send.  The refinement takes as open the messages with
an entry in the queue or in the hands of a call; every step of a pass is `Work`, and
`Reload` is `Forget`, which may close or reopen only what it lost track of (`cut`).

### ChatState

A snapshot is, for each message, how many copies it has and one bit for the
parts that change later.  Operations that run in one task read and write the
latest snapshot.  `Ingest` reads it and `Ingested` writes, with the decryption
in between.  `LogCall` adds an entry of the call history, and `Touch` stands for the
operations that change the conversations only and write all messages back.  `ideal` is the snapshot if every change had been made to the latest
one, and `exposed` the messages changed while an ingestion was pending: with
them the lost-update question can be asked precisely.  `Renamed` are messages of
a conversation that each side opened under an id of its own.  Not modelled here:
the cap of 300 messages, account fields, a write to disk that fails.

### AudioCall

Two devices run the same hook; a signal is a message on a stream of its own, so
the module keeps a set of signals that may be taken in any order or lost.  A
flow (`tasks`) is a startCall, acceptCall or rejectCall that waits for the
microphone, a dial or a signal.  `call` is React's state, `shown` the copy that
an effect makes of it (`activeCallRef`): handlers decide on the copy and change
the state, and `Render` brings the two together and starts or stops the
recorder.  `accepted`, `finished`, `strayed` and `late` are history: who
answered, which calls were over where, which calls were changed by a flow or
handler of another call, and who got a microphone when it was too late.  Chunks and muting are in
`AudioStream`, the tones in `CallEarcons`.

### DeliveryStatus

One message of the user's, since statuses of different messages do not depend on
each other.  A flow is one run of `onSendMessage` or `retryConversationMessage`;
its place is the await it stands at.  The session's queue is seen from here as
the number of entries the message has in it (`waiting`) and in the hands of a
pass (`held`): `OutboundQueue` says how they move, here a pass may take, put
back, deliver, drop or give up one at any time.  `streams` and `receipts` are
copies and receipts under way, which may arrive or be lost whatever the attempt
reported.  `written`, `relayed` and `reached` record what happened; `dropped`,
`overtaken` and `broken` record the three ways in which the code is known to
leave a status behind, so that the properties hold outside them; `acked` and `failed`
record that a receipt came in and that an attempt was reported as failed.

### SessionLifecycle

A flow is a call of `start` or `stop` and its place the await it stands at:
making the node, registering its handlers, starting it, dialing relays, stopping
it.  `node` is the variable they share, `life` what becomes of each node, which
is external.  `crossed` records that a start or stop was called in the middle of
another (or a start beside a node that a failed one left): nothing in the code
prevents it, and the truth of the status at rest depends on it.  `Discard` is
the app dropping the session when the identity changes.  `StopFails` is a rejected
`node.stop()`: the timers are off by then, the node stays set and the status what it
was, and whether the node is down is libp2p's affair; `refused` records such nodes.

### ConnectionPool, PeerDialing, GroupTopics

Three views of a session that is up.  `ConnectionPool` keeps all connections of
the node in the order they were opened: the listeners announce the peers that
come and go (`Announce`, `Retract`), and `trimExcessConnections` makes a list of
the connections over the limit and closes them one await after the other
(`StartTrim`, `Trim`), beside other trims and beside connections that come and
go.  `PeerDialing` is about one peer: a send takes the oldest connection or
shares a redial, waits for a stream, and over a relayed connection sets off an
upgrade, which closes the relayed connections, then dials.  Beside the sends the
app calls `dialPeerById`, which tries the addresses that are known, relay routes
(`RelaysPrepared`: the relays are dialed and a reservation is waited for) and what
peer routing finds, one after the other, and joins no dial in flight.  The peer is
asked for its profile by the session (`ProfileReturns`, once it is connected, until
it answers) and by the app (`RequestProfile`, `RequestReturns`, as often as it
likes).  `GroupTopics` has
the effect that leaves the topic of one group and joins the next, over the
session's record of what it joined.  libp2p and gossipsub are external.

### AudioStream, CallEarcons, CameraCapture

`AudioStream` is one direction of a call.  A chunk is its sequence number; each
travels on a stream of its own, so any may be lost or overtake.  The receiver's
`ReceiveChunk` is `handleIncomingAudioChunk`: pending map, the jump over a gap
when too much waits, the run of consecutive chunks, the limit of the queue, and
a `SourceBuffer` that takes one append at a time.  `Discard` is the tear-down at a
hangup, which drops the pipeline while the ended call is still there: a chunk or end
marker that comes later makes a new one, which starts at 0, until the call is
dismissed (`Forget`).  `End` is `endCall` or `finalizeCall` at the sender; chunks it
had handed out before are numbered and sent after it ("closing"), and the end marker
goes out only in the first case, after the hangup.  Mute signals are numbered by
press, so that one that overtakes another can be told.  `CallEarcons` has the
call's phase, how many flows wait, and what repeats: `playEarcon` waits for a
suspended audio context and `stopLooping` cannot reach what waits.
`CameraCapture` has the calls of `startCamera` that wait for the browser or for
the video, beside the buttons, `capturePhoto` and the unmounting.

### Conversations, ContactBook, Onboarding, EnsHandles

`Conversations` has the set of chats, which are unread, the open one, and what
the address bar names.  The effects of `App.tsx` are `FollowRoute` and
`OpenLinked`; `Add` and `Created` are the two sides of the save that a creation
awaits; `Decrypt` and `Decrypted` those of an ingestion, which writes the list
it read.  `removed` and `crossed` are history.  `ContactBook` has what decides
the label "unconfirmed": who saved which name, and what the peer's profile says.
`moved` and `echoed` are history.  `Onboarding` composes the gate, an effect that
runs after every render, with the wizard: `Wanted` is the page the gate asks
for, `Go` its navigation with the page to return to, and `finish` the two saves
of the end.  `EnsHandles` has both caches, the requests that are shared, the page
of a handle with its disposed visits, and the publication of a record; the chain
is external, records are numbered as they are written.

### UnreadCheck, RelayProcess, Bot

`UnreadCheck` runs the handlers of the service worker as tasks beside each
other: a task loads the saved variables if they are missing, asks the relay,
compares, alerts and saves.  `Kill` takes the variables, not the copy; the two
minutes that suppress a second alert are the bit `recent`.  `RelayProcess` is
`skypier-relay serve` from the configuration file to the counting of
reservations by concurrent callbacks, which begins when the host is up (`Boot`),
and the status file, which is written to a temporary file and renamed (`WriteStatus`,
`Written`, `Rename`) from then on that the relay serves (`Serve`); `Die` may come
between any two system calls.  The worker's configuration is never empty: the page
posts it only with an identity, and the endpoint is a constant of the build.  `Bot` has the client with its node and listeners, the interval with its
`inFlight` flag, and both example programs up to their exit.

### Components

The thirteen small components share no state, so their product would only be
large.  One behaviour is of one of them, or of the chat state: `part` says which,
that part's variables take their steps and those of all other parts stay 0
(`NoPool`, `NoDialing`, ...).  Each instance has variables of its own, named
after the part and the module's variable (`poolConns` is `conns` of
`ConnectionPool`), its `INSTANCE ... WITH` says which, and every property speaks
of the behaviours of its component.  The components' constants that the proofs
need something of come with named assumptions in this module.  `MCComponents`
gives the constants their values; its model values `x1` and `x2`, and `y1` and
`y2`, are interchangeable everywhere they are used, so the run uses that
symmetry.

## 3. Runs

Passing:

| Run | Instance | Shows |
|---|---|---|
| `mailbox_store` | 2 recipients, 3 ids, queues of 2, clock to 3, 4 appends | index and queue agree, no duplicates, capacity, accepted is held (`QueueIsSound`); the store implements `Mailbox` |
| `mailbox_drain` | 3 envelopes, 2 dates, pages of 2, 2 drains, 2 faults | the relay drops only what the device saved or met in memory; a walk that ends missed nothing (`WalkIsSound`) |
| `mailbox_empties` | 2 envelopes, pages of 1, 2 drains, repeated enqueues, fair | once faults stop, every envelope leaves the mailbox |
| `outbound_queue` | 3 messages, queue of 2, 1 retry, 2 workers, fair | in a session that stays up everything settles |
| `outbound_reload` | 2 messages, queue of 1, a repeated send, reloads | nothing queued vanishes silently, except from the hands of a pass cut by a reload; nothing settled goes out again; extra copies come only from repeated sends; the copy on disk is exact at rest (`QueueIsSound`); the queue implements `Outbox` |
| `audio_call` | 2 devices, 2 calls, 2 flows, 2 signals under way | no recording outside a call and the microphone is given back (`MicrophoneIsForCalls`); nobody is connected unasked; crossing calls do not both connect |
| `delivery_status` | 1 message, 2 flows, 2 entries, 2 copies and 2 receipts under way | ticks are honest and a message shown as being sent is (`StatusIsSound`); one shown as queued is, with named exceptions; an acknowledged message stays so (`AcknowledgedIsKept`) |
| `session_lifecycle` | 3 nodes, 3 calls at once, 1 rejected stop, fair | a running session has a node, a starting one gets on (`SessionIsSound`); without crossed calls and rejected stops no node is left behind, the status at rest is true, and a dropped session goes down |
| `components` | see Bounds | what follows |

What `components` shows, part by part:

| Part | Property | Says |
|---|---|---|
| chat state | `NoDuplicates`, `LossNeedsOverlap` | no message twice; a change is lost only if an ingestion was decrypting when it was made |
| Pool | `ShownIsConnected`, `TrimKeepsLimit` | who is shown as reachable is; overlapping trims do not add up |
| Dialing | `EffortIsShared` | upgrades overlap only after a record was taken away; a profile is emitted once, and once more for each request of the app that has returned |
| Topics | `OpenGroupIsHeard` | the record of joined topics is what gossipsub has, and the open group is among them, with two named exceptions |
| Stream | `PlayedInOrder`, `MuteIsTrue` | chunks play in order until the call is torn down, and none twice even then; who is shown as muted is, and the other side shows it |
| Earcons | `NothingRingsOn` | a tone repeats only in the call it is for |
| Camera | `CameraIsOff` | the camera is on only where its picture is shown |
| Chats | `OneDirect`, `OpenChatIsRead`, `LinkOpensChat` | one chat with each peer; the open chat is read; a link opens its chat |
| Book | `LabelIsEchoed` | a confirmed name was named by the peer's own profile |
| Wizard | `ProofIsForIdentity` | the wallet's proof in the account is for the account's identity |
| Handles | `HandleIsCurrent` | no cache goes back behind a publication; a page that says it looks a name up does |
| Worker | `OneAlert` | one alert in two minutes |
| Relay | `FilesSurviveCrashes`, `GaugeIsExact` | one identity over all crashes, the status file is whole whatever the temporary file has; the gauge is right once callbacks are through |
| Client | `BotIsReliable` | sends do not overlap, messages are heard, the process does not exit in the middle of stopping |

Several of these hold only outside a situation in which the code is known to go
wrong; a history variable (`crossed`, `missed`, `removed`, `moved`, `forgot`,
`swallowed`, `early`, ...) names it, and section 5 tells what happens there.

Runs that find a disagreement between the code and what it says:

| Run | The text | What happens |
|---|---|---|
| `chat_state_loses` | "stateRef always holds the latest persisted snapshot so async callbacks never read a stale closure ..." | an ingestion overwrites what changed while it decrypted |
| `audio_call_revived` | "Set to true by finalizeCall/endCall so a slow dialPeerById cannot revive the call." | a call that its caller ended while it was being answered goes on to connect: acceptCall looks at no flag |
| `cold_load` | "a cold load on `/u/vitalik.eth` survives onboarding and resolves afterwards" (`docs/ens-handles.md:37`) | the splash page is opened with the link as its return page, and onboarding with that of the splash page: the link is forgotten |

### Bounds

Two actors are enough for every interleaving of a read and a write, and two
envelopes per page with three envelopes give a page that is cut, a page that is
last and a cursor between.  A queue of two with three messages evicts; one retry
gives an entry that is pushed back, counted and exhausted.  A clock of three
lets an envelope expire, its id come back and expire again.  Two pending writes
give a write that overtakes another.  Counters are bounded by `MaxAppends`,
`Horizon`, `MaxFaults`, `MaxResends`, `MaxSaves`, `MaxFlows`, `MaxSignals`,
`MaxEntries`, `MaxStreams`, `MaxReceipts`, `MaxRefused`, `MaxRequests`, each a guard that names it; one rejected stop is enough to leave a node
behind, and a later start makes the next.  Two calls are a call that crosses another, or one that follows
it while signals of the first are under way.  Two flows are a
retry beside the flow it follows; three calls of `start` and `stop` are a stop
between two starts, and three nodes a node that is replaced and replaced again.
`audio_call` may stop when all its calls are made and over,
`session_lifecycle` when its nodes are used up and it is stopped, a bot when it
has exited, the wizard's user when there is nothing left to click, and the parts
of `components` when their bounds are used up, so deadlock is not checked there.
`mailbox_drain` takes that an id does not come back once it has left the relay;
`mailbox_empties` does not (`CanRepeat`).

`components`: the chat state has one incoming and one own message, two
ingestions and two writes.  Pool has four peers, one of them a relay, a limit of
two, four connections and two trims: two more than the limit, and two lists of
them.  Dialing has two connections that are open or referred to at a time (a relayed one
and the one that replaces it, or one the peer opens meanwhile), two sends, two
upgrades, one `dialPeerById` and one profile request of the app.  Topics has three
topics, Stream four chunks with a pending map and a queue of two each, so that
both overflow, and two presses of mute.  Earcons has two flows of each kind,
Camera two calls and three streams.  Chats has a peer, a group, a creation and an
ingestion under way; Book two peers and two names; Wizard two identities; Handles
two names and one new record of each.  Worker has two tasks, one unread message
and one push; Relay two peers, two callbacks and two keys; Client two messages
and two signals, since a second signal is what cuts a stop short.

### Fairness

`outbound_queue`: a send that was begun returns (it has timeouts): weak
fairness of `Return`.  `setInterval` fires for ever and every retry delay
passes: strong fairness of the tick that takes a message, because a pass may
hold the message when the tick comes.  The user, dials and stops are not fair;
the property holds if from some moment the session stays up undisturbed.
`mailbox_empties`: requests are answered and saves complete (weak fairness of a
drain's steps), and a device without a drain under way reconnects sooner or
later.  Lost requests and failing saves are faults; faults are finite in number, senders and expiry are not fair.
`session_lifecycle`: every await of a call that was made ends, well or badly
(weak fairness of its next step); nobody has to call anything.
The components of `components` are checked for safety only.

## 4. Proofs

`MailboxStoreProofs`.  The inductive invariant is `IInv`: types, agreement of
index and queue, unique ids, bounded finite queues.  Agreement is what the rest
hangs on: Enqueue looks for an id in the index and the duplicate would be in the
queue; Ack removes by the index and the entry would stay in the queue.
`AcceptedIsHeld` is proved from it step by step, and `StoreImplementsMailbox` by
a step-to-step refinement in which pruning is a step that reads.  The only
assumption is `StoreAssumption`: types of the constants, a positive capacity and
lifetime, a cursor that is no id.

`SessionLifecycleProofs`.  What must be added to `RunningHasNode` and
`StartingIsPending` is what holds between two awaits: while calls do not cross,
at most one of them is busy with the node, it is busy with the node the session
has, and that node stands where the call does (`Exclusive`); with none busy the
status fits the node (`Settled`), both except for nodes whose stop was rejected
(`refused`).  `NoOrphan` and `RestIsConsistent` follow.  The
assumption is that `NoNode` is no node.

`DeliveryStatusProofs`.  `StatusIsHonest` needs that a receipt under way comes
from a peer that has the message, `QueuedIsRetried` that a message that was not
overtaken has one flow at most, is offered no retry beside it, and has an entry
in the queue while the relay is asked (`Alone`): the status "queued" that the
flow writes last is then still true.  `AcknowledgedIsKept` needs what is true until
an attempt is reported as failed (`Unfailed`): nothing is queued, so nothing can
give the message up, no flow is on its way to the relay, and a flow that has not
sent yet is the first, of a message that no copy or receipt is under way for.

`ComponentsProofs`.  Each component module has an inductive invariant `IInv` with
named parts, and `ComponentsInvariant` says that the one of the running part holds
for ever: `ComponentsNext` either takes a step of that part's module, which keeps its
invariant, or changes nothing.  Each contains the type invariant of its module, so
that `TypesOK` follows.  What had to be found, part by part:

* The chat state: `NoDuplicates` alone is not inductive, as an ingestion writes a
  snapshot it read earlier, and a disk write or a reload brings back an older one.
  `StateInv` says of every snapshot anywhere (in memory, read by a pending ingestion,
  on its way to disk, on disk) that it has no duplicates, and of every pending
  ingestion that what it read is still right about each message that is not exposed;
  `NoDuplicates` and `LossNeedsOverlap` follow.
* Pool: `ShownIsConnected` is inductive with the types.  `TrimKeepsLimit` is an
  action property, and speaks of a list that a trim read before others closed theirs.
  `StillOver` says what remains of that reading: whatever a trim is still going to
  close, if it is still there, is no relay's, and among the connections up to it those
  that are not a relay's are at most as many as exceed the limit.  A connection that
  closes takes one away from both sides, a new one is appended behind; so the
  connection that closes next counts itself, and the limit remains.  It needs that
  connections are distinct (`Distinct`), and that the k-th of the candidates has k
  candidates before it, a fact about subsequences (`PoolToTrim`).
* Stream: `PlayedInOrder` of the queue is not inductive without what happens before
  chunks get there.  `NothingReordered` relates the queue, what was played last, the
  number that is expected, what waits and what is under way: each below the next, and
  what waits is no longer under way.  What the receiver takes from the waiting ones
  is a run of consecutive numbers, or everything it has after a jump, in ascending
  order, so that it may follow the queue (`StreamAppendFacts`).  Order is claimed until
  the call is torn down.  `PlayedApart` holds also then: what was played is nowhere
  else, so a pipeline made anew plays nothing a second time.  For `MuteIsTrue`,
  `LatestArrives`: what the last press said is on its way or was heard last, unless
  signals crossed; and `TrackFollows`, about a press before the track is there.
* Chats: `OneDirect` of the list in memory is not inductive, because an ingestion
  brings back the list it read.  `CallInv` says the same of the list each pending
  ingestion carries; then a message is filed in the one chat that list has with its
  sender, or in a new one if it has none.
* Book: each of the two functions that make a contact from another keeps the label
  honest, the first by marking what it moved, the second because it compares with
  the name the profile just gave.
* Dialing: a running upgrade is closing or dialing, and while no record was removed
  there is one at most and the record of it stands (`UpgradeOnRecord`); a profile
  was handed over when it got known to the session, which it does once, or at the
  return of a request of the app (`ProfileCounted`).
* Topics: `OpenGroupIsHeard` is inductive with the types.
* Earcons: while starts do not cross, what repeats or waits for the audio context
  belongs to the call's phase, and never do two tones repeat.
* Camera: while requests are not overtaken, one start at most asks, for a drawer that
  is open and shows no picture yet (`OneAsks`).
* Wizard: while the identity is not changed meanwhile, the wallet that is linked or
  asked is that of the wizard's identity, and once the wizard ends its identity is the
  account's (`WalletFollowsIdentity`).
* Handles: no answer is older than the chain, and a name that is being resolved has a
  visit, disposed of or not (`FloorsAndVisits`).
* Worker: the time of an alert is not forgotten between the variables, the saved copy
  and what a task is loading, and one task at a time alerts (`TimeIsKept`).
* Relay: file, memory and the identity that served before agree at every point where
  the process can die (`IdentityIsKept`), and what is about to be renamed was written whole, whatever an
  earlier process left under the temporary name (`SnapshotIsWritten`); the gauge differs from the reservations that
  are held by the grants and releases that are not counted yet, exactly or, once one
  was clamped, upwards (`GaugeAdvances`), an equation between numbers of elements of
  finite sets.
* Client: every stop under way has its signal, and the wiki bot listens as long as it
  is started (`StopsHaveCauses`).

The assumptions are that the bounds are natural numbers, those of the sound and the
limit of connections among them, and that the relay's peers are finitely many: `Components` states them, each part's by name.

`MailboxDrainProofs`.  `WalkIsSound` is about the end of a walk and says nothing of
its middle.  `WalkAdvances` does: whatever was in the mailbox all along and was not
handed out yet is on the page that is on its way, or the walk has a cursor (or
starts) and the envelope comes after it in the order of dates and arrivals.  The
cursor names an envelope that was offered; if it is gone it cannot come back with
another date, so a walk that starts again from the front misses nothing either.
`PageFacts` is the lemma this rests on: a page is the first `PageSize` envelopes
after the cursor, by counting predecessors, so what it leaves out comes after its
last one.  A page is never empty while something is left, which is why an empty reply
ends the walk.  `DrainInvariant` and `OnlySaved` hold however ids are used again;
`WalkSound` is for `~CanRepeat`: with an id that comes back the property is false, as
section 5 tells.  `OnlySavedIsDropped` is an action property; it needs that every
acknowledgement, sent or under way, names envelopes that are saved or were met in
memory (`AcksAreSaved`).  The
assumption is `DrainAssumption`.

`OutboundQueueProofs`.  The queue and the passes that hold parts of it are
sequences, and every property is about where the copies of a message are.  A
place is the queue or a call, and a copy a place with an index.  Each step is
described by where its copies come from (`Moved`): every copy after the step is
one from before it, different copies come from different ones, and what is new
is the entry that was just enqueued.  The inductive invariant `IInv` adds to the
types: `InHand`, a first send and a retry hold one entry, and the entry a tick is
sending has a retry left; `Saved`, only a call that took entries out of the queue
lets localStorage fall behind it; `Traced`, a new message is nowhere, a queued
one has a copy or was cut off, a settled one has none, and no message has more
than `1 + resends` copies, in memory or in localStorage.  That bound is why the
origin of copies must be an injection and not only a map, and localStorage is in
it because a reload, the one step whose copies do not come from memory, takes
them from there.
That the queue implements `Outbox` follows from the same description of a step
(`RedistributeWorks`): what had no copy has none after it, what loses its last one
has an outcome then, and, by the invariant of the next state, what has an outcome
has no copy.
The assumption is `QueueAssumption`: natural bounds, a positive size
of the queue, and that no worker is called "queue".

`AudioCallProofs`.  `Accounted` relates the streams of the microphone to the call:
one while it is held, for a call that is on.  `Answered` says that every flow that
accepts and every accept under way has its call in `accepted`, and with that
`ConnectedNeedsConsent` is inductive.  Against crossed calls the argument is
`Called`: whoever is called was called by the other end, which keeps that call
(`Kept`: has it, and shows it) until it finishes it, and an answered call is kept
by both ends.  It holds because every handler compares ids or answers busy; it
needs `Faithful` (a call on the screen is the one there is, a call that is over was
finished), since handlers decide on the copy on the screen.  Two devices
connected in different calls have then finished or strayed from one of them.  The
assumption is that there are two devices: the code's calls have two ends, and the
proof uses that who is not one is the other.

`SubsequencesProofs`.  Queue, connections and sound filter lists and sort numbers.
`Subsequence` takes the entries of a sequence at a set of positions, `Ascending`
lists a finite set of naturals in order, and neither is recursive.  That a finite set
has such a listing needs induction (`AscendingExists`), and so does what is said of
subsequences (`SubsequenceFacts`).  The library's induction theorem takes an operator
and cannot be used, but induction over a set of naturals can be stated and proved
with the least element of its complement (`Induction`, from `LeastNatural`), and that
is enough for everything here.

Only model-checked: liveness (`EverySendSettles`, `MailboxEmpties`,
`DroppedGoesDown`), which this prover does not do (nor ENABLED).  Every invariant
and every action property of the passing runs is proved, `WalkIsSound` for mailboxes
in which no id comes back with another date.  No module uses RECURSIVE.

## 5. Observations without a run

* `enqueue` looks for a duplicate in the queue only ("Deduplicate: don't queue
  the same messageId+peerId twice", `session.ts:879`), not among the entries a
  pass holds: a message sent again meanwhile is queued twice.  `CopiesBounded`
  is what does hold.
* The section "Pending-Queue Persistence (survives page reload)"
  (`packages/storage/src/index.ts:586`) holds between passes only: entries in the
  hands of a pass are missing from localStorage as soon as something else persists
  the queue, those it has put back until it persists at its end, and those it has
  already sent are still there: a reload loses the former and sends the latter
  again.  `FateIsTrue` names that case (`cut`).
* Entries a pass pushes back skip the size check of `enqueue`, so the queue can
  exceed `MAX_QUEUE_SIZE` ("Max queue size to prevent memory exhaustion on
  prolonged offline", `session.ts:174`).
* A message that is in memory counts as ingested whether or not it is on disk yet
  (`useChatController.ts:1530-1532`): if it is pulled again while its first write is
  pending, or after that write failed, it is acknowledged as a duplicate, and a
  reload loses it.  `OnlySavedIsDropped` names those (`unsaved`).
* A localStorage without room for the queue is not noticed: `savePendingQueue`
  swallows the error.
* Nothing orders two writes of `persistState`; if the older completes last it
  stays on disk.
* A microphone granted after its call ended, or beside another one, stays open
  until the next call ends (`useAudioCall.ts:302` looks at nothing after its
  await).  `MicrophoneReleased` is what holds otherwise.
* A ringing signal that arrives after the answer sets a connected call back to
  ringing, and one that arrives after the end revives the call (line 614).
* The cursor of a walk is the id of the last envelope of a page, which is
  acknowledged before the next pull.  If its sender, whose reply was lost,
  enqueues the id again with a new date, the cursor names an envelope further
  back and the next pull skips what lies between ("Paginate until the relay has
  no more envelopes for us.", `App.tsx:698`); the next drain finds it.
* A sync replay looks a message up under its sender's conversation id, but a live
  message is filed under the recipient's (`useChatController.ts:1446`), and ids
  are random per side: if both opened the conversation, each replay adds a copy
  ("Build a dedup set of all known message IDs across all conversations",
  line 1199).  `NoDuplicates` excepts them (`Renamed`).
* The queue goes on retrying a message that the relay has accepted.  Giving it up
  turns "sent" or "delivered" into "local-only", which the retry drawer explains
  as "This message never made it into a live transport path."
  (`MessageRetryDrawer.tsx:67`).
* A receipt does not end the attempt it belongs to: once the attempt was reported as
  failed, its flow and its entry in the queue write their outcome over "delivered",
  and a message the peer has can be shown as queued or as failed.
* If sealing or publishing throws, or the page reloads, the message stays
  "sending", its Retry is disabled (line 194), and the drawer says "The app is
  still trying the first live send attempt." (line 70).
* A message to a group, to a peer that does not speak the protocol, or whose
  entry left the queue while the relay was asked can show as "queued" with no
  entry in the queue ("The session queued this message and will retry
  automatically when a route becomes available.", line 65).
* A stop while the node is being made is undone: start goes on to "running".  A
  session dropped at that moment keeps running, without listeners, and still
  answers messages with receipts (`session.ts:1717`, `useLiveChatSession.ts:279`).
* A stop while relays are dialed leaves the timers and the probe running; a second
  probe's interval overwrites the first, which is then never cleared.

* A `node.stop()` that is rejected (`session.ts:1717`) leaves the timers off, the node
  set and the status as it was, "running" for instance; the app ignores the rejection
  (`useLiveChatSession.ts:279`), drops the session, and nobody stops the node again.
  `RestIsConsistent` and `DroppedGoesDown` name those nodes (`refused`).

Connections and the session:

* The keepalive dials again "so the circuit-relay transport can reacquire"
  a reservation that was lost
  (`session.ts:1391`), but `dialConfiguredRelays` skips a relay that is
  still connected.
* `trimExcessConnections` is called by `peer:connect`, which libp2p emits for a
  peer's first connection: further connections to the same peers exceed the
  limit unnoticed.  It looks at no tag, so a chat peer is closed like any other.
* The label direct or relayed is that of the moment a peer was announced; after an
  upgrade it is stale.
* A send that shares a redial which fails returns false although the peer has
  connected by itself meanwhile (`session.ts:961`), and one that comes during the
  cooldown fails at once (line 954).  The message is queued.
* `dialPeerById` looks neither at the dials in flight nor at the cooldown, and shares
  its own dial with nobody: it may dial beside a send that dials the same peer.
* `requestPeerProfile` (`session.ts:2086-2092`) hands a profile over whether or not the
  session has done so: the app gets the same one again for every request.
* An upgrade closes the relayed connections before it dials; if the dial fails the
  peer has no connection.
* A message to a group published while the node stops leaves a topic in
  `activeGroupTopics`, and the next node is not subscribed to it.  If the open
  group changes without being left, the cleanup and the body of the effect cross,
  and the group is left (`App.tsx:612`, `session.ts:2028`).

Calls, tones, camera:

* Mute pressed while the microphone is being asked for shows "Muted", and the
  track comes enabled (`AudioCallDrawer.tsx:342`).  A mute signal that arrives
  before the receiver has the call is ignored.
* A chunk that comes after the end marker, behind a gap, stays pending.
* The end of a call at the receiver drops the pipeline, but the ended call is kept
  until it is dismissed: a chunk that was under way makes a new pipeline that expects
  number 0 (`useAudioCall.ts:193-223`), and late chunks may be heard after the hangup,
  earlier ones after later ones.  `endCall` sends the hangup before the end marker
  (lines 527-535), so the marker mostly finds the pipeline gone it is meant for.  A
  call that ends in an error sends neither.
* A tone that waits for the suspended audio context starts when the context is let
  go, even if its call is over, and repeats until the next sound: `dismissCall`
  stops no tone.  The busy tone is started and stopped in one go.  A startCall
  that returns late rings in a call that is answered.
* A request for the camera that is pending when the drawer closes leaves the
  camera on.  A photo taken while the drawer was closing is shown when it is opened
  next.

Chats, contacts, onboarding, handles:

* `deepLinkConversationCreatingRef` is not reset after a creation (`App.tsx:981`):
  if the chat is deleted, the same link opens nothing until another peer's link is
  opened.  Deleting an open chat whose address is a peer id creates it again.
* An ingestion that read an older list can mark the open chat unread, bring a
  deleted chat back, and undo reads.
* `saveContact` keeps the confirmation of a name when the contact gets another one
  (`useChatController.ts:1681`), and an edited peer id keeps it too; "A resolved
  handle shows as claimed via ENS, unconfirmed, until the peer's own shared
  profile echoes the same name back" (`docs/ens-handles.md:105-106`).  The
  definition `ConfirmedIsEchoed` states it; `LabelIsEchoed` is what holds.
* A name a profile asserts by itself is confirmed when the profile is fetched a
  second time.  An edited contact's peer may be added again, under the same id.
  The profile of a peer without a chat is dropped unless its confirmation changed.
* A wallet that answers after the identity was changed links a proof for the old
  one (`OnboardingWizard.tsx:276`).  If saving fails after the account has its
  identity, the gate leaves the wizard, its error is not seen and the wallet is
  not linked.
* A lookup under way when the record is published writes the old answer into the
  cache that was just invalidated (`ensHandles.ts:185`).  The page of a handle
  that is left and entered again while its lookup is pending stays at "Looking
  up".

Service worker, relay, bot:

* The push handler saves the worker's variables without loading them
  (`sw.js:192-195`): a worker woken by a push overwrites the saved configuration
  ("Persist config to CacheStorage so it survives SW restarts", line 22).  The
  definition `ConfigSurvives` states it.
* The check compares counts: a message that comes after others were drained raises
  no alert.  A worker that is configured before it has loaded forgets its last
  alert.  The push subscription is lost when the relay restarts, an envelope that
  is enqueued again pushes again, and `skypier:push-subscription-changed` has no
  listener.
* A reservation closed before it was counted is clamped at zero and the gauge
  stays too high.  `connectedPeers` counts connections.  The status file stays
  after the relay has stopped.  A process that dies in the first save leaves the
  operator's configuration truncated, or with a key that does not decode; no later
  process starts with it.
* A second signal lets a bot exit while its node still stops.  What arrives while
  the node starts finds no peer id and no listener.  A node that failed to start
  stays set.

## 6. Not modelled

* End-to-end encryption, backup and identity generation: calls of WebCrypto and
  libraries without state between calls.  That they are awaited matters and is in
  `ChatState`, `DeliveryStatus` and `Onboarding`.
* Wire formats, frames and normalisation of stored data: types and conversions.
* Rendering: pages, bubbles, lists, previews of links, the network graph.
* The app-shell cache of the service worker: browser plumbing.
* Relay reservations: the log and the probe appear as timers only
  (`SessionLifecycle`) and as the step of `dialPeerById` that waits for one
  (`RelaysPrepared`); their outcome is libp2p's.
* The content of messages: the cap of 300 per chat is left out, reactions and
  replies are the marks of `ChatState`.
* The request half of the synchronisation, discovery through the DHT, and the
  commands a bot answers.

## 7. Plan

1. The cap on messages in `ChatState`; the synchronisation of two devices.
2. Two sessions over one persisted queue in `SessionLifecycle`; relay reservations.
3. Liveness of `PeerDialing` and `Onboarding`.
