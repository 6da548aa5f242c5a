---------------------------- MODULE UnreadCheck ----------------------------
(***************************************************************************)
(* How a device learns of messages that wait at the relay while its page   *)
(* is closed or hidden: the service worker apps/web/public/sw.js asks the  *)
(* relay how many envelopes there are (relay/internal/node/unread_http.go) *)
(* and raises an alert when there are more than it saw last; and the relay *)
(* pushes, if the page has posted its push subscription.                   *)
(*                                                                         *)
(* The browser, which is external, kills and wakes the worker at will.     *)
(* What outlives it is the copy of its variables in CacheStorage.  A step  *)
(* is what runs between two awaits; a task is one event that is handled,   *)
(* and several are handled at a time: the page posts its configuration to  *)
(* the worker twice, and polls, syncs and recoveries follow.  The time of  *)
(* the last alert is replaced by whether the two minutes that suppress the *)
(* next one are over.                                                      *)
(***************************************************************************)
EXTENDS Naturals, FiniteSets

CONSTANTS
    Tasks,      \* bound on events handled at the same time
    MaxUnread,  \* bound on the messages that wait
    MaxPushes   \* bound on pushes under way

VARIABLES
    unread,      \* what UnreadCount finds at the relay
    subscribed,  \* the relay has the device's push subscription
    pushes,      \* pushes under way to the device
    page,        \* the page is open
    granted,     \* it may show notifications
    mem,         \* the worker's variables
    saved,       \* their copy in CacheStorage, or None
    tasks,       \* where each event stands
    configured,  \* a configuration of the page was saved
    alerts,      \* alerts the checks raised since the two minutes passed last
    forgot       \* the time of the last alert was lost in that time

relay == <<unread, subscribed, pushes>>
vars == <<relay, page, granted, mem, saved, tasks, configured, alerts, forgot>>

Memory == [config : BOOLEAN, count : 0..MaxUnread, recent : BOOLEAN]
Blank == [config |-> FALSE, count |-> 0, recent |-> FALSE]
None == [none |-> TRUE]
Idle == [at |-> "idle"]

Init ==
    /\ unread = 0 /\ subscribed = FALSE /\ pushes = 0
    /\ page = FALSE /\ granted = FALSE
    /\ mem = Blank /\ saved = None
    /\ tasks = [t \in Tasks |-> Idle]
    /\ configured = FALSE /\ alerts = 0 /\ forgot = FALSE

-----------------------------------------------------------------------------
\* The relay and the page.

\* A message is accepted, new or known: the device is pushed to.
Enqueue(new) ==
    /\ unread' = IF new THEN unread + 1 ELSE unread
    /\ unread' <= MaxUnread
    /\ pushes' = IF subscribed /\ pushes < MaxPushes THEN pushes + 1 ELSE pushes
    /\ UNCHANGED <<subscribed, page, granted, mem, saved, tasks, configured, alerts, forgot>>

\* The page drains the mailbox, or envelopes expire.
Dwindle ==
    /\ unread' \in 0..unread
    /\ UNCHANGED <<subscribed, pushes, page, granted, mem, saved, tasks, configured, alerts, forgot>>

RelayRestart ==
    /\ unread' = 0 /\ subscribed' = FALSE
    /\ UNCHANGED <<pushes, page, granted, mem, saved, tasks, configured, alerts, forgot>>

\* A page that opens asks for the permission to notify, once and for all.
Open ==
    /\ ~page /\ page' = TRUE
    /\ granted' \in {granted, TRUE}
    /\ UNCHANGED <<relay, mem, saved, tasks, configured, alerts, forgot>>

Close ==
    /\ page /\ page' = FALSE
    /\ UNCHANGED <<relay, granted, mem, saved, tasks, configured, alerts, forgot>>

\* ensurePushSubscriptionIfConfigured, and the event that posts it to the relay.
Subscribe ==
    /\ page /\ granted
    /\ subscribed' = TRUE
    /\ UNCHANGED <<unread, pushes, page, granted, mem, saved, tasks, configured, alerts, forgot>>

-----------------------------------------------------------------------------
\* The worker.

To(t, task) == tasks' = [tasks EXCEPT ![t] = task]

\* runUnreadCheck in task t, with these variables: what is saved is loaded only
\* if they hold no configuration.
Check(t, variables) ==
    To(t, IF variables.config THEN [at |-> "asking"] ELSE [at |-> "loading", data |-> saved])

\* A sync, a poll, a recovery, an activation: checks that anything may set off.
Begin(t) ==
    /\ tasks[t] = Idle
    /\ Check(t, mem)
    /\ UNCHANGED <<relay, page, granted, mem, saved, configured, alerts, forgot>>

\* The page's configuration arrives; the page posts none without an identity, and
\* the endpoint is a constant of the build, so it is never empty.  A worker that
\* has just been woken has not loaded what was saved.
Configure(t) ==
    /\ page /\ tasks[t] = Idle
    /\ mem' = [mem EXCEPT !.config = TRUE]
    /\ To(t, [at |-> "configuring"])
    /\ forgot' = (forgot \/ (saved # None /\ saved.recent /\ ~mem.recent))
    /\ UNCHANGED <<relay, page, granted, saved, configured, alerts>>

Configured(t) ==
    /\ tasks[t].at = "configuring"
    /\ saved' = mem /\ configured' = TRUE
    /\ Check(t, mem)
    /\ UNCHANGED <<relay, page, granted, mem, alerts, forgot>>

\* loadUnreadConfig: what was read replaces the variables, whatever they hold by
\* now.
Loaded(t) ==
    /\ tasks[t].at = "loading"
    /\ LET data == tasks[t].data
           loaded == IF data = None THEN mem ELSE [data EXCEPT !.config = @ \/ mem.config]
       IN  /\ mem' = loaded
           /\ forgot' = (forgot \/ (mem.recent /\ ~loaded.recent))
           /\ To(t, IF loaded.config THEN [at |-> "asking"] ELSE Idle)
    /\ UNCHANGED <<relay, page, granted, saved, configured, alerts>>

\* The relay counts; the answer is on its way.
Answer(t) ==
    /\ tasks[t].at = "asking"
    /\ To(t, [at |-> "answered", count |-> unread])
    /\ UNCHANGED <<relay, page, granted, mem, saved, configured, alerts, forgot>>

\* It took more than 8 seconds, or failed.
AnswerFails(t) ==
    /\ tasks[t].at \in {"asking", "answered"}
    /\ To(t, Idle)
    /\ UNCHANGED <<relay, page, granted, mem, saved, configured, alerts, forgot>>

Answered(t) ==
    /\ tasks[t].at = "answered"
    /\ mem' = [mem EXCEPT !.count = tasks[t].count]
    /\ To(t, [at |-> "counted", more |-> tasks[t].count > mem.count])
    /\ UNCHANGED <<relay, page, granted, saved, configured, alerts, forgot>>

\* Mutant of Counted: the time of the alert is noted once it is shown.
CountedNotesLater(t) ==
    /\ tasks[t].at = "counted"
    /\ saved' = mem
    /\ IF tasks[t].more /\ ~mem.recent
       THEN To(t, [at |-> "alerting", push |-> FALSE]) /\ UNCHANGED mem
       ELSE To(t, Idle) /\ UNCHANGED mem
    /\ UNCHANGED <<relay, page, granted, configured, alerts, forgot>>

\* The count is saved, and an alert prepared if it rose and the last one is two
\* minutes old.
Counted(t) ==
    /\ tasks[t].at = "counted"
    /\ saved' = mem
    /\ IF tasks[t].more /\ ~mem.recent
       THEN To(t, [at |-> "alerting", push |-> FALSE]) /\ mem' = [mem EXCEPT !.recent = TRUE]
       ELSE To(t, Idle) /\ UNCHANGED mem
    /\ UNCHANGED <<relay, page, granted, configured, alerts, forgot>>

\* A push always alerts.
Push(t) ==
    /\ pushes > 0 /\ pushes' = pushes - 1
    /\ tasks[t] = Idle
    /\ mem' = [mem EXCEPT !.recent = TRUE]
    /\ To(t, [at |-> "alerting", push |-> TRUE])
    /\ UNCHANGED <<unread, subscribed, page, granted, saved, configured, alerts, forgot>>

\* The variables are saved, then the alert is shown.
Alert(t) ==
    /\ tasks[t].at = "alerting"
    /\ saved' = mem
    /\ To(t, [tasks[t] EXCEPT !.at = "showing"])
    /\ UNCHANGED <<relay, page, granted, mem, configured, alerts, forgot>>

\* Alerts are counted up to the second; without the permission there are none.
Shown(t) ==
    /\ tasks[t].at = "showing"
    /\ alerts' = IF tasks[t].push \/ ~granted \/ alerts = 2 THEN alerts ELSE alerts + 1
    /\ To(t, Idle)
    /\ UNCHANGED <<relay, page, granted, mem, saved, configured, forgot>>

\* The browser ends the worker and starts another at the next event.
Kill ==
    /\ mem' = Blank
    /\ tasks' = [t \in Tasks |-> Idle]
    /\ forgot' = (forgot \/ (mem.recent /\ (saved = None \/ ~saved.recent)))
    /\ UNCHANGED <<relay, page, granted, saved, configured, alerts>>

\* SKYPIER_UNREAD_CHECK_DEDUPE_MS is over, long after the last alert was shown.
Old(data) == IF data = None THEN None ELSE [data EXCEPT !.recent = FALSE]
TwoMinutesPass ==
    /\ \A t \in Tasks : tasks[t].at \notin {"alerting", "showing"}
    /\ mem' = Old(mem) /\ saved' = Old(saved)
    /\ tasks' = [t \in Tasks |-> IF tasks[t].at = "loading" THEN [tasks[t] EXCEPT !.data = Old(@)] ELSE tasks[t]]
    /\ alerts' = 0 /\ forgot' = FALSE
    /\ UNCHANGED <<relay, page, granted, configured>>

Handle(t) ==
    \/ Begin(t) \/ Configure(t) \/ Configured(t) \/ Loaded(t)
    \/ Answer(t) \/ AnswerFails(t) \/ Answered(t) \/ Counted(t)
    \/ Push(t) \/ Alert(t) \/ Shown(t)

Next ==
    \/ \E new \in BOOLEAN : Enqueue(new)
    \/ Dwindle \/ RelayRestart
    \/ Open \/ Close \/ Subscribe
    \/ \E t \in Tasks : Handle(t)
    \/ Kill \/ TwoMinutesPass

Spec == Init /\ [][Next]_vars

-----------------------------------------------------------------------------

\* Where a task stands, and what it remembers there.
Task ==
    [at : {"idle", "configuring", "asking"}]
    \cup [at : {"loading"}, data : Memory \cup {None}]
    \cup [at : {"answered"}, count : 0..MaxUnread]
    \cup [at : {"counted"}, more : BOOLEAN]
    \cup [at : {"alerting", "showing"}, push : BOOLEAN]

\* A task that asks the relay belongs to a worker with a configuration.
TypeOK ==
    /\ unread \in 0..MaxUnread /\ pushes \in 0..MaxPushes
    /\ mem \in Memory /\ saved \in Memory \cup {None}
    /\ \A t \in Tasks : tasks[t].at \in {"configuring", "asking", "answered", "counted"} => mem.config
    /\ tasks \in [Tasks -> Task] /\ alerts \in 0..2
    /\ {page, granted, subscribed, configured, forgot} \subseteq BOOLEAN

\* Checks that run beside each other, in one life of the worker or in several,
\* alert once in two minutes, unless the time of the last alert was forgotten:
\* the worker died before it was saved, or its successor was configured by the
\* page before it loaded it, or two loads crossed.
OneAlert == alerts <= 1 \/ forgot

\* "Persist config to CacheStorage so it survives SW restarts": once the page's
\* configuration was saved, any later worker finds it.
ConfigSurvives == configured => saved # None /\ saved.config

\* The tasks that alert, and those among them that a check set off.
Alerting == {t \in Tasks : tasks[t].at \in {"alerting", "showing"}}
OwnAlerts == {t \in Alerting : ~tasks[t].push}
Recent(data) == data # None /\ data.recent

\* Unless it was forgotten, the time of the last alert is in memory or saved: in
\* memory while an alert is under way and once the worker has a configuration,
\* there or in what is being loaded.  And then the alerts are one.
TimeIsKept ==
    ~forgot =>
        /\ Alerting # {} => mem.recent
        /\ alerts > 0 => mem.recent \/ Recent(saved)
        /\ Recent(saved) /\ mem.config => mem.recent
        /\ \A t \in Tasks : tasks[t].at = "loading" /\ Recent(saved) =>
              Recent(tasks[t].data) \/ mem.recent
        /\ \A t, u \in OwnAlerts : t = u
        /\ alerts > 0 => OwnAlerts = {}

IInv == TypeOK /\ TimeIsKept /\ OneAlert
=============================================================================
