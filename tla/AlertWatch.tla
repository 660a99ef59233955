----------------------------- MODULE AlertWatch -----------------------------
(***************************************************************************)
(* The alert centre of a tab (src/web/app.js): the list of alerts, their   *)
(* acknowledgement, and the opt-in watch that polls the inbox of Alerts    *)
(* and raises browser notices.  All readers share one request: who asks    *)
(* while it is in flight waits for its answer, whatever view it was sent   *)
(* for.  Queries of the server and answers take their time, and may fail.  *)
(***************************************************************************)
EXTENDS Alerts, Tab, Sequences, FiniteSets

CONSTANTS
    MaxKnown,     \* keys a tab remembers (500 in the code)
    MaxShown,     \* notices one snapshot raises (3 in the code)
    Limits        \* the numbers of runs to look at that a user may select (20, 50, 100)

ASSUME WatchAssumption ==
    /\ MaxKnown \in Nat \ {0} /\ MaxShown \in Nat \ {0}
    /\ Limits # {} /\ Limits \subseteq 1..MaxKnown     \* a snapshot is never too much
    /\ IsFiniteSet(Workflows)     \* an answer lists them

VARIABLES
    recent,           \* the runs in the order of updated_at, the newest first
    alertWatch,       \* whether alertWatchTimer is set
    browserAlerts,    \* browserAlertsEnabled
    baseline,         \* alertSnapshotInitialized
    known,            \* observedAlertKeys, in the order of their insertion
    alertRequest,     \* the request that all readers share
    alertList,        \* the alerts on the screen
    acking,           \* the key of the acknowledgement in progress
    notice,           \* the keys the last step raised a browser notice for
    listed,           \* history: the keys that were ever on the screen
    forgotten         \* history: the keys that were dropped from known

watchVars == <<alertWatch, browserAlerts, baseline, known, alertList, listed, forgotten>>
inboxVars == <<alertVars, recent>>
alertWatchVars == <<inboxVars, doing, watchVars, alertRequest, acking, notice>>

NoRequest == [pc |-> "none", view |-> "all", limit |-> 0, keys |-> {}, alerts |-> {}]

\* The operations that wait for the shared request.
Readers == {"load", "watch", "reload"}

\* The orders the server may list the alerts in.
Orders(S) ==
    {s \in [1..Cardinality(S) -> S] : \A i, j \in DOMAIN s : s[i] = s[j] => i = j}

ElementsOf(s) == {s[i] : i \in DOMAIN s}

KnownKeys == ElementsOf(known)

\* The first n, or the last n, of a sequence.
FirstOf(s, n) == SubSeq(s, 1, IF Len(s) < n THEN Len(s) ELSE n)
LastOf(s, n) == IF Len(s) <= n THEN s ELSE SubSeq(s, Len(s) - n + 1, Len(s))

\* Array.filter: the elements of a sequence that belong to T, in their order.
Among(s, T) ==
    LET kept[i \in 0..Len(s)] ==
          IF i = 0 THEN << >>
          ELSE IF s[i] \in T THEN Append(kept[i - 1], s[i]) ELSE kept[i - 1]
    IN  kept[Len(s)]

\* The alerts of the newest `limit` runs.
Newest(limit) == {k \in Candidates : k.workflow \in ElementsOf(FirstOf(recent, limit))}

Unknown(alerts) == {a \in ElementsOf(alerts) : a.key \notin KnownKeys}

\* selectNewOperationalAlerts: what a snapshot brings that deserves a notice.
Fresh(alerts) ==
    IF baseline
    THEN FirstOf(Among(alerts, {a \in Unknown(alerts) : ~a.acknowledged}), MaxShown)
    ELSE << >>

Fault_OnlyFreshAreKnown(alerts) ==
    LET new == Fresh(alerts) IN known \o [i \in DOMAIN new |-> new[i].key]

\* And the keys it adds: all the snapshot's, whether a notice is raised or not.
WithKeys(alerts) ==
    LET new == Among(alerts, Unknown(alerts)) IN known \o [i \in DOMAIN new |-> new[i].key]

Notified(alerts) ==
    IF browserAlerts /\ alertWatch THEN {a.key : a \in ElementsOf(Fresh(alerts))} ELSE {}

----------------------------------------------------------------------------
WatchInit ==
    /\ AlertsInit
    /\ recent \in Orders(Workflows)
    /\ alertWatch = FALSE
    /\ browserAlerts = FALSE
    /\ baseline = FALSE
    /\ known = << >>
    /\ alertRequest = NoRequest
    /\ alertList = {}
    /\ acking = {}
    /\ notice = {}
    /\ listed = {}
    /\ forgotten = {}

\* loadAlerts: a new request, for the view and the number of runs the user has selected by
\* now, or the one that is in flight, whatever that was sent for.  A selection counts even
\* when the tab is busy and drops its own reading of the list.
LoadAlerts ==
    IF alertRequest.pc = "none"
    THEN \E view \in {"all", "unread"}, limit \in Limits :
            alertRequest' = [NoRequest EXCEPT !.pc = "sent", !.view = view, !.limit = limit]
    ELSE UNCHANGED alertRequest

\* The buttons and selections that read the list again.
Refresh ==
    /\ Starts("load")
    /\ LoadAlerts
    /\ UNCHANGED <<inboxVars, watchVars, acking>>

\* Switching on reads a baseline first; switching off is done at once.
WatchOn ==
    /\ ~alertWatch
    /\ Starts("watch")
    /\ LoadAlerts
    /\ UNCHANGED <<inboxVars, watchVars, acking>>

WatchOff ==
    /\ alertWatch
    /\ AtOnce
    /\ alertWatch' = FALSE
    /\ UNCHANGED <<inboxVars, browserAlerts, baseline, known, alertList, listed, forgotten,
                   alertRequest, acking>>

\* The user, asked by the browser, gives the permission.
BrowserOn ==
    /\ ~browserAlerts
    /\ AtOnce
    /\ browserAlerts' = TRUE
    /\ UNCHANGED <<inboxVars, alertWatch, baseline, known, alertList, listed, forgotten,
                   alertRequest, acking>>

BrowserOff ==
    /\ browserAlerts
    /\ AtOnce
    /\ browserAlerts' = FALSE
    /\ UNCHANGED <<inboxVars, alertWatch, baseline, known, alertList, listed, forgotten,
                   alertRequest, acking>>

Poll ==
    /\ alertWatch
    /\ alertRequest.pc = "none"
    /\ LoadAlerts
    /\ UNCHANGED <<inboxVars, doing, watchVars, acking>>

----------------------------------------------------------------------------
(* The request at the server, and its answer *)

ListRuns ==
    /\ alertRequest.pc = "sent"
    /\ alertRequest' = [alertRequest EXCEPT !.pc = "listed", !.limit = 0,
                          !.keys = Newest(alertRequest.limit)]
    /\ UNCHANGED <<inboxVars, doing, watchVars, acking>>

ListAcknowledged ==
    /\ alertRequest.pc = "listed"
    /\ alertRequest' = [alertRequest EXCEPT !.pc = "answered", !.view = "all", !.keys = {},
                          !.alerts = Inbox(alertRequest.keys, alertRequest.view)]
    /\ UNCHANGED <<inboxVars, doing, watchVars, acking>>

\* The answer is shown and compared with the known keys; then whoever waits goes on.
SnapshotArrives ==
    /\ alertRequest.pc = "answered"
    /\ \E alerts \in Orders(alertRequest.alerts) :
          /\ known' = LastOf(WithKeys(alerts), MaxKnown)
          /\ notice' = Notified(alerts)
          /\ forgotten' = forgotten \cup (ElementsOf(WithKeys(alerts)) \ ElementsOf(known'))
    /\ baseline' = TRUE
    /\ alertList' = alertRequest.alerts
    /\ listed' = listed \cup {a.key : a \in alertRequest.alerts}
    /\ alertRequest' = NoRequest
    /\ alertWatch' = (alertWatch \/ doing = "watch")
    /\ doing' = IF doing \in Readers THEN "nothing" ELSE doing
    /\ UNCHANGED <<inboxVars, browserAlerts, acking>>

RequestFails ==
    /\ alertRequest.pc # "none"
    /\ alertRequest' = NoRequest
    /\ doing' = IF doing \in Readers THEN "nothing" ELSE doing
    /\ UNCHANGED <<inboxVars, watchVars, acking>>

----------------------------------------------------------------------------
(* An acknowledgement *)

Acknowledge(a) ==
    /\ ~a.acknowledged
    /\ Starts("acknowledge")
    /\ acking' = {a.key}
    /\ UNCHANGED <<inboxVars, watchVars, alertRequest>>

\* The server reads the run: the key it will store is the run's, if that is the one asked for.
ReadRun(key) ==
    /\ IF StillCurrent(key)
       THEN GoesOn("acknowledge", "record") /\ acking' = {KeyOf(key.workflow)}
       ELSE Ends("acknowledge") /\ acking' = {}
    /\ UNCHANGED <<inboxVars, watchVars, alertRequest>>

\* The row is inserted; the answer comes and the list is read again, or the answer is lost.
RecordAcknowledgement(key) ==
    /\ Record(key)
    /\ acking' = {}
    /\ \/ GoesOn("record", "reload") /\ LoadAlerts
       \/ Ends("record") /\ UNCHANGED alertRequest
    /\ UNCHANGED <<run, recent, watchVars>>

AcknowledgementFails ==
    /\ Ends("acknowledge") \/ Ends("record")
    /\ acking' = {}
    /\ UNCHANGED <<inboxVars, watchVars, alertRequest>>

RunMoves(w, s) ==
    /\ WorkflowMoves(w, s)
    /\ recent' = <<w>> \o Among(recent, Workflows \ {w})
    /\ UNCHANGED <<doing, watchVars, alertRequest, acking>>

Quietly ==
    \/ Refresh \/ WatchOn \/ WatchOff \/ BrowserOn \/ BrowserOff \/ Poll
    \/ ListRuns \/ ListAcknowledged \/ RequestFails
    \/ \E a \in alertList : Acknowledge(a)
    \/ \E key \in acking : ReadRun(key) \/ RecordAcknowledgement(key)
    \/ AcknowledgementFails
    \/ \E w \in Workflows, s \in RunStatuses : RunMoves(w, s)

AlertWatchNext ==
    \/ SnapshotArrives
    \/ Quietly /\ notice' = {}

----------------------------------------------------------------------------
(* Properties *)

\* A browser notice is about an alert this tab had not listed before, or had listed and since
\* forgotten (500 later keys drive one out of its memory), whoever asked for the answer and
\* for whatever view.  It does not say that the alert is younger than the watch: one that
\* only a wider limit lists, or that was forgotten, may be old and is notified all the same.
NoticesAreNew ==
    [][\A k \in notice' : k \notin listed \ forgotten]_alertWatchVars

\* Nobody acknowledges what was not on the screen: a run that moves on between the answer
\* and the click, or while the acknowledgement is under way, keeps its new alert unread.
AcknowledgedWasShown == acks \subseteq listed
=============================================================================
