--------------------------- MODULE ReminderWatch ---------------------------
(***************************************************************************)
(* The reminder watch of a tab (src/web/app.js) and the route it polls: a  *)
(* silent baseline when it is switched on, then a poll every 30 seconds    *)
(* that announces the reminders which have fallen due since.  A poll that  *)
(* was sent before the watch was switched off may be answered after it is  *)
(* on again.  The scheduler itself is Reminders; here a pass just marks a  *)
(* batch of the rows due by the time it began, and requests may share it.  *)
(* A pass is one step, so that no other has rows locked for it to skip.    *)
(* One clock serves tab and server.                                        *)
(***************************************************************************)
EXTENDS Tab, Integers, FiniteSets

CONSTANTS
    Notes,          \* the reminders of the user
    DueAt,          \* the date of each
    ListLimit,      \* rows one answer holds (100 in the code)
    PassLimit,      \* rows one pass marks (100 in the code)
    LastMoment      \* bound: the clock stops here

ASSUME ReminderWatchAssumption ==
    /\ DueAt \in [Notes -> Nat]
    /\ ListLimit \in Nat \ {0} /\ PassLimit \in Nat \ {0}
    /\ LastMoment \in Nat

VARIABLES
    moment,             \* the clock
    row,                \* row[n]: status and triggered_at of a reminder
    reminderWatch,      \* whether reminderWatchTimer is set
    browserReminders,   \* browserRemindersEnabled
    seen,               \* reminderWatchSeen
    startedAt,          \* reminderWatchStartedAt
    inFlight,           \* the poll in flight (reminderWatchInFlight)
    reading,            \* the request for the baseline
    announced,          \* history: the reminders announced so far
    notices,            \* the reminders the last step announced
    base                \* history: what was DUE when the latest baseline was read

reminderWatchVars ==
    <<doing, moment, row, reminderWatch, browserReminders, seen, startedAt, inFlight, reading,
      announced, notices, base>>

Nothing == [pc |-> "none", at |-> 0, rows |-> {}]

DueNotes == {n \in Notes : row[n].status = "DUE"}

\* ORDER BY due_at LIMIT: the earliest of S, which ties may leave open.
Earliest(S, limit) ==
    {chosen \in SUBSET S :
        /\ Cardinality(chosen) = IF Cardinality(S) < limit THEN Cardinality(S) ELSE limit
        /\ \A n \in chosen, m \in S \ chosen : DueAt[n] <= DueAt[m]}

\* list: the rows with view "due".
Listings == Earliest(DueNotes, ListLimit)

Listed(chosen) ==
    [pc |-> "listed", at |-> moment, rows |-> {[id |-> n, at |-> row[n].at] : n \in chosen}]

\* markDue, of a pass that began at `at`: the rows it may choose, and what they become.
Batches(at) ==
    Earliest({n \in Notes : row[n].status = "PENDING" /\ DueAt[n] <= at}, PassLimit)

MarkedDue(batch, at) ==
    [n \in Notes |-> IF n \in batch THEN [status |-> "DUE", at |-> at] ELSE row[n]]

\* GET /api/reminders checks first, then lists: it may have been waiting for this pass.
Checked(request) ==
    IF request.pc = "sent" THEN {request, [Nothing EXCEPT !.pc = "checked"]} ELSE {request}

Fault_BacklogIsAnnounced(rows) == {r \in rows : r.id \notin seen}

\* selectNewDueReminders.
NewlyDue(rows) == {r \in rows : r.id \notin seen /\ r.at >= startedAt}

----------------------------------------------------------------------------
ReminderWatchInit ==
    /\ moment = 0
    /\ row = [n \in Notes |-> [status |-> "PENDING", at |-> 0]]
    /\ reminderWatch = FALSE
    /\ browserReminders = FALSE
    /\ seen = {}
    /\ startedAt = 0
    /\ inFlight = Nothing
    /\ reading = Nothing
    /\ announced = {}
    /\ notices = {}
    /\ base = {}

tabState == <<reminderWatch, browserReminders, seen, startedAt>>
history == <<announced, base>>

Later ==
    /\ moment < LastMoment
    /\ moment' = moment + 1
    /\ UNCHANGED <<doing, row, tabState, inFlight, reading, history>>

\* checkDue: a pass that the timer or a request began now or a moment ago.  The requests that
\* find it in flight wait for it instead of beginning their own.
CheckDue(at) ==
    /\ at \in {moment - 1, moment} \cap Nat
    /\ \E batch \in Batches(at) : row' = MarkedDue(batch, at)
    /\ reading' \in Checked(reading)
    /\ inFlight' \in Checked(inFlight)
    /\ UNCHANGED <<doing, moment, tabState, history>>

\* The user marks a reminder done, or cancels it, here or elsewhere.
CloseNote(n) ==
    /\ row[n].status # "CLOSED"
    /\ row' = [row EXCEPT ![n].status = "CLOSED"]
    /\ UNCHANGED <<doing, moment, tabState, inFlight, reading, history>>

----------------------------------------------------------------------------
(* Switching *)

\* The request for the baseline is on its way.
Activate ==
    /\ ~reminderWatch
    /\ Starts("baseline")
    /\ reading' = [Nothing EXCEPT !.pc = "sent"]
    /\ UNCHANGED <<moment, row, tabState, inFlight, history>>

BaselineListed ==
    /\ reading.pc = "checked"
    /\ \E chosen \in Listings : reading' = Listed(chosen)
    /\ base' = DueNotes
    /\ UNCHANGED <<doing, moment, row, tabState, inFlight, announced>>

\* What the list holds is known, and only what is triggered from now on counts: the answer
\* comes at least a millisecond after the list was read.
BaselineArrives ==
    /\ reading.pc = "listed"
    /\ moment > reading.at
    /\ Ends("baseline")
    /\ seen' = {r.id : r \in reading.rows}
    /\ startedAt' = moment
    /\ reminderWatch' = TRUE
    /\ reading' = Nothing
    /\ UNCHANGED <<moment, row, browserReminders, inFlight, history>>

BaselineFails ==
    /\ reading.pc # "none"
    /\ Ends("baseline")
    /\ reading' = Nothing
    /\ UNCHANGED <<moment, row, tabState, inFlight, history>>

\* A poll in flight is left to itself.
Deactivate ==
    /\ reminderWatch
    /\ AtOnce
    /\ reminderWatch' = FALSE
    /\ seen' = {}
    /\ UNCHANGED <<moment, row, browserReminders, startedAt, inFlight, reading, history>>

\* The user, asked by the browser, gives the permission.
BrowserAllows ==
    /\ ~browserReminders
    /\ AtOnce
    /\ browserReminders' = TRUE
    /\ UNCHANGED <<moment, row, reminderWatch, seen, startedAt, inFlight, reading, history>>

SilenceBrowser ==
    /\ browserReminders
    /\ AtOnce
    /\ browserReminders' = FALSE
    /\ UNCHANGED <<moment, row, reminderWatch, seen, startedAt, inFlight, reading, history>>

----------------------------------------------------------------------------
(* pollDueReminders: the timer fires, and an earlier poll is not in flight *)

PollReminders ==
    /\ reminderWatch
    /\ inFlight.pc = "none"
    /\ inFlight' = [Nothing EXCEPT !.pc = "sent"]
    /\ UNCHANGED <<doing, moment, row, tabState, reading, history>>

PollListed ==
    /\ inFlight.pc = "checked"
    /\ \E chosen \in Listings : inFlight' = Listed(chosen)
    /\ UNCHANGED <<doing, moment, row, tabState, reading, history>>

\* The answer counts for nothing when the watch is off by now.
PollArrives ==
    /\ inFlight.pc = "listed"
    /\ inFlight' = Nothing
    /\ IF reminderWatch
       THEN /\ seen' = seen \cup {r.id : r \in inFlight.rows}
            /\ notices' = IF browserReminders THEN {r.id : r \in NewlyDue(inFlight.rows)} ELSE {}
       ELSE notices' = {} /\ UNCHANGED seen
    /\ announced' = announced \cup notices'
    /\ UNCHANGED <<doing, moment, row, reminderWatch, browserReminders, startedAt, reading, base>>

PollFails ==
    /\ inFlight.pc # "none"
    /\ inFlight' = Nothing
    /\ UNCHANGED <<doing, moment, row, tabState, reading, history>>

Unannounced ==
    \/ Later
    \/ \E at \in 0..LastMoment : CheckDue(at)
    \/ \E n \in Notes : CloseNote(n)
    \/ Activate \/ BaselineListed \/ BaselineArrives \/ BaselineFails
    \/ Deactivate \/ BrowserAllows \/ SilenceBrowser
    \/ PollReminders \/ PollListed \/ PollFails

ReminderWatchNext ==
    \/ PollArrives
    \/ Unannounced /\ notices' = {}

----------------------------------------------------------------------------
(* Properties *)

\* However often the watch is switched off and on, and however late a poll is answered, a
\* reminder is announced once at most, and never when it was already marked DUE as the
\* baseline was read, whether the baseline had room for it or not.  It does not
\* say that a row which was overdue by then, but not marked yet, stays silent: it is announced.
WatchIsQuiet ==
    [][\A n \in notices' : n \notin announced \cup base]_reminderWatchVars
=============================================================================
