----------------------------- MODULE Reminders -----------------------------
(***************************************************************************)
(* The reminders of one user (src/src/reminders/): the table of reminders, *)
(* the recurring schedules and the periodic passes of the server processes *)
(* that turn schedules into reminders and reminders into due notices.      *)
(*                                                                         *)
(* Rows are kept in the order of their insertion and named by it.  Time is *)
(* counted in units of no particular length; every process and the         *)
(* database read one clock.                                                *)
(*                                                                         *)
(* A statement of its own is one action.  Of a transaction, the statement  *)
(* that takes its row locks is one action and its commit another.          *)
(*                                                                         *)
(* Operators named Fault_... are deliberate errors (see WorkflowGraph).    *)
(***************************************************************************)
EXTENDS Integers, Sequences, FiniteSets

CONSTANTS
    Workers,      \* the server processes, each with a ReminderScheduler
    Schedules,    \* the recurring rules that may be created
    Every,        \* the period of each schedule
    Phase,        \* the offset of its occurrences in the period
    Editors,      \* requests to pause, resume or cancel a schedule, each made once
    Margin,       \* least distance of a new date from now (one minute in the code)
    PassLimit,    \* rows one pass handles (100 in the code)
    Times,        \* the dates a reminder may be asked for
    MaxOneOff,    \* bound: reminders created by hand
    MaxFailures,  \* bound: passes that fail or die half way
    MaxTime       \* bound: the clock stops here

ASSUME ScheduleAssumption ==
    /\ IsFiniteSet(Schedules)
    /\ Every \in [Schedules -> Nat \ {0}]
    /\ Phase \in [Schedules -> Nat]
ASSUME ReminderBoundsAssumption ==
    /\ Margin \in Nat
    /\ PassLimit \in Nat \ {0}
    /\ Times \subseteq Nat
    /\ MaxOneOff \in Nat /\ MaxFailures \in Nat /\ MaxTime \in Nat

VARIABLES
    clock,      \* the present
    rows,       \* the table cortex_reminders
    schedules,  \* the table cortex_reminder_schedules
    passes,     \* the pass each worker has in flight
    edits,      \* the requests about schedules
    failures,   \* passes that have failed
    resumed,    \* history: the date each schedule was last created or resumed with
    overtaken   \* history: schedules resumed with a date older than their last reminder

reminderVars ==
    <<clock, rows, schedules, passes, edits, failures, resumed, overtaken>>
tables == <<rows, schedules>>

----------------------------------------------------------------------------
(* Data *)

NoSchedule == "none"

\* CLOSED stands for DONE and CANCELLED, which differ in nothing but their names.
RowStatuses == {"PENDING", "DUE", "CLOSED"}

Open == {"PENDING", "DUE"}

\* first is a history field: the date the row was inserted with.  Nothing reads created,
\* which is kept for the rows of a schedule only.
Rows ==
    [ status   : RowStatuses,
      due      : Nat,
      first    : Nat,
      created  : Nat,
      schedule : Schedules \cup {NoSchedule} ]

NewRow(due, at, s) ==
    [ status |-> "PENDING", due |-> due, first |-> due, created |-> at,
      schedule |-> s ]

ScheduleStatuses == {"NONE", "ACTIVE", "PAUSED", "CANCELLED"}

NoPass == [pc |-> "idle", at |-> 0, batch |-> {}]

Passes ==
    [ pc    : {"idle", "generate", "insert", "mark"},
      at    : Nat,
      batch : SUBSET Schedules ]

NoEdit == [pc |-> "done", action |-> "none", schedule |-> NoSchedule, at |-> 0]

Edits ==
    [pc : {"new", "done"}, action : {"none"}, schedule : {NoSchedule}, at : {0}]
    \cup
    [pc : {"asked"}, action : {"pause", "resume", "cancel"}, schedule : Schedules, at : Nat]

\* The first occurrence strictly after t, of those in every unit of the period.
NextAfter(t, every, phase) == t + 1 + ((phase - t - 1) % every)

NextRecurrenceAfter(t, s) == NextAfter(t, Every[s], Phase[s])

\* The choices of at most limit of the candidates, earliest first; ties are open.
Earliest(candidates, date, limit) ==
    { chosen \in SUBSET candidates :
        /\ Cardinality(chosen) <= limit
        /\ chosen # candidates => Cardinality(chosen) = limit
        /\ \A x \in chosen, y \in candidates \ chosen : date[x] <= date[y] }

ReminderTypeOK ==
    /\ clock \in 0..MaxTime
    /\ rows \in Seq(Rows)
    /\ schedules \in [Schedules -> [status : ScheduleStatuses, next : Nat]]
    /\ passes \in [Workers -> Passes]
    /\ edits \in [Editors -> Edits]
    /\ failures \in 0..MaxFailures
    /\ resumed \in [Schedules -> Nat]
    /\ overtaken \subseteq Schedules

ReminderInit ==
    /\ clock = 0
    /\ rows = << >>
    /\ schedules = [s \in Schedules |-> [status |-> "NONE", next |-> 0]]
    /\ passes = [w \in Workers |-> NoPass]
    /\ edits = [e \in Editors |-> [NoEdit EXCEPT !.pc = "new"]]
    /\ failures = 0
    /\ resumed = [s \in Schedules |-> 0]
    /\ overtaken = {}

Tick ==
    /\ clock < MaxTime
    /\ clock' = clock + 1
    /\ UNCHANGED <<tables, passes, edits, failures, resumed, overtaken>>

----------------------------------------------------------------------------
(* The owner: reminders by hand, and the end of a reminder *)

OneOff == {i \in DOMAIN rows : rows[i].schedule = NoSchedule}

Create(due) ==
    /\ Cardinality(OneOff) < MaxOneOff
    /\ due >= clock + Margin
    /\ rows' = Append(rows, NewRow(due, 0, NoSchedule))
    /\ UNCHANGED <<clock, schedules, passes, edits, failures, resumed, overtaken>>

\* held are the rows that a transaction in progress has locked: the statement waits.
Close(i, held) ==
    /\ i \notin held
    /\ rows[i].status \in Open
    /\ rows' = [rows EXCEPT ![i].status = "CLOSED"]
    /\ UNCHANGED <<clock, schedules, passes, edits, failures, resumed, overtaken>>

----------------------------------------------------------------------------
(* The owner: schedules *)

CreateSchedule(s) ==
    /\ schedules[s].status = "NONE"
    /\ schedules' = [schedules EXCEPT ![s] =
         [status |-> "ACTIVE", next |-> NextRecurrenceAfter(clock + Margin, s)]]
    /\ resumed' = [resumed EXCEPT ![s] = clock]
    /\ UNCHANGED <<clock, rows, passes, edits, failures, overtaken>>

\* The handler reads the clock, then waits for a connection and for the row.
AskEdit(e, s, action) ==
    /\ edits[e].pc = "new"
    /\ schedules[s].status # "NONE"
    /\ edits' = [edits EXCEPT ![e] =
         [pc |-> "asked", action |-> action, schedule |-> s, at |-> clock]]
    /\ UNCHANGED <<clock, tables, passes, failures, resumed, overtaken>>

Fault_NothingIsLocked(ws) == {}

\* The schedules whose rows a pass has locked.
LockedBy(ws) == UNION {passes[w].batch : w \in ws}

Allowed(action, status) ==
    \/ action = "pause" /\ status = "ACTIVE"
    \/ action = "resume" /\ status = "PAUSED"
    \/ action = "cancel" /\ status # "CANCELLED"

StatusAfter(action) ==
    CASE action = "pause" -> "PAUSED" [] action = "resume" -> "ACTIVE"
      [] OTHER -> "CANCELLED"

Edited(action, at, s) ==
    [ status |-> StatusAfter(action),
      next   |-> IF action = "resume" THEN NextRecurrenceAfter(at + Margin, s)
                 ELSE schedules[s].next ]

TransitionSchedule(e) ==
    LET s == edits[e].schedule
        action == edits[e].action
        at == edits[e].at
    IN  /\ edits[e].pc = "asked"
        /\ s \notin LockedBy(Workers)
        /\ edits' = [edits EXCEPT ![e] = NoEdit]
        /\ IF Allowed(action, schedules[s].status)
           THEN /\ schedules' = [schedules EXCEPT ![s] = Edited(action, at, s)]
                /\ resumed' = IF action = "resume"
                              THEN [resumed EXCEPT ![s] = at] ELSE resumed
                /\ overtaken' =
                     IF /\ action = "resume"
                        /\ \E i \in DOMAIN rows :
                             rows[i].schedule = s /\ rows[i].created > at
                     THEN overtaken \cup {s} ELSE overtaken
           ELSE UNCHANGED <<schedules, resumed, overtaken>>
        /\ UNCHANGED <<clock, rows, passes, failures>>

----------------------------------------------------------------------------
(* A pass of ReminderScheduler: generateDue, then markDue, with one date *)

CheckDue(w) ==
    /\ passes[w].pc = "idle"
    /\ passes' = [passes EXCEPT ![w] = [pc |-> "generate", at |-> clock, batch |-> {}]]
    /\ UNCHANGED <<clock, tables, edits, failures, resumed, overtaken>>

Fault_MissedSchedules(at) ==
    {s \in Schedules : schedules[s].status = "ACTIVE" /\ schedules[s].next < at}

DueSchedules(at) ==
    {s \in Schedules : schedules[s].status = "ACTIVE" /\ schedules[s].next <= at}

\* SKIP LOCKED: rows of another pass are left out, those of an edit may be.  Without rows
\* the transaction ends.
LockDue(w) ==
    /\ passes[w].pc = "generate"
    /\ \E skipped \in SUBSET {edits[e].schedule : e \in {x \in Editors : edits[x].pc = "asked"}} :
         LET free == DueSchedules(passes[w].at) \ (skipped \cup LockedBy(Workers))
             date == [s \in free |-> schedules[s].next]
         IN  \E batch \in Earliest(free, date, PassLimit) :
               passes' = [passes EXCEPT ![w].pc = IF batch = {} THEN "mark" ELSE "insert",
                                        ![w].batch = batch]
    /\ UNCHANGED <<clock, tables, edits, failures, resumed, overtaken>>

Fault_NoConflicts(s, due) == FALSE

\* The unique index on (schedule_id, due_at); the insertion does nothing on a conflict.
Conflicts(s, due) ==
    \E i \in DOMAIN rows : rows[i].schedule = s /\ rows[i].due = due

\* The same rows in every order that inserts earlier occurrences first.
Orders(S) ==
    { order \in [1..Cardinality(S) -> S] :
        /\ \A i, j \in 1..Cardinality(S) : i # j => order[i] # order[j]
        /\ \A i, j \in 1..Cardinality(S) :
             i < j => schedules[order[i]].next <= schedules[order[j]].next }

Fault_FollowsTheMissedDate(at, s) == NextRecurrenceAfter(schedules[s].next, s)

\* The date a schedule is moved on to by a pass that began at the given one.
Following(at, s) == NextRecurrenceAfter(at, s)

GenerateDue(w) ==
    LET at == passes[w].at
        batch == passes[w].batch
        inserted == {s \in batch : ~Conflicts(s, schedules[s].next)}
    IN  /\ passes[w].pc = "insert"
        /\ \E order \in Orders(inserted) :
             rows' = rows \o [k \in DOMAIN order |->
                                NewRow(schedules[order[k]].next, at, order[k])]
        /\ schedules' = [s \in Schedules |->
             IF s \in batch THEN [schedules[s] EXCEPT !.next = Following(at, s)]
             ELSE schedules[s]]
        /\ passes' = [passes EXCEPT ![w].pc = "mark", ![w].batch = {}]
        /\ UNCHANGED <<clock, edits, failures, resumed, overtaken>>

Fault_DueBefore(at) == {i \in DOMAIN rows : rows[i].status = "PENDING" /\ rows[i].due < at}

DueRows(at) == {i \in DOMAIN rows : rows[i].status = "PENDING" /\ rows[i].due <= at}

MarkDue(w, held) ==
    LET at == passes[w].at
        date == [i \in DOMAIN rows |-> rows[i].due]
    IN  /\ passes[w].pc = "mark"
        /\ \E batch \in Earliest(DueRows(at) \ held, date, PassLimit) :
             rows' = [i \in DOMAIN rows |->
               IF i \in batch THEN [rows[i] EXCEPT !.status = "DUE"] ELSE rows[i]]
        /\ passes' = [passes EXCEPT ![w] = NoPass]
        /\ UNCHANGED <<clock, schedules, edits, failures, resumed, overtaken>>

\* A lost connection or the death of the process: a transaction is rolled back.
FailPass(w) ==
    /\ passes[w].pc # "idle"
    /\ failures < MaxFailures
    /\ failures' = failures + 1
    /\ passes' = [passes EXCEPT ![w] = NoPass]
    /\ UNCHANGED <<clock, tables, edits, resumed, overtaken>>

Pass(w, held) == CheckDue(w) \/ LockDue(w) \/ GenerateDue(w) \/ MarkDue(w, held)

Owner(held) ==
    \/ \E due \in Times : Create(due)
    \/ \E i \in DOMAIN rows : Close(i, held)
    \/ \E s \in Schedules : CreateSchedule(s)
    \/ \E e \in Editors, s \in Schedules, action \in {"pause", "resume", "cancel"} :
         AskEdit(e, s, action)

ReminderStep(held) ==
    \/ Tick
    \/ Owner(held)
    \/ \E e \in Editors : TransitionSchedule(e)
    \/ \E w \in Workers : Pass(w, held) \/ FailPass(w)

ReminderNext == ReminderStep({})

ReminderSpec == ReminderInit /\ [][ReminderNext]_reminderVars

FairReminderSpec ==
    /\ ReminderSpec
    /\ \A w \in Workers : WF_reminderVars(Pass(w, {}))
    /\ \A e \in Editors : WF_reminderVars(TransitionSchedule(e))

----------------------------------------------------------------------------
(* Properties *)

\* The replicas never insert one occurrence of a schedule twice, whatever the order of
\* passes and edits, failed passes and resumptions with an old date
\* (PostgresRecurrenceRepository.generateDue).
OccurrenceOnce ==
    \A i, j \in DOMAIN rows :
        rows[i].schedule # NoSchedule /\ rows[i].schedule = rows[j].schedule
            /\ rows[i].first = rows[j].first => i = j

\* After an outage a schedule yields one overdue reminder, not one for every missed
\* date: the next one is due after the pass that inserted the previous one.  A schedule
\* resumed with a date older than its last reminder is left out: it starts over from
\* that date (PostgresRecurrenceRepository.generateDue, transition).
NoFlood ==
    \A i, j \in DOMAIN rows :
        /\ i < j
        /\ rows[i].schedule # NoSchedule
        /\ rows[i].schedule = rows[j].schedule
        /\ rows[i].schedule \notin overtaken
        => rows[j].first > rows[i].created

\* Resuming skips what was missed during the pause: no reminder is inserted for a date
\* up to the creation or the last resumption (PostgresRecurrenceRepository.transition).
SkipsPausedTimes ==
    [][ \A i \in DOMAIN rows' \ DOMAIN rows :
          LET s == rows'[i].schedule
          IN  s # NoSchedule => rows'[i].first > resumed[s] ]_reminderVars

\* Reminders whose date has passed become due, through a backlog larger than a pass and
\* passes that fail (ReminderScheduler.checkDue, markDue).
BacklogIsCleared ==
    LET Overdue == \E i \in DOMAIN rows : rows[i].status = "PENDING" /\ rows[i].due <= clock
    IN  Overdue ~> ~Overdue

\* Active schedules whose date has passed are handled or are no longer active
\* (ReminderScheduler.checkDue, generateDue).
SchedulesMoveOn ==
    LET Missed == \E s \in Schedules :
                    schedules[s].status = "ACTIVE" /\ schedules[s].next <= clock
    IN  Missed ~> ~Missed
=============================================================================
