------------------------------- MODULE Agenda -------------------------------
(***************************************************************************)
(* Plans to move reminders out of conflicts with Google events             *)
(* (src/src/integrations/agenda-*.ts and their routes): drafted from the   *)
(* agenda, reviewed by the owner, applied to the reminder by a second      *)
(* confirmation, and undone within a time window.                          *)
(*                                                                         *)
(* The reminders themselves, the schedules and the passes over them are    *)
(* those of module Reminders.  Google Calendar is read only: what it       *)
(* answers is chosen anew at every read.  Only plans about reminders are   *)
(* kept: a plan about a Google event is drafted and reviewed in the same   *)
(* way, and every later route refuses it.                                  *)
(*                                                                         *)
(* A request that creates, applies or undoes a plan takes the date, reads  *)
(* the agenda, and runs one transaction in two steps: one takes its locks  *)
(* and reads, the next one writes and commits.                             *)
(***************************************************************************)
EXTENDS Reminders, Functions

CONSTANTS
    Requests,       \* requests in flight: POST create, apply and undo
    Events,         \* events Google may report: records with a start and an end
    DayLength,      \* units of a civil day
    Slots,          \* times of the day at which a plan may put a reminder
    SlotLength,     \* what has to be free after that time (30 minutes in the code)
    ReviewWindow,   \* life of a proposal (15 minutes in the code)
    UndoWindow,     \* how long a move can be undone (30 minutes in the code)
    Quota,          \* proposals that may wait for review (50 in the code)
    MaxPlans        \* bound: proposals created

ASSUME AgendaAssumption ==
    /\ \A e \in Events : e.start \in Nat /\ e.end \in Nat /\ e.start < e.end
    /\ DayLength \in Nat \ {0}
    /\ Slots \subseteq Nat
    /\ SlotLength \in Nat \ {0} /\ ReviewWindow \in Nat /\ UndoWindow \in Nat
    /\ Quota \in Nat /\ MaxPlans \in Nat

VARIABLES
    plans,     \* the table cortex_agenda_proposals: a draft, with its status PENDING_REVIEW,
               \* APPROVED, REJECTED, APPLIED or REVERTED, when it expires and when it was applied
    requests   \* the handler of each request, "idle", "fetched", "begun" or "checked"

agendaVars == <<plans, requests>>
vars == <<reminderVars, agendaVars>>

----------------------------------------------------------------------------
(* Data *)

\* What draftAgendaPlan returns: the reminder, the event it collides with, and the move.
Drafts == [target : Nat, conflict : Events, from : Nat, to : Nat]

NoPlan == 0

\* plan is the proposal applied or undone, drafts holds the one being created; now is the date
\* the handler took; began is that of the reading of the agenda and, from the lock on, that of
\* BEGIN, which NOW() returns throughout the transaction.
NoRequest ==
    [pc |-> "idle", kind |-> "none", plan |-> NoPlan, drafts |-> {}, now |-> 0, began |-> 0]

AgendaInit ==
    /\ ReminderInit
    /\ plans = << >>
    /\ requests = [q \in Requests |-> NoRequest]

----------------------------------------------------------------------------
(* Reading the agenda: getUnifiedAgenda, analyzeAgendaConflicts, draftAgendaPlan *)

\* One answer of Google: whether it is connected and complete, the events with a known
\* duration, and whether something else stands in the way of a move: an event that lasts
\* all day or nobody knows how long, or one that is the reminder's own twin.
Answers == [complete : BOOLEAN, events : SUBSET Events, unsure : BOOLEAN]

Within(t, start, length) == start <= t /\ t < start + length

Overlaps(e, start, length) == e.start < start + length /\ start < e.end

\* The occurrences of active schedules, as far as the model's time goes.
Projected ==
    { t \in 0..(MaxTime + DayLength) :
        \E s \in Schedules :
          /\ schedules[s].status = "ACTIVE"
          /\ t >= schedules[s].next
          /\ (t - schedules[s].next) % Every[s] = 0 }

\* Open reminders other than i, and projected ones, in the slot that starts at t.
OccupiedByRow(i, t) ==
    \E j \in DOMAIN rows \ {i} :
        rows[j].status \in Open /\ Within(rows[j].due, t, SlotLength)

Occupied(i, t, google) ==
    \/ OccupiedByRow(i, t)
    \/ \E u \in Projected : Within(u, t, SlotLength)
    \/ \E e \in google.events : Overlaps(e, t, SlotLength)

Candidates(i, google, now) ==
    LET day == rows[i].due \div DayLength
    IN  { t \in {day * DayLength + slot : slot \in Slots} :
            /\ t >= now + Margin
            /\ t # rows[i].due
            /\ ~Occupied(i, t, google) }

InConflict(i, e, google) ==
    /\ i \in DOMAIN rows
    /\ rows[i].status \in Open
    /\ e \in google.events
    /\ e.start <= rows[i].due /\ rows[i].due < e.end

Fault_PastRemindersAreMoved(i, e, google, now) ==
    IF ~google.complete \/ google.unsure \/ ~InConflict(i, e, google)
    THEN {}
    ELSE LET free == Candidates(i, google, now)
         IN  { [target |-> i, conflict |-> e, from |-> rows[i].due, to |-> t] :
                 t \in {u \in free : \A v \in free : u <= v} }

\* The drafts that would be made of this conflict now: one at most.
DraftAgendaPlan(i, e, google, now) ==
    IF ~google.complete \/ google.unsure \/ ~InConflict(i, e, google) \/ rows[i].due <= now
    THEN {}
    ELSE LET free == Candidates(i, google, now)
         IN  { [target |-> i, conflict |-> e, from |-> rows[i].due, to |-> t] :
                 t \in {u \in free : \A v \in free : u <= v} }

----------------------------------------------------------------------------
(* Locks *)

InTransaction(kinds) == {q \in Requests : requests[q].pc = "checked" /\ requests[q].kind \in kinds}

Fault_NoLock == TRUE

\* pg_advisory_xact_lock(user, 22022) around the quota, (user, 23023) around moves.
QuotaLockFree == InTransaction({"create"}) = {}

MoveLockFree == InTransaction({"apply", "undo"}) = {}

\* SELECT ... FOR UPDATE: the reminders that transactions hold.
Held == {plans[requests[q].plan].target : q \in InTransaction({"apply", "undo"})}

End(q) == requests' = [requests EXCEPT ![q] = NoRequest]

Locked(q, began) == requests' = [requests EXCEPT ![q].pc = "checked", ![q].began = began]

\* BEGIN fell anywhere between the reading of the agenda and the lock.
BeginDates(q) == requests[q].began..clock

----------------------------------------------------------------------------
(* POST /api/agenda/proposals *)

CreateProposal(q) ==
    /\ requests[q].pc = "idle"
    /\ Len(plans) + Cardinality({p \in Requests : requests[p].kind = "create"}) < MaxPlans
    /\ requests' = [requests EXCEPT ![q] =
         [NoRequest EXCEPT !.pc = "fetched", !.kind = "create", !.now = clock]]
    /\ UNCHANGED <<reminderVars, plans>>

DraftProposal(q, i, google) ==
    /\ requests[q].pc = "fetched" /\ requests[q].kind = "create"
    /\ \E e \in google.events : \E draft \in DraftAgendaPlan(i, e, google, requests[q].now) :
         requests' = [requests EXCEPT ![q].pc = "begun", ![q].drafts = {draft}, ![q].began = clock]
    /\ UNCHANGED <<reminderVars, plans>>

Pending(at) == {k \in DOMAIN plans : plans[k].status = "PENDING_REVIEW" /\ plans[k].expires > at}

CheckQuota(q) ==
    /\ requests[q].pc = "begun" /\ requests[q].kind = "create"
    /\ QuotaLockFree
    /\ \E began \in BeginDates(q) :
         IF Cardinality(Pending(began)) >= Quota THEN End(q) ELSE Locked(q, began)
    /\ UNCHANGED <<reminderVars, plans>>

InsertProposal(q) ==
    /\ requests[q].pc = "checked" /\ requests[q].kind = "create"
    /\ \E d \in requests[q].drafts :
         plans' = Append(plans,
           [ target |-> d.target, conflict |-> d.conflict, from |-> d.from, to |-> d.to,
             status |-> "PENDING_REVIEW", expires |-> requests[q].now + ReviewWindow,
             applied |-> 0 ])
    /\ End(q)
    /\ UNCHANGED reminderVars

----------------------------------------------------------------------------
(* POST /api/agenda/proposals/:id/approve, reject *)

Review(k, status) ==
    /\ plans[k].status = "PENDING_REVIEW"
    /\ plans[k].expires > clock
    /\ plans' = [plans EXCEPT ![k].status = status]
    /\ UNCHANGED <<reminderVars, requests>>

----------------------------------------------------------------------------
(* POST /api/agenda/proposals/:id/apply *)

FetchToApply(q, k) ==
    /\ requests[q].pc = "idle"
    /\ plans[k].status = "APPROVED"
    /\ plans[k].expires > clock
    /\ requests' = [requests EXCEPT ![q] =
         [NoRequest EXCEPT !.pc = "fetched", !.kind = "apply", !.plan = k, !.now = clock]]
    /\ UNCHANGED <<reminderVars, plans>>

\* The same draft would be made now.
ValidateInternalApplication(q, google) ==
    LET plan == plans[requests[q].plan]
        now == requests[q].now
    IN  /\ requests[q].pc = "fetched" /\ requests[q].kind = "apply"
        /\ IF /\ plan.to >= now + Margin
              /\ \E d \in DraftAgendaPlan(plan.target, plan.conflict, google, now) :
                   d.from = plan.from /\ d.to = plan.to
           THEN requests' = [requests EXCEPT ![q].pc = "begun", ![q].began = clock]
           ELSE End(q)
        /\ UNCHANGED <<reminderVars, plans>>

Fault_DueIsEnough(i, due) == rows[i].due = due

\* The reminder is as the plan wants it: asked under its lock and again by the UPDATE.
Untouched(i, due) == rows[i].status = "PENDING" /\ rows[i].due = due

Movable(i, from, to) == Untouched(i, from) /\ ~OccupiedByRow(i, to)

Applicable(plan, now) ==
    /\ plan.status = "APPROVED"
    /\ plan.expires > now
    /\ Movable(plan.target, plan.from, plan.to)
    /\ plan.to >= now + Margin

CheckApplication(q) ==
    LET plan == plans[requests[q].plan]
    IN  /\ requests[q].pc = "begun" /\ requests[q].kind = "apply"
        /\ MoveLockFree
        /\ IF Applicable(plan, requests[q].now)
           THEN \E began \in BeginDates(q) : Locked(q, began)
           ELSE End(q)
        /\ UNCHANGED <<reminderVars, plans>>

Move(i, to) ==
    /\ rows' = [rows EXCEPT ![i].due = to]
    /\ UNCHANGED <<clock, schedules, passes, edits, failures, resumed, overtaken>>

\* The mark of the plan is lost with the connection: two transactions instead of one.
Fault_PlanIsMarkedLater(q) ==
    LET k == requests[q].plan
    IN  /\ requests[q].pc = "checked" /\ requests[q].kind = "apply"
        /\ Untouched(plans[k].target, plans[k].from)
        /\ Move(plans[k].target, plans[k].to)
        /\ End(q)
        /\ UNCHANGED plans

ApplyInternalReminder(q) ==
    LET k == requests[q].plan
        began == requests[q].began
    IN  /\ requests[q].pc = "checked" /\ requests[q].kind = "apply"
        /\ IF /\ Untouched(plans[k].target, plans[k].from)
              /\ plans[k].to > began + Margin
              /\ plans[k].status = "APPROVED" /\ plans[k].expires > began
           THEN /\ Move(plans[k].target, plans[k].to)
                /\ plans' = [plans EXCEPT ![k].status = "APPLIED",
                                          ![k].applied = requests[q].now]
           ELSE UNCHANGED <<reminderVars, plans>>
        /\ End(q)

----------------------------------------------------------------------------
(* POST /api/agenda/history/:id/undo *)

InUndoWindow(plan, now) == plan.applied <= now /\ now < plan.applied + UndoWindow

FetchToUndo(q, k) ==
    /\ requests[q].pc = "idle"
    /\ plans[k].status = "APPLIED"
    /\ requests' = [requests EXCEPT ![q] =
         [NoRequest EXCEPT !.pc = "fetched", !.kind = "undo", !.plan = k, !.now = clock]]
    /\ UNCHANGED <<reminderVars, plans>>

\* The preview, computed again for the request that undoes.
PreviewReminderUndo(q, google) ==
    LET plan == plans[requests[q].plan]
        now == requests[q].now
        i == plan.target
    IN  /\ requests[q].pc = "fetched" /\ requests[q].kind = "undo"
        /\ IF /\ InUndoWindow(plan, now)
              /\ plan.from > now + Margin
              /\ google.complete /\ ~google.unsure
              /\ Untouched(i, plan.to)
              /\ ~Occupied(i, plan.from, google)
           THEN requests' = [requests EXCEPT ![q].pc = "begun", ![q].began = clock]
           ELSE End(q)
        /\ UNCHANGED <<reminderVars, plans>>

Undoable(plan, now) ==
    /\ plan.status = "APPLIED"
    /\ InUndoWindow(plan, now)
    /\ plan.from > now + Margin
    /\ Movable(plan.target, plan.to, plan.from)

CheckUndo(q) ==
    LET plan == plans[requests[q].plan]
    IN  /\ requests[q].pc = "begun" /\ requests[q].kind = "undo"
        /\ MoveLockFree
        /\ IF Undoable(plan, requests[q].now)
           THEN \E began \in BeginDates(q) : Locked(q, began)
           ELSE End(q)
        /\ UNCHANGED <<reminderVars, plans>>

UndoInternalReminder(q) ==
    LET k == requests[q].plan
        began == requests[q].began
    IN  /\ requests[q].pc = "checked" /\ requests[q].kind = "undo"
        /\ IF /\ Untouched(plans[k].target, plans[k].to)
              /\ plans[k].from > began + Margin
              /\ plans[k].status = "APPLIED" /\ InUndoWindow(plans[k], began)
           THEN /\ Move(plans[k].target, plans[k].from)
                /\ plans' = [plans EXCEPT ![k].status = "REVERTED"]
           ELSE UNCHANGED <<reminderVars, plans>>
        /\ End(q)

\* A read or a statement fails, or the process dies: a transaction is rolled back.
AbandonRequest(q) ==
    /\ requests[q].pc # "idle"
    /\ End(q)
    /\ UNCHANGED <<reminderVars, plans>>

----------------------------------------------------------------------------

CreateStep(q) ==
    \/ CreateProposal(q)
    \/ \E i \in DOMAIN rows, google \in Answers : DraftProposal(q, i, google)
    \/ CheckQuota(q)
    \/ InsertProposal(q)

ApplyStep(q) ==
    \/ \E k \in DOMAIN plans : FetchToApply(q, k)
    \/ \E google \in Answers : ValidateInternalApplication(q, google)
    \/ CheckApplication(q)
    \/ ApplyInternalReminder(q)

UndoStep(q) ==
    \/ \E k \in DOMAIN plans : FetchToUndo(q, k)
    \/ \E google \in Answers : PreviewReminderUndo(q, google)
    \/ CheckUndo(q)
    \/ UndoInternalReminder(q)

AgendaNext ==
    \/ ReminderStep(Held) /\ UNCHANGED agendaVars
    \/ \E q \in Requests : CreateStep(q) \/ ApplyStep(q) \/ UndoStep(q) \/ AbandonRequest(q)
    \/ \E k \in DOMAIN plans, status \in {"APPROVED", "REJECTED"} : Review(k, status)

AgendaSpec == AgendaInit /\ [][AgendaNext]_vars

----------------------------------------------------------------------------
(* Properties *)

\* Two open reminders that plans have moved, or moved back, never fall on the same
\* instant: whichever was moved last found the other out of its slot, and no two moves
\* overlap (pg_advisory_xact_lock and the occupied query of applyInternalReminder and
\* undoInternalReminder).
PlacedApart ==
    LET Moved == {plans[k].target : k \in {p \in DOMAIN plans :
                                             plans[p].status \in {"APPLIED", "REVERTED"}}}
    IN  \A i, j \in Moved :
          i # j /\ rows[i].status \in Open /\ rows[j].status \in Open
            => rows[i].due # rows[j].due

\* The history of moves accounts for the date of every reminder: it is the date it was
\* given at first plus the displacements of the plans that stand as applied (the move and
\* the mark of the plan are one transaction in applyInternalReminder and
\* undoInternalReminder).
LedgerBalances ==
    LET Displacement == [k \in DOMAIN plans |-> plans[k].to - plans[k].from]
        Standing(i) == {k \in DOMAIN plans : plans[k].target = i /\ plans[k].status = "APPLIED"}
    IN  \A i \in DOMAIN rows :
          rows[i].due = rows[i].first + SumFunctionOnSet(Displacement, Standing(i))

\* No plan moves an occurrence of a schedule: it is overdue when it is inserted, so that
\* even a draft made of it with an older date is refused when it is to be applied
\* (draftAgendaPlan, validateInternalApplication).
OccurrencesStay ==
    \A i \in DOMAIN rows : rows[i].schedule # NoSchedule => rows[i].due = rows[i].first

\* Only a pending reminder is moved: not one that a pass has marked due, or that the owner
\* has closed, since the plan was validated (applyInternalReminder, undoInternalReminder).
OnlyPendingRowsMove ==
    [][ \A i \in DOMAIN rows :
          rows'[i].due # rows[i].due =>
            rows[i].status = "PENDING" /\ rows'[i].status = "PENDING" ]_vars

\* Requests that create proposals at the same time do not exceed the quota
\* (PostgresAgendaProposalStore.create).
QuotaHolds == Cardinality(Pending(clock)) <= Quota
=============================================================================
