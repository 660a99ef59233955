# Formal models of Project CORTEX

CORTEX is a personal assistant server: a language model calls tools on its owner's behalf, risky calls wait for
the owner's approval, multi-step *workflows* and *tasks* survive restarts, and an autonomous monitor, reminders and a
Google Calendar integration run beside them. One Node process serves HTTP requests concurrently, several
processes may share one PostgreSQL database, and any of them may die between two awaited calls. The owner works in a
browser console whose requests are answered late, in another order, or not at all. This directory specifies the parts
where those facts matter in TLA+, model-checks them with TLC, and proves with TLAPS, for every value of the constants, each
safety and action property that a passing run checks.

Paths below are relative to the repository; the TypeScript sources are in `src/src/`, the console in `src/web/`.

## 1. Inventory

| Component | State it keeps | Operations | What makes it correct | Status |
|---|---|---|---|---|
| Workflow definitions, status (`workflows/types.ts`) | none (pure) | parse/validate, `workflowStatus`, `readyWorkflowSteps` | every accepted definition can be run to an end; status and ready steps agree | `WorkflowGraph` |
| Branches and bindings (`workflows/conditions.ts`, `bindings.ts`) | none (pure) | `evaluateWorkflowBranches`, `resolveStepInput` | decisions do not depend on the array order; cascades are complete | `WorkflowBranches` |
| Workflow engine and store (`workflows/engine.ts`, `store.ts`) | one versioned row per run | `create`, `advance`, `authorizeRecovery`, `reconcile` | a tool is called at most once per step and only when authorized; decided steps and finished runs are final; runs finish | `WorkflowEngine`, `SupervisedRun` |
| Approvals (`approval/`) | requests with subject, expiry, approved/rejected/consumed | `request`, `approve`, `reject`, `consume` | one use, for exactly one subject, never after rejection or expiry | `Approvals` |
| Neuron tasks (`neuron/`, `memory/`) | one unversioned row per task: a plan and its steps | `respond`, resume, `reconcile` | no lost call is replayed; completed work is not repeated; a task blocked by an interrupted call can be reconciled | `NeuronTasks` (partly) |
| Tool executor, policy (`tools/executor.ts`, `security/policy.ts`) | none | `execute` with a 15 s timeout | refuses without permission or approval | inside the two above |
| Permissions (`permissions/`) | grants per user | grant, revoke | a request acts on grants it has read | `ChangePermissions` (partly) |
| Audit (`audit/`) | append-only records | record, list | every call is audited unless its handler dies | `audited` (partly) |
| Workflow timeline (`workflows/timeline.ts`) | the last 256 events of a run | append, diagnose | numbering survives the trimming; the events explain the run; the advice can be followed | `WorkflowTimeline` |
| Reminders, recurrences (`reminders/`) | reminders PENDING/DUE/DONE/CANCELLED; schedules | create, transition, `markDue`, `generateDue`, pause/resume/cancel | one reminder per occurrence over all processes; no flood after an outage; nothing for paused times; what is due is handled | `Reminders` |
| Agenda proposals and undo (`integrations/agenda-*.ts`) | proposals, reminders moved by them | propose, review, apply, undo, expire | moves are on record, never collide, touch pending reminders only; quota of 50 | `Agenda` |
| Alerts (`alerts/`) | acknowledged keys (run, version, status) | inbox, acknowledge | an acknowledgement hides exactly what the owner saw | `Alerts`, `AlertWatch` |
| Autonomous monitor (`autonomy/`) | settings with the next date, session lock, notices | timer, check now, configure, read | one check at a time over all replicas; notices of one state a cooldown apart; a lasting alert is notified; nothing stays locked | `Monitor` |
| Google Calendar (`integrations/google-calendar.ts`) | OAuth states, tokens | start, finish, refresh, disconnect | what a disconnection erased stays erased; states are used once | `GoogleCalendar` (partly) |
| Conflicts, free slots, priorities (`integrations/agenda-conflicts.ts`, `agenda-reorganization.ts`, `priorities/`) | none (pure) | sweep, search, rank | agree with their definitions by quantifiers | the slot search in `Agenda` (partly); the rest not (section 8) |
| Console (`web/app.js`) with its routes in `server.ts` | the tab's operation in progress, lists on the screen, watches, known keys, last reply | click, poll, confirm, acknowledge | no notice of what was listed before; nothing acknowledged unseen; nothing saved twice | `Tab`, `AlertWatch`, `ReminderWatch`, `ChatPanel`, `Console` (partly) |
| Reports, drafted proposals, activity, export, phrase parsing, other routes and panels, tools, LLM | display or text only | | | not modelled (section 8) |

**How they interact.** The HTTP layer hands each request to `NeuronCore` or `WorkflowEngine`. Both check the
owner's permissions, ask `ApprovalEngine` for requests and consume them, call the tool through `ToolExecutor`, and
save the outcome. Every arrow is an awaited call to PostgreSQL, to a tool or to the model; between two of them any
other request runs, and a handler goes on with the copy it loaded. The workflow engine protects itself with a
version compare-and-swap; tasks have no such protection. Reminders are shared by the owner, the recurrence
scheduler and the agenda proposals; workflow runs are read by the monitor, the alerts and the priorities. A tab of the
console lets one operation of its user run at a time, while its timers and its chat go on beside it.

**What is hard.** Overlapping requests on stale copies; a crash between recording an intent, performing it and recording
its outcome; an approval consumed by a request that loses a race; a tool that times out but still acts; an
operator's attestation racing with a stalled handler; branches, joins, handlers and failures that leave steps nobody
can run; a row saved without looking at what it replaces; a check that dies with its lock; an answer of the server or of
Google that comes after the click that made it obsolete; caches and windows that forget. The list with lines is in `PROJECT.json` (`hazards`).

## 2. Modules

| Module | Models | State and actions ↔ code |
|---|---|---|
| `WorkflowGraph` | `types.ts` | operators over a definition `d` and a `run`; steps are array positions, because `find` and `sort` depend on them |
| `WorkflowBranches` | `conditions.ts`, `bindings.ts` | `Pass` is one pass over the array with its early `break`, `Passes` the loop around it, at most `MaxPasses` times; `Branches` is what they decide |
| `Approvals` | `approval/` | `approvals` is the table; `Request`, `Approve`, `Reject`, `Consume`, `Expire` |
| `SupervisedRun` | what the engine promises | the abstract specification: one decision at a time on the run as it is |
| `WorkflowEngine` | `engine.ts`, `store.ts` | `store` is the row, `req[r]` a handler with the copy it loaded; one action per awaited call, named by `req[r].pc` |
| `NeuronTasks` | `core.ts`, `planner.ts`, `task.ts` | `task` is the row, `req[r]` a handler with its planner; again one action per awaited call |
| `Reminders` | `reminders/service.ts`, `store.ts`, `recurrence.ts`, `recurrence-store.ts` | `rows` and `schedules` are the tables, `passes[w]` the pass a process has in flight, `edits[e]` a request to pause, resume or cancel |
| `Agenda` | `integrations/agenda-proposal-store.ts`, `agenda-reorganization.ts`, `agenda-undo.ts` and their routes | extends `Reminders`; `plans` is the table of proposals, `requests[q]` a handler that creates, applies or undoes one |
| `WorkflowTimeline` | `timeline.ts` | extends `WorkflowEngine` by the variable `timeline`: every write of the engine appends the events it makes |
| `Alerts` | `alerts/` | `run` is what the engine has written, `acks` the acknowledged keys; `Candidates` and `Inbox` are the two reads of the inbox |
| `Monitor` | `autonomy/` | extends `Alerts`; `settings`, `notices` are tables, `lock` the session lock, `check[p]` the check a process has in flight, one action per query |
| `GoogleCalendar` | `integrations/google-calendar.ts` | `pending` and `credentials` are tables, `call[c]` a request between its statements |
| `Tab` | `action` and `state.busy` in `web/app.js` | `doing` is the operation in progress |
| `AlertWatch`, `ReminderWatch`, `ChatPanel` | the panels of `web/app.js` that keep state across awaits, and the routes they call | a click or a timer, each step of its request at the server, and the answer are actions |
| `Console` | the tab | composes the three panels, `GoogleCalendar` and `Alerts` |
| `MC...` (eight modules) | | constants for TLC |
| `WorkflowBranchProofs` | | TLAPS proofs about the loop of `WorkflowBranches`, with induction and recursion, and about the moves of a run |
| `SupervisedRunProofs` | | TLAPS proofs about `SupervisedRun` |
| `WorkflowEngineProofs` | | TLAPS proofs about `WorkflowEngine`: types, claims, decisions, approvals |
| `WorkflowRefinementProofs` | | TLAPS proofs: the engine's order, audit and refinement of `SupervisedRun`, and `WorkflowTimeline` |
| `NeuronTaskProofs` | | TLAPS proofs about `NeuronTasks` |
| `AgendaProofs` | | TLAPS proofs about `Reminders` and `Agenda` |
| `MonitorProofs` | | TLAPS proofs about `Monitor` |
| `ConsoleProofs` | | TLAPS proofs about the panels of `Console` |

`WorkflowEngine` and `NeuronTasks` instantiate `Approvals`; `WorkflowEngine` extends the two pure modules and
instantiates `SupervisedRun` under the refinement mapping `Serial` (forget versions, approval ids and handlers).
`Agenda` composes with `Reminders`: its next-state relation has every step of the reminders, with the rows that a plan's transaction
holds (`Held`) passed to the two statements that meet such locks. `Monitor` and the alert centre of the console (`AlertWatch`) share the
inbox of `Alerts`.

**The console.** A behaviour of `Console` works in one panel. That loses nothing: the panels' variables are disjoint, and what they share
is `doing`, the tab's one operation. While an operation of another panel is in progress the tab drops clicks, which looks to this
panel like a user who does not click; its timers, its chat and its answers go on either way. `action` itself is in `Tab`: `Starts`, `GoesOn`,
`Ends`. `AlertWatch` models the promise `alertsRequest` that all readers share, whatever view and number of runs they want; `ReminderWatch` a poll that
outlives the watch it was sent for; `ChatPanel` the reply that takes the place of a preview under confirmation. The panel of
Google keeps nothing in the tab, so there the actions are those of the server's requests.

**Atomicity.** JavaScript runs a handler without interruption between two `await`s, so an action is one awaited
store, tool or model call together with the synchronous code after it. The handlers' record fields that no later code
reads are reset, to keep states few. Two calls are merged: `approvals.consume` reads a row and then updates it under a
condition; what it reads (user, tool, hash of the arguments) never changes, so only the update counts. Both copies of
the policy check of one workflow step (in `advance` and in the executor) use the same registry and the same captured grants,
so the second is not repeated.

**Abstraction of data.** A step's output is `absent`, `malformed` (the value asked for is missing), `yes` or `no` (the
condition on it is false or true): all that conditions and bindings tell apart. A tool belongs to its step; its risk is LOW
or HIGH (approval needed) and its permissions a set. The subject of an approval (tool and hash of the arguments) is the
step, or the action of a task. Clock times appear as what they decide: `overdue` (30 s since `startedAt`) and `expired`.
One run, and one task, is modelled at a time: different rows share nothing but permissions and registry, which change
freely here. A crash (`Crash`) drops a handler before or after its call took effect, which also stands for a failed
database connection; `Redeploy` restarts the server with another tool registry.

*Reminders and agenda.* One integer clock is read by all processes and by the database. A statement of its own is one action; of a
transaction, the statement that takes its locks (and what it reads under them) is one action and its writes with the commit
another, so that a failure in between rolls back (`FailPass`, `AbandonRequest`). `BEGIN` falls anywhere between the reading of the
agenda and the lock, and `NOW()` keeps its date. `SKIP LOCKED` leaves out what another pass holds, and may leave out what an edit
is about to change. DONE and CANCELLED are one status, CLOSED; titles are left out, and so are the comparisons of a plan with
the copy the route read, because nothing ever changes those fields. A schedule recurs at a phase of a period: civil time and
time zones are left out (the code supports one zone, without daylight saving since 2019). What Google answers is chosen anew at every
reading: not connected or incomplete, any set of events, something that forbids moves (an all-day event, an event of unknown
length, a reminder merged with its twin). The tables of reminders and schedules are read in one step. `Rows` carries two history
fields, `first` and (for rows by hand) `created`; `resumed` and `overtaken` are history variables.

*Timeline.* An event is its number, kind, step and the two statuses; dates and wording are left out. The events of a write depend
only on the run before and after it, so `WorkflowTimeline` adds a variable to the engine and no action.

*Alerts, monitor and console.* A key is a run, a version and a status. The runs are the engine's: here they only move to other
versions and statuses (`WorkflowMoves`). A step that has just started is no alert for 30 seconds (`grace`). `Monitor` keeps time as
ages and remaining times in units of 30 seconds, so that it has no end: what is older than any cooldown is the same. In `AlertWatch` the order of a
snapshot is left open (the server sorts by priority and date); `recent` is the order of `updated_at`, which every write of a run changes, and
an answer covers the newest `limit` runs. A request takes any limit of `Limits`: a selection made while the tab is busy counts for the next one,
although its own reading is dropped. A request sent before the watch was switched off may be the baseline of the next
watch. `listed` and `forgotten` are history. `ReminderWatch` has one clock for the
tab and the server and assumes that an answer comes at least a millisecond after the list was read; a pass of the scheduler
marks at most `PassLimit` rows, the earliest, by a date it took now or a moment ago, and requests may wait for a pass in flight instead of
beginning one. A pass is one step, so `SKIP LOCKED` skips nothing. In `GoogleCalendar` a token stands for the authorization it was granted by, and
`ended` is history: the authorizations whose tokens or states a disconnection erased.

`Fault_...` operators are deliberate bugs, each next to the definition it replaces; putting one in place must make a
property fail (`mutants` in `PROJECT.json`). No specification uses them.

## 3. Runs

| Run | What it checks | Instance |
|---|---|---|
| `SupervisedRun_all` | for *every* valid definition of three steps (dependencies in any array order, modes, conditions, handlers): at most one step in flight, branch decisions complete and order independent (`BranchesSettle`), recovery only after failure and authorization, and every run finishes, so that there is no dead end | 3 steps: the smallest number with a source, its handler and a third step that joins, follows or feeds them; all outputs and failures |
| `WorkflowEngine_risky` | `AtMostOneInvocation`, `InvocationIsRecorded`, `HighRiskNeedsConsumedApproval`, `ConsumptionClaimsStep`, `DecidedStepsAreFinal`; every call is audited unless its handler died; `WorkflowEngine` implements `SupervisedRun` | 2 handlers, 2 steps with a HIGH-risk one (plain, and as a recovery handler), 2 approvals, 1 crash or redeployment, versions up to 7, `PromptExecution` |
| `WorkflowTimeline_routes` | steps start only after their dependencies; the timeline stays numbered and explains the run (`TimelineExplainsRun`); the advice of the diagnosis can be followed, "decide" included unless the approval was refused | 2 handlers without `PromptExecution`, 4 steps: two branches with a join, conditional recovery, recovery beside a join where the handler needs an approval; one approval, granted, rejected or expired; versions up to 11; 4 stored events instead of 256, so that every run is trimmed |
| `WorkflowEngine_finishes` | `RunFinishes` under fairness, with failures and a crash | 2 handlers, 3 steps with recovery; versions stay below 30, so `MaxVersion` = 40 cuts nothing off; the fourth approval is an orphan of a lost race |
| `WorkflowEngine_refused` | violated: `WaitingStepIsResolved` (finding 1) | 2 steps |
| `NeuronTasks_shared` | approvals are spent once, a task blocked by a PLANNED step can be reconciled and one that waits does so for an approval of its own (`BlockedTaskIsReconcilable`), COMPLETED means done, and without overlaps: no replay of a lost call, no change of a final task, no repetition of a completed step | 3 requests overlapping at will and dying anywhere, a harmless and a risky action, 2 rounds, plans of 2 steps |
| `NeuronTasks_replay` | violated: `NoBlindReplay` (finding 2) | the same with plans of 3 steps and `PatientOperators`: nobody reconciles the task while a request works on it |
| `NeuronTasks_long` | violated: `SavedTaskIsReadable` (finding 3) | readable plans of 2 steps instead of 100 |
| `Reminders_all` | `OccurrenceOnce`, `NoFlood`, `SkipsPausedTimes`; under fairness what is overdue is marked due and due schedules are handled | 2 processes, passes of one row, one failing pass, 1 schedule with an occurrence in every unit, 1 reminder by hand, 2 requests to pause, resume or cancel, 3 dates |
| `Agenda_all` | `PlacedApart`, `LedgerBalances`, `OccurrencesStay`, `OnlyPendingRowsMove`, `QuotaHolds` | 2 requests in flight, dying anywhere, 2 plans, 2 reminders by hand and an occurrence of a schedule within one event, two slots, quota 1, one process |
| `Monitor_all` | `NoticesApart`; under fairness a lasting alert is notified and an overdue monitor recovers | 2 processes, 1 workflow with versions up to 3 in three statuses, two intervals (60 and 90 s), the least cooldown, a check up to 30 s long, one failed query or dead process |
| `Console_all` | `NoticesAreNew`, `AcknowledgedWasShown`, `WatchIsQuiet`, `PreviewSavedOnce`, `ErasedStaysErased` | one tab; 2 workflows with versions up to 3, limits of 1 and 2 runs, 2 known keys, 1 notice a snapshot; 3 reminders, answers of 2, passes of 2, 4 moments; 2 previews, 3 confirmations; 3 authorizations, 2 requests in flight |

**Bounds and why they are enough.** Two handlers suffice for every race of the engine: a third can only meet the
same row in a version that one of the two has left, and the theorems of section 5 hold for any number. `MaxVersion`,
`MaxApprovals` and `MaxCrashes` cap unbounded counters in the guards that *start* something (no bound cuts a handler
short except `MaxApprovals`, which stops it before it creates one more request). The version bounds let each workflow
run to its end with a lost race, an orphaned approval and a rollback on the way. Three requests are what
the hazards of a task take: one that starts it, one that overlaps or dies, one that resumes or reconciles; each
request may ask for an approval, and a request is made once, which bounds approvals and crashes. Plans of two steps
hold a recorded step and the one in progress. `CHECK_DEADLOCK FALSE` is set for workflows and tasks, because runs finish, tasks
end and the bounds stop the rest; reminders and agenda never stop, because passes go on, and are checked for deadlock.

In `Reminders_all` a unit is a day: `Margin`, one minute, counts as 0. Passes of one row make two overdue reminders a
backlog larger than a pass, and three dates with an occurrence in each leave room for an outage that misses one, a pause
and a pass that began before both.

In `Monitor_all` the unit is 30 seconds: the least interval and cooldown of the code are 60 seconds, 2 units; the rate limit, the
grace and the delay after which the monitor counts as overdue are 1 unit each. Ages stop at the cooldown plus the longest check, and
remaining times just past overdue, where nothing changes any more; so time goes on for ever in finitely many states. One
failure suffices to kill the check that was about to notify. Two known keys instead of 500 and one notice instead of three let
a snapshot overflow both; a limit of one run leaves the alerts of an older run to a wider reading; two reminders an answer, or a pass, instead of a hundred leave one out. Two previews are needed for one to take the
other's place; three authorizations for one that is pending, one in exchange and one connected.

In `Agenda_all` the unit is 15 minutes, which keeps the true ratio of the expiry (1 unit), the undo window and the slot
length (2 each); `Margin`, one minute, is less than a unit and counts as 0. The event, the reminders and the two slots
are chosen so that two plans want the same slot and an undo wants back the other reminder's place; the occurrence becomes
overdue when it is inserted, while the handlers hold an older date. Two plans suffice for one to be applied, undone and
met by the other: a state with one plan reverted and the other applied is reached.

Symmetry over the requests is used in the runs that check safety only.

## 4. Liveness and fairness

`WorkflowEngine!FairSpec` assumes weak fairness of each handler's `Proceed` (Node resumes a handler whose call has
answered; every store call and every tool answers, the executor's timeout guarantees the latter), of `Elapse` (time passes), of
approving what is undecided, and of `Operate` (somebody goes on advancing the run, authorizing recoveries and
reconciling: `advance` is manual by design, README.md says "avance manualmente"). Nothing is assumed of crashes, refusals or permissions.
`DiligentClients` and `RefusalsHappen` name the rest: `RunFinishes` holds when clients present the granted approval
of the waiting step and nobody refuses, and finding 1 is what remains otherwise. `PromptExecution` says that a handler which claimed a step calls its tool within the 30 seconds after which operators may reconcile (see section 6). `SupervisedRun!FairSpec` has weak
fairness of `Next` and strong fairness of calling and finishing, because its `Release` (the human withdraws) may
otherwise alternate with `Start` for ever. `Reminders!FairReminderSpec` has weak fairness of the passes of each process (a timer starts one
every 15 seconds, `service.ts:55`, and the database answers) and of each edit (its row lock is released). Failures are bounded and nothing is
assumed of the owner. Time need not pass.
`Monitor!Fairness` has weak fairness of each process's timer (every 30 seconds, `autonomy/monitor.ts:71`), of the steps of its check (the database answers or the
query fails) and of time. Nothing makes the operator act, and `PersistentAlertIsNotified` asks nothing of a monitor that is switched off.

## 5. Proofs

For every number of steps, every set of valid definitions (or of actions, schedules, events, ...), any number of handlers and
processes and every value of the bounds:

| Theorem | Says |
|---|---|
| `SupervisedRunProofs!OneStepInFlightAlways` | `Spec => []OneStepInFlight` |
| `SupervisedRunProofs!RecoveryIsSupervisedAlways` | `Spec => []RecoveryIsSupervised` |
| `SupervisedRunProofs!BranchesSettleAlways` | `Spec => []BranchesSettle` |
| `WorkflowEngineProofs!TypeCorrect` | `Spec => []TypeOK` |
| `WorkflowEngineProofs!CalledAtMostOnce` | `Spec => []AtMostOneInvocation` |
| `WorkflowEngineProofs!CallsAreOnRecord` | `Spec => []InvocationIsRecorded` |
| `WorkflowEngineProofs!DecisionsAreFinal` | `Spec => DecidedStepsAreFinal` |
| `WorkflowEngineProofs!HighRiskIsApproved` | `Spec => []HighRiskNeedsConsumedApproval` |
| `WorkflowEngineProofs!ConsumedApprovalsClaim` | `Spec => []ConsumptionClaimsStep` |
| `WorkflowRefinementProofs!DependenciesComeFirst` | `Spec => DependenciesFirst` |
| `WorkflowRefinementProofs!CallsAreAuditedAlways` | `Spec => []CallsAreAudited`, if `PromptExecution` |
| `WorkflowRefinementProofs!EngineIsSerial` | `Spec => ImplementsSupervisedRun`, if `PromptExecution` |
| `WorkflowRefinementProofs!TimelinesAreNumbered` | `TimelineSpec => []TimelineIsNumbered` |
| `WorkflowRefinementProofs!TimelinesExplainRuns` | `TimelineSpec => []TimelineExplainsRun` |
| `WorkflowRefinementProofs!AdviceCanAlwaysBeFollowed` | `TimelineSpec => []AdviceCanBeFollowed` |
| `NeuronTaskProofs!TypeCorrect` | `Spec => []TypeOK` |
| `NeuronTaskProofs!BlockedTasksAreReconcilable` | `Spec => []BlockedTaskIsReconcilable` |
| `NeuronTaskProofs!CompletedTasksAreDone` | `Spec => []CompletedTaskIsDone` |
| `NeuronTaskProofs!CallsAreApprovedAlways` | `Spec => []CallsAreApproved` |
| `NeuronTaskProofs!NoReplayAlone` | `Spec => NoBlindReplayAlone` |
| `NeuronTaskProofs!FinalTasksAreFrozen` | `Spec => FinalTaskIsFrozen` |
| `NeuronTaskProofs!CompletedCallsAreNotRepeated` | `Spec => CompletedIsNotRepeated` |
| `AgendaProofs!TypeCorrect` | `ReminderSpec => []ReminderTypeOK` |
| `AgendaProofs!OccurrencesAreUnique` | `ReminderSpec => []OccurrenceOnce` |
| `AgendaProofs!OutagesDoNotFlood` | `ReminderSpec => []NoFlood` |
| `AgendaProofs!PausesAreSkipped` | `ReminderSpec => SkipsPausedTimes` |
| `AgendaProofs!AgendaTypeCorrect` | `AgendaSpec => []AgendaTypeOK` |
| `AgendaProofs!SchedulesKeepTheirPromise` | `AgendaSpec => [](OccurrenceOnce /\ NoFlood)` |
| `AgendaProofs!OccurrencesAreNotMoved` | `AgendaSpec => []OccurrencesStay` |
| `AgendaProofs!MovedRowsArePending` | `AgendaSpec => OnlyPendingRowsMove` |
| `AgendaProofs!QuotaIsKept` | `AgendaSpec => []QuotaHolds` |
| `AgendaProofs!MovedRowsStayApart` | `AgendaSpec => []PlacedApart` |
| `AgendaProofs!LedgerIsKept` | `AgendaSpec => []LedgerBalances` |
| `MonitorProofs!MonitorTypeCorrect` | `MonitorSpec => []MonitorTypeOK` |
| `MonitorProofs!NoticesAreApart` | `MonitorSpec => NoticesApart` |
| `ConsoleProofs!GoogleTypeCorrect` | `ConsoleSpec => []GoogleTypeOK` |
| `ConsoleProofs!ErasedCredentialsStayErased` | `ConsoleSpec => []ErasedStaysErased` |
| `ConsoleProofs!AcknowledgementsWereShown` | `ConsoleSpec => []AcknowledgedWasShown` |
| `ConsoleProofs!NoticesAreNewAlways` | `ConsoleSpec => NoticesAreNew` |
| `ConsoleProofs!WatchesAreQuiet` | `ConsoleSpec => WatchIsQuiet` |
| `ConsoleProofs!PreviewsAreSavedOnce` | `ConsoleSpec => []PreviewSavedOnce` |

Few of these are inductive; what follows says what had to be added. The assumptions are the named `ASSUME`s of the
modules, which TLC evaluates in the runs, and, for two theorems, `PromptExecution`.

*Branches.* The loop of `evaluateWorkflowBranches` is a recursive function in a recursive function. `CountdownExists` shows that such functions
exist, by an induction that rests on the least element of a set of naturals (`LeastElement`, `Induction`); so `Pass` and `Passes` satisfy
their equations (`PassEquation`, `PassesEquation`). A decision about a step depends on its parents only (`DecisionIsLocal`) and stays right while
others are taken (`DecisionStays`), because decided steps keep their status: therefore every decision of a pass is right in the
result (`Sound`), a pass that changes nothing found nothing to decide (`PassSettles`), and as each other pass skips a step,
`MaxPasses` of them suffice (`LoopSettles`). `BranchesSettle` is what these say together, for any run, reachable or not.

*One run.* `Supervised` is the invariant of a run, whoever moves it: at most one step in flight; a step beyond PENDING, unless it was skipped, had its
dependencies ready, and they stay so; a recovery is authorized for a failure only; while a step runs, no failure is beyond recovery. `MovesKeepSupervised` proves it
for the five moves a run can make (`Moves`), which are the actions of `SupervisedRun` and, by the lemmas `...Moves`, the writes of the engine.

*The engine.* `ClaimInv` adds what makes the compare-and-swap work: a handler's copy is
never newer than the row (`CopiesAreOld`), and a copy of the current version *is* the row (`CopiesAreFaithful`), so a
write that succeeds started from the truth. Then a step is claimed before its tool is called and nothing
un-claims it except a rollback by its one executor, who has not called the tool (`ExecutingStepsAreClaimed`,
`OneExecutor`, `NotCalledYet`). The operator's attestation may come at any time and is harmless to these: it leaves the step in a claimed
status. `ApprovalInv` adds what each handler knows of the approval it holds: between claim and consumption the
approval on record is the one presented, and no approval of the step has been consumed. TLC finds both invariants true on the instance of
`WorkflowEngine_risky`. `DecisionsAreFinal` needs, besides, that `Branches` writes PENDING steps only
(`BranchesEffect`). The proofs have a step per action; actions that save, read or stop share the lemmas
`SaveKeepsInvariant`, `ReadKeepsInvariant`, `StopKeepsInvariant`.

*The refinement.* `OrderInv` says that the progress of the stored run is `Supervised`, and that each handler is about to make one of the moves as far as the
run it holds shows (`ActsInOrder`): one past its checks holds a decided run whose next step is its own, one about to settle or close a run with something to decide. Since a
write succeeds only on the run the handler holds, the move is one of the stored run. `DependenciesComeFirst` follows without further
assumptions, because `Supervised` keeps the dependencies of the claimed step ready. For the refinement and for the audit a call must come while
its step is RUNNING. The code does not ensure that: an operator may attest the outcome when the handler stalls for 30 seconds between claim and call, and the call comes after
(section 6). `PromptExecution` excludes it; under it `PromptInv` says that while a handler executes, the run is current for it and not overdue. Then every
step of the engine is a step of `SupervisedRun` or changes nothing of it (`NextSimulates`), and who called a tool is alone to audit the call (`AuditInv`).

*The timeline.* `TimelineInv`: the numbers are consecutive (`IsNumbered`), and the events explain the stored run (`Explains`). A write adds, for each step, one event at
most, from the old status to the new one (`ChangesTell`, over the recursive function `InOrder`), and an authorization is never withdrawn (`RecoveriesStay`), so the longer
timeline explains the new run (`WriteIsExplained`); what is left when old events are dropped explains it as well, and begins with a number above 1, which shows that it is not complete
(`WindowExplains`). `AdviceCanAlwaysBeFollowed` takes, in a run with nothing in flight, a pending step of the least rank: its parents
are done, so it is ready or unreachable (`ParentsDone`), and in the second case `Branches` decides something (`NoDeadEnd`). For the advice to decide it needs
`WaitingIsRequested`, that a waiting step names an approval: the approval is then the step's own, and not consumed, because who consumes it has claimed the step (`ApprovalInv`).
Where it was rejected or has expired the theorem promises nothing: that is finding 1.

*Tasks.* What is stored is whatever handler saved last, so the invariants are about the handlers: `StuckInv`
says that in the plan each of them works on the open step is the last one, that it is the step being worked
on, and that nothing is open while the model thinks or an outcome is about to be saved. A save then puts an orderly
plan into the store whatever it overwrites. TLC finds it true on the instance of `NeuronTasks_shared` as well. `SoundInv` adds that only an answer carries a
final plan and that a resumed handler does not begin what its plan has completed. `CountInv` counts: the calls of a HIGH-risk action and the handlers that have used an
approval for it and not called yet are no more than its approvals consumed. `AskedInv` says that each plan, stored or
held, waits for approvals that were requested for the actions of its steps. That such an approval can still be used is not claimed: it may be refused, or spent by a request that died. `AloneInv` holds as long as requests did not overlap: one handler works, the stored task is its plan, and a lost call has left a PLANNED step in it.

*Reminders.* `ScheduleInv` says what the row locks are for: a pass holds schedules that are active and due at its date
(`BatchesAreDue`), no two passes hold the same (`BatchesAreDisjoint`), and edits wait. The next date of a schedule is then later than
its last resumption (`NextIsAhead`) and than every pass that inserted one of its reminders (`NextIsNew`), so a new row is for a
later date. `OccurrenceOnce` follows from the unique index as long as nothing moves a row of a schedule (`DatesStay`). TLC finds `ScheduleInv` true on
the instance of `Reminders_all`. The lemmas take the rows held by others as a parameter, so that they serve `Agenda` too.

*Agenda.* `PlanInv` is `ScheduleInv`, that an occurrence was overdue when it was inserted (`OverdueInv`), and that a plan about one is refused when it is applied, since the
request took its date before: so plans never move an occurrence, and the promises of the schedules hold beside them. Every step is one of a few
kinds (`StepsAreOfKinds`): reminders only, a request that goes on or ends, an insertion, a review, an application, an undo. `QuotaInv`: one request at most holds
the lock to insert, and it counted fewer than the quota. `ApartInv`: one request at most is about to move a reminder, and no other moved and
open reminder falls where it is going (`Clear`); a plan's own slot is free of what the request read under the lock. It needs `SlotLength > 0`, which is part of `AgendaAssumption`. `LedgerInv`: the date of a
reminder is its first date plus the displacements of the plans that stand; the sum is the `SumFunctionOnSet` of the community modules, and what it does when a plan joins or leaves is proved
from a least set for which addition would fail, because a fold is defined by recursion.

*Monitor.* A notice is inserted in two steps: ask whether an earlier one silences it, then write. `ApartInv` says why the answer stays true in between:
who checks holds the lock (`LockIsHeld`), so nobody else inserts; and what is about to be inserted is one key whose workflow and
status have no notice younger than the cooldown before the start of the check (`FreshIsUnsilenced`), which time preserves because ages and the
duration of the check grow alike and stop only beyond every cooldown.

*Console.* Each panel has its own invariant, and a step of another panel leaves its variables alone. `KeptInv`: an authorization is at one place
only, begun, pending, exchanged or connected (`BegunOnce`, `UsedOnce`), and an erased one is not about to be inserted by anybody (`NoWayBack`), so that what a disconnection deletes comes back from nowhere. `ShownInv`:
the key an acknowledgement works with, and every alert on the screen, was listed. `NoticeInv`: what was listed and not forgotten is known
(`ListedIsKnown`), because each list goes through the filter `Among`, whose elements `AmongCollects` states; it uses that answers, and so `Workflows`, are finite. `QuietInv`: a reminder keeps the date it was triggered at, so the answers on
their way are true, and while the watch is on whatever was announced or was due before is known to the tab or older than the activation (`ToldIsKnown`).
`OnceInv`: a saved preview waits for its answer or has left the panel for good (`SavedIsDone`), and a reply on its way is new (`RepliesAreNew`).

*Only model-checked:* the liveness properties (`RunFinishes` of both specifications, `BacklogIsCleared`, `SchedulesMoveOn`, `PersistentAlertIsNotified`,
`OverdueRecovers`): TLAPS has no rule for fairness over ENABLED here. Without `PromptExecution` the audit and the refinement are neither proved nor
checked, for the reason given above. The three properties expected to be violated are what section 6 reports.

## 6. Findings

1. **A refused approval is a dead end** (`WorkflowEngine_refused`). When the approval of a waiting step is rejected or
   expires, `advance` rolls back to WAITING_APPROVAL and nothing requests another one
   (`workflows/engine.ts:291`): the run waits on, and only a tool or permission taken away would still fail its step. The
   diagnosis tells the operator to approve or refuse and then advance (`workflows/timeline.ts:93`).
2. **Overlapping resumes erase the intent** (`NeuronTasks_replay`). Tasks are saved without a version (`neuron/core.ts:173`). Two requests resume a
   task with one recorded step; the first begins a call, saves the PLANNED record, calls the tool and dies; the second ends and
   saves its older plan, in which the call does not occur; a third request resumes the task without any reconciliation. Line 313 and
   `README.md:128` say that an interrupted call blocks the resumption. The run lets operators reconcile only what no request
   works on, so that nothing but the overwriting erases the record.
3. **A long task becomes unreadable** (`NeuronTasks_long`). `respond` never bounds a plan that `parseTaskPlan` limits to 100 steps
   (`neuron/task.ts:19`); beyond it the task can be neither shown, resumed nor reconciled.

Met while modelling. These the passing runs contain and their properties do not forbid; the first four contradict a sentence of the
documents, the others nothing but expectation, and none has a run of its own:

- *Old alerts look new.* The baseline of the alert watch knows the alerts of as many runs as `#alerts-limit` says; a wider limit selected later
  (`web/app.js:588`) lists older ones, which are notified. `README.md:778` says that the first reading is a silent baseline for old alerts.
  `NoticesAreNew` therefore speaks of alerts *listed* before. A baseline that is the answer to a request sent before `WatchOff` has the same effect.
- *The tab's memory is bounded.* `README.md:780` says that each combination of run, version and status is notified at most once a session; a key that more than 500
  later ones drove out is forgotten and, if its alert is still current, notified again (`web/app.js:291`). `NoticesAreNew` excuses these keys.
- *A backlog larger than a pass.* A pass marks 100 rows (`reminders/service.ts:47`) and dates them when it runs. What was overdue at the activation but
  has no room in the pass of the baseline is marked by the next one and announced, while `docs/REMINDERS.md:52` says that reminders already due are
  not notified. `WatchIsQuiet` speaks of rows that were *marked*.
- *A callback in progress.* A callback whose code is being exchanged has its authorization in no table (`integrations/google-calendar.ts:177`): it survives a
  disconnection and connects the user again, although `docs/GOOGLE_CALENDAR.md:33` says that tokens and pending authorizations are erased. A refresh answered
  after a disconnection and a new authorization pairs the old access token with the new refresh token until it expires. `ErasedStaysErased` is silent on both.
- *The grace period does not fence the tool.* `reconcile` counts 30 s from `startedAt`, saved before the approval is consumed; the
  executor's 15 s begin with the call. A handler that stalls between the two calls the tool after the operator attested the
  outcome (`workflows/engine.ts:383`). `PromptExecution` assumes that none does. Decided steps are final without it; the refinement needs it.
- *Three notices a snapshot.* Alerts beyond the first three new ones of a snapshot are known from then on and never notified.
- *Readers share a request.* A change of the view or of the limit while the tab is busy, or while an older poll is in flight, shows the old view's list until
  the next poll; the list read again after an acknowledgement may come from a poll sent before it and show the alert unread.
- *A gap at the activation.* A reminder that falls due after the baseline was read and before its answer arrives is not announced.
- *A confirmation and a new reply.* When a reply arrives while a preview is being confirmed, the answer writes its success under the new reply,
  disables its buttons and gives it up as the last reply: its preview cannot be confirmed (`web/app.js:1610`). Nothing is saved twice.

## 7. Plan

In order of importance; each item is a module, its run and, where marked ⊢, theorems.

1. Done: workflows with their timeline, approvals, tasks, reminders with recurrences, agenda proposals with undo, alerts, monitor, Google's
   authorization, console.
2. Done ⊢: every safety and action property of the passing runs, `SupervisedRun` as the engine's abstract specification.
3. An abstract specification of `Agenda` (a reminder moves at most once per plan and back at most once) and of `Alerts`; ⊢ that the detailed ones implement them.
4. Tasks: progress of a task whose approval was consumed by a request that died; ⊢ what is left of `NoBlindReplay` when requests overlap.
5. Pure algorithms: the sweep for conflicts and free times, and the ranking of priorities, whose comparison is an order only because
   pending decisions all live for the same fifteen minutes and never share a severity with approved ones and reminders at once.

Runs stay few: each component gets one passing run, and a violation run only where the code and its documentation disagree.

## 8. Not modelled, and why

Reports, drafted proposals, the activity feed and priorities only read other components' tables. The unified agenda merges what it reads by title and date. Calendar export and phrase
parsing transform text: no state, and strings are out of TLC's reach. `server.ts` routes and validates; the routes that change
a modelled state appear as actions. Of the console, forms, rendering and the panels that only show an answer are left out. Tools and the language model are external: they answer anything, late, or not at all.
In `NeuronTasks`, dry runs (they save nothing), the SESSION and ACTION notes, the audit records and the memory search are left out.
Of the Google integration, the listing of events (nothing is kept of it), the encryption of tokens and the chat's phrases are
left out. The monitor's log of checks is written and shown, never used. Authentication and multi-user separation are not modelled: every row here belongs to one owner.
