---------------------------- MODULE NeuronTasks ----------------------------
(***************************************************************************)
(* One task of NeuronCore (src/src/neuron/): the plan of a request to the  *)
(* language model, saved before and after every tool call, resumed by      *)
(* later requests and reconciled by the operator.                          *)
(*                                                                         *)
(* A handler works on the plan it loaded, and saving replaces the stored   *)
(* plan whatever it is: there is no version.  As in WorkflowEngine, an     *)
(* action is one store, model or tool call and what follows it, and        *)
(* req[r].pc names the call the handler makes next.                        *)
(*                                                                         *)
(* Operators named Fault_... are deliberate errors (see WorkflowGraph).    *)
(***************************************************************************)
EXTENDS Naturals, Sequences, FiniteSets

CONSTANTS
    Actions,       \* a tool with its exact arguments
    HighRisk,      \* the actions that need approval
    Requests,      \* the requests about the task, each made once
    MaxRounds,     \* rounds of the model in one request (8 in the code)
    MaxReadable,   \* longest plan that parseTaskPlan accepts (100 in the code)
    MaxSteps,      \* bound: no call begins on a longer plan
    PatientOperators   \* nobody reconciles the task while a request works on it

ASSUME HighRiskAssumption == HighRisk \subseteq Actions
ASSUME NeuronBoundsAssumption ==
    /\ MaxRounds \in Nat /\ MaxReadable \in Nat /\ MaxSteps \in Nat
    /\ PatientOperators \in BOOLEAN

VARIABLES
    task,        \* the saved plan; without steps, nothing is saved yet
    approvals,   \* the approval store
    req,         \* the handler of each request
    invoked,     \* history: times each action was performed
    lost,        \* history: a tool was called and nobody is left to record its outcome
    overlapped   \* history: a request has begun while another was in progress

vars == <<task, approvals, req, invoked, lost, overlapped>>
history == <<invoked, lost, overlapped>>

A == INSTANCE Approvals WITH Subjects <- Actions

----------------------------------------------------------------------------
(* Plans: ExecutionPlanner *)

NoApproval == 0

PlanStatuses == {"ACTIVE", "REPLANNING", "COMPLETED", "FAILED"}

Finalized == {"COMPLETED", "FAILED"}

PlanSteps ==
    [ action   : Actions,
      status   : {"PLANNED", "COMPLETED", "FAILED", "AWAITING_APPROVAL"},
      approval : Nat ]

Plans == [status : PlanStatuses, steps : Seq(PlanSteps)]

EmptyPlan == [status |-> "ACTIVE", steps |-> << >>]

InPlan(plan, st) == {i \in DOMAIN plan.steps : plan.steps[i].status = st}

Begin(plan, x) ==
    [ status |-> "ACTIVE",
      steps  |-> Append(plan.steps,
                   [action |-> x, status |-> "PLANNED", approval |-> NoApproval]) ]

Complete(plan, i, st) ==
    [ status |-> CASE st = "FAILED" -> "REPLANNING"
                   [] st = "AWAITING_APPROVAL" -> "ACTIVE"
                   [] OTHER -> plan.status,
      steps  |-> [plan.steps EXCEPT ![i].status = st] ]

Fault_FailuresAreFine(plan) ==
    IF InPlan(plan, "PLANNED") \cup InPlan(plan, "AWAITING_APPROVAL") = {}
    THEN [plan EXCEPT !.status = "COMPLETED"] ELSE plan

\* Every failure is recovered when a later step completed, so when the last one did.
MarkCompleted(plan) ==
    IF \/ plan.steps = << >>
       \/ /\ InPlan(plan, "PLANNED") \cup InPlan(plan, "AWAITING_APPROVAL") = {}
          /\ plan.steps[Len(plan.steps)].status = "COMPLETED"
    THEN [plan EXCEPT !.status = "COMPLETED"] ELSE plan

----------------------------------------------------------------------------
(* State *)

Calls == {"new", "done", "consume", "plan", "authorize", "call", "record", "refused",
          "think", "more", "request", "answer"}

\* plan, step: the planner's copy of the plan and the step it works on; presented: the
\* approval id of the HTTP request; approved: that approval has been consumed;
\* attested: the request is an operator's reconciliation.
HandlerStates ==
    [ pc : Calls, plan : Plans, step : Nat, presented : Nat, approved : BOOLEAN,
      resumed : BOOLEAN, round : Nat, attested : BOOLEAN ]

New ==
    [ pc |-> "new", plan |-> EmptyPlan, step |-> 0, presented |-> NoApproval,
      approved |-> FALSE, resumed |-> FALSE, round |-> 0, attested |-> FALSE ]

Done == [New EXCEPT !.pc = "done"]

TypeOK ==
    /\ task \in Plans
    /\ A!ApprovalsType
    /\ req \in [Requests -> HandlerStates]
    /\ invoked \in [Actions -> Nat]
    /\ lost \in BOOLEAN /\ overlapped \in BOOLEAN

Init ==
    /\ task = EmptyPlan
    /\ A!ApprovalsInit
    /\ req = [r \in Requests |-> New]
    /\ invoked = [x \in Actions |-> 0]
    /\ lost = FALSE /\ overlapped = FALSE

Goto(r, h) == req' = [req EXCEPT ![r] = h]

Working(r) == req[r].pc \notin {"new", "done"}

Action(r) == req[r].plan.steps[req[r].step].action

\* A request begins; the history remembers whether it is alone.
Arrive(r) ==
    /\ req[r].pc = "new"
    /\ overlapped' = (overlapped \/ \E q \in Requests : Working(q))
    /\ UNCHANGED <<task, approvals, invoked, lost>>

\* memory.save: the last writer wins.
SaveTask(r) == task' = req[r].plan

----------------------------------------------------------------------------
(* respond: a new task, or a resumed one *)

\* The id of a new task is unknown to other requests until it is saved.
Chat(r, a) ==
    /\ task = EmptyPlan /\ \A q \in Requests : ~Working(q)
    /\ Arrive(r)
    /\ Goto(r, [New EXCEPT !.pc = "think", !.presented = a])

\* parseTaskPlan succeeds.
Parsed(plan) == plan.steps # << >> /\ Len(plan.steps) <= MaxReadable

Fault_InterruptedIsResumed(plan) == plan.status \notin Finalized

Fault_FinalPlanIsResumed(plan) == InPlan(plan, "PLANNED") = {}

Resumable(plan) == plan.status \notin Finalized /\ InPlan(plan, "PLANNED") = {}

Resume(r, a) ==
    LET pending == InPlan(task, "AWAITING_APPROVAL")
        first == CHOOSE i \in pending : \A j \in pending : i <= j
        loaded == [New EXCEPT !.plan = task, !.presented = a, !.resumed = TRUE]
    IN  /\ Parsed(task) /\ Resumable(task)
        /\ Arrive(r)
        /\ IF pending = {} THEN Goto(r, [loaded EXCEPT !.pc = "think"])
           ELSE /\ a = task.steps[first].approval /\ a # NoApproval
                /\ Goto(r, [loaded EXCEPT !.pc = "consume", !.step = first])

ConsumePending(r) ==
    /\ req[r].pc = "consume"
    /\ LET a == req[r].presented IN
       IF A!Consumable(a, Action(r))
       THEN /\ A!Consume(a)
            /\ Goto(r, [req[r] EXCEPT !.pc = "plan", !.approved = TRUE,
                          !.plan.steps[req[r].step].status = "PLANNED"])
       ELSE UNCHANGED approvals /\ Goto(r, Done)
    /\ UNCHANGED <<task, history>>

Fault_ReplayedInResumedTask(h, x) == TRUE

\* A resumed plan does not repeat what it has completed.
Wanted(h, x) ==
    h.resumed => ~\E i \in InPlan(h.plan, "COMPLETED") : h.plan.steps[i].action = x

\* The model asks for a call, in a new round or as a further call of this one.
BeginCall(r, x, round) ==
    /\ \/ req[r].pc \in {"think", "more"} /\ round = req[r].round + 1
       \/ req[r].pc = "more" /\ round = req[r].round
    /\ round <= MaxRounds /\ Len(req[r].plan.steps) < MaxSteps
    /\ Wanted(req[r], x)
    /\ Goto(r, [req[r] EXCEPT !.pc = "plan", !.plan = Begin(req[r].plan, x),
                  !.step = Len(req[r].plan.steps) + 1, !.round = round,
                  !.approved = FALSE])
    /\ UNCHANGED <<task, approvals, history>>

\* A round all of whose calls are malformed or already completed.
WasteRound(r) ==
    /\ req[r].pc \in {"think", "more"} /\ req[r].round < MaxRounds
    /\ Goto(r, [req[r] EXCEPT !.pc = "think", !.round = @ + 1])
    /\ UNCHANGED <<task, approvals, history>>

\* The intent is saved before the action.
SavePlanned(r) ==
    /\ req[r].pc = "plan"
    /\ SaveTask(r)
    /\ Goto(r, [req[r] EXCEPT !.pc =
                  IF Action(r) \in HighRisk /\ ~req[r].approved THEN "authorize" ELSE "call"])
    /\ UNCHANGED <<approvals, history>>

Fault_GrantedIsEnough(r) ==
    /\ req[r].pc = "authorize"
    /\ LET a == req[r].presented IN
       IF a # NoApproval /\ approvals[a].subject = Action(r) /\ approvals[a].approved
       THEN Goto(r, [req[r] EXCEPT !.pc = "call", !.approved = TRUE])
       ELSE Goto(r, [req[r] EXCEPT !.pc = "request",
                       !.plan = Complete(@, req[r].step, "AWAITING_APPROVAL")])
    /\ UNCHANGED <<task, approvals, history>>

\* The approval of the HTTP request may be for this action; otherwise one is needed.
Authorize(r) ==
    /\ req[r].pc = "authorize"
    /\ LET a == req[r].presented IN
       IF a # NoApproval /\ A!Consumable(a, Action(r))
       THEN A!Consume(a) /\ Goto(r, [req[r] EXCEPT !.pc = "call", !.approved = TRUE])
       ELSE /\ UNCHANGED approvals
            /\ Goto(r, [req[r] EXCEPT !.pc = "request",
                          !.plan = Complete(@, req[r].step, "AWAITING_APPROVAL")])
    /\ UNCHANGED <<task, history>>

\* Unknown tool, missing permission or invalid arguments: the tool is not called.
RefuseCall(r) ==
    /\ req[r].pc \in {"authorize", "call"}
    /\ Goto(r, [req[r] EXCEPT !.pc = "refused",
                  !.plan = Complete(@, req[r].step, "FAILED")])
    /\ UNCHANGED <<task, approvals, history>>

\* The tool is called; a timeout counts as a failure.
CallTool(r, st) ==
    /\ req[r].pc = "call"
    /\ invoked' = [invoked EXCEPT ![Action(r)] = @ + 1]
    /\ Goto(r, [req[r] EXCEPT !.pc = "record", !.plan = Complete(@, req[r].step, st)])
    /\ UNCHANGED <<task, approvals, lost, overlapped>>

RecordOutcome(r) ==
    /\ req[r].pc \in {"record", "refused"}
    /\ SaveTask(r)
    /\ Goto(r, [req[r] EXCEPT !.pc = IF req[r].round = 0 THEN "think" ELSE "more"])
    /\ UNCHANGED <<approvals, history>>

\* The request ends here: further calls of the round are dropped.
RequestApproval(r) ==
    /\ req[r].pc = "request"
    /\ A!Request(Action(r))
    /\ Goto(r, [req[r] EXCEPT !.pc = "answer",
                  !.plan.steps[req[r].step].approval = Len(approvals) + 1])
    /\ UNCHANGED <<task, history>>

Answering(plan) ==
    IF plan.steps = << >> THEN Done ELSE [New EXCEPT !.pc = "answer", !.plan = plan]

\* The model answers without asking for a call.
Finish(r) ==
    /\ req[r].pc \in {"think", "more"} /\ req[r].round < MaxRounds
    /\ Goto(r, Answering(MarkCompleted(req[r].plan)))
    /\ UNCHANGED <<task, approvals, history>>

\* Too many rounds.
Exhaust(r) ==
    /\ req[r].pc \in {"think", "more"} /\ req[r].round = MaxRounds
    /\ Goto(r, Answering([req[r].plan EXCEPT !.status = "FAILED"]))
    /\ UNCHANGED <<task, approvals, history>>

\* The last save of a request.
Answer(r) ==
    /\ req[r].pc = "answer"
    /\ SaveTask(r)
    /\ lost' = (lost /\ ~req[r].attested)
    /\ Goto(r, Done)
    /\ UNCHANGED <<approvals, invoked, overlapped>>

\* The call of the model fails: what was saved stays.
ModelFails(r) ==
    /\ req[r].pc \in {"think", "more"}
    /\ Goto(r, Done)
    /\ UNCHANGED <<task, approvals, history>>

----------------------------------------------------------------------------
(* reconcileInterruptedPlan *)

Interrupted(plan) ==
    plan.status \notin Finalized /\ InPlan(plan, "PLANNED") = {Len(plan.steps)}

Reconcile(r, st) ==
    /\ Parsed(task) /\ Interrupted(task)
    /\ PatientOperators => \A q \in Requests : ~Working(q)
    /\ Arrive(r)
    /\ Goto(r, [New EXCEPT !.pc = "answer", !.attested = TRUE,
                  !.plan = [ status |-> IF st = "COMPLETED" THEN "ACTIVE" ELSE "REPLANNING",
                             steps  |-> [task.steps EXCEPT ![Len(task.steps)].status = st] ]])

----------------------------------------------------------------------------
(* The environment and the specification *)

Crash(r) ==
    /\ Working(r)
    /\ lost' = (lost \/ req[r].pc = "record")
    /\ Goto(r, Done)
    /\ UNCHANGED <<task, approvals, invoked, overlapped>>

Decide(a) ==
    /\ A!Approve(a) \/ A!Reject(a) \/ A!Expire(a)
    /\ UNCHANGED <<task, req, history>>

Proceed(r) ==
    \/ ConsumePending(r) \/ SavePlanned(r) \/ Authorize(r) \/ RefuseCall(r)
    \/ \E st \in {"COMPLETED", "FAILED"} : CallTool(r, st)
    \/ RecordOutcome(r) \/ RequestApproval(r) \/ WasteRound(r)
    \/ \E x \in Actions : \E round \in {req[r].round, req[r].round + 1} : BeginCall(r, x, round)
    \/ Finish(r) \/ Exhaust(r) \/ Answer(r) \/ ModelFails(r)

Next ==
    \/ \E r \in Requests : \/ Proceed(r) \/ Crash(r)
                           \/ \E a \in {NoApproval} \cup A!Ids : Chat(r, a) \/ Resume(r, a)
                           \/ \E st \in {"COMPLETED", "FAILED"} : Reconcile(r, st)
    \/ \E a \in A!Ids : Decide(a)

Spec == Init /\ [][Next]_vars

----------------------------------------------------------------------------
(* Safety *)

\* Every call of a HIGH-risk tool has an approval of its own: granted for exactly that
\* action and consumed, however many requests share the task or present the approval.
CallsAreApproved ==
    \A x \in HighRisk :
        invoked[x] <= Cardinality({a \in A!Ids : /\ approvals[a].subject = x
                                                 /\ approvals[a].approved
                                                 /\ approvals[a].consumed})

\* A plan that is not final has at most one open step, PLANNED or awaiting approval, and
\* it is the last.
OpenStepIsLast(plan) ==
    InPlan(plan, "PLANNED") \cup InPlan(plan, "AWAITING_APPROVAL") \subseteq {Len(plan.steps)}

\* Whatever requests overwrite, a saved plan that the operator must reconcile is one that
\* `reconcileInterruptedPlan` takes ("Task has no single interrupted final step to
\* reconcile", task.ts): a PLANNED step, which blocks every resume, is the only one and
\* the last.  And a task that waits does so for the approval of its last step, requested
\* for that very action; when that approval was rejected, has expired or was spent by a
\* request that died, nothing here says that the task can go on: it cannot.
BlockedTaskIsReconcilable ==
    task.status \notin Finalized =>
        /\ InPlan(task, "PLANNED") # {} => Interrupted(task)
        /\ \A i \in InPlan(task, "AWAITING_APPROVAL") :
             LET a == task.steps[i].approval
             IN  i = Len(task.steps) /\ a \in A!Ids /\ approvals[a].subject = task.steps[i].action

\* A completed task is one whose work is done: nothing open, and no failure that was not
\* followed by a success.
CompletedTaskIsDone ==
    task.status = "COMPLETED" =>
        /\ InPlan(task, "PLANNED") \cup InPlan(task, "AWAITING_APPROVAL") = {}
        /\ \A i \in InPlan(task, "FAILED") : \E j \in InPlan(task, "COMPLETED") : i < j

----------------------------------------------------------------------------
(* Action properties *)

Final == task.status \in Finalized

\* Request r resumes the task: it is an HTTP request to go on, not a reconciliation.
ResumesTask(r) == req[r].pc = "new" /\ req'[r].resumed

\* "Se cair durante a operação, bloqueia a retomada automática para evitar repetição
\* acidental" (README.md): once a request has died between its call of a tool and the
\* record of the outcome, nobody resumes the task until the operator has reconciled it.
NoBlindReplay == [][\A r \in Requests : ResumesTask(r) => ~lost]_vars

\* ... which the code ensures as long as the requests of a task do not overlap.
NoBlindReplayAlone == [][invoked' # invoked /\ ~overlapped => ~lost]_vars

\* "Tarefas COMPLETED ou FAILED são terminais" (README.md), if requests do not overlap.
FinalTaskIsFrozen == [][Final /\ ~overlapped' => UNCHANGED task]_vars

\* "A resumed plan must never automatically repeat the same successful action" (core.ts):
\* it is called again only under a new approval, if requests do not overlap.
CompletedIsNotRepeated ==
    [][\A r \in Requests :
         /\ req[r].resumed /\ req[r].pc = "call" /\ invoked' # invoked /\ req'[r] # req[r]
         /\ ~overlapped /\ ~req[r].approved
         => \A i \in InPlan(task, "COMPLETED") : task.steps[i].action # Action(r)]_vars

\* A saved task can be read back: parseTaskPlan accepts what respond saves.
SavedTaskIsReadable == Len(task.steps) <= MaxReadable
=============================================================================
