-------------------------- MODULE NeuronTaskProofs --------------------------
(***************************************************************************)
(* Proofs about NeuronTasks, on five invariants.  StuckInv (types, and an  *)
(* open step is the last one) is the base of the others; SoundInv (what a  *)
(* handler knows, whatever the others do) gives CompletedTaskIsDone;       *)
(* CountInv (an approval used up for each call made or about to be made)   *)
(* gives CallsAreApproved; AskedInv (a step that waits does so for its own *)
(* approval) gives BlockedTaskIsReconcilable; AloneInv (what a handler     *)
(* knows of the saved task as long as requests do not overlap) gives       *)
(* NoBlindReplayAlone, FinalTaskIsFrozen and CompletedIsNotRepeated.       *)
(***************************************************************************)
EXTENDS NeuronTasks, SequenceTheorems, FiniteSetTheorems, TLAPS

StepStatuses == {"PLANNED", "COMPLETED", "FAILED", "AWAITING_APPROVAL"}

\* A change of one step, as the planner and reconcile make it.
WithStep(plan, i, st) == [plan.steps EXCEPT ![i].status = st]

LEMMA StepType ==
    ASSUME NEW plan \in Plans, NEW i \in DOMAIN plan.steps
    PROVE  /\ plan.steps[i] \in PlanSteps
           /\ plan.steps \in Seq(PlanSteps)
           /\ DOMAIN plan.steps = 1 .. Len(plan.steps)
           /\ Len(plan.steps) \in Nat
  BY ElementOfSeq, LenProperties DEF Plans

\* Replacing a step by another keeps the plan's length and the rest of its steps.
LEMMA ReplacedStep ==
    ASSUME NEW steps \in Seq(PlanSteps), NEW i, NEW e, i \in DOMAIN steps => e \in PlanSteps
    PROVE  LET after == [steps EXCEPT ![i] = e]
           IN  /\ after \in Seq(PlanSteps)
               /\ Len(after) = Len(steps) /\ DOMAIN after = DOMAIN steps
               /\ \A j \in DOMAIN steps : after[j] = IF j = i THEN e ELSE steps[j]
<1> DEFINE after == [steps EXCEPT ![i] = e]
<1>1. \A j \in DOMAIN steps : after[j] = IF j = i THEN e ELSE steps[j]
  OBVIOUS
<1>2. CASE i \in DOMAIN steps
  <2>1. i \in 1 .. Len(steps)
    BY <1>2, LenProperties
  <2>2. after \in Seq(PlanSteps) /\ Len(after) = Len(steps)
    BY <1>2, <2>1, ExceptSeq
  <2> QED
    BY <1>1, <2>2
<1>3. CASE i \notin DOMAIN steps
  <2>1. after = steps
    BY <1>3
  <2> QED
    BY <1>1, <2>1
<1> QED
  BY <1>2, <1>3

LEMMA ChangedStep ==
    ASSUME NEW plan \in Plans, NEW i, NEW st \in StepStatuses
    PROVE  /\ WithStep(plan, i, st) \in Seq(PlanSteps)
           /\ Len(WithStep(plan, i, st)) = Len(plan.steps)
           /\ DOMAIN WithStep(plan, i, st) = DOMAIN plan.steps
           /\ \A j \in DOMAIN plan.steps :
                /\ WithStep(plan, i, st)[j].status = IF j = i THEN st ELSE plan.steps[j].status
                /\ WithStep(plan, i, st)[j].action = plan.steps[j].action
<1> DEFINE e == [plan.steps[i] EXCEPT !.status = st]
<1>1. i \in DOMAIN plan.steps =>
        e \in PlanSteps /\ e.status = st /\ e.action = plan.steps[i].action
  BY StepType DEF PlanSteps, StepStatuses
<1>2. WithStep(plan, i, st) = [plan.steps EXCEPT ![i] = e]
  BY DEF WithStep
<1>3. plan.steps \in Seq(PlanSteps)
  BY DEF Plans
<1> DEFINE after == [plan.steps EXCEPT ![i] = e]
<1> HIDE DEF e
<1>4. /\ after \in Seq(PlanSteps)
      /\ Len(after) = Len(plan.steps) /\ DOMAIN after = DOMAIN plan.steps
      /\ \A j \in DOMAIN plan.steps : after[j] = IF j = i THEN e ELSE plan.steps[j]
  BY <1>1, <1>3, ReplacedStep
<1> HIDE DEF after
<1>5. WithStep(plan, i, st) = after
  BY <1>2 DEF after
<1>6. \A j \in DOMAIN plan.steps :
        /\ after[j].status = IF j = i THEN st ELSE plan.steps[j].status
        /\ after[j].action = plan.steps[j].action
  BY <1>1, <1>4
<1> QED
  BY <1>4, <1>5, <1>6

LEMMA BeginEffect ==
    ASSUME NEW plan \in Plans, NEW x \in Actions
    PROVE  /\ Begin(plan, x) \in Plans
           /\ Len(Begin(plan, x).steps) = Len(plan.steps) + 1
           /\ \A j \in DOMAIN Begin(plan, x).steps :
                j # Len(plan.steps) + 1 =>
                    j \in DOMAIN plan.steps /\ Begin(plan, x).steps[j] = plan.steps[j]
           /\ Begin(plan, x).steps[Len(plan.steps) + 1] =
                [action |-> x, status |-> "PLANNED", approval |-> NoApproval]
<1> DEFINE e == [action |-> x, status |-> "PLANNED", approval |-> NoApproval]
<1>1. e \in PlanSteps
  BY DEF PlanSteps, NoApproval
<1>2. plan.steps \in Seq(PlanSteps)
  BY DEF Plans
<1>3. Begin(plan, x) = [status |-> "ACTIVE", steps |-> Append(plan.steps, e)]
  BY DEF Begin
<1> HIDE DEF e
<1>4. /\ Append(plan.steps, e) \in Seq(PlanSteps)
      /\ Len(Append(plan.steps, e)) = Len(plan.steps) + 1
      /\ \A j \in 1 .. Len(plan.steps) : Append(plan.steps, e)[j] = plan.steps[j]
      /\ Append(plan.steps, e)[Len(plan.steps) + 1] = e
  BY <1>1, <1>2, AppendProperties
<1>5. /\ DOMAIN plan.steps = 1 .. Len(plan.steps) /\ Len(plan.steps) \in Nat
      /\ DOMAIN Append(plan.steps, e) = 1 .. Len(plan.steps) + 1
  BY <1>2, <1>4, LenProperties
<1>6. \A j \in DOMAIN Append(plan.steps, e) :
        j # Len(plan.steps) + 1 => j \in 1 .. Len(plan.steps)
  BY <1>5
<1> QED
  BY <1>3, <1>4, <1>5, <1>6 DEF Plans, PlanStatuses, e

LEMMA CompleteEffect ==
    ASSUME NEW plan \in Plans, NEW i, NEW st \in StepStatuses
    PROVE  /\ Complete(plan, i, st) \in Plans
           /\ Complete(plan, i, st).steps = WithStep(plan, i, st)
  BY ChangedStep DEF Complete, WithStep, Plans, PlanStatuses

LEMMA MarkCompletedEffect ==
    ASSUME NEW plan \in Plans
    PROVE  MarkCompleted(plan) \in Plans /\ MarkCompleted(plan).steps = plan.steps
  BY DEF MarkCompleted, Plans, PlanStatuses

LEMMA StartTypes ==
    /\ EmptyPlan \in Plans /\ EmptyPlan.steps = << >>
    /\ New \in HandlerStates /\ Done \in HandlerStates
    /\ New.plan = EmptyPlan /\ Done.plan = EmptyPlan
    /\ New.pc = "new" /\ Done.pc = "done"
<1>1. EmptyPlan \in Plans /\ EmptyPlan.steps = << >>
  BY EmptySeq DEF EmptyPlan, Plans, PlanStatuses
<1>2. New \in HandlerStates
  BY <1>1 DEF New, HandlerStates, Calls, NoApproval
<1> QED
  BY <1>1, <1>2 DEF New, Done, HandlerStates, Calls

LEMMA AnsweringEffect ==
    ASSUME NEW plan \in Plans
    PROVE  /\ Answering(plan) \in HandlerStates
           /\ \/ Answering(plan) = Done
              \/ Answering(plan).pc = "answer" /\ Answering(plan).plan = plan
  BY StartTypes DEF Answering, HandlerStates, Calls

----------------------------------------------------------------------------
(* The inductive invariant *)

Open(plan) == InPlan(plan, "PLANNED") \cup InPlan(plan, "AWAITING_APPROVAL")

\* The plan a handler works on: while the model thinks, and when an outcome is about
\* to be recorded, nothing is open; a step that is worked on is the last one.
Orderly(h) ==
    /\ OpenStepIsLast(h.plan)
    /\ h.pc \in {"think", "more", "record", "refused"} => Open(h.plan) = {}
    /\ h.pc \in {"consume", "plan", "authorize", "call", "request"} =>
         h.step = Len(h.plan.steps) /\ h.step # 0

\* Handlers overwrite each other's plans, but each of them has an orderly one.
StuckInv ==
    /\ TypeOK
    /\ OpenStepIsLast(task)
    /\ \A r \in Requests : Orderly(req[r])

LEMMA OpenInside ==
    ASSUME NEW plan \in Plans
    PROVE  /\ Open(plan) \subseteq DOMAIN plan.steps
           /\ OpenStepIsLast(plan) <=> Open(plan) \subseteq {Len(plan.steps)}
  BY DEF Open, OpenStepIsLast, InPlan

\* Deciding the last step of an orderly plan leaves nothing open.
LEMMA LastStepDecided ==
    ASSUME NEW plan \in Plans, OpenStepIsLast(plan), NEW after \in Plans,
           NEW st \in StepStatuses, after.steps = WithStep(plan, Len(plan.steps), st)
    PROVE  /\ OpenStepIsLast(after)
           /\ st \in {"COMPLETED", "FAILED"} => Open(after) = {}
<1>1. /\ Len(after.steps) = Len(plan.steps) /\ DOMAIN after.steps = DOMAIN plan.steps
      /\ \A j \in DOMAIN plan.steps :
           after.steps[j].status = IF j = Len(plan.steps) THEN st ELSE plan.steps[j].status
  BY ChangedStep
<1>2. \A j \in DOMAIN plan.steps : plan.steps[j].status \in {"PLANNED", "AWAITING_APPROVAL"}
                                     => j = Len(plan.steps)
  BY DEF OpenStepIsLast, InPlan
<1> QED
  BY <1>1, <1>2 DEF OpenStepIsLast, Open, InPlan

LEMMA BegunIsOrderly ==
    ASSUME NEW plan \in Plans, Open(plan) = {}, NEW x \in Actions
    PROVE  OpenStepIsLast(Begin(plan, x))
<1>1. \A j \in DOMAIN plan.steps : plan.steps[j].status \notin {"PLANNED", "AWAITING_APPROVAL"}
  BY DEF Open, InPlan
<1> QED
  BY <1>1, BeginEffect DEF OpenStepIsLast, InPlan

LEMMA SameStepsSameOpen ==
    ASSUME NEW plan, NEW after, after.steps = plan.steps
    PROVE  Open(after) = Open(plan) /\ (OpenStepIsLast(after) <=> OpenStepIsLast(plan))
  BY DEF Open, OpenStepIsLast, InPlan

LEMMA StartIsOrderly == OpenStepIsLast(EmptyPlan) /\ Open(EmptyPlan) = {} /\ Orderly(New) /\ Orderly(Done)
<1>1. OpenStepIsLast(EmptyPlan) /\ Open(EmptyPlan) = {}
  BY EmptySeq DEF EmptyPlan, OpenStepIsLast, Open, InPlan
<1> QED
  BY <1>1, StartTypes DEF Orderly

\* The step a handler works on is a step of its plan.
LEMMA WorkedStep ==
    ASSUME NEW h \in HandlerStates, Orderly(h),
           h.pc \in {"consume", "plan", "authorize", "call", "request"}
    PROVE  /\ h.plan \in Plans /\ h.step = Len(h.plan.steps)
           /\ h.step \in DOMAIN h.plan.steps
           /\ h.plan.steps[h.step] \in PlanSteps
           /\ h.plan.steps[h.step].action \in Actions
<1>1. h.plan \in Plans /\ h.plan.steps \in Seq(PlanSteps) /\ h.step = Len(h.plan.steps) /\ h.step # 0
  BY DEF HandlerStates, Plans, Orderly
<1>2. Len(h.plan.steps) \in Nat /\ DOMAIN h.plan.steps = 1 .. Len(h.plan.steps)
  BY <1>1, LenProperties
<1>3. h.step \in DOMAIN h.plan.steps
  BY <1>1, <1>2
<1>4. h.plan.steps[h.step] \in PlanSteps
  BY <1>1, <1>3, StepType
<1> QED
  BY <1>1, <1>3, <1>4 DEF PlanSteps

\* What is left to show of an action of request r.
LEMMA HandlerStep ==
    ASSUME StuckInv, NEW r \in Requests, NEW h \in HandlerStates, Goto(r, h), Orderly(h),
           task' \in Plans, OpenStepIsLast(task'),
           approvals' \in Seq(A!ApprovalRecords), invoked' \in [Actions -> Nat],
           lost' \in BOOLEAN, overlapped' \in BOOLEAN
    PROVE  StuckInv'
<1>1. TypeOK'
  BY DEF StuckInv, TypeOK, Goto, A!ApprovalsType
<1>2. ASSUME NEW q \in Requests PROVE Orderly(req'[q])
  BY DEF StuckInv, TypeOK, Goto
<1>3. OpenStepIsLast(task)'
  BY DEF OpenStepIsLast, InPlan
<1> QED
  BY <1>1, <1>2, <1>3 DEF StuckInv, Orderly, OpenStepIsLast, Open, InPlan

\* A decision about, or the use of, an approval keeps the store well typed.
LEMMA ApprovalTypes ==
    ASSUME A!ApprovalsType, NEW a, A!Approve(a) \/ A!Reject(a) \/ A!Expire(a) \/ A!Consume(a)
    PROVE  approvals' \in Seq(A!ApprovalRecords)
<1>1. approvals \in Seq(A!ApprovalRecords)
  BY DEF A!ApprovalsType
<1>2. PICK e : /\ approvals' = [approvals EXCEPT ![a] = e]
               /\ a \in DOMAIN approvals => e \in A!ApprovalRecords
  <2> DEFINE old == approvals[a]
  <2>1. a \in DOMAIN approvals => old \in A!ApprovalRecords
    BY <1>1, ElementOfSeq, LenProperties
  <2>2. CASE A!Approve(a)
    <3> WITNESS [old EXCEPT !.approved = TRUE]
    <3> QED BY <2>1, <2>2 DEF A!Approve, A!ApprovalRecords
  <2>3. CASE A!Reject(a)
    <3> WITNESS [old EXCEPT !.rejected = TRUE]
    <3> QED BY <2>1, <2>3 DEF A!Reject, A!ApprovalRecords
  <2>4. CASE A!Expire(a)
    <3> WITNESS [old EXCEPT !.expired = TRUE]
    <3> QED BY <2>1, <2>4 DEF A!Expire, A!ApprovalRecords
  <2>5. CASE A!Consume(a)
    <3> WITNESS [old EXCEPT !.consumed = TRUE]
    <3> QED BY <2>1, <2>5 DEF A!Consume, A!ApprovalRecords
  <2> QED
    BY <2>2, <2>3, <2>4, <2>5
<1>3. a \in 1 .. Len(approvals) <=> a \in DOMAIN approvals
  BY <1>1, LenProperties
<1>4. CASE a \in DOMAIN approvals
  BY <1>1, <1>2, <1>3, <1>4, ExceptSeq
<1>5. CASE a \notin DOMAIN approvals
  <2>1. approvals' = approvals
    BY <1>1, <1>2, <1>5
  <2> QED
    BY <1>1, <2>1
<1> QED
  BY <1>4, <1>5

\* The same for an action that saves nothing, or saves the plan it works on.
LEMMA QuietStep ==
    ASSUME StuckInv, NEW r \in Requests, NEW h \in HandlerStates, Goto(r, h), Orderly(h),
           UNCHANGED task \/ SaveTask(r),
           UNCHANGED approvals, UNCHANGED history
    PROVE  StuckInv'
<1>1. task' \in Plans /\ OpenStepIsLast(task')
  BY DEF StuckInv, TypeOK, SaveTask, HandlerStates, Orderly
<1>2. approvals' \in Seq(A!ApprovalRecords)
  BY DEF StuckInv, TypeOK, A!ApprovalsType
<1> QED
  BY <1>1, <1>2, HandlerStep DEF StuckInv, TypeOK, history

LEMMA StuckInit == Init => StuckInv
<1> SUFFICES ASSUME Init PROVE StuckInv
  OBVIOUS
<1>1. approvals \in Seq(A!ApprovalRecords)
  BY EmptySeq DEF Init, A!ApprovalsInit
<1>2. TypeOK
  BY <1>1, StartTypes DEF Init, TypeOK, A!ApprovalsType
<1> QED
  BY <1>2, StartTypes, StartIsOrderly DEF Init, StuckInv

----------------------------------------------------------------------------
(* The actions *)

LEMMA BeginKeeps ==
    ASSUME StuckInv, NEW r \in Requests, NEW x \in Actions, NEW round \in Nat,
           BeginCall(r, x, round)
    PROVE  StuckInv'
<1> DEFINE plan == req[r].plan
           h == [req[r] EXCEPT !.pc = "plan", !.plan = Begin(plan, x),
                   !.step = Len(plan.steps) + 1, !.round = round, !.approved = FALSE]
<1>1. /\ req[r] \in HandlerStates /\ plan \in Plans /\ Open(plan) = {}
      /\ Len(plan.steps) \in Nat
  BY LenProperties DEF StuckInv, TypeOK, HandlerStates, Orderly, BeginCall, Plans
<1>2. Begin(plan, x) \in Plans /\ Len(Begin(plan, x).steps) = Len(plan.steps) + 1
  BY <1>1, BeginEffect
<1>3. OpenStepIsLast(Begin(plan, x))
  BY <1>1, BegunIsOrderly
<1>4. h \in HandlerStates
  <2>1. Len(plan.steps) + 1 \in Nat
    BY <1>1
  <2> HIDE DEF plan
  <2> QED
    BY <1>1, <1>2, <2>1 DEF HandlerStates, Calls
<1>5. h.pc = "plan" /\ h.plan = Begin(plan, x) /\ h.step = Len(plan.steps) + 1
  BY <1>1 DEF HandlerStates
<1>6. Orderly(h)
  BY <1>1, <1>2, <1>3, <1>5 DEF Orderly
<1>7. Goto(r, h) /\ UNCHANGED task /\ UNCHANGED approvals /\ UNCHANGED history
  BY DEF BeginCall
<1> HIDE DEF h
<1> QED
  BY <1>4, <1>6, <1>7, QuietStep

\* ConsumePending, RefuseCall, CallTool and the refusing branch of Authorize change
\* the status of the step they work on.
LEMMA StatusOfWorkedStep ==
    ASSUME NEW h \in HandlerStates, Orderly(h),
           h.pc \in {"consume", "authorize", "call"}, NEW st \in StepStatuses,
           NEW next \in HandlerStates, next.step = h.step,
           next.plan.steps = WithStep(h.plan, h.step, st),
           \/ next.pc \in {"plan", "request"}
           \/ next.pc \in {"record", "refused"} /\ st \in {"COMPLETED", "FAILED"}
    PROVE  Orderly(next)
<1>1. h.plan \in Plans /\ h.step = Len(h.plan.steps) /\ h.step # 0 /\ OpenStepIsLast(h.plan)
  BY WorkedStep DEF Orderly
<1>2. next.plan \in Plans
  BY DEF HandlerStates
<1>3. OpenStepIsLast(next.plan) /\ (st \in {"COMPLETED", "FAILED"} => Open(next.plan) = {})
  BY <1>1, <1>2, LastStepDecided
<1>4. Len(next.plan.steps) = Len(h.plan.steps)
  BY <1>1, ChangedStep
<1> QED
  BY <1>1, <1>3, <1>4 DEF Orderly

LEMMA DecideStepKeeps ==
    ASSUME StuckInv, NEW r \in Requests, req[r].pc \in {"authorize", "call"},
           NEW st \in {"COMPLETED", "FAILED", "AWAITING_APPROVAL"},
           NEW pc \in {"record", "refused", "request"},
           pc = "request" <=> st = "AWAITING_APPROVAL"
    PROVE  LET h == [req[r] EXCEPT !.pc = pc, !.plan = Complete(@, req[r].step, st)]
           IN  h \in HandlerStates /\ Orderly(h)
<1> DEFINE h == [req[r] EXCEPT !.pc = pc, !.plan = Complete(@, req[r].step, st)]
<1>1. req[r] \in HandlerStates /\ Orderly(req[r]) /\ req[r].plan \in Plans
  BY DEF StuckInv, TypeOK, HandlerStates
<1>2. /\ Complete(req[r].plan, req[r].step, st) \in Plans
      /\ Complete(req[r].plan, req[r].step, st).steps = WithStep(req[r].plan, req[r].step, st)
  BY <1>1, CompleteEffect DEF StepStatuses
<1>3. h \in HandlerStates
  BY <1>1, <1>2 DEF HandlerStates, Calls
<1>4. h.pc = pc /\ h.step = req[r].step /\ h.plan.steps = WithStep(req[r].plan, req[r].step, st)
  BY <1>1, <1>2 DEF HandlerStates
<1> HIDE DEF h
<1>5. Orderly(h)
  BY <1>1, <1>3, <1>4, StatusOfWorkedStep DEF StepStatuses
<1> QED
  BY <1>3, <1>5 DEF h

LEMMA ConsumePendingKeeps ==
    ASSUME StuckInv, NEW r \in Requests, ConsumePending(r)
    PROVE  StuckInv'
<1>1. /\ req[r] \in HandlerStates /\ Orderly(req[r]) /\ req[r].pc = "consume"
      /\ UNCHANGED task /\ UNCHANGED history /\ req[r].plan \in Plans
  BY DEF StuckInv, TypeOK, ConsumePending, HandlerStates
<1>2. CASE A!Consume(req[r].presented)
           /\ Goto(r, [req[r] EXCEPT !.pc = "plan", !.approved = TRUE,
                         !.plan.steps[req[r].step].status = "PLANNED"])
  <2> DEFINE h == [req[r] EXCEPT !.pc = "plan", !.approved = TRUE,
                     !.plan.steps[req[r].step].status = "PLANNED"]
             plan == [req[r].plan EXCEPT !.steps = WithStep(req[r].plan, req[r].step, "PLANNED")]
  <2>1. plan \in Plans
    BY <1>1, ChangedStep DEF Plans, StepStatuses
  <2>2. h = [req[r] EXCEPT !.pc = "plan", !.approved = TRUE, !.plan = plan]
    BY <1>1 DEF HandlerStates, Plans, WithStep
  <2> HIDE DEF h
  <2>3. h \in HandlerStates
    BY <1>1, <2>1, <2>2 DEF HandlerStates, Calls
  <2>4. h.pc = "plan" /\ h.step = req[r].step
        /\ h.plan.steps = WithStep(req[r].plan, req[r].step, "PLANNED")
    BY <1>1, <2>2 DEF HandlerStates, Plans
  <2>5. Orderly(h)
    BY <1>1, <2>3, <2>4, StatusOfWorkedStep DEF StepStatuses
  <2>6. approvals' \in Seq(A!ApprovalRecords)
    BY <1>2, ApprovalTypes DEF StuckInv, TypeOK
  <2>7. Goto(r, h)
    BY <1>2 DEF h
  <2> QED
    BY <1>1, <2>3, <2>5, <2>6, <2>7, HandlerStep DEF StuckInv, TypeOK, history
<1>3. CASE UNCHANGED approvals /\ Goto(r, Done)
  BY <1>1, <1>3, QuietStep, StartTypes, StartIsOrderly
<1> QED
  BY <1>2, <1>3 DEF ConsumePending

LEMMA AuthorizeKeeps ==
    ASSUME StuckInv, NEW r \in Requests, Authorize(r)
    PROVE  StuckInv'
<1>1. /\ req[r] \in HandlerStates /\ Orderly(req[r]) /\ req[r].pc = "authorize"
      /\ UNCHANGED task /\ UNCHANGED history
  BY DEF StuckInv, TypeOK, Authorize
<1>2. CASE A!Consume(req[r].presented) /\ Goto(r, [req[r] EXCEPT !.pc = "call", !.approved = TRUE])
  <2> DEFINE h == [req[r] EXCEPT !.pc = "call", !.approved = TRUE]
  <2>1. h \in HandlerStates /\ Orderly(h)
    BY <1>1 DEF HandlerStates, Calls, Orderly
  <2>2. approvals' \in Seq(A!ApprovalRecords)
    BY <1>2, ApprovalTypes DEF StuckInv, TypeOK
  <2> QED
    BY <1>1, <1>2, <2>1, <2>2, HandlerStep DEF StuckInv, TypeOK, history
<1>3. CASE UNCHANGED approvals
           /\ Goto(r, [req[r] EXCEPT !.pc = "request",
                         !.plan = Complete(@, req[r].step, "AWAITING_APPROVAL")])
  <2> DEFINE h == [req[r] EXCEPT !.pc = "request",
                     !.plan = Complete(@, req[r].step, "AWAITING_APPROVAL")]
  <2>1. h \in HandlerStates /\ Orderly(h)
    BY <1>1, DecideStepKeeps
  <2> HIDE DEF h
  <2>2. Goto(r, h)
    BY <1>3 DEF h
  <2> QED
    BY <1>1, <1>3, <2>1, <2>2, QuietStep
<1> QED
  BY <1>2, <1>3 DEF Authorize

LEMMA RequestApprovalKeeps ==
    ASSUME StuckInv, NEW r \in Requests, RequestApproval(r)
    PROVE  StuckInv'
<1> DEFINE plan == req[r].plan
           i == req[r].step
           e == [plan.steps[i] EXCEPT !.approval = Len(approvals) + 1]
           steps == [plan.steps EXCEPT ![i] = e]
           h == [req[r] EXCEPT !.pc = "answer", !.plan.steps[i].approval = Len(approvals) + 1]
<1>1. /\ req[r] \in HandlerStates /\ Orderly(req[r]) /\ req[r].pc = "request"
      /\ UNCHANGED task /\ UNCHANGED history /\ approvals \in Seq(A!ApprovalRecords)
  BY DEF StuckInv, TypeOK, RequestApproval, A!ApprovalsType
<1>2. /\ plan \in Plans /\ i \in DOMAIN plan.steps /\ plan.steps[i] \in PlanSteps
      /\ Action(r) \in Actions /\ plan.steps \in Seq(PlanSteps)
  BY <1>1, WorkedStep DEF Action, Plans
<1>3. Len(approvals) + 1 \in Nat
  BY <1>1, LenProperties
<1>4. e \in PlanSteps /\ e.status = plan.steps[i].status
  BY <1>2, <1>3 DEF PlanSteps
<1>5. h = [req[r] EXCEPT !.pc = "answer", !.plan = [plan EXCEPT !.steps = steps]]
  BY <1>1, <1>2 DEF HandlerStates, Plans
<1> HIDE DEF e
<1>6. /\ steps \in Seq(PlanSteps) /\ Len(steps) = Len(plan.steps)
      /\ DOMAIN steps = DOMAIN plan.steps
      /\ \A j \in DOMAIN plan.steps : steps[j] = IF j = i THEN e ELSE plan.steps[j]
  BY <1>2, <1>4, ReplacedStep
<1>7. \A j \in DOMAIN plan.steps : steps[j].status = plan.steps[j].status
  BY <1>4, <1>6
<1> HIDE DEF steps, h
<1>8. h \in HandlerStates /\ h.pc = "answer" /\ h.plan.steps = steps
  BY <1>1, <1>2, <1>5, <1>6 DEF HandlerStates, Calls, Plans
<1>9. OpenStepIsLast(h.plan)
  BY <1>1, <1>6, <1>7, <1>8 DEF Orderly, OpenStepIsLast, InPlan
<1>10. Orderly(h)
  BY <1>8, <1>9 DEF Orderly
<1>11. approvals' \in Seq(A!ApprovalRecords)
  BY <1>1, <1>2, AppendProperties DEF RequestApproval, A!Request, A!ApprovalRecords
<1>12. Goto(r, h)
  BY DEF RequestApproval, h
<1> QED
  BY <1>1, <1>8, <1>10, <1>11, <1>12, HandlerStep DEF StuckInv, TypeOK, history

LEMMA CallToolKeeps ==
    ASSUME StuckInv, NEW r \in Requests, NEW st \in {"COMPLETED", "FAILED"}, CallTool(r, st)
    PROVE  StuckInv'
<1> DEFINE h == [req[r] EXCEPT !.pc = "record", !.plan = Complete(@, req[r].step, st)]
<1>1. req[r] \in HandlerStates /\ Orderly(req[r]) /\ req[r].pc = "call"
  BY DEF StuckInv, TypeOK, CallTool
<1>2. h \in HandlerStates /\ Orderly(h)
  BY <1>1, DecideStepKeeps
<1>3. Action(r) \in Actions
  BY <1>1, WorkedStep DEF Action
<1>4. invoked' \in [Actions -> Nat]
  BY <1>3 DEF StuckInv, TypeOK, CallTool
<1>5. Goto(r, h) /\ UNCHANGED <<task, approvals, lost, overlapped>>
  BY DEF CallTool
<1> HIDE DEF h
<1> QED
  BY <1>2, <1>4, <1>5, HandlerStep DEF StuckInv, TypeOK, A!ApprovalsType

\* A new handler starts from nothing, or from the task as it is saved.
LEMMA ArriveKeeps ==
    ASSUME StuckInv, NEW r \in Requests, Arrive(r),
           NEW h \in HandlerStates, Goto(r, h), Orderly(h)
    PROVE  StuckInv'
  BY HandlerStep DEF StuckInv, TypeOK, Arrive, A!ApprovalsType

LEMMA ResumeKeeps ==
    ASSUME StuckInv, NEW r \in Requests, NEW a \in Nat, Resume(r, a)
    PROVE  StuckInv'
<1> DEFINE pending == InPlan(task, "AWAITING_APPROVAL")
           first == CHOOSE i \in pending : \A j \in pending : i <= j
           loaded == [New EXCEPT !.plan = task, !.presented = a, !.resumed = TRUE]
<1>1. /\ task \in Plans /\ OpenStepIsLast(task) /\ Arrive(r)
      /\ InPlan(task, "PLANNED") = {} /\ pending \subseteq {Len(task.steps)}
      /\ Len(task.steps) \in Nat /\ DOMAIN task.steps = 1 .. Len(task.steps)
  BY LenProperties DEF StuckInv, TypeOK, Resume, Resumable, OpenStepIsLast, Plans
<1>2. CASE pending = {} /\ Goto(r, [loaded EXCEPT !.pc = "think"])
  <2> DEFINE h == [loaded EXCEPT !.pc = "think"]
  <2>1. h \in HandlerStates /\ h.plan = task /\ h.pc = "think"
    BY <1>1, StartTypes DEF HandlerStates, Calls
  <2>2. Open(task) = {}
    BY <1>1, <1>2 DEF Open
  <2> HIDE DEF h
  <2>3. Orderly(h)
    BY <1>1, <2>1, <2>2 DEF Orderly
  <2>4. Goto(r, h)
    BY <1>2 DEF h
  <2> QED
    BY <1>1, <2>1, <2>3, <2>4, ArriveKeeps
<1>3. CASE pending # {} /\ Goto(r, [loaded EXCEPT !.pc = "consume", !.step = first])
  <2> DEFINE h == [loaded EXCEPT !.pc = "consume", !.step = first]
  <2>1. pending = {Len(task.steps)}
    BY <1>1, <1>3
  <2>2. first = Len(task.steps)
    BY <1>1, <2>1
  <2>3. Len(task.steps) # 0
    BY <1>1, <2>1 DEF InPlan
  <2> HIDE DEF first
  <2>4. h \in HandlerStates /\ h.plan = task /\ h.pc = "consume" /\ h.step = Len(task.steps)
    BY <1>1, <2>2, StartTypes DEF HandlerStates, Calls
  <2> HIDE DEF h
  <2>5. Orderly(h)
    BY <1>1, <2>3, <2>4 DEF Orderly
  <2>6. Goto(r, h)
    BY <1>3 DEF h, first
  <2> QED
    BY <1>1, <2>4, <2>5, <2>6, ArriveKeeps
<1> QED
  BY <1>2, <1>3 DEF Resume

LEMMA ReconcileKeeps ==
    ASSUME StuckInv, NEW r \in Requests, NEW st \in {"COMPLETED", "FAILED"}, Reconcile(r, st)
    PROVE  StuckInv'
<1> DEFINE plan == [ status |-> IF st = "COMPLETED" THEN "ACTIVE" ELSE "REPLANNING",
                     steps  |-> [task.steps EXCEPT ![Len(task.steps)].status = st] ]
           h == [New EXCEPT !.pc = "answer", !.attested = TRUE, !.plan = plan]
<1>1. task \in Plans /\ OpenStepIsLast(task) /\ Arrive(r) /\ Goto(r, h)
  BY DEF StuckInv, TypeOK, Reconcile
<1>2. plan.steps = WithStep(task, Len(task.steps), st)
  BY DEF WithStep
<1>3. plan \in Plans
  <2>1. WithStep(task, Len(task.steps), st) \in Seq(PlanSteps)
    BY <1>1, ChangedStep DEF StepStatuses
  <2>2. plan = [ status |-> IF st = "COMPLETED" THEN "ACTIVE" ELSE "REPLANNING",
                 steps  |-> WithStep(task, Len(task.steps), st) ]
    BY DEF WithStep
  <2> QED
    BY <2>1, <2>2 DEF Plans, PlanStatuses
<1> HIDE DEF plan
<1>4. OpenStepIsLast(plan)
  BY <1>1, <1>2, <1>3, LastStepDecided DEF StepStatuses
<1>5. h \in HandlerStates /\ h.pc = "answer" /\ h.plan = plan
  BY <1>3, StartTypes DEF HandlerStates, Calls
<1> HIDE DEF h
<1>6. Orderly(h)
  BY <1>4, <1>5 DEF Orderly
<1> QED
  BY <1>1, <1>5, <1>6, ArriveKeeps

\* The request ends, or goes on with a plan whose steps are the same.
LEMMA EndKeeps ==
    ASSUME StuckInv, NEW r \in Requests, Goto(r, Done),
           UNCHANGED task \/ SaveTask(r), UNCHANGED approvals,
           UNCHANGED invoked, UNCHANGED overlapped, lost' \in BOOLEAN
    PROVE  StuckInv'
<1>1. task' \in Plans /\ OpenStepIsLast(task')
  BY DEF StuckInv, TypeOK, SaveTask, HandlerStates, Orderly
<1> QED
  BY <1>1, HandlerStep, StartTypes, StartIsOrderly DEF StuckInv, TypeOK, A!ApprovalsType

LEMMA AnsweringKeeps ==
    ASSUME StuckInv, NEW r \in Requests, NEW plan \in Plans, plan.steps = req[r].plan.steps,
           Goto(r, Answering(plan)), UNCHANGED <<task, approvals, history>>
    PROVE  StuckInv'
<1>1. OpenStepIsLast(plan)
  BY SameStepsSameOpen DEF StuckInv, Orderly
<1>2. Answering(plan) \in HandlerStates /\ Orderly(Answering(plan))
  BY <1>1, AnsweringEffect, StartIsOrderly DEF Orderly
<1> QED
  BY <1>2, QuietStep

LEMMA ProceedKeeps ==
    ASSUME StuckInv, NEW r \in Requests, Proceed(r)
    PROVE  StuckInv'
<1>1. req[r] \in HandlerStates /\ Orderly(req[r]) /\ req[r].plan \in Plans /\ req[r].round \in Nat
  BY DEF StuckInv, TypeOK, HandlerStates
<1>2. CASE SavePlanned(r)
  <2> DEFINE pc == IF Action(r) \in HighRisk /\ ~req[r].approved THEN "authorize" ELSE "call"
             h == [req[r] EXCEPT !.pc = pc]
  <2>1. pc \in {"authorize", "call"}
    OBVIOUS
  <2> HIDE DEF pc
  <2>2. h \in HandlerStates /\ Orderly(h)
    BY <1>1, <1>2, <2>1 DEF SavePlanned, HandlerStates, Calls, Orderly
  <2>3. Goto(r, h)
    BY <1>2 DEF SavePlanned, pc
  <2> QED
    BY <1>2, <2>2, <2>3, QuietStep DEF SavePlanned
<1>3. CASE RefuseCall(r)
  <2> DEFINE h == [req[r] EXCEPT !.pc = "refused", !.plan = Complete(@, req[r].step, "FAILED")]
  <2>1. h \in HandlerStates /\ Orderly(h)
    BY <1>3, DecideStepKeeps DEF RefuseCall
  <2>2. Goto(r, h)
    BY <1>3 DEF RefuseCall
  <2> HIDE DEF h
  <2> QED
    BY <1>3, <2>1, <2>2, QuietStep DEF RefuseCall
<1>4. CASE RecordOutcome(r)
  <2> DEFINE pc == IF req[r].round = 0 THEN "think" ELSE "more"
             h == [req[r] EXCEPT !.pc = pc]
  <2>1. pc \in {"think", "more"}
    OBVIOUS
  <2> HIDE DEF pc
  <2>2. h \in HandlerStates /\ Orderly(h)
    BY <1>1, <1>4, <2>1 DEF RecordOutcome, HandlerStates, Calls, Orderly
  <2>3. Goto(r, h)
    BY <1>4 DEF RecordOutcome, pc
  <2> QED
    BY <1>4, <2>2, <2>3, QuietStep DEF RecordOutcome
<1>5. CASE WasteRound(r)
  <2> DEFINE h == [req[r] EXCEPT !.pc = "think", !.round = @ + 1]
  <2>1. h \in HandlerStates /\ h.pc = "think" /\ h.plan = req[r].plan
    <3>1. req[r].round + 1 \in Nat
      BY <1>1
    <3> QED
      BY <1>1, <3>1 DEF HandlerStates, Calls
  <2>2. Goto(r, h)
    BY <1>5 DEF WasteRound
  <2> HIDE DEF h
  <2>3. Orderly(h)
    BY <1>1, <1>5, <2>1 DEF WasteRound, Orderly
  <2> QED
    BY <1>5, <2>1, <2>2, <2>3, QuietStep DEF WasteRound
<1>6. CASE Finish(r)
  BY <1>1, <1>6, MarkCompletedEffect, AnsweringKeeps DEF Finish
<1>7. CASE Exhaust(r)
  <2>1. [req[r].plan EXCEPT !.status = "FAILED"] \in Plans
        /\ [req[r].plan EXCEPT !.status = "FAILED"].steps = req[r].plan.steps
    BY <1>1 DEF Plans, PlanStatuses
  <2> QED
    BY <1>7, <2>1, AnsweringKeeps DEF Exhaust
<1>8. CASE Answer(r)
  BY <1>8, EndKeeps DEF Answer
<1>9. CASE ModelFails(r)
  BY <1>9, EndKeeps DEF ModelFails, history, StuckInv, TypeOK
<1>10. ASSUME NEW x \in Actions, NEW round \in {req[r].round, req[r].round + 1},
              BeginCall(r, x, round)
       PROVE  StuckInv'
  BY <1>1, <1>10, BeginKeeps
<1>11. ASSUME NEW st \in {"COMPLETED", "FAILED"}, CallTool(r, st) PROVE StuckInv'
  BY <1>11, CallToolKeeps
<1> QED
  BY <1>2, <1>3, <1>4, <1>5, <1>6, <1>7, <1>8, <1>9, <1>10, <1>11, ConsumePendingKeeps,
     AuthorizeKeeps, RequestApprovalKeeps DEF Proceed

LEMMA StuckNext == StuckInv /\ [Next]_vars => StuckInv'
<1> SUFFICES ASSUME StuckInv, [Next]_vars PROVE StuckInv'
  OBVIOUS
<1>1. ASSUME NEW a \in {NoApproval} \cup A!Ids PROVE a \in Nat
  BY <1>1, LenProperties DEF StuckInv, TypeOK, A!ApprovalsType, A!Ids, NoApproval
<1>2. ASSUME NEW r \in Requests, Proceed(r) PROVE StuckInv'
  BY <1>2, ProceedKeeps
<1>3. ASSUME NEW r \in Requests, Crash(r) PROVE StuckInv'
  BY <1>3, EndKeeps DEF Crash, StuckInv, TypeOK
<1>4. ASSUME NEW r \in Requests, NEW a \in {NoApproval} \cup A!Ids, Chat(r, a) PROVE StuckInv'
  <2> DEFINE h == [New EXCEPT !.pc = "think", !.presented = a]
  <2>1. h \in HandlerStates /\ h.plan = EmptyPlan /\ h.pc = "think"
    BY <1>1, StartTypes DEF HandlerStates, Calls
  <2>2. Goto(r, h) /\ Arrive(r)
    BY <1>4 DEF Chat
  <2> HIDE DEF h
  <2>3. Orderly(h)
    BY <2>1, StartIsOrderly DEF Orderly
  <2> QED
    BY <2>1, <2>2, <2>3, ArriveKeeps
<1>5. ASSUME NEW r \in Requests, NEW a \in {NoApproval} \cup A!Ids, Resume(r, a) PROVE StuckInv'
  BY <1>1, <1>5, ResumeKeeps
<1>6. ASSUME NEW r \in Requests, NEW st \in {"COMPLETED", "FAILED"}, Reconcile(r, st)
      PROVE  StuckInv'
  BY <1>6, ReconcileKeeps
<1>7. ASSUME NEW a \in A!Ids, Decide(a) PROVE StuckInv'
  <2>1. approvals' \in Seq(A!ApprovalRecords)
    BY <1>7, ApprovalTypes DEF Decide, StuckInv, TypeOK
  <2> QED
    BY <1>7, <2>1 DEF Decide, StuckInv, TypeOK, history, A!ApprovalsType, Orderly,
                      OpenStepIsLast, Open, InPlan
<1>8. CASE UNCHANGED vars
  BY <1>8 DEF vars, StuckInv, TypeOK, A!ApprovalsType, Orderly, OpenStepIsLast, Open, InPlan
<1> QED
  BY <1>2, <1>3, <1>4, <1>5, <1>6, <1>7, <1>8 DEF Next

----------------------------------------------------------------------------

LEMMA Orderliness == Spec => []StuckInv
  BY StuckInit, StuckNext, PTL DEF Spec

\* Every reachable state is well typed, for any actions, requests and limits.
THEOREM TypeCorrect == Spec => []TypeOK
<1>1. StuckInv => TypeOK
  BY DEF StuckInv
<1> QED
  BY <1>1, Orderliness, PTL

----------------------------------------------------------------------------
(* What the handlers hold *)

Worked(h) == h.plan.steps[h.step]

\* Nothing is left to do, and nothing failed for good.
WorkDone(plan) ==
    plan.status = "COMPLETED" =>
        /\ Open(plan) = {}
        /\ \A i \in InPlan(plan, "FAILED") : \E j \in InPlan(plan, "COMPLETED") : i < j

\* The step a resumed handler begins is not one its plan has completed.
IsNovel(h) == \A i \in InPlan(h.plan, "COMPLETED") : h.plan.steps[i].action # Worked(h).action

\* What a handler knows, whatever the others do: only an answer carries a final plan, the
\* step about to be called is PLANNED in the plan, a HIGH-risk one is called with its
\* approval, and a reconciliation does nothing but answer.
Sound(h) ==
    /\ h.pc = "answer" => WorkDone(h.plan)
    /\ h.pc # "answer" => h.plan.status \notin Finalized
    /\ h.pc \in {"plan", "authorize", "call"} =>
         /\ Worked(h).status = "PLANNED"
         /\ h.resumed /\ ~h.approved => IsNovel(h)
    /\ h.pc = "call" /\ Worked(h).action \in HighRisk => h.approved
    /\ h.attested => h.pc = "answer"
    /\ h.pc = "consume" => h.presented # NoApproval

SoundInv ==
    /\ StuckInv
    /\ WorkDone(task)
    /\ \A r \in Requests : Sound(req[r])

Planned(plan) == InPlan(plan, "PLANNED")

\* What one handler, alone, knows of the saved task.
InStep(h) ==
    /\ ~Final
    /\ h.pc \in {"authorize", "call"} => task = h.plan
    /\ h.pc = "record" => Planned(task) # {}
    /\ lost => h.attested

Alone ==
    /\ \A q, r \in Requests : Working(q) /\ Working(r) => q = r
    /\ \A r \in Requests : Working(r) => InStep(req[r])
    /\ lost => Planned(task) # {}

AloneInv == SoundInv /\ (~overlapped => Alone)

\* The approvals used up for action x, and the handlers that used one and have not called yet.
SpentIn(given, x) ==
    {a \in DOMAIN given : given[a].subject = x /\ given[a].approved /\ given[a].consumed}

Spent(x) == SpentIn(approvals, x)

Holds(h, x) == h.pc \in {"plan", "call"} /\ h.approved /\ Worked(h).action = x

Holders(x) == {r \in Requests : Holds(req[r], x)}

CountInv ==
    /\ SoundInv
    /\ \A r \in Requests : req[r].presented \in {NoApproval} \cup A!Ids
    /\ \A x \in HighRisk :
         /\ IsFiniteSet(Holders(x))
         /\ invoked[x] + Cardinality(Holders(x)) <= Cardinality(Spent(x))

----------------------------------------------------------------------------
(* What each action makes of its handler *)

LEMMA Reached ==
    ASSUME StuckInv, NEW r \in Requests, NEW h, Goto(r, h)
    PROVE  req'[r] = h /\ \A q \in Requests : q # r => req'[q] = req[q]
  BY DEF StuckInv, TypeOK, Goto

LEMMA WorkedChange ==
    ASSUME NEW h \in HandlerStates, Orderly(h),
           h.pc \in {"consume", "plan", "authorize", "call", "request"},
           NEW n, n.step = h.step, NEW st \in StepStatuses,
           n.plan.steps = WithStep(h.plan, h.step, st)
    PROVE  Worked(n).status = st /\ Worked(n).action = Worked(h).action
<1>1. h.plan \in Plans /\ h.step \in DOMAIN h.plan.steps
  BY WorkedStep
<1> QED
  BY <1>1, ChangedStep DEF Worked

LEMMA ConsumePendingMoves ==
    ASSUME StuckInv, NEW r \in Requests, ConsumePending(r)
    PROVE  LET h == req[r]
               n == req'[r]
           IN  \/ /\ A!Consumable(h.presented, Worked(h).action) /\ A!Consume(h.presented)
                  /\ n.pc = "plan" /\ n.approved = TRUE
                  /\ n.presented = h.presented /\ n.attested = h.attested
                  /\ n.plan.status = h.plan.status
                  /\ Worked(n).status = "PLANNED" /\ Worked(n).action = Worked(h).action
               \/ n = Done /\ UNCHANGED approvals
<1>1. req[r] \in HandlerStates /\ Orderly(req[r]) /\ req[r].pc = "consume" /\ req[r].plan \in Plans
  BY DEF StuckInv, TypeOK, ConsumePending, HandlerStates
<1>2. CASE /\ A!Consumable(req[r].presented, Action(r)) /\ A!Consume(req[r].presented)
           /\ Goto(r, [req[r] EXCEPT !.pc = "plan", !.approved = TRUE,
                         !.plan.steps[req[r].step].status = "PLANNED"])
  <2> DEFINE h == [req[r] EXCEPT !.pc = "plan", !.approved = TRUE,
                     !.plan.steps[req[r].step].status = "PLANNED"]
             plan == [req[r].plan EXCEPT !.steps = WithStep(req[r].plan, req[r].step, "PLANNED")]
  <2>1. plan.steps = WithStep(req[r].plan, req[r].step, "PLANNED") /\ plan.status = req[r].plan.status
    BY <1>1 DEF Plans
  <2>2. h = [req[r] EXCEPT !.pc = "plan", !.approved = TRUE, !.plan = plan]
    BY <1>1 DEF HandlerStates, Plans, WithStep
  <2>3. req'[r] = h
    BY <1>2, Reached
  <2> HIDE DEF h, plan
  <2>4. /\ h.pc = "plan" /\ h.approved = TRUE /\ h.step = req[r].step /\ h.plan = plan
        /\ h.presented = req[r].presented /\ h.attested = req[r].attested
    BY <1>1, <2>2 DEF HandlerStates
  <2>5. Worked(h).status = "PLANNED" /\ Worked(h).action = Worked(req[r]).action
    BY <1>1, <2>1, <2>4, WorkedChange DEF StepStatuses
  <2> QED
    BY <1>2, <2>1, <2>3, <2>4, <2>5 DEF Action, Worked
<1>3. CASE UNCHANGED approvals /\ Goto(r, Done)
  BY <1>3, Reached
<1> QED
  BY <1>2, <1>3 DEF ConsumePending

LEMMA BeginCallMoves ==
    ASSUME StuckInv, NEW r \in Requests, NEW x \in Actions, NEW round \in Nat,
           BeginCall(r, x, round)
    PROVE  LET h == req[r]
               n == req'[r]
           IN  /\ n.pc = "plan" /\ n.approved = FALSE
               /\ n.presented = h.presented /\ n.attested = h.attested /\ n.resumed = h.resumed
               /\ n.plan.status = "ACTIVE" /\ Worked(n).status = "PLANNED"
               /\ n.resumed => IsNovel(n)
<1> DEFINE plan == req[r].plan
           h == [req[r] EXCEPT !.pc = "plan", !.plan = Begin(plan, x),
                   !.step = Len(plan.steps) + 1, !.round = round, !.approved = FALSE]
<1>1. req[r] \in HandlerStates /\ plan \in Plans /\ Len(plan.steps) \in Nat /\ Wanted(req[r], x)
  BY LenProperties DEF StuckInv, TypeOK, HandlerStates, BeginCall, Plans
<1>2. Goto(r, h)
  BY DEF BeginCall
<1>3. req'[r] = h
  BY <1>2, Reached
<1>4. /\ h.pc = "plan" /\ h.plan = Begin(plan, x) /\ h.step = Len(plan.steps) + 1
      /\ h.approved = FALSE /\ h.presented = req[r].presented
      /\ h.attested = req[r].attested /\ h.resumed = req[r].resumed
  BY <1>1 DEF HandlerStates
<1> HIDE DEF h, plan
<1>5. h.plan.status = "ACTIVE" /\ Worked(h).status = "PLANNED" /\ Worked(h).action = x
  BY <1>1, <1>4, BeginEffect DEF Worked, Begin
<1>6. ASSUME h.resumed PROVE IsNovel(h)
  <2> SUFFICES ASSUME NEW i \in InPlan(h.plan, "COMPLETED")
               PROVE  h.plan.steps[i].action # x
    BY <1>5 DEF IsNovel
  <2>1. i \in DOMAIN h.plan.steps /\ h.plan.steps[i].status = "COMPLETED" /\ i # h.step
    BY <1>5 DEF InPlan, Worked
  <2>2. \A j \in DOMAIN Begin(plan, x).steps :
          j # Len(plan.steps) + 1 =>
              j \in DOMAIN plan.steps /\ Begin(plan, x).steps[j] = plan.steps[j]
    BY <1>1, BeginEffect
  <2> QED
    BY <1>1, <1>4, <1>6, <2>1, <2>2 DEF Wanted, InPlan, plan
<1> QED
  BY <1>3, <1>4, <1>5, <1>6

\* Authorize, RefuseCall and CallTool decide the step.
LEMMA DecidedStep ==
    ASSUME StuckInv, NEW r \in Requests, NEW st \in {"COMPLETED", "FAILED", "AWAITING_APPROVAL"},
           NEW pc \in {"record", "refused", "request"},
           Goto(r, [req[r] EXCEPT !.pc = pc, !.plan = Complete(@, req[r].step, st)])
    PROVE  LET h == req[r]
               n == req'[r]
           IN  /\ n.pc = pc /\ n.presented = h.presented /\ n.attested = h.attested
               /\ n.plan.status \in {h.plan.status, "ACTIVE", "REPLANNING"}
<1> DEFINE n == [req[r] EXCEPT !.pc = pc, !.plan = Complete(@, req[r].step, st)]
<1>1. req[r] \in HandlerStates /\ req[r].plan \in Plans
  BY DEF StuckInv, TypeOK, HandlerStates
<1>2. n.plan = Complete(req[r].plan, req[r].step, st)
  BY <1>1 DEF HandlerStates
<1>3. Complete(req[r].plan, req[r].step, st).status \in {req[r].plan.status, "ACTIVE", "REPLANNING"}
  BY <1>1 DEF Complete
<1>4. n.pc = pc /\ n.presented = req[r].presented /\ n.attested = req[r].attested
  BY <1>1 DEF HandlerStates
<1>5. req'[r] = n
  BY Reached
<1> HIDE DEF n
<1> QED
  BY <1>2, <1>3, <1>4, <1>5

LEMMA RequestApprovalMoves ==
    ASSUME StuckInv, NEW r \in Requests, RequestApproval(r)
    PROVE  LET h == req[r]
               n == req'[r]
           IN  /\ n.pc = "answer" /\ n.presented = h.presented /\ n.attested = h.attested
               /\ n.plan.status = h.plan.status
<1> DEFINE n == [req[r] EXCEPT !.pc = "answer", !.plan.steps[req[r].step].approval = Len(approvals) + 1]
<1>1. req[r] \in HandlerStates /\ req[r].plan \in Plans
  BY DEF StuckInv, TypeOK, HandlerStates
<1>2. req'[r] = n
  BY Reached DEF RequestApproval
<1>3. n.pc = "answer" /\ n.presented = req[r].presented /\ n.attested = req[r].attested
  BY <1>1 DEF HandlerStates
<1>4. n.plan.status = req[r].plan.status
  BY <1>1 DEF HandlerStates, Plans
<1> HIDE DEF n
<1> QED
  BY <1>2, <1>3, <1>4

LEMMA StartIsSound ==
    Sound(New) /\ Sound(Done) /\ WorkDone(EmptyPlan) /\ Done.presented = NoApproval
<1>1. WorkDone(EmptyPlan)
  BY DEF WorkDone, EmptyPlan
<1>2. New.plan.status \notin Finalized /\ Done.plan.status \notin Finalized
  BY StartTypes DEF EmptyPlan, Finalized
<1>3. ~New.attested /\ ~Done.attested /\ Done.presented = NoApproval
  BY DEF New, Done
<1> QED
  BY <1>1, <1>2, <1>3, StartTypes DEF Sound

LEMMA PlansAreDone == ASSUME NEW h, Sound(h) PROVE WorkDone(h.plan)
  BY DEF Sound, WorkDone, Finalized

LEMMA MarkedIsDone ==
    ASSUME NEW plan \in Plans, plan.status \notin Finalized
    PROVE  WorkDone(MarkCompleted(plan))
<1>1. DOMAIN plan.steps = 1 .. Len(plan.steps) /\ Len(plan.steps) \in Nat
  BY LenProperties DEF Plans
<1>2. CASE plan.steps = << >>
  <2>1. InPlan(plan, "PLANNED") = {} /\ InPlan(plan, "AWAITING_APPROVAL") = {}
        /\ InPlan(plan, "FAILED") = {}
    BY <1>2, EmptySeq DEF InPlan
  <2> QED
    BY <2>1, MarkCompletedEffect DEF WorkDone, Open, InPlan
<1>3. CASE /\ plan.steps # << >> /\ Open(plan) = {}
           /\ plan.steps[Len(plan.steps)].status = "COMPLETED"
  <2>1. Len(plan.steps) \in InPlan(plan, "COMPLETED")
    <3>1. Len(plan.steps) # 0
      BY <1>3, EmptySeq DEF Plans
    <3> QED
      BY <1>1, <1>3, <3>1 DEF InPlan
  <2>2. \A i \in InPlan(plan, "FAILED") : i < Len(plan.steps)
    BY <1>1, <1>3 DEF InPlan
  <2> QED
    BY <1>3, <2>1, <2>2, MarkCompletedEffect DEF WorkDone, Open, InPlan
<1>4. CASE MarkCompleted(plan) = plan
  BY <1>4 DEF WorkDone, Finalized
<1> QED
  BY <1>2, <1>3, <1>4 DEF MarkCompleted, Open

LEMMA AnsweringIsSound ==
    ASSUME NEW plan \in Plans, WorkDone(plan)
    PROVE  /\ Sound(Answering(plan))
           /\ Answering(plan).presented = NoApproval /\ ~Answering(plan).attested
<1>1. /\ \/ Answering(plan) = Done
         \/ Answering(plan).pc = "answer" /\ Answering(plan).plan = plan
      /\ Answering(plan).presented = NoApproval /\ ~Answering(plan).attested
  BY AnsweringEffect, StartIsSound DEF Answering, New, Done
<1> QED
  BY <1>1, StartIsSound DEF Sound

LEMMA ProceedSound ==
    ASSUME SoundInv, NEW r \in Requests, Proceed(r)
    PROVE  Sound(req'[r])
<1>1. /\ req[r] \in HandlerStates /\ Sound(req[r]) /\ req[r].plan \in Plans
      /\ req[r].round \in Nat /\ StuckInv
  BY DEF SoundInv, StuckInv, TypeOK, HandlerStates
<1>2. CASE ConsumePending(r)
  BY <1>1, <1>2, ConsumePendingMoves, StartIsSound DEF Sound, ConsumePending
<1>3. ASSUME NEW x \in Actions, NEW round \in {req[r].round, req[r].round + 1},
             BeginCall(r, x, round)
      PROVE  Sound(req'[r])
  <2>1. round \in Nat
    BY <1>1
  <2> QED
    BY <1>1, <1>3, <2>1, BeginCallMoves DEF Sound, BeginCall, Finalized
<1>4. CASE SavePlanned(r)
  <2> DEFINE pc == IF Action(r) \in HighRisk /\ ~req[r].approved THEN "authorize" ELSE "call"
             h == [req[r] EXCEPT !.pc = pc]
  <2>1. req'[r] = h
    BY <1>1, <1>4, Reached DEF SavePlanned
  <2>2. /\ h.pc = pc /\ h.plan = req[r].plan /\ h.step = req[r].step
        /\ h.approved = req[r].approved /\ h.resumed = req[r].resumed
        /\ h.attested = req[r].attested /\ Worked(h) = Worked(req[r]) /\ Action(r) = Worked(h).action
    BY <1>1 DEF HandlerStates, Worked, Action
  <2> HIDE DEF h
  <2> QED
    BY <1>1, <1>4, <2>1, <2>2 DEF Sound, SavePlanned, IsNovel, Worked
<1>5. CASE Authorize(r)
  <2>1. CASE Goto(r, [req[r] EXCEPT !.pc = "call", !.approved = TRUE])
    <3>1. req'[r] = [req[r] EXCEPT !.pc = "call", !.approved = TRUE]
      BY <1>1, <2>1, Reached
    <3>2. /\ req'[r].pc = "call" /\ req'[r].approved = TRUE /\ req'[r].plan = req[r].plan
          /\ req'[r].step = req[r].step /\ req'[r].attested = req[r].attested
      BY <1>1, <3>1 DEF HandlerStates
    <3> QED
      BY <1>1, <1>5, <3>2 DEF Sound, Authorize, Worked
  <2>2. CASE Goto(r, [req[r] EXCEPT !.pc = "request",
                        !.plan = Complete(@, req[r].step, "AWAITING_APPROVAL")])
    BY <1>1, <1>5, <2>2, DecidedStep DEF Sound, Authorize, Finalized
  <2> QED
    BY <1>5, <2>1, <2>2 DEF Authorize
<1>6. CASE RefuseCall(r)
  BY <1>1, <1>6, DecidedStep DEF Sound, RefuseCall, Finalized
<1>7. ASSUME NEW st \in {"COMPLETED", "FAILED"}, CallTool(r, st) PROVE Sound(req'[r])
  BY <1>1, <1>7, DecidedStep DEF Sound, CallTool, Finalized
<1>8. CASE RecordOutcome(r)
  <2>1. /\ req'[r].pc \in {"think", "more"} /\ req'[r].plan = req[r].plan
        /\ req'[r].attested = req[r].attested
    BY <1>1, <1>8, Reached DEF HandlerStates, RecordOutcome
  <2> QED
    BY <1>1, <1>8, <2>1 DEF Sound, RecordOutcome
<1>9. CASE RequestApproval(r)
  BY <1>1, <1>9, RequestApprovalMoves DEF Sound, RequestApproval, WorkDone, Finalized
<1>10. CASE WasteRound(r)
  <2>1. req'[r] = [req[r] EXCEPT !.pc = "think", !.round = @ + 1]
    BY <1>1, <1>10, Reached DEF WasteRound
  <2>2. req'[r].pc = "think" /\ req'[r].plan = req[r].plan /\ req'[r].attested = req[r].attested
    BY <1>1, <2>1 DEF HandlerStates
  <2> QED
    BY <1>1, <1>10, <2>2 DEF Sound, WasteRound
<1>11. CASE Finish(r)
  <2>1. req[r].plan.status \notin Finalized
    BY <1>1, <1>11 DEF Sound, Finish
  <2>2. MarkCompleted(req[r].plan) \in Plans /\ WorkDone(MarkCompleted(req[r].plan))
    BY <1>1, <2>1, MarkedIsDone, MarkCompletedEffect
  <2> QED
    BY <1>1, <1>11, <2>2, AnsweringIsSound, Reached DEF Finish
<1>12. CASE Exhaust(r)
  <2> DEFINE plan == [req[r].plan EXCEPT !.status = "FAILED"]
  <2>1. plan \in Plans /\ WorkDone(plan)
    BY <1>1 DEF Plans, PlanStatuses, WorkDone
  <2>2. Goto(r, Answering(plan))
    BY <1>12 DEF Exhaust
  <2> HIDE DEF plan
  <2> QED
    BY <1>1, <2>1, <2>2, AnsweringIsSound, Reached
<1>13. CASE Answer(r) \/ ModelFails(r)
  BY <1>1, <1>13, StartIsSound, Reached DEF Answer, ModelFails
<1> QED
  BY <1>2, <1>3, <1>4, <1>5, <1>6, <1>7, <1>8, <1>9, <1>10, <1>11, <1>12, <1>13 DEF Proceed

\* Whoever arrives is sound, and its plan is the task's.
LEMMA ArrivalSound ==
    ASSUME SoundInv, NEW r \in Requests,
           \/ \E a \in {NoApproval} \cup A!Ids : Chat(r, a) \/ Resume(r, a)
           \/ \E st \in {"COMPLETED", "FAILED"} : Reconcile(r, st)
    PROVE  Sound(req'[r]) /\ req'[r].presented \in {NoApproval} \cup A!Ids
<1>1. task \in Plans /\ StuckInv
  BY DEF SoundInv, StuckInv, TypeOK
<1>2. ASSUME NEW a \in {NoApproval} \cup A!Ids, Chat(r, a)
      PROVE  Sound(req'[r]) /\ req'[r].presented \in {NoApproval} \cup A!Ids
  <2>1. req'[r] = [New EXCEPT !.pc = "think", !.presented = a]
    BY <1>1, <1>2, Reached DEF Chat
  <2>2. /\ req'[r].pc = "think" /\ req'[r].plan = EmptyPlan /\ req'[r].presented = a
        /\ ~req'[r].attested
    BY <2>1 DEF New
  <2> QED
    BY <2>2 DEF Sound, EmptyPlan, Finalized
<1>3. ASSUME NEW a \in {NoApproval} \cup A!Ids, Resume(r, a)
      PROVE  Sound(req'[r]) /\ req'[r].presented \in {NoApproval} \cup A!Ids
  <2> DEFINE loaded == [New EXCEPT !.plan = task, !.presented = a, !.resumed = TRUE]
  <2>1. PICK i : \/ req'[r] = [loaded EXCEPT !.pc = "think"]
                 \/ /\ req'[r] = [loaded EXCEPT !.pc = "consume", !.step = i]
                    /\ a # NoApproval
    BY <1>1, <1>3, Reached DEF Resume
  <2>2. /\ req'[r].pc \in {"think", "consume"} /\ req'[r].plan = task /\ req'[r].presented = a
        /\ ~req'[r].attested
        /\ req'[r].pc = "consume" => a # NoApproval
    BY <2>1 DEF New
  <2> QED
    BY <1>3, <2>2 DEF Sound, Resume, Resumable
<1>4. ASSUME NEW st \in {"COMPLETED", "FAILED"}, Reconcile(r, st)
      PROVE  Sound(req'[r]) /\ req'[r].presented \in {NoApproval} \cup A!Ids
  <2> DEFINE plan == [ status |-> IF st = "COMPLETED" THEN "ACTIVE" ELSE "REPLANNING",
                       steps  |-> [task.steps EXCEPT ![Len(task.steps)].status = st] ]
  <2>1. req'[r] = [New EXCEPT !.pc = "answer", !.attested = TRUE, !.plan = plan]
    BY <1>1, <1>4, Reached DEF Reconcile
  <2>2. WorkDone(plan)
    BY DEF WorkDone
  <2> HIDE DEF plan
  <2>3. req'[r].pc = "answer" /\ req'[r].plan = plan /\ req'[r].presented = NoApproval
    BY <2>1 DEF New
  <2> QED
    BY <2>2, <2>3 DEF Sound
<1> QED
  BY <1>2, <1>3, <1>4

\* Arrivals and interruptions.
Comes(r) ==
    \/ \E a \in {NoApproval} \cup A!Ids : Chat(r, a) \/ Resume(r, a)
    \/ \E st \in {"COMPLETED", "FAILED"} : Reconcile(r, st)

\* A step changes one handler, and saves its plan or nothing.
LEMMA OneHandlerMoves ==
    ASSUME StuckInv, NEW r \in Requests, Proceed(r) \/ Crash(r) \/ Comes(r)
    PROVE  /\ \A q \in Requests : q # r => req'[q] = req[q]
           /\ UNCHANGED task \/ SaveTask(r)
<1>1. ASSUME NEW h, Goto(r, h) PROVE \A q \in Requests : q # r => req'[q] = req[q]
  BY <1>1, Reached
<1>2. ASSUME Proceed(r) PROVE \E h : Goto(r, h)
  BY <1>2, ZenonT(60) DEF Proceed, ConsumePending, SavePlanned, Authorize, RefuseCall,
       CallTool, RecordOutcome, RequestApproval, WasteRound, BeginCall, Finish, Exhaust,
       Answer, ModelFails
<1>3. ASSUME Proceed(r) PROVE UNCHANGED task \/ SaveTask(r)
  BY <1>3 DEF Proceed, ConsumePending, SavePlanned, Authorize, RefuseCall,
       CallTool, RecordOutcome, RequestApproval, WasteRound, BeginCall, Finish, Exhaust,
       Answer, ModelFails
<1>4. ASSUME Crash(r) PROVE (\E h : Goto(r, h)) /\ UNCHANGED task
  BY <1>4 DEF Crash
<1>5. ASSUME NEW a \in {NoApproval} \cup A!Ids, Chat(r, a)
      PROVE  (\E h : Goto(r, h)) /\ UNCHANGED task
  BY <1>5 DEF Chat, Arrive
<1>6. ASSUME NEW a \in {NoApproval} \cup A!Ids, Resume(r, a)
      PROVE  (\E h : Goto(r, h)) /\ UNCHANGED task
  BY <1>6, Zenon DEF Resume, Arrive
<1>7. ASSUME NEW st \in {"COMPLETED", "FAILED"}, Reconcile(r, st)
      PROVE  (\E h : Goto(r, h)) /\ UNCHANGED task
  BY <1>7 DEF Reconcile, Arrive
<1> QED
  BY <1>1, <1>2, <1>3, <1>4, <1>5, <1>6, <1>7 DEF Comes

\* The cases of Next.
LEMMA NextCases ==
    ASSUME Next
    PROVE  \/ \E r \in Requests : Proceed(r) \/ Crash(r) \/ Comes(r)
           \/ \E a \in A!Ids : Decide(a)
  BY DEF Next, Comes

LEMMA SoundNext == SoundInv /\ [Next]_vars => SoundInv'
<1> SUFFICES ASSUME SoundInv, [Next]_vars PROVE SoundInv'
  OBVIOUS
<1>1. StuckInv /\ StuckInv'
  BY StuckNext DEF SoundInv
<1>2. CASE UNCHANGED <<task, req>>
  BY <1>1, <1>2 DEF SoundInv, WorkDone, Open, InPlan
<1>3. ASSUME NEW r \in Requests, Proceed(r) \/ Crash(r) \/ Comes(r)
      PROVE  SoundInv'
  <2>1. Sound(req'[r])
    BY <1>1, <1>3, ProceedSound, ArrivalSound, Reached, StartIsSound DEF Crash, Comes
  <2>2. (\A q \in Requests : q # r => req'[q] = req[q]) /\ (UNCHANGED task \/ SaveTask(r))
    BY <1>1, <1>3, OneHandlerMoves
  <2>3. \A q \in Requests : Sound(req'[q])
    BY <2>1, <2>2 DEF SoundInv
  <2>4. WorkDone(task')
    BY <2>2, PlansAreDone DEF SoundInv, SaveTask
  <2> QED
    BY <1>1, <2>3, <2>4 DEF SoundInv
<1> QED
  BY <1>2, <1>3, NextCases DEF Decide, vars

LEMMA Soundness == Spec => []SoundInv
<1>1. Init => SoundInv
  BY StuckInit, StartIsSound DEF Init, SoundInv
<1> QED
  BY <1>1, SoundNext, PTL DEF Spec

\* A task saved as COMPLETED has nothing open and no failure without a later success,
\* whatever plans the requests that share it save over one another.
THEOREM CompletedTasksAreDone == Spec => []CompletedTaskIsDone
<1>1. SoundInv => CompletedTaskIsDone
  BY DEF SoundInv, WorkDone, CompletedTaskIsDone, Open
<1> QED
  BY <1>1, Soundness, PTL

----------------------------------------------------------------------------
(* Counting calls and approvals *)

LEMMA BoundedIsFinite == ASSUME NEW n \in Nat, NEW S \in SUBSET (1 .. n) PROVE IsFiniteSet(S)
<1>1. IsFiniteSet(1 .. n)
  BY FS_Interval
<1> QED
  BY <1>1, FS_Subset

LEMMA SpentFinite ==
    ASSUME NEW given \in Seq(A!ApprovalRecords), NEW x
    PROVE  IsFiniteSet(SpentIn(given, x))
<1>1. DOMAIN given = 1 .. Len(given) /\ Len(given) \in Nat
  BY LenProperties
<1>2. SpentIn(given, x) \in SUBSET (1 .. Len(given))
  BY <1>1 DEF SpentIn
<1> QED
  BY <1>1, <1>2, BoundedIsFinite

\* No approval is ever forgotten, nor used up without its consumption.
LEMMA ApprovalsStay ==
    ASSUME StuckInv,
           \/ UNCHANGED approvals
           \/ \E a \in A!Ids : A!Approve(a) \/ A!Reject(a) \/ A!Expire(a) \/ A!Consume(a)
           \/ \E x \in Actions : A!Request(x)
    PROVE  /\ A!Ids \subseteq A!Ids' /\ \A x : Spent(x) \subseteq Spent(x)'
           /\ \A a \in A!Ids : approvals'[a].subject = approvals[a].subject
<1>1. approvals \in Seq(A!ApprovalRecords)
  BY DEF StuckInv, TypeOK, A!ApprovalsType
<1>2. CASE UNCHANGED approvals
  BY <1>2 DEF A!Ids, Spent, SpentIn
<1>3. ASSUME NEW a \in A!Ids, A!Approve(a) \/ A!Reject(a) \/ A!Expire(a) \/ A!Consume(a)
      PROVE  /\ A!Ids \subseteq A!Ids' /\ \A x : Spent(x) \subseteq Spent(x)'
             /\ \A b \in A!Ids : approvals'[b].subject = approvals[b].subject
  <2>1. \A b \in A!Ids : approvals[b] \in A!ApprovalRecords
    BY <1>1, ElementOfSeq, LenProperties DEF A!Ids
  <2>2. /\ DOMAIN approvals' = DOMAIN approvals
        /\ \A b \in DOMAIN approvals : b # a => approvals'[b] = approvals[b]
    BY <1>1, <1>3 DEF A!Approve, A!Reject, A!Expire, A!Consume
  <2>3. /\ approvals'[a].subject = approvals[a].subject
        /\ approvals[a].approved => approvals'[a].approved
        /\ approvals[a].consumed => approvals'[a].consumed
    BY <1>1, <1>3, <2>1 DEF A!Approve, A!Reject, A!Expire, A!Consume, A!Ids, A!ApprovalRecords
  <2> QED
    BY <2>2, <2>3 DEF A!Ids, Spent, SpentIn
<1>4. ASSUME NEW x \in Actions, A!Request(x)
      PROVE  /\ A!Ids \subseteq A!Ids' /\ \A y : Spent(y) \subseteq Spent(y)'
             /\ \A b \in A!Ids : approvals'[b].subject = approvals[b].subject
  <2> DEFINE e == [subject |-> x, approved |-> FALSE, rejected |-> FALSE,
                   consumed |-> FALSE, expired |-> FALSE]
  <2>1. e \in A!ApprovalRecords /\ approvals' = Append(approvals, e)
    BY <1>4 DEF A!Request, A!ApprovalRecords
  <2> HIDE DEF e
  <2>2. /\ DOMAIN approvals = 1 .. Len(approvals) /\ Len(approvals) \in Nat
        /\ DOMAIN approvals' = 1 .. Len(approvals) + 1
        /\ \A b \in 1 .. Len(approvals) : approvals'[b] = approvals[b]
    BY <1>1, <2>1, AppendProperties, LenProperties
  <2> QED
    BY <2>2 DEF A!Ids, Spent, SpentIn
<1> QED
  BY <1>2, <1>3, <1>4

LEMMA ConsumptionIsSpent ==
    ASSUME StuckInv, NEW a \in A!Ids, NEW x, A!Consumable(a, x), A!Consume(a)
    PROVE  /\ a \in Spent(x)' /\ a \notin Spent(x)
<1>1. approvals[a] \in A!ApprovalRecords
  BY ElementOfSeq, LenProperties DEF StuckInv, TypeOK, A!ApprovalsType, A!Ids
<1> QED
  BY <1>1 DEF A!Consumable, A!Consume, Spent, SpentIn, A!Ids, A!ApprovalRecords

\* The balance of an action: nothing is spent, an approval is used up for one handler, or
\* a handler calls.
LEMMA Balance ==
    ASSUME CountInv, StuckInv', NEW x \in HighRisk, NEW r, NEW a,
           Spent(x) \subseteq Spent(x)',
           \/ invoked'[x] = invoked[x] /\ Holders(x)' \subseteq Holders(x)
           \/ /\ invoked'[x] = invoked[x] /\ Holders(x)' \subseteq Holders(x) \cup {r}
              /\ a \in Spent(x)' /\ a \notin Spent(x)
           \/ /\ invoked'[x] = invoked[x] + 1 /\ r \in Holders(x)
              /\ Holders(x)' \subseteq Holders(x) \ {r}
    PROVE  (/\ IsFiniteSet(Holders(x))
            /\ invoked[x] + Cardinality(Holders(x)) <= Cardinality(Spent(x)))'
<1> DEFINE held == Holders(x)
           after == Holders(x)'
           spent == Spent(x)
           used == Spent(x)'
<1>1. /\ IsFiniteSet(held) /\ invoked[x] \in Nat
      /\ invoked[x] + Cardinality(held) <= Cardinality(spent)
      /\ IsFiniteSet(spent)
  BY SpentFinite, HighRiskAssumption
     DEF CountInv, SoundInv, StuckInv, TypeOK, A!ApprovalsType, Spent
<1>2. IsFiniteSet(used)
  BY SpentFinite DEF StuckInv, TypeOK, A!ApprovalsType, Spent
<1> HIDE DEF held, after, spent, used
<1>3. Cardinality(spent) \in Nat /\ Cardinality(used) \in Nat /\ Cardinality(held) \in Nat
  BY <1>1, <1>2, FS_CardinalityType
<1>4. spent \subseteq used
  BY DEF spent, used
<1>5. CASE invoked'[x] = invoked[x] /\ after \subseteq held
  <2>1. IsFiniteSet(after) /\ Cardinality(after) <= Cardinality(held)
    BY <1>1, <1>5, FS_Subset
  <2>2. Cardinality(spent) <= Cardinality(used)
    BY <1>2, <1>4, FS_Subset
  <2>3. Cardinality(after) \in Nat
    BY <2>1, FS_CardinalityType
  <2>4. invoked'[x] + Cardinality(after) <= Cardinality(used)
    BY <1>1, <1>3, <1>5, <2>1, <2>2, <2>3
  <2> QED
    BY <2>1, <2>4 DEF after, used
<1>6. CASE /\ invoked'[x] = invoked[x] /\ after \subseteq held \cup {r}
           /\ a \in used /\ a \notin spent
  <2>1. IsFiniteSet(held \cup {r}) /\ Cardinality(held \cup {r}) <= Cardinality(held) + 1
    <3>1. /\ IsFiniteSet(held \cup {r})
          /\ Cardinality(held \cup {r}) =
               IF r \in held THEN Cardinality(held) ELSE Cardinality(held) + 1
      BY <1>1, FS_AddElement
    <3> QED
      BY <1>3, <3>1
  <2>2. IsFiniteSet(after) /\ Cardinality(after) <= Cardinality(held \cup {r})
    BY <1>6, <2>1, FS_Subset
  <2>3. IsFiniteSet(spent \cup {a}) /\ Cardinality(spent \cup {a}) = Cardinality(spent) + 1
    BY <1>1, <1>6, FS_AddElement
  <2>4. Cardinality(spent \cup {a}) <= Cardinality(used)
    BY <1>2, <1>4, <1>6, FS_Subset
  <2>5. Cardinality(after) \in Nat /\ Cardinality(held \cup {r}) \in Nat
    BY <2>1, <2>2, FS_CardinalityType
  <2>6. invoked'[x] + Cardinality(after) <= Cardinality(used)
    BY <1>1, <1>3, <1>6, <2>1, <2>2, <2>3, <2>4, <2>5
  <2> QED
    BY <2>2, <2>6 DEF after, used
<1>7. CASE invoked'[x] = invoked[x] + 1 /\ r \in held /\ after \subseteq held \ {r}
  <2>1. IsFiniteSet(held \ {r}) /\ Cardinality(held \ {r}) = Cardinality(held) - 1
    BY <1>1, <1>7, FS_RemoveElement
  <2>2. IsFiniteSet(after) /\ Cardinality(after) <= Cardinality(held \ {r})
    BY <1>7, <2>1, FS_Subset
  <2>3. Cardinality(spent) <= Cardinality(used)
    BY <1>2, <1>4, FS_Subset
  <2>4. Cardinality(after) \in Nat
    BY <2>2, FS_CardinalityType
  <2>5. invoked'[x] + Cardinality(after) <= Cardinality(used)
    BY <1>1, <1>3, <1>7, <2>1, <2>2, <2>3, <2>4
  <2> QED
    BY <2>2, <2>5 DEF after, used
<1> QED
  BY <1>5, <1>6, <1>7 DEF held, after, spent, used

LEMMA HoldersMove ==
    ASSUME NEW r \in Requests, NEW x, \A q \in Requests : q # r => req'[q] = req[q]
    PROVE  /\ Holders(x)' \subseteq Holders(x) \cup {r}
           /\ (Holds(req'[r], x) => Holds(req[r], x)) => Holders(x)' \subseteq Holders(x)
           /\ ~Holds(req'[r], x) => Holders(x)' \subseteq Holders(x) \ {r}
           /\ Holds(req[r], x) => r \in Holders(x)
  BY DEF Holders, Holds, Worked

\* Where a request that arrives starts.
LEMMA ArrivalPlace ==
    ASSUME StuckInv, NEW r \in Requests, Comes(r)
    PROVE  /\ req'[r].pc \in {"think", "consume", "answer"} /\ ~req'[r].approved
           /\ req'[r].pc = "answer" => req'[r].attested
<1>1. ASSUME NEW a, Chat(r, a) \/ Resume(r, a)
      PROVE  req'[r].pc \in {"think", "consume"} /\ ~req'[r].approved
  <2>1. PICK i : \/ req'[r] = [New EXCEPT !.pc = "think", !.presented = a]
                 \/ req'[r] = [New EXCEPT !.plan = task, !.presented = a, !.resumed = TRUE,
                                 !.pc = "think"]
                 \/ req'[r] = [New EXCEPT !.plan = task, !.presented = a, !.resumed = TRUE,
                                 !.pc = "consume", !.step = i]
    <3>1. CASE Chat(r, a)
      BY <3>1, Reached DEF Chat
    <3>2. CASE Resume(r, a)
      <4> DEFINE loaded == [New EXCEPT !.plan = task, !.presented = a, !.resumed = TRUE]
      <4>1. PICK i : \/ req'[r] = [loaded EXCEPT !.pc = "think"]
                     \/ req'[r] = [loaded EXCEPT !.pc = "consume", !.step = i]
        BY <3>2, Reached DEF Resume
      <4> QED
        BY <4>1 DEF New
    <3> QED
      BY <1>1, <3>1, <3>2
  <2> QED
    BY <2>1 DEF New
<1>2. ASSUME NEW st, Reconcile(r, st)
      PROVE  req'[r].pc = "answer" /\ ~req'[r].approved /\ req'[r].attested
  <2> DEFINE plan == [ status |-> IF st = "COMPLETED" THEN "ACTIVE" ELSE "REPLANNING",
                       steps  |-> [task.steps EXCEPT ![Len(task.steps)].status = st] ]
  <2>1. req'[r] = [New EXCEPT !.pc = "answer", !.attested = TRUE, !.plan = plan]
    BY <1>2, Reached DEF Reconcile
  <2> HIDE DEF plan
  <2> QED
    BY <2>1 DEF New
<1> QED
  BY <1>1, <1>2 DEF Comes

\* The actions that use no approval and call no tool.
LEMMA QuietMoves ==
    ASSUME SoundInv, NEW r \in Requests,
           \/ SavePlanned(r) \/ RefuseCall(r) \/ RecordOutcome(r) \/ RequestApproval(r)
           \/ WasteRound(r) \/ Finish(r) \/ Exhaust(r) \/ Answer(r) \/ ModelFails(r) \/ Crash(r)
           \/ \E x \in Actions : \E round \in {req[r].round, req[r].round + 1} :
                 BeginCall(r, x, round)
    PROVE  /\ \A x : Holds(req'[r], x) => Holds(req[r], x)
           /\ req'[r].presented \in {req[r].presented, NoApproval}
           /\ UNCHANGED invoked
           /\ UNCHANGED approvals \/ \E x \in Actions : A!Request(x)
<1>1. /\ req[r] \in HandlerStates /\ Sound(req[r]) /\ req[r].plan \in Plans
      /\ req[r].round \in Nat /\ StuckInv /\ Orderly(req[r])
  BY DEF SoundInv, StuckInv, TypeOK, HandlerStates
<1>2. Done.pc = "done" /\ Done.presented = NoApproval
  BY StartTypes, StartIsSound
<1>3. CASE SavePlanned(r)
  <2>1. PICK pc : req'[r] = [req[r] EXCEPT !.pc = pc] /\ req[r].pc = "plan"
    BY <1>1, <1>3, Reached DEF SavePlanned
  <2>2. /\ req'[r].plan = req[r].plan /\ req'[r].step = req[r].step
        /\ req'[r].approved = req[r].approved /\ req'[r].presented = req[r].presented
    BY <1>1, <2>1 DEF HandlerStates
  <2> QED
    BY <1>3, <2>1, <2>2 DEF SavePlanned, Holds, Worked, history
<1>4. CASE RefuseCall(r)
  BY <1>1, <1>4, DecidedStep DEF RefuseCall, Holds, history
<1>5. CASE RecordOutcome(r) \/ WasteRound(r)
  <2>1. req'[r].pc \in {"think", "more"} /\ req'[r].presented = req[r].presented
    <3>1. CASE RecordOutcome(r)
      <4>1. req'[r] = [req[r] EXCEPT !.pc = IF req[r].round = 0 THEN "think" ELSE "more"]
        BY <1>1, <3>1, Reached DEF RecordOutcome
      <4> QED
        BY <1>1, <4>1 DEF HandlerStates
    <3>2. CASE WasteRound(r)
      <4>1. req'[r] = [req[r] EXCEPT !.pc = "think", !.round = @ + 1]
        BY <1>1, <3>2, Reached DEF WasteRound
      <4> QED
        BY <1>1, <4>1 DEF HandlerStates
    <3> QED
      BY <1>5, <3>1, <3>2
  <2> QED
    BY <1>5, <2>1 DEF RecordOutcome, WasteRound, Holds, history
<1>6. CASE RequestApproval(r)
  <2>1. Action(r) \in Actions
    BY <1>1, <1>6, WorkedStep DEF Action, RequestApproval
  <2> QED
    BY <1>1, <1>6, <2>1, RequestApprovalMoves DEF RequestApproval, Holds, history
<1>7. CASE Finish(r) \/ Exhaust(r)
  <2>1. PICK plan \in Plans : req'[r] = Answering(plan)
    <3>1. [req[r].plan EXCEPT !.status = "FAILED"] \in Plans
      BY <1>1 DEF Plans, PlanStatuses
    <3> QED
      BY <1>1, <1>7, <3>1, MarkCompletedEffect, Reached DEF Finish, Exhaust
  <2>2. req'[r].pc \in {"done", "answer"} /\ req'[r].presented = NoApproval
    <3>1. New.presented = NoApproval /\ (Answering(plan) = Done \/ Answering(plan).presented = NoApproval)
      BY DEF Answering, New
    <3> QED
      BY <1>2, <2>1, <3>1, AnsweringEffect
  <2> QED
    BY <1>7, <2>2 DEF Finish, Exhaust, Holds, history
<1>8. CASE Answer(r) \/ ModelFails(r) \/ Crash(r)
  <2>1. req'[r] = Done
    BY <1>1, <1>8, Reached DEF Answer, ModelFails, Crash
  <2> QED
    BY <1>2, <1>8, <2>1 DEF Answer, ModelFails, Crash, Holds, history
<1>9. ASSUME NEW x \in Actions, NEW round \in {req[r].round, req[r].round + 1},
             BeginCall(r, x, round)
      PROVE  /\ \A y : Holds(req'[r], y) => Holds(req[r], y)
             /\ req'[r].presented \in {req[r].presented, NoApproval}
             /\ UNCHANGED invoked /\ UNCHANGED approvals
  <2>1. round \in Nat
    BY <1>1
  <2> QED
    BY <1>1, <1>9, <2>1, BeginCallMoves DEF BeginCall, Holds, history
<1> QED
  BY <1>3, <1>4, <1>5, <1>6, <1>7, <1>8, <1>9

CountNow(x) ==
    /\ IsFiniteSet(Holders(x))
    /\ invoked[x] + Cardinality(Holders(x)) <= Cardinality(Spent(x))

LEMMA CountNext == CountInv /\ [Next]_vars => CountInv'
<1> SUFFICES ASSUME CountInv, [Next]_vars PROVE CountInv'
  OBVIOUS
<1>1. SoundInv /\ SoundInv' /\ StuckInv /\ StuckInv'
  BY SoundNext DEF CountInv, SoundInv
<1> SUFFICES /\ \A r \in Requests : req'[r].presented \in {NoApproval} \cup A!Ids'
             /\ \A x \in HighRisk : CountNow(x)'
  BY <1>1 DEF CountInv, CountNow
<1>2. CASE UNCHANGED <<req, invoked>> /\ A!Ids \subseteq A!Ids' /\ \A x : Spent(x) \subseteq Spent(x)'
  <2>1. ASSUME NEW x \in HighRisk PROVE CountNow(x)'
    BY <1>1, <1>2, Balance DEF CountNow, Holders, Holds, Worked
  <2> QED
    BY <1>2, <2>1 DEF CountInv
<1>3. ASSUME NEW r \in Requests,
             \A q \in Requests : q # r => req'[q] = req[q],
             req'[r].presented \in {NoApproval} \cup A!Ids, A!Ids \subseteq A!Ids'
      PROVE  \A q \in Requests : req'[q].presented \in {NoApproval} \cup A!Ids'
  BY <1>3 DEF CountInv
<1>4. ASSUME NEW r \in Requests, UNCHANGED invoked, \A x : Spent(x) \subseteq Spent(x)',
             \A q \in Requests : q # r => req'[q] = req[q],
             \A x : Holds(req'[r], x) => Holds(req[r], x)
      PROVE  \A x \in HighRisk : CountNow(x)'
  BY <1>1, <1>4, HoldersMove, Balance DEF CountNow
<1>5. ASSUME NEW r \in Requests, NEW a \in A!Ids, NEW x, UNCHANGED invoked,
             A!Consumable(a, x), A!Consume(a),
             \A q \in Requests : q # r => req'[q] = req[q],
             \A y : Holds(req'[r], y) => y = x
      PROVE  \A y \in HighRisk : CountNow(y)'
  <2>1. a \in Spent(x)' /\ a \notin Spent(x) /\ \A y : Spent(y) \subseteq Spent(y)'
    BY <1>1, <1>5, ConsumptionIsSpent, ApprovalsStay
  <2> SUFFICES ASSUME NEW y \in HighRisk PROVE CountNow(y)'
    OBVIOUS
  <2>2. CASE y = x
    BY <1>1, <1>5, <2>1, <2>2, HoldersMove, Balance DEF CountNow
  <2>3. CASE y # x
    BY <1>1, <1>5, <2>1, <2>3, HoldersMove, Balance DEF CountNow
  <2> QED
    BY <2>2, <2>3
<1>6. ASSUME NEW r \in Requests, Proceed(r) \/ Crash(r) \/ Comes(r)
      PROVE  /\ \A q \in Requests : q # r => req'[q] = req[q]
             /\ req[r] \in HandlerStates /\ Sound(req[r]) /\ Orderly(req[r])
             /\ req[r].presented \in {NoApproval} \cup A!Ids
  BY <1>1, <1>6, OneHandlerMoves DEF SoundInv, StuckInv, TypeOK, CountInv
<1>7. ASSUME NEW r \in Requests,
             \/ SavePlanned(r) \/ RefuseCall(r) \/ RecordOutcome(r) \/ RequestApproval(r)
             \/ WasteRound(r) \/ Finish(r) \/ Exhaust(r) \/ Answer(r) \/ ModelFails(r) \/ Crash(r)
             \/ \E x \in Actions : \E round \in {req[r].round, req[r].round + 1} :
                   BeginCall(r, x, round)
      PROVE  /\ \A q \in Requests : req'[q].presented \in {NoApproval} \cup A!Ids'
             /\ \A x \in HighRisk : CountNow(x)'
  <2>1. Proceed(r) \/ Crash(r)
    BY <1>7 DEF Proceed
  <2>2. /\ \A x : Holds(req'[r], x) => Holds(req[r], x)
        /\ req'[r].presented \in {req[r].presented, NoApproval}
        /\ UNCHANGED invoked
        /\ UNCHANGED approvals \/ \E x \in Actions : A!Request(x)
    BY <1>1, <1>7, QuietMoves
  <2>3. A!Ids \subseteq A!Ids' /\ \A x : Spent(x) \subseteq Spent(x)'
    BY <1>1, <2>2, ApprovalsStay
  <2> QED
    BY <1>3, <1>4, <1>6, <2>1, <2>2, <2>3
<1>8. ASSUME NEW r \in Requests, ConsumePending(r) \/ Authorize(r)
      PROVE  /\ \A q \in Requests : req'[q].presented \in {NoApproval} \cup A!Ids'
             /\ \A x \in HighRisk : CountNow(x)'
  <2>1. Proceed(r) /\ UNCHANGED invoked
    BY <1>8 DEF Proceed, ConsumePending, Authorize, history
  <2> DEFINE a == req[r].presented
             x == Worked(req[r]).action
  <2>2. CASE /\ A!Consumable(a, x) /\ A!Consume(a) /\ a # NoApproval
             /\ req'[r].presented = a
             /\ Worked(req'[r]).action = x
    <3>1. a \in A!Ids /\ \A y : Holds(req'[r], y) => y = x
      BY <1>6, <2>1, <2>2 DEF Holds
    <3>2. A!Ids \subseteq A!Ids'
      BY <1>1, <2>2, <3>1, ApprovalsStay
    <3> HIDE DEF x, a
    <3>3. \A y \in HighRisk : CountNow(y)'
      BY <1>5, <1>6, <2>1, <2>2, <3>1
    <3> QED
      BY <1>3, <1>6, <2>1, <2>2, <3>1, <3>2, <3>3
  <2>3. CASE /\ UNCHANGED approvals
             /\ \A y : ~Holds(req'[r], y)
             /\ req'[r].presented \in {a, NoApproval}
    <3>1. A!Ids \subseteq A!Ids' /\ \A y : Spent(y) \subseteq Spent(y)'
      BY <1>1, <2>3, ApprovalsStay
    <3> QED
      BY <1>3, <1>4, <1>6, <2>1, <2>3, <3>1
  <2>4. CASE ConsumePending(r)
    <3>1. a # NoApproval
      BY <1>6, <2>1, <2>4 DEF Sound, ConsumePending
    <3> QED
      BY <1>1, <2>2, <2>3, <2>4, <3>1, ConsumePendingMoves, StartTypes, StartIsSound DEF Holds
  <2>5. CASE Authorize(r)
    <3>1. CASE /\ a # NoApproval /\ A!Consumable(a, Action(r)) /\ A!Consume(a)
               /\ Goto(r, [req[r] EXCEPT !.pc = "call", !.approved = TRUE])
      <4>1. req'[r] = [req[r] EXCEPT !.pc = "call", !.approved = TRUE]
        BY <1>1, <3>1, Reached
      <4>2. req'[r].presented = a /\ req'[r].plan = req[r].plan /\ req'[r].step = req[r].step
        BY <1>6, <2>1, <4>1 DEF HandlerStates
      <4> QED
        BY <2>2, <3>1, <4>2 DEF Worked, Action
    <3>2. CASE /\ UNCHANGED approvals
               /\ Goto(r, [req[r] EXCEPT !.pc = "request",
                             !.plan = Complete(@, req[r].step, "AWAITING_APPROVAL")])
      BY <1>1, <2>3, <3>2, DecidedStep DEF Holds
    <3> QED
      BY <2>5, <3>1, <3>2 DEF Authorize
  <2> QED
    BY <1>8, <2>4, <2>5
<1>9. ASSUME NEW r \in Requests, NEW st \in {"COMPLETED", "FAILED"}, CallTool(r, st)
      PROVE  /\ \A q \in Requests : req'[q].presented \in {NoApproval} \cup A!Ids'
             /\ \A x \in HighRisk : CountNow(x)'
  <2> DEFINE x == Worked(req[r]).action
  <2>1. Proceed(r) /\ UNCHANGED approvals /\ req[r].pc = "call"
    BY <1>9 DEF Proceed, CallTool
  <2>2. A!Ids \subseteq A!Ids' /\ \A y : Spent(y) \subseteq Spent(y)'
    BY <1>1, <2>1, ApprovalsStay
  <2>3. req'[r].pc = "record" /\ req'[r].presented = req[r].presented
    BY <1>1, <1>9, DecidedStep DEF CallTool
  <2>4. x \in Actions /\ invoked' = [invoked EXCEPT ![x] = @ + 1] /\ invoked \in [Actions -> Nat]
    BY <1>1, <1>6, <1>9, <2>1, WorkedStep DEF CallTool, Action, Worked, StuckInv, TypeOK
  <2>5. x \in HighRisk => Holds(req[r], x)
    BY <1>6, <2>1 DEF Sound, Holds
  <2> HIDE DEF x
  <2>6. ASSUME NEW y \in HighRisk PROVE CountNow(y)'
    <3>1. Holders(y)' \subseteq Holders(y) \ {r}
      BY <1>6, <2>1, <2>3, HoldersMove DEF Holds
    <3>2. CASE y = x
      <4>1. invoked'[y] = invoked[y] + 1 /\ r \in Holders(y)
        BY <1>6, <2>1, <2>4, <2>5, <3>2, HoldersMove, HighRiskAssumption
      <4> QED
        BY <1>1, <2>2, <3>1, <4>1, Balance DEF CountNow
    <3>3. CASE y # x
      <4>1. invoked'[y] = invoked[y] /\ Holders(y)' \subseteq Holders(y)
        BY <2>4, <3>1, <3>3, HighRiskAssumption
      <4> QED
        BY <1>1, <2>2, <4>1, Balance DEF CountNow
    <3> QED
      BY <3>2, <3>3
  <2> QED
    BY <1>3, <1>6, <2>1, <2>2, <2>3, <2>6
<1>10. ASSUME NEW r \in Requests, Comes(r)
       PROVE  /\ \A q \in Requests : req'[q].presented \in {NoApproval} \cup A!Ids'
              /\ \A x \in HighRisk : CountNow(x)'
  <2>1. UNCHANGED <<approvals, invoked>>
    BY <1>10 DEF Comes, Chat, Resume, Reconcile, Arrive
  <2>2. req'[r].presented \in {NoApproval} \cup A!Ids
    BY <1>1, <1>10, ArrivalSound DEF Comes
  <2>3. \A x : ~Holds(req'[r], x)
    BY <1>1, <1>10, ArrivalPlace DEF Holds
  <2>4. A!Ids \subseteq A!Ids' /\ \A x : Spent(x) \subseteq Spent(x)'
    BY <1>1, <2>1, ApprovalsStay
  <2> QED
    BY <1>3, <1>4, <1>6, <1>10, <2>1, <2>2, <2>3, <2>4
<1>11. ASSUME NEW a \in A!Ids, Decide(a)
       PROVE  /\ \A q \in Requests : req'[q].presented \in {NoApproval} \cup A!Ids'
              /\ \A x \in HighRisk : CountNow(x)'
  BY <1>1, <1>2, <1>11, ApprovalsStay DEF Decide, history
<1>12. CASE UNCHANGED vars
  BY <1>1, <1>2, <1>12, ApprovalsStay DEF vars
<1>13. ASSUME NEW r \in Requests, Proceed(r)
       PROVE  /\ \A q \in Requests : req'[q].presented \in {NoApproval} \cup A!Ids'
              /\ \A x \in HighRisk : CountNow(x)'
  BY <1>7, <1>8, <1>9, <1>13 DEF Proceed
<1>14. ASSUME NEW r \in Requests, Crash(r)
       PROVE  /\ \A q \in Requests : req'[q].presented \in {NoApproval} \cup A!Ids'
              /\ \A x \in HighRisk : CountNow(x)'
  BY <1>7, <1>14
<1> QED
  BY <1>10, <1>11, <1>12, <1>13, <1>14, NextCases

LEMMA Counting == Spec => []CountInv
<1>1. Init => CountInv
  <2> SUFFICES ASSUME Init PROVE CountInv
    OBVIOUS
  <2>1. SoundInv
    BY StuckInit, StartIsSound DEF Init, SoundInv
  <2>2. \A r \in Requests : req[r].presented = NoApproval /\ req[r].pc = "new"
    BY StartTypes DEF Init, New
  <2>3. ASSUME NEW x \in HighRisk
        PROVE  IsFiniteSet(Holders(x)) /\ invoked[x] + Cardinality(Holders(x)) <= Cardinality(Spent(x))
    <3>1. Holders(x) = {} /\ Spent(x) = {} /\ invoked[x] = 0
      BY <2>2, EmptySeq, HighRiskAssumption
         DEF Holders, Holds, Spent, SpentIn, Init, A!ApprovalsInit
    <3> QED
      BY <3>1, FS_EmptySet
  <2> QED
    BY <2>1, <2>2, <2>3 DEF CountInv
<1> QED
  BY <1>1, CountNext, PTL DEF Spec

\* However many requests share the task, present one approval or die, and whatever the
\* operators decide meanwhile, a HIGH-risk action is called at most as often as approvals
\* of exactly that action were granted and consumed.
THEOREM CallsAreApprovedAlways == Spec => []CallsAreApproved
<1>1. ASSUME CountInv, NEW x \in HighRisk PROVE invoked[x] <= Cardinality(Spent(x))
  <2>1. /\ invoked[x] \in Nat /\ IsFiniteSet(Holders(x)) /\ IsFiniteSet(Spent(x))
        /\ invoked[x] + Cardinality(Holders(x)) <= Cardinality(Spent(x))
    BY <1>1, SpentFinite, HighRiskAssumption
       DEF CountInv, SoundInv, StuckInv, TypeOK, A!ApprovalsType, Spent
  <2>2. Cardinality(Holders(x)) \in Nat /\ Cardinality(Spent(x)) \in Nat
    BY <2>1, FS_CardinalityType
  <2> QED
    BY <2>1, <2>2
<1>2. CountInv => CallsAreApproved
  BY <1>1 DEF CallsAreApproved, Spent, SpentIn, A!Ids
<1> QED
  BY <1>2, Counting, PTL

----------------------------------------------------------------------------
(* The approvals that plans wait for *)

AskedIn(plan, given) ==
    \A i \in InPlan(plan, "AWAITING_APPROVAL") :
        LET a == plan.steps[i].approval
        IN  a \in DOMAIN given /\ given[a].subject = plan.steps[i].action

\* Elsewhere the plan of a handler has no waiting step, or one being requested.
AskedInv ==
    /\ CountInv
    /\ AskedIn(task, approvals)
    /\ \A r \in Requests : req[r].pc \in {"consume", "answer"} => AskedIn(req[r].plan, approvals)

LEMMA NothingIsAsked ==
    ASSUME NEW plan, NEW given, Open(plan) = {}
    PROVE  AskedIn(plan, given)
  BY DEF Open, AskedIn

LEMMA ApprovalsMove ==
    ASSUME CountInv, [Next]_vars
    PROVE  /\ A!Ids \subseteq A!Ids'
           /\ \A a \in A!Ids : approvals'[a].subject = approvals[a].subject
<1>1. StuckInv /\ \A r \in Requests : Sound(req[r])
  BY DEF CountInv, SoundInv
<1>2. ASSUME NEW r \in Requests, ConsumePending(r) \/ Authorize(r)
      PROVE  UNCHANGED approvals \/ \E a \in A!Ids : A!Consume(a)
  BY <1>1, <1>2 DEF CountInv, ConsumePending, Authorize, Sound
<1>3. ASSUME NEW r \in Requests, RequestApproval(r)
      PROVE  \E x \in Actions : A!Request(x)
  <2>1. Action(r) \in Actions
    BY <1>1, <1>3, WorkedStep DEF RequestApproval, Action, StuckInv, TypeOK
  <2> QED
    BY <1>3, <2>1 DEF RequestApproval
<1>4. ASSUME NEW r \in Requests, Proceed(r), ~ConsumePending(r), ~Authorize(r), ~RequestApproval(r)
      PROVE  UNCHANGED approvals
  BY <1>4 DEF Proceed, SavePlanned, RefuseCall, CallTool, RecordOutcome, WasteRound,
              BeginCall, Finish, Exhaust, Answer, ModelFails
<1>5. ASSUME NEW r \in Requests, Crash(r) \/ Comes(r) PROVE UNCHANGED approvals
  BY <1>5 DEF Crash, Comes, Chat, Resume, Reconcile, Arrive
<1>6. ASSUME NEW a \in A!Ids, Decide(a)
      PROVE  \E b \in A!Ids : A!Approve(b) \/ A!Reject(b) \/ A!Expire(b)
  BY <1>6 DEF Decide
<1>7. \/ UNCHANGED approvals
      \/ \E a \in A!Ids : A!Approve(a) \/ A!Reject(a) \/ A!Expire(a) \/ A!Consume(a)
      \/ \E x \in Actions : A!Request(x)
  BY <1>2, <1>3, <1>4, <1>5, <1>6, NextCases DEF vars
<1> QED
  BY <1>1, <1>7, ApprovalsStay

LEMMA AskedStays ==
    ASSUME CountInv, [Next]_vars, NEW plan, AskedIn(plan, approvals)
    PROVE  AskedIn(plan, approvals')
  BY ApprovalsMove DEF AskedIn, A!Ids

\* A handler saves its plan before a call, after one, or as its answer.
LEMMA SavedIsAsked ==
    ASSUME AskedInv, NEW r \in Requests, Proceed(r), SaveTask(r)
    PROVE  AskedIn(task', approvals) \/ UNCHANGED task
<1>1. /\ req[r] \in HandlerStates /\ Orderly(req[r]) /\ Sound(req[r]) /\ req[r].plan \in Plans
      /\ task' = req[r].plan
  BY DEF AskedInv, CountInv, SoundInv, StuckInv, TypeOK, HandlerStates, SaveTask
<1>2. CASE req[r].pc = "plan"
  <2>1. req[r].step = Len(req[r].plan.steps) /\ Worked(req[r]).status = "PLANNED"
    BY <1>1, <1>2 DEF Orderly, Sound
  <2>2. InPlan(req[r].plan, "AWAITING_APPROVAL") = {}
    BY <1>1, <2>1 DEF Orderly, OpenStepIsLast, InPlan, Worked
  <2> QED
    BY <1>1, <2>2 DEF AskedIn
<1>3. CASE req[r].pc \in {"record", "refused"}
  BY <1>1, <1>3, NothingIsAsked DEF Orderly
<1>4. CASE req[r].pc = "answer"
  BY <1>1, <1>4 DEF AskedInv
<1>5. CASE req[r].pc \notin {"plan", "record", "refused", "answer"}
  BY <1>5 DEF Proceed, ConsumePending, SavePlanned, Authorize, RefuseCall, CallTool,
       RecordOutcome, RequestApproval, WasteRound, BeginCall, Finish, Exhaust, Answer, ModelFails
<1> QED
  BY <1>2, <1>3, <1>4, <1>5

\* The step that is to wait is the last one, and gets the approval just requested for it.
LEMMA RequestIsAsked ==
    ASSUME StuckInv, NEW r \in Requests, RequestApproval(r)
    PROVE  AskedIn(req'[r].plan, approvals')
<1> DEFINE plan == req[r].plan
           i == req[r].step
           e == [plan.steps[i] EXCEPT !.approval = Len(approvals) + 1]
           new == [subject |-> Action(r), approved |-> FALSE, rejected |-> FALSE,
                   consumed |-> FALSE, expired |-> FALSE]
           h == [req[r] EXCEPT !.pc = "answer", !.plan.steps[i].approval = Len(approvals) + 1]
<1>1. /\ req[r] \in HandlerStates /\ Orderly(req[r]) /\ req[r].pc = "request"
      /\ approvals \in Seq(A!ApprovalRecords)
  BY DEF StuckInv, TypeOK, RequestApproval, A!ApprovalsType
<1>2. /\ plan \in Plans /\ i \in DOMAIN plan.steps /\ plan.steps[i] \in PlanSteps
      /\ Action(r) \in Actions /\ i = Len(plan.steps)
  BY <1>1, WorkedStep DEF Action
<1>3. req'[r] = h /\ approvals' = Append(approvals, new)
  BY Reached DEF RequestApproval, A!Request
<1>4. new \in A!ApprovalRecords
  BY <1>2 DEF A!ApprovalRecords
<1>5. new.subject = Action(r)
  OBVIOUS
<1> HIDE DEF new
<1>6. /\ Len(approvals) + 1 \in DOMAIN approvals'
      /\ approvals'[Len(approvals) + 1].subject = Action(r)
  BY <1>1, <1>3, <1>4, <1>5, AppendProperties, LenProperties
<1>7. e.approval = Len(approvals) + 1 /\ e.action = Action(r)
  BY <1>2 DEF PlanSteps, Action
<1>8. h.plan.steps = [plan.steps EXCEPT ![i] = e]
  BY <1>1, <1>2 DEF HandlerStates, Plans
<1>9. /\ DOMAIN h.plan.steps = DOMAIN plan.steps
      /\ h.plan.steps[i] = e
      /\ \A j \in DOMAIN plan.steps : j # i => h.plan.steps[j] = plan.steps[j]
  BY <1>2, <1>8 DEF Plans
<1> HIDE DEF h, e
<1>10. InPlan(h.plan, "AWAITING_APPROVAL") \subseteq {i}
  BY <1>1, <1>2, <1>9 DEF Orderly, OpenStepIsLast, InPlan
<1> QED
  BY <1>3, <1>6, <1>7, <1>9, <1>10 DEF AskedIn

LEMMA AnswerIsAsked ==
    ASSUME NEW plan \in Plans, Open(plan) = {}, NEW given
    PROVE  AskedIn(Answering(plan).plan, given)
  BY AnsweringEffect, StartTypes, StartIsOrderly, NothingIsAsked

LEMMA ProceedIsAsked ==
    ASSUME AskedInv, NEW r \in Requests, Proceed(r), req'[r].pc \in {"consume", "answer"}
    PROVE  AskedIn(req'[r].plan, approvals')
<1>1. /\ req[r] \in HandlerStates /\ Orderly(req[r]) /\ req[r].plan \in Plans
      /\ req[r].round \in Nat /\ StuckInv
  BY DEF AskedInv, CountInv, SoundInv, StuckInv, TypeOK, HandlerStates
<1>2. CASE RequestApproval(r)
  BY <1>1, <1>2, RequestIsAsked
<1>3. CASE Finish(r)
  <2>1. /\ MarkCompleted(req[r].plan) \in Plans
        /\ Open(MarkCompleted(req[r].plan)) = {}
    BY <1>1, <1>3, MarkCompletedEffect, SameStepsSameOpen DEF Finish, Orderly
  <2> QED
    BY <1>1, <1>3, <2>1, AnswerIsAsked, Reached DEF Finish
<1>4. CASE Exhaust(r)
  <2> DEFINE plan == [req[r].plan EXCEPT !.status = "FAILED"]
  <2>1. plan \in Plans /\ plan.steps = req[r].plan.steps
    BY <1>1 DEF Plans, PlanStatuses
  <2>2. Goto(r, Answering(plan))
    BY <1>4 DEF Exhaust
  <2> HIDE DEF plan
  <2>3. Open(plan) = {}
    BY <1>1, <1>4, <2>1, SameStepsSameOpen DEF Exhaust, Orderly
  <2> QED
    BY <1>1, <2>1, <2>2, <2>3, AnswerIsAsked, Reached
<1>5. CASE ConsumePending(r)
  BY <1>1, <1>5, ConsumePendingMoves, StartTypes
<1>6. ASSUME NEW x \in Actions, NEW round \in {req[r].round, req[r].round + 1},
             BeginCall(r, x, round)
      PROVE  FALSE
  <2>1. round \in Nat
    BY <1>1
  <2> QED
    BY <1>1, <1>6, <2>1, BeginCallMoves
<1>7. CASE Authorize(r) \/ RefuseCall(r) \/ \E st \in {"COMPLETED", "FAILED"} : CallTool(r, st)
  <2>1. CASE Goto(r, [req[r] EXCEPT !.pc = "call", !.approved = TRUE])
    <3>1. req'[r] = [req[r] EXCEPT !.pc = "call", !.approved = TRUE]
      BY <1>1, <2>1, Reached
    <3>2. req'[r].pc = "call"
      BY <1>1, <3>1 DEF HandlerStates
    <3> QED
      BY <3>2
  <2>2. ASSUME NEW st \in {"COMPLETED", "FAILED", "AWAITING_APPROVAL"},
               NEW pc \in {"record", "refused", "request"},
               Goto(r, [req[r] EXCEPT !.pc = pc, !.plan = Complete(@, req[r].step, st)])
        PROVE  FALSE
    BY <1>1, <2>2, DecidedStep
  <2> QED
    BY <1>7, <2>1, <2>2 DEF Authorize, RefuseCall, CallTool
<1>8. CASE SavePlanned(r) \/ RecordOutcome(r) \/ WasteRound(r)
  <2>1. ASSUME NEW pc \in {"authorize", "call", "think", "more"},
               Goto(r, [req[r] EXCEPT !.pc = pc])
        PROVE  FALSE
    BY <1>1, <2>1, Reached DEF HandlerStates
  <2>2. CASE SavePlanned(r) \/ RecordOutcome(r)
    BY <2>1, <2>2 DEF SavePlanned, RecordOutcome
  <2>3. CASE WasteRound(r)
    <3>1. req'[r] = [req[r] EXCEPT !.pc = "think", !.round = @ + 1]
      BY <1>1, <2>3, Reached DEF WasteRound
    <3>2. req'[r].pc = "think"
      BY <1>1, <3>1 DEF HandlerStates
    <3> QED
      BY <3>2
  <2> QED
    BY <1>8, <2>2, <2>3
<1>9. CASE Answer(r) \/ ModelFails(r)
  BY <1>1, <1>9, Reached, StartTypes DEF Answer, ModelFails
<1> QED
  BY <1>2, <1>3, <1>4, <1>5, <1>6, <1>7, <1>8, <1>9 DEF Proceed

LEMMA ComerIsAsked ==
    ASSUME AskedInv, NEW r \in Requests, Crash(r) \/ Comes(r),
           req'[r].pc \in {"consume", "answer"}
    PROVE  AskedIn(req'[r].plan, approvals)
<1>1. StuckInv /\ task \in Plans /\ OpenStepIsLast(task) /\ AskedIn(task, approvals)
  BY DEF AskedInv, CountInv, SoundInv, StuckInv, TypeOK
<1>2. CASE Crash(r)
  BY <1>1, <1>2, Reached, StartTypes DEF Crash
<1>3. ASSUME NEW a \in {NoApproval} \cup A!Ids, Chat(r, a) PROVE FALSE
  <2>1. req'[r] = [New EXCEPT !.pc = "think", !.presented = a]
    BY <1>1, <1>3, Reached DEF Chat
  <2> QED
    BY <2>1 DEF New
<1>4. ASSUME NEW a \in {NoApproval} \cup A!Ids, Resume(r, a)
      PROVE  AskedIn(req'[r].plan, approvals)
  <2> DEFINE loaded == [New EXCEPT !.plan = task, !.presented = a, !.resumed = TRUE]
  <2>1. PICK i : \/ req'[r] = [loaded EXCEPT !.pc = "think"]
                 \/ req'[r] = [loaded EXCEPT !.pc = "consume", !.step = i]
    BY <1>1, <1>4, Reached DEF Resume
  <2>2. req'[r].plan = task
    BY <2>1 DEF New
  <2> QED
    BY <1>1, <2>2
<1>5. ASSUME NEW st \in {"COMPLETED", "FAILED"}, Reconcile(r, st)
      PROVE  AskedIn(req'[r].plan, approvals)
  <2> DEFINE plan == [ status |-> IF st = "COMPLETED" THEN "ACTIVE" ELSE "REPLANNING",
                       steps  |-> [task.steps EXCEPT ![Len(task.steps)].status = st] ]
  <2>1. req'[r] = [New EXCEPT !.pc = "answer", !.attested = TRUE, !.plan = plan]
    BY <1>1, <1>5, Reached DEF Reconcile
  <2>2. plan.steps = WithStep(task, Len(task.steps), st)
    BY DEF WithStep
  <2>3. plan = [ status |-> IF st = "COMPLETED" THEN "ACTIVE" ELSE "REPLANNING",
                 steps  |-> WithStep(task, Len(task.steps), st) ]
    BY DEF WithStep
  <2>4. WithStep(task, Len(task.steps), st) \in Seq(PlanSteps)
    BY <1>1, ChangedStep DEF StepStatuses
  <2>5. plan \in Plans
    BY <2>3, <2>4 DEF Plans, PlanStatuses
  <2> HIDE DEF plan
  <2>6. Open(plan) = {}
    BY <1>1, <2>2, <2>5, LastStepDecided DEF StepStatuses
  <2>7. req'[r].plan = plan
    BY <2>1 DEF New
  <2> QED
    BY <2>6, <2>7, NothingIsAsked
<1> QED
  BY <1>2, <1>3, <1>4, <1>5 DEF Comes

LEMMA AskedNext == AskedInv /\ [Next]_vars => AskedInv'
<1> SUFFICES ASSUME AskedInv, [Next]_vars PROVE AskedInv'
  OBVIOUS
<1>1. CountInv /\ CountInv' /\ StuckInv
  BY CountNext DEF AskedInv, CountInv, SoundInv
<1>2. CASE UNCHANGED <<task, req>>
  BY <1>1, <1>2, AskedStays DEF AskedInv
<1>3. ASSUME NEW r \in Requests, Proceed(r) \/ Crash(r) \/ Comes(r) PROVE AskedInv'
  <2>1. /\ \A q \in Requests : q # r => req'[q] = req[q]
        /\ UNCHANGED task \/ (Proceed(r) /\ SaveTask(r))
    <3>1. (\A q \in Requests : q # r => req'[q] = req[q]) /\ (UNCHANGED task \/ SaveTask(r))
      BY <1>1, <1>3, OneHandlerMoves
    <3>2. Crash(r) => UNCHANGED task
      BY DEF Crash
    <3>3. ASSUME NEW a \in {NoApproval} \cup A!Ids, Chat(r, a) \/ Resume(r, a)
          PROVE  UNCHANGED task
      <4>1. Arrive(r)
        BY <3>3 DEF Chat, Resume
      <4> QED
        BY <4>1 DEF Arrive
    <3>4. ASSUME NEW st \in {"COMPLETED", "FAILED"}, Reconcile(r, st) PROVE UNCHANGED task
      BY <3>4 DEF Reconcile, Arrive
    <3> QED
      BY <1>3, <3>1, <3>2, <3>3, <3>4 DEF Comes
  <2>2. AskedIn(task', approvals')
    BY <1>1, <2>1, SavedIsAsked, AskedStays DEF AskedInv
  <2>3. req'[r].pc \in {"consume", "answer"} => AskedIn(req'[r].plan, approvals')
    BY <1>1, <1>3, ProceedIsAsked, ComerIsAsked, AskedStays
  <2>4. ASSUME NEW q \in Requests, req'[q].pc \in {"consume", "answer"}
        PROVE  AskedIn(req'[q].plan, approvals')
    BY <1>1, <2>1, <2>3, <2>4, AskedStays DEF AskedInv
  <2> QED
    BY <1>1, <2>2, <2>4 DEF AskedInv
<1> QED
  BY <1>2, <1>3, NextCases DEF Decide, vars

LEMMA Asking == Spec => []AskedInv
<1>1. Init /\ CountInv => AskedInv
  <2> SUFFICES ASSUME Init, CountInv PROVE AskedInv
    OBVIOUS
  <2>1. AskedIn(task, approvals)
    BY StartIsOrderly, NothingIsAsked DEF Init
  <2> QED
    BY <2>1, StartTypes DEF Init, AskedInv
<1> QED
  BY <1>1, AskedNext, Counting, PTL DEF Spec

\* However many requests share a task and whenever they die: a task blocked by a PLANNED
\* step is one the operator can reconcile, and one that waits for an approval waits for
\* that of its last step, requested for that action.  It says nothing of what becomes of
\* that approval.
THEOREM BlockedTasksAreReconcilable == Spec => []BlockedTaskIsReconcilable
<1>1. AskedInv => BlockedTaskIsReconcilable
  <2> SUFFICES ASSUME AskedInv PROVE BlockedTaskIsReconcilable
    OBVIOUS
  <2>1. OpenStepIsLast(task) /\ AskedIn(task, approvals)
    BY DEF AskedInv, CountInv, SoundInv, StuckInv
  <2> QED
    BY <2>1 DEF BlockedTaskIsReconcilable, Interrupted, OpenStepIsLast, AskedIn, InPlan, A!Ids
<1> QED
  BY <1>1, Asking, PTL

----------------------------------------------------------------------------
(* Requests that do not overlap *)

\* Saving the plan of a handler that is about to call, or not.
LEMMA PlannedIsSaved ==
    ASSUME NEW h \in HandlerStates, Orderly(h), Sound(h), h.pc \in {"plan", "authorize", "call"}
    PROVE  Planned(h.plan) # {}
<1>1. h.step \in DOMAIN h.plan.steps
  BY WorkedStep
<1> QED
  BY <1>1 DEF Sound, Worked, Planned, InPlan

\* The handler that works alone, at its next step.
LEMMA AloneProceeds ==
    ASSUME AloneInv, ~overlapped, NEW r \in Requests, Proceed(r), Working(r)
    PROVE  /\ req'[r].pc # "done" => InStep(req[r])'
           /\ lost' => Planned(task') # {}
<1>1. /\ req[r] \in HandlerStates /\ Orderly(req[r]) /\ Sound(req[r]) /\ StuckInv
      /\ InStep(req[r]) /\ (lost => Planned(task) # {})
      /\ req[r].plan \in Plans /\ req[r].round \in Nat /\ Sound(req'[r])
  BY ProceedSound DEF AloneInv, SoundInv, StuckInv, TypeOK, HandlerStates, Alone
<1>2. CASE SavePlanned(r)
  <2>1. PICK pc \in {"authorize", "call"} : req'[r] = [req[r] EXCEPT !.pc = pc]
    BY <1>1, <1>2, Reached DEF SavePlanned
  <2>2. req'[r].plan = req[r].plan /\ req'[r].pc = pc /\ req'[r].attested = req[r].attested
    BY <1>1, <2>1 DEF HandlerStates
  <2>3. task' = req[r].plan /\ lost' = lost /\ req[r].pc = "plan"
    BY <1>2 DEF SavePlanned, SaveTask, history
  <2>4. Planned(task') # {}
    BY <1>1, <2>3, PlannedIsSaved
  <2> QED
    BY <1>1, <2>2, <2>3, <2>4 DEF InStep, Final, Sound
<1>3. CASE Authorize(r)
  <2>1. UNCHANGED <<task, lost>> /\ req[r].pc = "authorize"
    BY <1>3 DEF Authorize, history
  <2>2. CASE Goto(r, [req[r] EXCEPT !.pc = "call", !.approved = TRUE])
    <3>1. req'[r] = [req[r] EXCEPT !.pc = "call", !.approved = TRUE]
      BY <1>1, <2>2, Reached
    <3>2. req'[r].plan = req[r].plan /\ req'[r].pc = "call" /\ req'[r].attested = req[r].attested
      BY <1>1, <3>1 DEF HandlerStates
    <3> QED
      BY <1>1, <2>1, <3>2 DEF InStep, Final, Planned, InPlan
  <2>3. CASE Goto(r, [req[r] EXCEPT !.pc = "request",
                        !.plan = Complete(@, req[r].step, "AWAITING_APPROVAL")])
    <3>1. req'[r].pc = "request" /\ req'[r].attested = req[r].attested
      BY <1>1, <2>3, DecidedStep
    <3> QED
      BY <1>1, <2>1, <3>1 DEF InStep, Final, Planned, InPlan
  <2> QED
    BY <1>3, <2>2, <2>3 DEF Authorize
<1>4. ASSUME NEW st \in {"COMPLETED", "FAILED"}, CallTool(r, st)
      PROVE  /\ req'[r].pc # "done" => InStep(req[r])'
             /\ lost' => Planned(task') # {}
  <2>1. req'[r].pc = "record" /\ req'[r].attested = req[r].attested
    BY <1>1, <1>4, DecidedStep DEF CallTool
  <2>2. UNCHANGED <<task, lost>> /\ Planned(task) # {}
    BY <1>1, <1>4, PlannedIsSaved DEF CallTool, InStep
  <2> QED
    BY <1>1, <2>1, <2>2 DEF InStep, Final, Planned, InPlan
<1>5. CASE RecordOutcome(r)
  <2>1. req'[r] = [req[r] EXCEPT !.pc = IF req[r].round = 0 THEN "think" ELSE "more"]
    BY <1>1, <1>5, Reached DEF RecordOutcome
  <2>2. req'[r].pc \in {"think", "more"} /\ req'[r].attested = req[r].attested
    BY <1>1, <2>1 DEF HandlerStates
  <2>3. task' = req[r].plan /\ lost' = lost /\ req[r].plan.status \notin Finalized /\ ~lost
    BY <1>1, <1>5 DEF RecordOutcome, SaveTask, history, Sound, InStep
  <2> QED
    BY <2>2, <2>3 DEF InStep, Final
<1>6. CASE Answer(r)
  <2>1. req'[r] = Done
    BY <1>1, <1>6, Reached DEF Answer
  <2> QED
    BY <1>1, <1>6, <2>1, StartTypes DEF Answer, InStep
<1>7. ASSUME UNCHANGED <<task, lost>>, ~lost, req'[r].pc \notin {"authorize", "call", "record"}
      PROVE  /\ req'[r].pc # "done" => InStep(req[r])'
             /\ lost' => Planned(task') # {}
  BY <1>1, <1>7 DEF InStep, Final
<1>8. CASE ConsumePending(r)
  <2>1. UNCHANGED <<task, lost>> /\ ~lost
    BY <1>1, <1>8 DEF ConsumePending, history, InStep, Sound
  <2> QED
    BY <1>1, <1>7, <1>8, <2>1, ConsumePendingMoves, StartTypes
<1>9. CASE RefuseCall(r)
  BY <1>1, <1>7, <1>9, DecidedStep DEF RefuseCall, history, InStep, Sound
<1>10. CASE RequestApproval(r)
  BY <1>1, <1>7, <1>10, RequestApprovalMoves DEF RequestApproval, history, InStep, Sound
<1>11. CASE WasteRound(r)
  <2>1. req'[r] = [req[r] EXCEPT !.pc = "think", !.round = @ + 1]
    BY <1>1, <1>11, Reached DEF WasteRound
  <2>2. req'[r].pc = "think"
    BY <1>1, <2>1 DEF HandlerStates
  <2> QED
    BY <1>1, <1>7, <1>11, <2>2 DEF WasteRound, history, InStep, Sound
<1>12. ASSUME NEW x \in Actions, NEW round \in {req[r].round, req[r].round + 1},
              BeginCall(r, x, round)
       PROVE  /\ req'[r].pc # "done" => InStep(req[r])'
              /\ lost' => Planned(task') # {}
  <2>1. round \in Nat
    BY <1>1
  <2>2. req'[r].pc = "plan"
    BY <1>1, <1>12, <2>1, BeginCallMoves
  <2> QED
    BY <1>1, <1>7, <1>12, <2>2 DEF BeginCall, history, InStep, Sound
<1>13. CASE Finish(r) \/ Exhaust(r)
  <2>1. [req[r].plan EXCEPT !.status = "FAILED"] \in Plans
    BY <1>1 DEF Plans, PlanStatuses
  <2>2. req'[r].pc \in {"answer", "done"}
    BY <1>1, <1>13, <2>1, MarkCompletedEffect, AnsweringEffect, StartTypes, Reached
       DEF Finish, Exhaust
  <2> QED
    BY <1>1, <1>7, <1>13, <2>2 DEF Finish, Exhaust, history, InStep, Sound
<1>14. CASE ModelFails(r)
  <2>1. req'[r] = Done
    BY <1>1, <1>14, Reached DEF ModelFails
  <2> QED
    BY <1>1, <1>7, <1>14, <2>1, StartTypes DEF ModelFails, history, InStep, Sound
<1> QED
  BY <1>2, <1>3, <1>4, <1>5, <1>6, <1>8, <1>9, <1>10, <1>11, <1>12, <1>13, <1>14 DEF Proceed

LEMMA AloneNext == AloneInv /\ [Next]_vars => AloneInv'
<1> SUFFICES ASSUME AloneInv, [Next]_vars, ~overlapped' PROVE AloneInv'
  BY SoundNext DEF AloneInv
<1>1. SoundInv /\ SoundInv' /\ StuckInv /\ overlapped \in BOOLEAN
  BY SoundNext DEF AloneInv, SoundInv, StuckInv, TypeOK
<1> SUFFICES Alone'
  BY <1>1 DEF AloneInv
<1>2. ASSUME NEW r \in Requests, Proceed(r) PROVE Alone'
  <2>1. overlapped' = overlapped /\ Working(r)
    BY <1>2 DEF Proceed, ConsumePending, SavePlanned, Authorize, RefuseCall,
       CallTool, RecordOutcome, RequestApproval, WasteRound, BeginCall, Finish, Exhaust,
       Answer, ModelFails, history, Working
  <2>2. Alone /\ ~overlapped
    BY <1>1, <2>1 DEF AloneInv
  <2>3. \A q \in Requests : q # r => req'[q] = req[q] /\ ~Working(q) /\ ~Working(q)'
    BY <1>1, <1>2, <2>1, <2>2, OneHandlerMoves DEF Alone, Working
  <2>4. (req'[r].pc # "done" => InStep(req[r])') /\ (lost' => Planned(task') # {})
    BY <1>2, <2>1, <2>2, AloneProceeds
  <2> QED
    BY <2>3, <2>4 DEF Alone, Working, InStep, Final, Planned, InPlan
<1>3. ASSUME NEW r \in Requests, Crash(r) PROVE Alone'
  <2>1. overlapped' = overlapped /\ Working(r) /\ UNCHANGED task /\ req'[r] = Done
        /\ lost' = (lost \/ req[r].pc = "record")
    BY <1>1, <1>3, Reached DEF Crash
  <2>2. Alone /\ ~overlapped
    BY <1>1, <2>1 DEF AloneInv
  <2>3. \A q \in Requests : ~Working(q)'
    BY <1>1, <1>3, <2>1, <2>2, OneHandlerMoves, StartTypes DEF Alone, Working
  <2>4. lost' => Planned(task') # {}
    BY <2>1, <2>2 DEF Alone, InStep
  <2> QED
    BY <2>3, <2>4 DEF Alone, Working, Planned, InPlan
<1>4. ASSUME NEW r \in Requests, Comes(r) PROVE Alone'
  <2>1. Arrive(r)
    BY <1>4 DEF Comes, Chat, Resume, Reconcile
  <2>2. /\ ~overlapped /\ \A q \in Requests : ~Working(q)
        /\ UNCHANGED task /\ lost' = lost
    BY <1>1, <2>1 DEF Arrive
  <2>3. Alone
    BY <2>2 DEF AloneInv
  <2>4. \A q \in Requests : q # r => ~Working(q)'
    BY <1>1, <1>4, <2>2, OneHandlerMoves DEF Working
  <2>5. /\ req'[r].pc \in {"think", "consume", "answer"}
        /\ req'[r].pc = "answer" => req'[r].attested
    BY <1>1, <1>4, ArrivalPlace
  <2>6. ~Final /\ (lost => \E st : Reconcile(r, st))
    <3>1. ASSUME NEW a, Chat(r, a) PROVE ~Final /\ ~lost
      <4>1. task = EmptyPlan
        BY <3>1 DEF Chat
      <4>2. task.status = "ACTIVE" /\ Planned(task) = {}
        BY <4>1, EmptySeq DEF EmptyPlan, Planned, InPlan
      <4> QED
        BY <2>3, <4>2 DEF Final, Finalized, Alone
    <3>2. ASSUME NEW a, Resume(r, a) PROVE ~Final /\ ~lost
      BY <2>3, <3>2 DEF Resume, Resumable, Final, Alone, Planned
    <3>3. ASSUME NEW st, Reconcile(r, st) PROVE ~Final
      BY <3>3 DEF Reconcile, Interrupted, Final
    <3> QED
      BY <1>4, <3>1, <3>2, <3>3 DEF Comes
  <2>7. ASSUME NEW st, Reconcile(r, st) PROVE req'[r].attested
    <3> DEFINE plan == [ status |-> IF st = "COMPLETED" THEN "ACTIVE" ELSE "REPLANNING",
                         steps  |-> [task.steps EXCEPT ![Len(task.steps)].status = st] ]
    <3>1. req'[r] = [New EXCEPT !.pc = "answer", !.attested = TRUE, !.plan = plan]
      BY <1>1, <2>7, Reached DEF Reconcile
    <3> HIDE DEF plan
    <3> QED
      BY <3>1 DEF New
  <2>8. InStep(req[r])'
    BY <2>2, <2>5, <2>6, <2>7 DEF InStep, Final
  <2>9. lost' => Planned(task)' # {}
    BY <2>2, <2>3 DEF Alone, Planned, InPlan
  <2> QED
    BY <2>4, <2>8, <2>9 DEF Alone, Working
<1>5. CASE UNCHANGED <<task, req, lost, overlapped>>
  BY <1>1, <1>5 DEF AloneInv, Alone, Working, InStep, Final, Planned, InPlan
<1> QED
  BY <1>2, <1>3, <1>4, <1>5, NextCases DEF Decide, history, vars

LEMMA Aloneness == Spec => []AloneInv
<1>1. Init => AloneInv
  <2> SUFFICES ASSUME Init PROVE AloneInv
    OBVIOUS
  <2>1. SoundInv
    BY StuckInit, StartIsSound DEF Init, SoundInv
  <2>2. \A r \in Requests : ~Working(r)
    BY StartTypes DEF Init, Working
  <2> QED
    BY <2>1, <2>2 DEF AloneInv, Alone, Init
<1> QED
  BY <1>1, AloneNext, PTL DEF Spec

\* As long as the requests of a task do not overlap, once the outcome of a call has been
\* lost no tool is called until the operator has reconciled the task.
THEOREM NoReplayAlone == Spec => NoBlindReplayAlone
<1>1. AloneInv /\ [Next]_vars => [invoked' # invoked /\ ~overlapped => ~lost]_vars
  <2> SUFFICES ASSUME AloneInv, Next, invoked' # invoked, ~overlapped PROVE ~lost
    BY DEF vars
  <2>1. PICK r \in Requests : req[r].pc = "call"
    BY DEF Next, Proceed, ConsumePending, SavePlanned, Authorize, RefuseCall,
       CallTool, RecordOutcome, RequestApproval, WasteRound, BeginCall, Finish, Exhaust,
       Answer, ModelFails, Chat, Resume, Reconcile, Arrive, Crash, Decide, history
  <2> QED
    BY <2>1 DEF AloneInv, Alone, InStep, Working, SoundInv, Sound
<1> QED
  BY <1>1, Aloneness, PTL DEF Spec, NoBlindReplayAlone

\* As long as the requests of a task do not overlap, nothing is saved over a COMPLETED or
\* FAILED task.
THEOREM FinalTasksAreFrozen == Spec => FinalTaskIsFrozen
<1>1. AloneInv /\ [Next]_vars => [Final /\ ~overlapped' => UNCHANGED task]_vars
  <2> SUFFICES ASSUME AloneInv, Next, Final, ~overlapped' PROVE UNCHANGED task
    BY DEF vars
  <2>1. ASSUME NEW r \in Requests, Proceed(r) PROVE FALSE
    <3>1. overlapped' = overlapped /\ Working(r)
      BY <2>1 DEF Proceed, ConsumePending, SavePlanned, Authorize, RefuseCall,
         CallTool, RecordOutcome, RequestApproval, WasteRound, BeginCall, Finish, Exhaust,
         Answer, ModelFails, history, Working
    <3> QED
      BY <3>1 DEF AloneInv, Alone, InStep
  <2>2. ASSUME NEW r \in Requests, Crash(r) \/ Comes(r) PROVE UNCHANGED task
    BY <2>2 DEF Crash, Comes, Chat, Resume, Reconcile, Arrive
  <2> QED
    BY <2>1, <2>2, NextCases DEF Decide
<1> QED
  BY <1>1, Aloneness, PTL DEF Spec, FinalTaskIsFrozen

\* A resumed task calls again an action it has completed only under a new approval, as
\* long as its requests do not overlap.
THEOREM CompletedCallsAreNotRepeated == Spec => CompletedIsNotRepeated
<1>1. ASSUME AloneInv, NEW r \in Requests, req[r].resumed, req[r].pc = "call", ~overlapped,
             ~req[r].approved
      PROVE  \A i \in InPlan(task, "COMPLETED") : task.steps[i].action # Action(r)
  <2>1. task = req[r].plan /\ IsNovel(req[r])
    BY <1>1 DEF AloneInv, Alone, InStep, Working, SoundInv, Sound
  <2> QED
    BY <2>1 DEF IsNovel, Worked, Action
<1> DEFINE Fresh == \A r \in Requests :
              /\ req[r].resumed /\ req[r].pc = "call" /\ invoked' # invoked /\ req'[r] # req[r]
              /\ ~overlapped /\ ~req[r].approved
              => \A i \in InPlan(task, "COMPLETED") : task.steps[i].action # Action(r)
<1>2. AloneInv => [Fresh]_vars
  BY <1>1
<1> QED
  BY <1>2, Aloneness, PTL DEF Spec, CompletedIsNotRepeated
=============================================================================
