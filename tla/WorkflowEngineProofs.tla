------------------------ MODULE WorkflowEngineProofs ------------------------
(***************************************************************************)
(* The safety of WorkflowEngine, for any definitions, any number of        *)
(* concurrent requests and any bounds: types; at most one call of each     *)
(* step's tool, on record before it is made; decisions that stay decided;  *)
(* and no HIGH-risk call without an approval of its own.                   *)
(***************************************************************************)
EXTENDS WorkflowEngine, WorkflowBranchProofs, SequenceTheorems

\* Deciding branches touches nothing but pending steps, and those it skips or fails.
LEMMA DecidingEffect ==
    ASSUME NEW d, NEW run \in WorkflowRuns
    PROVE  /\ Branches(d, run) \in WorkflowRuns
           /\ Branches(d, run).version = run.version
           /\ Branches(d, run).output = run.output
           /\ Branches(d, run).approvalId = run.approvalId
           /\ Branches(d, run).recoveries = run.recoveries
           /\ \A s \in Steps :
                \/ Branches(d, run).status[s] = run.status[s]
                \/ /\ run.status[s] = "PENDING"
                   /\ Branches(d, run).status[s] \in {"SKIPPED", "FAILED"}
<1>1. Progress(run) \in ProgressRuns
  BY DEF Progress, ProgressRuns, WorkflowRuns, Statuses
<1>2. CASE Branches(d, run) = run
  BY <1>2
<1>3. ASSUME NEW x \in Statuses, Advances(run.status, x),
             Branches(d, run) = [run EXCEPT !.status = x]
      PROVE  /\ Branches(d, run) \in WorkflowRuns
             /\ Branches(d, run).status = x
             /\ Branches(d, run).version = run.version
             /\ Branches(d, run).output = run.output
             /\ Branches(d, run).approvalId = run.approvalId
             /\ Branches(d, run).recoveries = run.recoveries
  BY <1>3 DEF WorkflowRuns, Statuses
<1> QED
  BY <1>1, <1>2, <1>3, BranchesEffect DEF Advances

LEMMA NewRunType == NewRun \in WorkflowRuns
  BY DEF NewRun, WorkflowRuns, StepStatuses, NoOutput, Outputs, NoApproval

LEMMA IdleType == Idle \in HandlerStates /\ Idle.pc = "idle"
  BY NewRunType, StepCountAssumption
     DEF Idle, HandlerStates, Calls, Steps, NoApproval, Outcomes

\* What a handler goes on with after loading or settling a run.
LEMMA RouteEffect ==
    ASSUME NEW run \in WorkflowRuns, NEW presented \in Nat
    PROVE  LET h == Route(run, presented) IN
           /\ h \in HandlerStates
           /\ h.pc \in {"idle", "permissions", "fail"}
           /\ h.pc # "idle" =>
                /\ h.run = run
                /\ h.presented = presented
                /\ run.status[h.step] =
                     IF presented = NoApproval THEN "PENDING" ELSE "WAITING_APPROVAL"
<1> DEFINE s == NextStep(definition, run)
           stop == \/ WorkflowStatus(definition, run) \notin AdvanceableStatuses
                   \/ (WaitingSteps(run) = {}) # (presented = NoApproval)
                   \/ NextSteps(definition, run) = {}
           pc == IF InputAvailable(run, s) THEN "permissions" ELSE "fail"
<1>1. Route(run, presented) =
        IF stop THEN Idle
        ELSE [Idle EXCEPT !.pc = pc, !.run = run, !.step = s, !.presented = presented]
  BY DEF Route
<1>2. CASE stop
  BY <1>1, <1>2, IdleType
<1>3. CASE ~stop
  <2>1. /\ s \in Steps
        /\ run.status[s] = IF presented = NoApproval THEN "PENDING" ELSE "WAITING_APPROVAL"
    BY <1>3, NextStepMember DEF WaitingSteps
  <2>2. pc \in {"permissions", "fail"}
    OBVIOUS
  <2> HIDE DEF s, stop, pc
  <2> QED
    BY <1>1, <1>3, <2>1, <2>2, IdleType DEF HandlerStates, Calls, Writes
<1> QED
  BY <1>2, <1>3

LEMMA ClosingEffect ==
    ASSUME NEW run \in WorkflowRuns
    PROVE  /\ Closing(run) \in HandlerStates
           /\ Closing(run).pc \in {"idle", "close"}
           /\ Closing(run).pc # "idle" => Closing(run).run = run
  BY IdleType DEF Closing, HandlerStates, Calls, Writes

----------------------------------------------------------------------------
(* Type correctness *)

LEMMA SaveType ==
    ASSUME TypeOK, NEW r \in Requests, NEW run \in WorkflowRuns, Save(r, run)
    PROVE  store' \in WorkflowRuns
<1>1. req[r].run.version + 1 \in Nat
  BY DEF TypeOK, HandlerStates, WorkflowRuns
<1> QED
  BY <1>1 DEF Save, WorkflowRuns

LEMMA GotoType ==
    ASSUME TypeOK, NEW r \in Requests, NEW h \in HandlerStates, Goto(r, h)
    PROVE  req' \in [Requests -> HandlerStates]
  BY DEF TypeOK, Goto

LEMMA WithStatusType ==
    ASSUME NEW run \in WorkflowRuns, NEW s \in Steps, NEW st \in StepStatuses
    PROVE  WithStatus(run, s, st) \in WorkflowRuns
  BY DEF WithStatus, WorkflowRuns

LEMMA HandlerPcType ==
    ASSUME NEW h \in HandlerStates, NEW pc \in Calls
    PROVE  [h EXCEPT !.pc = pc] \in HandlerStates
  BY DEF HandlerStates

LEMMA ApprovalUpdateType ==
    ASSUME NEW seq \in Seq(A!ApprovalRecords), NEW a, NEW approval,
           a \in DOMAIN seq => approval \in A!ApprovalRecords
    PROVE  [seq EXCEPT ![a] = approval] \in Seq(A!ApprovalRecords)
<1>1. CASE a \in DOMAIN seq
  <2>1. a \in 1 .. Len(seq)
    BY <1>1, LenProperties
  <2> QED
    BY <1>1, <2>1, ExceptSeq
<1>2. CASE a \notin DOMAIN seq
  <2>1. [seq EXCEPT ![a] = approval] = seq
    BY <1>2
  <2> QED
    BY <2>1
<1> QED
  BY <1>1, <1>2

\* Deciding, consuming or expiring an approval keeps the store well typed.
LEMMA ApprovalTypes ==
    ASSUME A!ApprovalsType, NEW a, A!Approve(a) \/ A!Reject(a) \/ A!Expire(a) \/ A!Consume(a)
    PROVE  approvals' \in Seq(A!ApprovalRecords)
<1>1. a \in DOMAIN approvals => approvals[a] \in A!ApprovalRecords
  BY ElementOfSeq, LenProperties DEF A!ApprovalsType
<1>2. PICK approval :
        /\ approvals' = [approvals EXCEPT ![a] = approval]
        /\ a \in DOMAIN approvals => approval \in A!ApprovalRecords
  <2> DEFINE same == approvals[a]
  <2>1. CASE A!Approve(a)
    <3> WITNESS [same EXCEPT !.approved = TRUE]
    <3> QED BY <1>1, <2>1 DEF A!Approve, A!ApprovalRecords
  <2>2. CASE A!Reject(a)
    <3> WITNESS [same EXCEPT !.rejected = TRUE]
    <3> QED BY <1>1, <2>2 DEF A!Reject, A!ApprovalRecords
  <2>3. CASE A!Expire(a)
    <3> WITNESS [same EXCEPT !.expired = TRUE]
    <3> QED BY <1>1, <2>3 DEF A!Expire, A!ApprovalRecords
  <2>4. CASE A!Consume(a)
    <3> WITNESS [same EXCEPT !.consumed = TRUE]
    <3> QED BY <1>1, <2>4 DEF A!Consume, A!ApprovalRecords
  <2> QED
    BY <2>1, <2>2, <2>3, <2>4
<1> QED
  BY <1>2, ApprovalUpdateType DEF A!ApprovalsType

LEMMA TypeInit == Init => TypeOK
<1> SUFFICES ASSUME Init PROVE TypeOK
  OBVIOUS
<1>1. definition \in WorkflowDefinitions
  BY DefinitionsAssumption DEF Init, ValidDefinition
<1>2. approvals \in Seq(A!ApprovalRecords)
  BY DEF Init, A!ApprovalsInit
<1> QED
  BY <1>1, <1>2, NewRunType, IdleType DEF Init, TypeOK, A!ApprovalsType

LEMMA TypeNext == TypeOK /\ [Next]_vars => TypeOK'
<1> SUFFICES ASSUME TypeOK, [Next]_vars PROVE TypeOK'
  OBVIOUS
<1> USE DEF TypeOK
<1>1. ASSUME NEW r \in Requests, LoseRace(r) PROVE TypeOK'
  BY <1>1, GotoType, IdleType
     DEF LoseRace, stored, world, history, A!ApprovalsType
<1>2. ASSUME NEW r \in Requests, Close(r) PROVE TypeOK'
  BY <1>2, GotoType, IdleType, SaveType, DecidingEffect
     DEF Close, stored, world, history, A!ApprovalsType, HandlerStates
<1>3. ASSUME NEW r \in Requests, Settle(r) PROVE TypeOK'
  <2>1. req[r].run \in WorkflowRuns /\ req[r].presented \in Nat
    BY DEF HandlerStates
  <2>2. store' \in WorkflowRuns
    BY <1>3, <2>1, SaveType, DecidingEffect DEF Settle
  <2>3. Route(store', req[r].presented) \in HandlerStates
    BY <2>1, <2>2, RouteEffect
  <2> QED
    BY <1>3, <2>2, <2>3, GotoType
       DEF Settle, stored, world, history, A!ApprovalsType
<1>4. ASSUME NEW r \in Requests, FailStep(r) PROVE TypeOK'
  BY <1>4, GotoType, IdleType, SaveType, WithStatusType
     DEF FailStep, stored, world, history, A!ApprovalsType, HandlerStates, StepStatuses
<1>5. ASSUME NEW r \in Requests, ReadPermissions(r) PROVE TypeOK'
  <2>1. \E h \in HandlerStates : Goto(r, h)
    BY <1>5, HandlerPcType, IdleType DEF ReadPermissions, Permitted, Calls, Writes
  <2> QED
    BY <1>5, <2>1, GotoType DEF ReadPermissions, stored, world, history, A!ApprovalsType
<1>6. ASSUME NEW r \in Requests, RequestApproval(r) PROVE TypeOK'
  <2>1. Len(approvals) \in Nat
    BY LenProperties DEF A!ApprovalsType
  <2>2. [req[r] EXCEPT !.pc = "wait", !.requested = Len(approvals) + 1] \in HandlerStates
    <3>1. Len(approvals) + 1 \in Nat
      BY <2>1
    <3> QED
      BY <3>1 DEF HandlerStates, Calls, Writes
  <2>3. req[r].step \in Steps
    BY DEF HandlerStates
  <2>4. approvals' \in Seq(A!ApprovalRecords)
    BY <1>6, <2>3, AppendProperties
       DEF RequestApproval, A!Request, A!ApprovalsType, A!ApprovalRecords
  <2> QED
    BY <1>6, <2>2, <2>4, GotoType
       DEF RequestApproval, world, history, A!ApprovalsType
<1>7. ASSUME NEW r \in Requests, AwaitApproval(r) PROVE TypeOK'
  <2> DEFINE run == [WithStatus(req[r].run, req[r].step, "WAITING_APPROVAL") EXCEPT
                        !.approvalId[req[r].step] = req[r].requested]
  <2>1. WithStatus(req[r].run, req[r].step, "WAITING_APPROVAL") \in WorkflowRuns
    BY WithStatusType DEF HandlerStates, StepStatuses
  <2>2. run \in WorkflowRuns
    BY <2>1 DEF HandlerStates, WorkflowRuns
  <2>3. Save(r, run)
    BY <1>7 DEF AwaitApproval
  <2> HIDE DEF run
  <2> QED
    BY <1>7, <2>2, <2>3, SaveType, GotoType, IdleType
       DEF AwaitApproval, world, history, A!ApprovalsType
<1>8. ASSUME NEW r \in Requests, Claim(r) PROVE TypeOK'
  <2>1. store' \in WorkflowRuns
    BY <1>8, SaveType, WithStatusType DEF Claim, HandlerStates, StepStatuses
  <2>2. [req[r] EXCEPT !.pc = AfterClaim(r), !.run = store'] \in HandlerStates
    BY <2>1 DEF HandlerStates, Calls, Writes, AfterClaim
  <2> QED
    BY <1>8, <2>1, <2>2, GotoType DEF Claim, history, A!ApprovalsType
<1>9. ASSUME NEW r \in Requests, ConsumeApproval(r) PROVE TypeOK'
  <2>1. \E h \in HandlerStates : Goto(r, h)
    BY <1>9, HandlerPcType DEF ConsumeApproval, Calls, Writes
  <2>2. approvals' \in Seq(A!ApprovalRecords)
    BY <1>9, ApprovalTypes DEF ConsumeApproval, A!ApprovalsType
  <2> QED
    BY <1>9, <2>1, <2>2, GotoType DEF ConsumeApproval, world, history, A!ApprovalsType
<1>10. ASSUME NEW r \in Requests, Rollback(r) PROVE TypeOK'
  BY <1>10, GotoType, IdleType, SaveType, WithStatusType
     DEF Rollback, stored, world, history, A!ApprovalsType, HandlerStates, StepStatuses
<1>11. ASSUME NEW r \in Requests, Invoke(r) PROVE TypeOK'
  <2>1. invoked[req[r].step] + 1 \in Nat
    BY DEF HandlerStates
  <2>2. [req[r] EXCEPT !.pc = "record"] \in HandlerStates
    BY HandlerPcType DEF Calls, Writes
  <2>3. invoked' \in [Steps -> Nat]
    BY <1>11, <2>1 DEF Invoke
  <2> QED
    BY <1>11, <2>2, <2>3, GotoType DEF Invoke, stored, world, A!ApprovalsType
<1>12. ASSUME NEW r \in Requests, NEW result \in Results, RecordResult(r, result) PROVE TypeOK'
  <2> DEFINE s == req[r].step
             completed == Completed(req[r].run, s, result)
  <2>1. req[r].run \in WorkflowRuns /\ s \in Steps
    BY DEF HandlerStates
  <2>2. /\ WithStatus(req[r].run, s, "FAILED") \in WorkflowRuns
        /\ WithStatus(req[r].run, s, "COMPLETED") \in WorkflowRuns
    BY <2>1, WithStatusType DEF StepStatuses
  <2>3. result \notin {"timeout", "failed"} => completed \in WorkflowRuns
    BY <2>1, <2>2 DEF Results, WorkflowRuns, Completed
  <2>4. store' \in WorkflowRuns
    <3>1. CASE result = "timeout"
      BY <1>12, <2>1, <3>1, SaveType DEF RecordResult, Recorded
    <3>2. CASE result = "failed"
      BY <1>12, <2>2, <3>2, SaveType DEF RecordResult, Recorded
    <3>3. CASE result \notin {"timeout", "failed"}
      BY <1>12, <2>3, <3>3, SaveType DEF RecordResult, Recorded
    <3> QED
      BY <3>1, <3>2, <3>3
  <2>5. [req[r] EXCEPT !.pc = "audit", !.run = store'] \in HandlerStates
    BY <2>4 DEF HandlerStates, Calls, Writes
  <2> QED
    BY <1>12, <2>4, <2>5, GotoType DEF RecordResult, world, history, A!ApprovalsType
<1>13. ASSUME NEW r \in Requests, RecordAudit(r) PROVE TypeOK'
  <2>1. audited[req[r].step] + 1 \in Nat
    BY DEF HandlerStates
  <2>2. audited' \in [Steps -> Nat]
    BY <1>13, <2>1 DEF RecordAudit
  <2>3. Closing(req[r].run) \in HandlerStates
    BY ClosingEffect DEF HandlerStates
  <2> QED
    BY <1>13, <2>2, <2>3, GotoType DEF RecordAudit, stored, world, A!ApprovalsType
<1>14. ASSUME NEW r \in Requests, AuthorizeRecovery(r) PROVE TypeOK'
  <2>1. [req[r].run EXCEPT !.recoveries[req[r].step] = @ + 1] \in WorkflowRuns
    <3>1. req[r].run \in WorkflowRuns /\ req[r].step \in Steps
      BY DEF HandlerStates
    <3>2. req[r].run.recoveries[req[r].step] + 1 \in Nat
      BY <3>1 DEF WorkflowRuns
    <3> QED
      BY <3>1, <3>2 DEF WorkflowRuns
  <2>2. store' \in WorkflowRuns
    BY <1>14, <2>1, SaveType DEF AuthorizeRecovery
  <2> QED
    BY <1>14, <2>2, GotoType, ClosingEffect
       DEF AuthorizeRecovery, world, history, A!ApprovalsType
<1>15. ASSUME NEW r \in Requests, Attest(r) PROVE TypeOK'
  <2>1. store' \in WorkflowRuns
    BY <1>15, SaveType, WithStatusType DEF Attest, HandlerStates, StepStatuses, Outcomes
  <2> QED
    BY <1>15, <2>1, GotoType, ClosingEffect DEF Attest, world, history, A!ApprovalsType
<1>16. ASSUME NEW r \in Requests, Operate(r) PROVE TypeOK'
  <2>1. \E h \in HandlerStates : Goto(r, h)
    <3>1. ASSUME NEW a \in {NoApproval} \cup A!Ids, AdvanceLoad(r, a)
          PROVE  \E h \in HandlerStates : Goto(r, h)
      <4>1. a \in Nat
        BY <3>1, LenProperties DEF A!Ids, A!ApprovalsType, NoApproval
      <4>2. [Idle EXCEPT !.pc = "settle", !.run = store, !.presented = a] \in HandlerStates
        BY <4>1, IdleType DEF HandlerStates, Calls, Writes
      <4> QED
        BY <3>1, <4>1, <4>2, RouteEffect DEF AdvanceLoad
    <3>2. ASSUME NEW s \in Steps, RecoveryLoad(r, s)
          PROVE  \E h \in HandlerStates : Goto(r, h)
      BY <3>2, IdleType DEF RecoveryLoad, HandlerStates, Calls, Writes
    <3>3. ASSUME NEW outcome \in Outcomes, ReconcileLoad(r, outcome)
          PROVE  \E h \in HandlerStates : Goto(r, h)
      <4>1. FirstStep(InStatus(store, "RUNNING")) \in Steps
        BY <3>3, FirstStepMember DEF ReconcileLoad, Reconcilable, InStatus
      <4> QED
        BY <3>3, <4>1, IdleType DEF ReconcileLoad, Reconcilable, HandlerStates, Calls, Writes
    <3> QED
      BY <1>16, <3>1, <3>2, <3>3 DEF Operate
  <2> QED
    BY <1>16, <2>1, GotoType
       DEF Operate, AdvanceLoad, RecoveryLoad, ReconcileLoad, stored, world, history,
           A!ApprovalsType
<1>17. ASSUME NEW r \in Requests, Crash(r) PROVE TypeOK'
  BY <1>17, GotoType, IdleType DEF Crash, stored, history, A!ApprovalsType
<1>18. CASE Environment
  <2>1. ASSUME NEW a \in A!Ids, Approve(a) \/ Refuse(a) PROVE TypeOK'
    <3>1. approvals' \in Seq(A!ApprovalRecords)
      BY <2>1, ApprovalTypes DEF Approve, Refuse
    <3> QED
      BY <2>1, <3>1 DEF Approve, Refuse, world, history, A!ApprovalsType
  <2>2. ASSUME NEW granted \in SUBSET Permissions, ChangePermissions(granted) PROVE TypeOK'
    BY <2>2 DEF ChangePermissions, stored, history, A!ApprovalsType
  <2>3. ASSUME NEW tools \in SUBSET Steps, Redeploy(tools) PROVE TypeOK'
    BY <2>3, IdleType DEF Redeploy, stored, history, A!ApprovalsType
  <2>4. CASE Elapse
    BY <2>4 DEF Elapse, stored, history, A!ApprovalsType
  <2> QED
    BY <1>18, <2>1, <2>2, <2>3, <2>4 DEF Environment
<1>19. CASE UNCHANGED vars
  BY <1>19 DEF vars, stored, world, history, A!ApprovalsType
<1> QED
  BY <1>1, <1>2, <1>3, <1>4, <1>5, <1>6, <1>7, <1>8, <1>9, <1>10, <1>11, <1>12, <1>13,
     <1>14, <1>15, <1>16, <1>17, <1>18, <1>19
     DEF Next, Proceed

\* Every reachable state is well typed, for any definitions, clients and bounds.
THEOREM TypeCorrect == Spec => []TypeOK
  BY TypeInit, TypeNext, PTL DEF Spec

----------------------------------------------------------------------------
(* At most one call of each step's tool, for any number of concurrent requests: the
   compare-and-swap makes a claim exclusive, and the claim is saved before the call *)

\* A handler that saves its run, and goes on with nothing or with the run it saved,
\* leaves every copy old or equal to the store.
LEMMA SaveKeepsCopies ==
    ASSUME TypeOK, CopiesAreOld, CopiesAreFaithful,
           NEW r \in Requests, NEW run \in WorkflowRuns, NEW h \in HandlerStates,
           Save(r, run), Goto(r, h), h.pc = "idle" \/ h.run = store'
    PROVE  CopiesAreOld' /\ CopiesAreFaithful'
<1>1. /\ store.version \in Nat /\ req[r].run.version = store.version
      /\ store'.version = store.version + 1
  BY DEF Save, Current, TypeOK, WorkflowRuns
<1>2. req'[r] = h /\ \A q \in Requests \ {r} : req'[q] = req[q]
  BY DEF Goto, TypeOK
<1>3. ASSUME NEW q \in Requests \ {r}, req[q].pc # "idle"
      PROVE  req[q].run.version <= store.version /\ req[q].run.version \in Nat
  BY <1>3 DEF CopiesAreOld, TypeOK, HandlerStates, WorkflowRuns
<1>4. CopiesAreOld'
  <2> SUFFICES ASSUME NEW q \in Requests, req'[q].pc # "idle"
               PROVE  req'[q].run.version <= store'.version
    BY DEF CopiesAreOld
  <2>1. CASE q = r
    BY <1>1, <1>2, <2>1
  <2>2. CASE q # r
    BY <1>1, <1>2, <1>3, <2>2
  <2> QED
    BY <2>1, <2>2
<1>5. CopiesAreFaithful'
  <2> SUFFICES ASSUME NEW q \in Requests, req'[q].pc # "idle",
                      store'.version = req'[q].run.version
               PROVE  req'[q].run = store'
    BY DEF CopiesAreFaithful, Current
  <2>1. CASE q = r
    BY <1>2, <2>1
  <2>2. q # r => req[q].pc # "idle" /\ req[q].run.version = store.version + 1
    BY <1>1, <1>2
  <2>3. q = r
    BY <1>1, <1>3, <2>2
  <2> QED
    BY <2>1, <2>3
<1> QED
  BY <1>4, <1>5

\* So does a handler that saves nothing, and goes on with its copy or a fresh one.
LEMMA ReadKeepsCopies ==
    ASSUME TypeOK, CopiesAreOld, CopiesAreFaithful,
           NEW r \in Requests, NEW h \in HandlerStates, Goto(r, h), store' = store,
           h.pc = "idle" \/ h.run = store \/ (h.run = req[r].run /\ req[r].pc # "idle")
    PROVE  CopiesAreOld' /\ CopiesAreFaithful'
<1>1. req'[r] = h /\ \A q \in Requests \ {r} : req'[q] = req[q]
  BY DEF Goto, TypeOK
<1>2. store.version \in Nat
  BY DEF TypeOK, WorkflowRuns
<1> QED
  BY <1>1, <1>2 DEF CopiesAreOld, CopiesAreFaithful, Current

\* The part of the invariant that is about the stored statuses.
ClaimsHold ==
    ExecutingStepsAreClaimed /\ OneExecutor /\ NotCalledYet
    /\ AtMostOneInvocation /\ InvocationIsRecorded

\* It survives every write that calls no tool, starts no execution and takes no step
\* out of the claimed statuses.
LEMMA QuietStepKeepsClaims ==
    ASSUME TypeOK, ClaimsHold,
           NEW r \in Requests, NEW h \in HandlerStates, Goto(r, h),
           h.pc \notin {"consume", "rollback", "invoke", "record"},
           invoked' = invoked,
           \A s \in Steps : store.status[s] \in ClaimedStatuses
                              => store'.status[s] \in ClaimedStatuses
    PROVE  ClaimsHold'
<1>1. req'[r] = h /\ \A q \in Requests \ {r} : req'[q] = req[q]
  BY DEF Goto, TypeOK
<1>2. \A q \in Requests : Executing(q)' => Executing(q) /\ req'[q] = req[q]
  BY <1>1 DEF Executing
<1>3. \A q \in Requests : req[q].step \in Steps
  BY DEF TypeOK, HandlerStates
<1>4. ExecutingStepsAreClaimed'
  BY <1>2, <1>3 DEF ClaimsHold, ExecutingStepsAreClaimed
<1>5. OneExecutor'
  BY <1>2 DEF ClaimsHold, OneExecutor
<1>6. NotCalledYet'
  BY <1>1 DEF ClaimsHold, NotCalledYet
<1>7. AtMostOneInvocation' /\ InvocationIsRecorded'
  BY DEF ClaimsHold, AtMostOneInvocation, InvocationIsRecorded, ClaimedStatuses
<1> QED
  BY <1>4, <1>5, <1>6, <1>7 DEF ClaimsHold

\* What a handler has read is about its own copy: the steps of the others leave it alone.
LEMMA TargetsAfter ==
    ASSUME TypeOK, TargetsAreAsRead, NEW r \in Requests, NEW h \in HandlerStates, Goto(r, h),
           TargetIsAsRead(h)
    PROVE  TargetsAreAsRead'
<1>1. req'[r] = h /\ \A q \in Requests \ {r} : req'[q] = req[q]
  BY DEF Goto, TypeOK
<1> QED
  BY <1>1 DEF TargetsAreAsRead, TargetIsAsRead

LEMMA IdleTarget == TargetIsAsRead(Idle)
  BY IdleType DEF TargetIsAsRead

LEMMA RouteTarget ==
    ASSUME NEW run \in WorkflowRuns, NEW presented \in Nat
    PROVE  TargetIsAsRead(Route(run, presented))
  BY RouteEffect DEF TargetIsAsRead

LEMMA ClosingTarget ==
    ASSUME NEW run \in WorkflowRuns
    PROVE  TargetIsAsRead(Closing(run))
  BY ClosingEffect DEF TargetIsAsRead

\* The three together, for a handler that saves its run: only what it does to the
\* statuses of the run it loaded matters, because that run is the stored one.
LEMMA SaveKeepsInvariant ==
    ASSUME TypeOK, ClaimInv, NEW r \in Requests, req[r].pc # "idle",
           NEW run \in WorkflowRuns, Save(r, run),
           NEW h \in HandlerStates, Goto(r, h), h.pc = "idle" \/ h.run = store',
           TargetIsAsRead(h), h.pc \notin {"consume", "rollback", "invoke", "record"},
           invoked' = invoked,
           \A s \in Steps : req[r].run.status[s] \in ClaimedStatuses
                              => run.status[s] \in ClaimedStatuses
    PROVE  ClaimInv'
<1>1. req[r].run = store
  BY DEF ClaimInv, CopiesAreFaithful, Save
<1>2. store'.status = run.status
  BY DEF Save, WorkflowRuns
<1>3. CopiesAreOld' /\ CopiesAreFaithful'
  BY SaveKeepsCopies DEF ClaimInv
<1>4. TargetsAreAsRead'
  BY TargetsAfter DEF ClaimInv
<1>5. ClaimsHold'
  BY <1>1, <1>2, QuietStepKeepsClaims DEF ClaimInv, ClaimsHold
<1> QED
  BY <1>3, <1>4, <1>5 DEF ClaimInv, ClaimsHold

LEMMA ReadKeepsInvariant ==
    ASSUME TypeOK, ClaimInv, NEW r \in Requests,
           NEW h \in HandlerStates, Goto(r, h), store' = store, invoked' = invoked,
           h.pc = "idle" \/ h.run = store \/ (h.run = req[r].run /\ req[r].pc # "idle"),
           TargetIsAsRead(h), h.pc \notin {"consume", "rollback", "invoke", "record"}
    PROVE  ClaimInv'
<1>1. CopiesAreOld' /\ CopiesAreFaithful'
  BY ReadKeepsCopies DEF ClaimInv
<1>2. TargetsAreAsRead'
  BY TargetsAfter DEF ClaimInv
<1>3. ClaimsHold'
  BY QuietStepKeepsClaims DEF ClaimInv, ClaimsHold
<1> QED
  BY <1>1, <1>2, <1>3 DEF ClaimInv, ClaimsHold

\* A step that changes no handler's mind about anything, except to stop it.
LEMMA StopKeepsInvariant ==
    ASSUME TypeOK, ClaimInv, store' = store, invoked' = invoked,
           \A q \in Requests : req'[q] = req[q] \/ req'[q] = Idle
    PROVE  ClaimInv'
<1>1. \A q \in Requests : req'[q].pc # "idle" => req'[q] = req[q]
  BY IdleType
<1>2. CopiesAreOld' /\ CopiesAreFaithful'
  BY <1>1 DEF ClaimInv, CopiesAreOld, CopiesAreFaithful, Current
<1>3. TargetsAreAsRead'
  BY IdleTarget DEF ClaimInv, TargetsAreAsRead, TargetIsAsRead
<1>4. \A q \in Requests : Executing(q)' => Executing(q) /\ req'[q] = req[q]
  BY <1>1 DEF Executing
<1>5. ExecutingStepsAreClaimed' /\ OneExecutor' /\ NotCalledYet'
  BY <1>1, <1>4 DEF ClaimInv, ExecutingStepsAreClaimed, OneExecutor, NotCalledYet
<1>6. AtMostOneInvocation' /\ InvocationIsRecorded'
  BY DEF ClaimInv, AtMostOneInvocation, InvocationIsRecorded
<1> QED
  BY <1>2, <1>3, <1>5, <1>6 DEF ClaimInv

LEMMA ClaimInit == Init => ClaimInv
  BY IdleType, IdleTarget
     DEF Init, ClaimInv, CopiesAreOld, CopiesAreFaithful, TargetsAreAsRead, Executing,
         ExecutingStepsAreClaimed, OneExecutor, NotCalledYet, AtMostOneInvocation,
         InvocationIsRecorded

----------------------------------------------------------------------------
(* The four actions of an execution *)

\* What these actions share: the handler and the step it acts on.
LEMMA HandlerType ==
    ASSUME TypeOK, NEW r \in Requests
    PROVE  /\ req[r] \in HandlerStates
           /\ req[r].run \in WorkflowRuns /\ req[r].step \in Steps
           /\ req[r].presented \in Nat /\ req[r].requested \in Nat
           /\ req[r].outcome \in Outcomes
  BY DEF TypeOK, HandlerStates

\* Claiming takes a step that is pending or waiting, hence called by nobody and executed
\* by nobody, and makes this handler its executor.
LEMMA ClaimKeepsInvariant ==
    ASSUME TypeOK, ClaimInv, NEW r \in Requests, Claim(r)
    PROVE  ClaimInv'
<1> DEFINE s == req[r].step
           h == [req[r] EXCEPT !.pc = AfterClaim(r), !.run = store']
<1>1. s \in Steps /\ req[r].run \in WorkflowRuns /\ req[r].run = store
  BY HandlerType DEF Claim, ClaimInv, CopiesAreFaithful, Save
<1>2. store.status[s] \in {"PENDING", "WAITING_APPROVAL"}
  BY <1>1 DEF Claim, ClaimInv, TargetsAreAsRead, TargetIsAsRead
<1>3. WithStatus(req[r].run, s, "RUNNING") \in WorkflowRuns
  BY <1>1, WithStatusType DEF StepStatuses
<1>4. store' \in WorkflowRuns /\ store'.status = [store.status EXCEPT ![s] = "RUNNING"]
  BY <1>1, <1>3, SaveType DEF Claim, Save, WithStatus, WorkflowRuns
<1>5. h \in HandlerStates /\ h.pc \in {"consume", "invoke"} /\ h.run = store' /\ h.step = s
  BY <1>4, HandlerType DEF HandlerStates, Calls, Writes, AfterClaim
<1>6. /\ req'[r] = h /\ \A q \in Requests \ {r} : req'[q] = req[q]
      /\ Goto(r, h) /\ Save(r, WithStatus(req[r].run, s, "RUNNING")) /\ invoked' = invoked
  BY DEF Claim, Goto, TypeOK, history
<1> HIDE DEF h
<1>7. CopiesAreOld' /\ CopiesAreFaithful'
  BY <1>3, <1>5, <1>6, SaveKeepsCopies DEF ClaimInv
<1>8. TargetsAreAsRead'
  <2>1. store'.status[s] = "RUNNING"
    BY <1>1, <1>4 DEF WorkflowRuns, TypeOK
  <2>2. TargetIsAsRead(h)
    BY <1>5, <2>1 DEF TargetIsAsRead
  <2> QED
    BY <1>5, <1>6, <2>2, TargetsAfter DEF ClaimInv
<1>9. \A q \in Requests : Executing(q) => req[q].step # s
  BY <1>2 DEF ClaimInv, ExecutingStepsAreClaimed, ClaimedStatuses
<1>10. \A q \in Requests : Executing(q)' => q = r \/ (Executing(q) /\ req'[q] = req[q])
  BY <1>6 DEF Executing
<1>11. \A t \in Steps : store'.status[t] = IF t = s THEN "RUNNING" ELSE store.status[t]
  BY <1>1, <1>4 DEF WorkflowRuns, TypeOK
<1>12. ExecutingStepsAreClaimed'
  BY <1>5, <1>6, <1>9, <1>10, <1>11, HandlerType
     DEF ClaimInv, ExecutingStepsAreClaimed, ClaimedStatuses
<1>13. OneExecutor'
  BY <1>5, <1>6, <1>9, <1>10 DEF ClaimInv, OneExecutor
<1>14. invoked[s] = 0
  <2>1. ~(invoked[s] > 0)
    BY <1>1, <1>2 DEF ClaimInv, InvocationIsRecorded
  <2>2. invoked[s] \in Nat
    BY <1>1 DEF TypeOK
  <2> QED
    BY <2>1, <2>2
<1>15. NotCalledYet'
  BY <1>5, <1>6, <1>14 DEF ClaimInv, NotCalledYet
<1>16. AtMostOneInvocation' /\ InvocationIsRecorded'
  BY <1>6, <1>11 DEF ClaimInv, AtMostOneInvocation, InvocationIsRecorded
<1> QED
  BY <1>7, <1>8, <1>12, <1>13, <1>15, <1>16 DEF ClaimInv

\* Consuming the approval keeps the handler an executor that has called nothing.
LEMMA ConsumeKeepsInvariant ==
    ASSUME TypeOK, ClaimInv, NEW r \in Requests, ConsumeApproval(r)
    PROVE  ClaimInv'
<1>1. PICK pc \in {"invoke", "rollback"} : Goto(r, [req[r] EXCEPT !.pc = pc])
  BY DEF ConsumeApproval
<1> DEFINE h == [req[r] EXCEPT !.pc = pc]
<1>2. /\ h \in HandlerStates /\ h.pc = pc /\ h.run = req[r].run /\ h.step = req[r].step
      /\ h.presented = req[r].presented
  BY <1>1, HandlerType DEF HandlerStates, Calls, Writes
<1>3. req'[r] = h /\ \A q \in Requests \ {r} : req'[q] = req[q]
  BY <1>1 DEF Goto, TypeOK
<1>4. req[r].pc = "consume" /\ store' = store /\ invoked' = invoked
  BY DEF ConsumeApproval, history
<1> HIDE DEF h
<1>5. CopiesAreOld' /\ CopiesAreFaithful'
  BY <1>1, <1>2, <1>4, ReadKeepsCopies DEF ClaimInv, h
<1>6. TargetsAreAsRead'
  <2>1. TargetIsAsRead(h)
    BY <1>2, <1>4 DEF ClaimInv, TargetsAreAsRead, TargetIsAsRead
  <2> QED
    BY <1>1, <1>2, <2>1, TargetsAfter DEF ClaimInv, h
<1>7. \A q \in Requests : /\ Executing(q)' = Executing(q)
                          /\ req'[q].step = req[q].step
  BY <1>2, <1>3, <1>4 DEF Executing
<1>8. ExecutingStepsAreClaimed'
  BY <1>4, <1>7 DEF ClaimInv, ExecutingStepsAreClaimed
<1>9. OneExecutor'
  BY <1>7 DEF ClaimInv, OneExecutor
<1>10. NotCalledYet'
  BY <1>2, <1>3, <1>4 DEF ClaimInv, NotCalledYet
<1>11. AtMostOneInvocation' /\ InvocationIsRecorded'
  BY <1>4 DEF ClaimInv, AtMostOneInvocation, InvocationIsRecorded
<1> QED
  BY <1>5, <1>6, <1>8, <1>9, <1>10, <1>11 DEF ClaimInv

\* Rolling back reopens a step; its only executor is this handler, which called nothing.
LEMMA RollbackKeepsInvariant ==
    ASSUME TypeOK, ClaimInv, NEW r \in Requests, Rollback(r)
    PROVE  ClaimInv'
<1> DEFINE s == req[r].step
<1>1. s \in Steps /\ req[r].run \in WorkflowRuns /\ req[r].run = store
  BY HandlerType DEF Rollback, ClaimInv, CopiesAreFaithful, Save
<1>2. WithStatus(req[r].run, s, "WAITING_APPROVAL") \in WorkflowRuns
  BY <1>1, WithStatusType DEF StepStatuses
<1>3. \A t \in Steps :
        store'.status[t] = IF t = s THEN "WAITING_APPROVAL" ELSE store.status[t]
  BY <1>1, <1>2 DEF Rollback, Save, WithStatus, WorkflowRuns
<1>4. /\ req'[r] = Idle /\ \A q \in Requests \ {r} : req'[q] = req[q]
      /\ Goto(r, Idle) /\ Save(r, WithStatus(req[r].run, s, "WAITING_APPROVAL"))
      /\ invoked' = invoked /\ Executing(r) /\ invoked[s] = 0
  BY DEF Rollback, Goto, TypeOK, history, Executing, ClaimInv, NotCalledYet
<1>5. CopiesAreOld' /\ CopiesAreFaithful'
  BY <1>2, <1>4, IdleType, SaveKeepsCopies DEF ClaimInv
<1>6. TargetsAreAsRead'
  BY <1>4, IdleType, IdleTarget, TargetsAfter DEF ClaimInv
<1>7. \A q \in Requests : Executing(q)' => Executing(q) /\ req'[q] = req[q] /\ q # r
  BY <1>4, IdleType DEF Executing
<1>8. ExecutingStepsAreClaimed'
  BY <1>3, <1>4, <1>7, HandlerType DEF ClaimInv, ExecutingStepsAreClaimed, OneExecutor
<1>9. OneExecutor'
  BY <1>7 DEF ClaimInv, OneExecutor
<1>10. NotCalledYet'
  BY <1>4, IdleType DEF ClaimInv, NotCalledYet
<1>11. AtMostOneInvocation' /\ InvocationIsRecorded'
  BY <1>3, <1>4 DEF ClaimInv, AtMostOneInvocation, InvocationIsRecorded
<1> QED
  BY <1>5, <1>6, <1>8, <1>9, <1>10, <1>11 DEF ClaimInv

\* The call itself: the step is claimed, was never called, and has no other executor.
LEMMA InvokeKeepsInvariant ==
    ASSUME TypeOK, ClaimInv, NEW r \in Requests, Invoke(r)
    PROVE  ClaimInv'
<1> DEFINE s == req[r].step
           h == [req[r] EXCEPT !.pc = "record"]
<1>1. /\ h \in HandlerStates /\ h.pc = "record" /\ h.run = req[r].run /\ h.step = s
      /\ h.presented = req[r].presented /\ s \in Steps
  BY HandlerType DEF HandlerStates, Calls, Writes
<1>2. /\ req'[r] = h /\ \A q \in Requests \ {r} : req'[q] = req[q]
      /\ req[r].pc = "invoke" /\ Executing(r) /\ store' = store
  BY DEF Invoke, Goto, TypeOK, stored, Executing
<1>3. \A t \in Steps : invoked'[t] = IF t = s THEN 1 ELSE invoked[t]
  <2>1. invoked[s] = 0
    BY <1>2 DEF ClaimInv, NotCalledYet
  <2> QED
    BY <2>1 DEF Invoke, TypeOK
<1> HIDE DEF h
<1>4. CopiesAreOld' /\ CopiesAreFaithful'
  <2>1. Goto(r, h)
    BY DEF Invoke, h
  <2> QED
    BY <1>1, <1>2, <2>1, ReadKeepsCopies DEF ClaimInv
<1>5. TargetsAreAsRead'
  <2>1. TargetIsAsRead(h) /\ Goto(r, h)
    BY <1>1, <1>2 DEF ClaimInv, TargetsAreAsRead, TargetIsAsRead, Invoke, h
  <2> QED
    BY <1>1, <2>1, TargetsAfter DEF ClaimInv
<1>6. \A q \in Requests : Executing(q)' = Executing(q) /\ req'[q].step = req[q].step
  BY <1>1, <1>2 DEF Executing
<1>7. ExecutingStepsAreClaimed'
  BY <1>2, <1>6 DEF ClaimInv, ExecutingStepsAreClaimed
<1>8. OneExecutor'
  BY <1>6 DEF ClaimInv, OneExecutor
<1>9. NotCalledYet'
  <2> SUFFICES ASSUME NEW q \in Requests, req'[q].pc \in {"consume", "rollback", "invoke"}
               PROVE  invoked'[req'[q].step] = 0
    BY DEF NotCalledYet
  <2>1. q # r /\ req'[q] = req[q] /\ Executing(q)
    BY <1>1, <1>2 DEF Executing
  <2>2. req[q].step # s
    BY <1>2, <2>1 DEF ClaimInv, OneExecutor
  <2> QED
    BY <1>3, <2>1, <2>2, HandlerType DEF ClaimInv, NotCalledYet
<1>10. AtMostOneInvocation'
  BY <1>3 DEF ClaimInv, AtMostOneInvocation
<1>11. InvocationIsRecorded'
  <2>1. store.status[s] \in {"RUNNING", "COMPLETED", "FAILED"}
    BY <1>2 DEF ClaimInv, ExecutingStepsAreClaimed, ClaimedStatuses
  <2> QED
    BY <1>2, <1>3, <2>1 DEF ClaimInv, InvocationIsRecorded
<1> QED
  BY <1>4, <1>5, <1>7, <1>8, <1>9, <1>10, <1>11 DEF ClaimInv

----------------------------------------------------------------------------
(* Every step *)

LEMMA ClaimNext == TypeOK /\ ClaimInv /\ [Next]_vars => ClaimInv'
<1> SUFFICES ASSUME TypeOK, ClaimInv, [Next]_vars PROVE ClaimInv'
  OBVIOUS
<1>1. ASSUME NEW r \in Requests, LoseRace(r) PROVE ClaimInv'
  BY <1>1, IdleType, IdleTarget, ReadKeepsInvariant DEF LoseRace, stored, history
<1>2. ASSUME NEW r \in Requests, Close(r) \/ Settle(r) PROVE ClaimInv'
  <2> DEFINE run == Branches(definition, req[r].run)
             h == IF Close(r) THEN Idle ELSE Route(store', req[r].presented)
  <2>1. /\ run \in WorkflowRuns
        /\ \A s \in Steps : req[r].run.status[s] \in ClaimedStatuses
                              => run.status[s] \in ClaimedStatuses
    BY HandlerType, DecidingEffect DEF ClaimedStatuses
  <2>2. Save(r, run) /\ Goto(r, h) /\ req[r].pc # "idle" /\ invoked' = invoked
    BY <1>2 DEF Close, Settle, history
  <2>3. store' \in WorkflowRuns
    BY <2>1, <2>2, SaveType
  <2>4. /\ h \in HandlerStates /\ TargetIsAsRead(h)
        /\ h.pc \notin {"consume", "rollback", "invoke", "record"}
        /\ h.pc = "idle" \/ h.run = store'
    BY <2>3, IdleType, IdleTarget, RouteEffect, RouteTarget, HandlerType
  <2> HIDE DEF run, h
  <2> QED
    BY <2>1, <2>2, <2>4, SaveKeepsInvariant
<1>3. ASSUME NEW r \in Requests, FailStep(r) PROVE ClaimInv'
  <2>1. WithStatus(req[r].run, req[r].step, "FAILED") \in WorkflowRuns
    BY HandlerType, WithStatusType DEF StepStatuses
  <2>2. \A s \in Steps : req[r].run.status[s] \in ClaimedStatuses
          => WithStatus(req[r].run, req[r].step, "FAILED").status[s] \in ClaimedStatuses
    BY HandlerType DEF WithStatus, WorkflowRuns, ClaimedStatuses
  <2> QED
    BY <1>3, <2>1, <2>2, IdleType, IdleTarget, SaveKeepsInvariant DEF FailStep, history
<1>4. ASSUME NEW r \in Requests, ReadPermissions(r) PROVE ClaimInv'
  <2>1. PICK pc \in {"idle", "fail", "request", "claim"} :
          /\ Goto(r, IF pc = "idle" THEN Idle ELSE [req[r] EXCEPT !.pc = pc])
          /\ pc = "request" => ~Pending(r)
    BY <1>4 DEF ReadPermissions, Permitted
  <2> DEFINE h == IF pc = "idle" THEN Idle ELSE [req[r] EXCEPT !.pc = pc]
  <2>2. req[r].pc = "permissions" /\ store' = store /\ invoked' = invoked
    BY <1>4 DEF ReadPermissions, stored, history
  <2>3. /\ h \in HandlerStates /\ h.pc = pc
        /\ h.pc # "idle" => /\ h.run = req[r].run /\ h.step = req[r].step
                            /\ h.presented = req[r].presented
    BY IdleType, HandlerType DEF HandlerStates, Calls, Writes
  <2>4. Goto(r, h)
    BY <2>1
  <2> HIDE DEF h
  <2>5. TargetIsAsRead(h)
    BY <2>1, <2>2, <2>3, HandlerType
       DEF TargetIsAsRead, ClaimInv, TargetsAreAsRead, Pending
  <2> QED
    BY <2>2, <2>3, <2>4, <2>5, ReadKeepsInvariant
<1>5. ASSUME NEW r \in Requests, RequestApproval(r) PROVE ClaimInv'
  <2> DEFINE h == [req[r] EXCEPT !.pc = "wait", !.requested = Len(approvals) + 1]
  <2>1. Len(approvals) + 1 \in Nat
    BY LenProperties DEF TypeOK, A!ApprovalsType
  <2>2. /\ h \in HandlerStates /\ h.pc = "wait" /\ h.run = req[r].run
        /\ h.step = req[r].step /\ h.presented = req[r].presented
    BY <2>1, HandlerType DEF HandlerStates, Calls, Writes
  <2>3. Goto(r, h) /\ req[r].pc = "request" /\ store' = store /\ invoked' = invoked
    BY <1>5 DEF RequestApproval, history
  <2>4. TargetIsAsRead(h)
    BY <2>2, <2>3 DEF TargetIsAsRead, ClaimInv, TargetsAreAsRead
  <2> HIDE DEF h
  <2> QED
    BY <2>2, <2>3, <2>4, ReadKeepsInvariant
<1>6. ASSUME NEW r \in Requests, AwaitApproval(r) PROVE ClaimInv'
  <2> DEFINE s == req[r].step
             run == [WithStatus(req[r].run, s, "WAITING_APPROVAL") EXCEPT
                        !.approvalId[s] = req[r].requested]
  <2>1. WithStatus(req[r].run, s, "WAITING_APPROVAL") \in WorkflowRuns
    BY HandlerType, WithStatusType DEF StepStatuses
  <2>2. run \in WorkflowRuns
    BY <2>1, HandlerType DEF WorkflowRuns
  <2>3. req[r].run.status[s] \notin ClaimedStatuses
    BY <1>6 DEF AwaitApproval, ClaimInv, TargetsAreAsRead, TargetIsAsRead, ClaimedStatuses
  <2>4. \A t \in Steps : req[r].run.status[t] \in ClaimedStatuses
                           => run.status[t] \in ClaimedStatuses
    BY <2>1, <2>3, HandlerType DEF WithStatus, WorkflowRuns
  <2>5. Save(r, run) /\ Goto(r, Idle) /\ req[r].pc # "idle" /\ invoked' = invoked
    BY <1>6 DEF AwaitApproval, history
  <2> HIDE DEF run
  <2> QED
    BY <2>2, <2>4, <2>5, IdleType, IdleTarget, SaveKeepsInvariant
<1>7. ASSUME NEW r \in Requests, NEW result \in Results, RecordResult(r, result)
      PROVE  ClaimInv'
  <2> DEFINE s == req[r].step
             completed == Completed(req[r].run, s, result)
             run == Recorded(req[r].run, s, result)
             h == [req[r] EXCEPT !.pc = "audit", !.run = store']
  <2>1. /\ WithStatus(req[r].run, s, "FAILED") \in WorkflowRuns
        /\ WithStatus(req[r].run, s, "COMPLETED") \in WorkflowRuns
    BY HandlerType, WithStatusType DEF StepStatuses
  <2>2. result \notin {"timeout", "failed"} => completed \in WorkflowRuns
    BY <2>1, HandlerType DEF Results, WorkflowRuns, Completed
  <2>3. run \in WorkflowRuns
    BY <2>1, <2>2, HandlerType DEF Recorded
  <2>4. \A t \in Steps : run.status[t] = req[r].run.status[t] \/ run.status[t] \in ClaimedStatuses
    BY HandlerType DEF Recorded, Completed, WithStatus, WorkflowRuns, ClaimedStatuses
  <2>5. Save(r, run) /\ Goto(r, h) /\ req[r].pc # "idle" /\ invoked' = invoked
    BY <1>7 DEF RecordResult, history
  <2> HIDE DEF run
  <2>6. store' \in WorkflowRuns
    BY <2>3, <2>5, SaveType
  <2>7. h \in HandlerStates /\ h.pc = "audit" /\ h.run = store'
    BY <2>6, HandlerType DEF HandlerStates, Calls, Writes
  <2>8. TargetIsAsRead(h)
    BY <2>7 DEF TargetIsAsRead
  <2> HIDE DEF h
  <2> QED
    BY <2>3, <2>4, <2>5, <2>7, <2>8, SaveKeepsInvariant
<1>8. ASSUME NEW r \in Requests, RecordAudit(r) PROVE ClaimInv'
  <2>1. Closing(req[r].run) \in HandlerStates /\ TargetIsAsRead(Closing(req[r].run))
    BY HandlerType, ClosingEffect, ClosingTarget
  <2> QED
    BY <1>8, <2>1, HandlerType, ClosingEffect, ReadKeepsInvariant DEF RecordAudit, stored
<1>9. ASSUME NEW r \in Requests, AuthorizeRecovery(r) \/ Attest(r) PROVE ClaimInv'
  <2> DEFINE s == req[r].step
             authorized == [req[r].run EXCEPT !.recoveries[s] = @ + 1]
             attested == WithStatus(req[r].run, s, req[r].outcome)
             run == IF AuthorizeRecovery(r) THEN authorized ELSE attested
  <2>1. authorized \in WorkflowRuns
    <3>1. req[r].run.recoveries[s] + 1 \in Nat
      BY HandlerType DEF WorkflowRuns
    <3> QED
      BY <3>1, HandlerType DEF WorkflowRuns
  <2>2. attested \in WorkflowRuns
    BY HandlerType, WithStatusType DEF StepStatuses, Outcomes
  <2>3. \A t \in Steps : run.status[t] = req[r].run.status[t] \/ run.status[t] \in ClaimedStatuses
    BY HandlerType DEF WithStatus, WorkflowRuns, ClaimedStatuses, Outcomes
  <2>4. /\ Save(r, run) /\ Goto(r, Closing(store')) /\ req[r].pc # "idle"
        /\ invoked' = invoked /\ run \in WorkflowRuns
    BY <1>9, <2>1, <2>2 DEF AuthorizeRecovery, Attest, history
  <2> HIDE DEF run
  <2>5. store' \in WorkflowRuns
    BY <2>4, SaveType
  <2>6. Closing(store') \in HandlerStates /\ TargetIsAsRead(Closing(store'))
    BY <2>5, ClosingEffect, ClosingTarget
  <2> QED
    BY <2>3, <2>4, <2>5, <2>6, ClosingEffect, SaveKeepsInvariant
<1>10. ASSUME NEW r \in Requests, Operate(r) PROVE ClaimInv'
  <2>1. ASSUME NEW a \in {NoApproval} \cup A!Ids, AdvanceLoad(r, a) PROVE ClaimInv'
    <3> DEFINE settle == [Idle EXCEPT !.pc = "settle", !.run = store, !.presented = a]
               h == IF ~Gated(store) /\ Branches(definition, store) # store
                    THEN settle ELSE Route(store, a)
    <3>1. a \in Nat /\ store \in WorkflowRuns
      BY LenProperties DEF A!Ids, TypeOK, A!ApprovalsType, NoApproval
    <3>2. settle \in HandlerStates /\ settle.pc = "settle" /\ settle.run = store
      BY <3>1, IdleType DEF HandlerStates, Calls, Writes
    <3>3. TargetIsAsRead(settle)
      BY <3>2 DEF TargetIsAsRead
    <3>4. Goto(r, h) /\ store' = store /\ invoked' = invoked
      BY <2>1 DEF AdvanceLoad, stored, history
    <3>5. /\ h \in HandlerStates /\ TargetIsAsRead(h)
          /\ h.pc \notin {"consume", "rollback", "invoke", "record"}
          /\ h.pc = "idle" \/ h.run = store
      BY <3>1, <3>2, <3>3, RouteEffect, RouteTarget
    <3> HIDE DEF h
    <3> QED
      BY <3>4, <3>5, ReadKeepsInvariant
  <2>2. ASSUME NEW s \in Steps, RecoveryLoad(r, s) PROVE ClaimInv'
    <3> DEFINE h == [Idle EXCEPT !.pc = "authorize", !.run = store, !.step = s]
    <3>1. h \in HandlerStates /\ h.pc = "authorize" /\ h.run = store
      BY IdleType DEF HandlerStates, Calls, Writes, TypeOK
    <3>2. TargetIsAsRead(h)
      BY <3>1 DEF TargetIsAsRead
    <3>3. Goto(r, h) /\ store' = store /\ invoked' = invoked
      BY <2>2 DEF RecoveryLoad, stored, history
    <3> HIDE DEF h
    <3> QED
      BY <3>1, <3>2, <3>3, ReadKeepsInvariant
  <2>3. ASSUME NEW outcome \in Outcomes, ReconcileLoad(r, outcome) PROVE ClaimInv'
    <3> DEFINE s == FirstStep(InStatus(store, "RUNNING"))
               h == [Idle EXCEPT !.pc = "attest", !.run = store, !.outcome = outcome,
                                 !.step = s]
    <3>1. s \in Steps /\ store.status[s] = "RUNNING"
      BY <2>3, FirstStepMember DEF ReconcileLoad, Reconcilable, InStatus
    <3>2. Goto(r, h) /\ store' = store /\ invoked' = invoked
      BY <2>3 DEF ReconcileLoad, stored, history
    <3> HIDE DEF s
    <3>3. h \in HandlerStates /\ h.pc = "attest" /\ h.run = store /\ h.step = s
      BY <3>1, IdleType DEF HandlerStates, Calls, Writes, TypeOK
    <3>4. TargetIsAsRead(h)
      BY <3>1, <3>3 DEF TargetIsAsRead
    <3> HIDE DEF h
    <3> QED
      BY <3>2, <3>3, <3>4, ReadKeepsInvariant
  <2> QED
    BY <1>10, <2>1, <2>2, <2>3 DEF Operate
<1>11. ASSUME NEW r \in Requests, Crash(r) PROVE ClaimInv'
  BY <1>11, StopKeepsInvariant DEF Crash, Goto, TypeOK, stored, history
<1>12. CASE Environment
  BY <1>12, StopKeepsInvariant
     DEF Environment, Approve, Refuse, ChangePermissions, Redeploy, Elapse, stored, history
<1>13. CASE UNCHANGED vars
  BY <1>13, StopKeepsInvariant DEF vars, stored, history
<1> QED
  BY <1>1, <1>2, <1>3, <1>4, <1>5, <1>6, <1>7, <1>8, <1>9, <1>10, <1>11, <1>12, <1>13,
     ClaimKeepsInvariant, ConsumeKeepsInvariant, RollbackKeepsInvariant, InvokeKeepsInvariant
     DEF Next, Proceed

LEMMA Claims == Spec => []ClaimInv
  BY ClaimInit, ClaimNext, TypeCorrect, PTL DEF Spec

\* The tool of a step is called at most once: for any number of handlers, any policy of
\* the operators, any crashes, and no matter how late a handler goes on.
THEOREM CalledAtMostOnce == Spec => []AtMostOneInvocation
<1>1. ClaimInv => AtMostOneInvocation
  BY DEF ClaimInv
<1> QED
  BY <1>1, Claims, PTL

\* Whatever was called is on record as claimed.
THEOREM CallsAreOnRecord == Spec => []InvocationIsRecorded
<1>1. ClaimInv => InvocationIsRecorded
  BY DEF ClaimInv
<1> QED
  BY <1>1, Claims, PTL

----------------------------------------------------------------------------
(* Decided steps stay decided: a handler only writes over the run it loaded, and only
   over steps that were undecided in it *)

\* A write whose target is undecided, made through a current copy, alters no decision.
LEMMA SaveKeepsDecisions ==
    ASSUME TypeOK, ClaimInv, NEW r \in Requests, req[r].pc # "idle",
           NEW run \in WorkflowRuns, Save(r, run),
           \A s \in Steps : req[r].run.status[s] \in TerminalStatuses =>
               run.status[s] = req[r].run.status[s] /\ run.output[s] = req[r].run.output[s]
    PROVE  \A s \in Steps : store.status[s] \in TerminalStatuses =>
               store'.status[s] = store.status[s] /\ store'.output[s] = store.output[s]
<1>1. req[r].run = store
  BY DEF ClaimInv, CopiesAreFaithful, Save
<1>2. store'.status = run.status /\ store'.output = run.output
  BY DEF Save, WorkflowRuns
<1> QED
  BY <1>1, <1>2

\* The same, for a write of one undecided step.
LEMMA StatusWriteKeepsDecisions ==
    ASSUME TypeOK, ClaimInv, NEW r \in Requests, req[r].pc # "idle",
           NEW st \in StepStatuses, Save(r, WithStatus(req[r].run, req[r].step, st)),
           req[r].run.status[req[r].step] \notin TerminalStatuses
    PROVE  \A s \in Steps : store.status[s] \in TerminalStatuses =>
               store'.status[s] = store.status[s] /\ store'.output[s] = store.output[s]
<1> DEFINE run == WithStatus(req[r].run, req[r].step, st)
<1>1. run \in WorkflowRuns
  BY HandlerType, WithStatusType
<1>2. \A s \in Steps : req[r].run.status[s] \in TerminalStatuses =>
        run.status[s] = req[r].run.status[s] /\ run.output[s] = req[r].run.output[s]
  BY HandlerType DEF WithStatus, WorkflowRuns
<1> QED
  BY <1>1, <1>2, SaveKeepsDecisions

LEMMA DecisionsKept ==
    TypeOK /\ ClaimInv /\ [Next]_vars =>
      \A s \in Steps : store.status[s] \in TerminalStatuses =>
          store'.status[s] = store.status[s] /\ store'.output[s] = store.output[s]
<1> DEFINE Kept == \A s \in Steps : store.status[s] \in TerminalStatuses =>
                     store'.status[s] = store.status[s] /\ store'.output[s] = store.output[s]
<1> SUFFICES ASSUME TypeOK, ClaimInv, [Next]_vars PROVE Kept
  OBVIOUS
<1>1. \A r \in Requests :
        req[r].pc \in {"fail", "wait", "claim", "rollback", "record", "attest"}
          => req[r].run.status[req[r].step] \notin TerminalStatuses
  BY DEF ClaimInv, TargetsAreAsRead, TargetIsAsRead, TerminalStatuses
<1>2. ASSUME NEW r \in Requests, Close(r) \/ Settle(r) PROVE Kept
  <2> DEFINE run == Branches(definition, req[r].run)
  <2>1. run \in WorkflowRuns /\ run.output = req[r].run.output
    BY HandlerType, DecidingEffect
  <2>2. \A s \in Steps : req[r].run.status[s] \in TerminalStatuses
                           => run.status[s] = req[r].run.status[s]
    BY HandlerType, DecidingEffect DEF TerminalStatuses
  <2>3. Save(r, run) /\ req[r].pc # "idle"
    BY <1>2 DEF Close, Settle
  <2> HIDE DEF run
  <2> QED
    BY <2>1, <2>2, <2>3, SaveKeepsDecisions
<1>3. ASSUME NEW r \in Requests, FailStep(r) \/ Claim(r) \/ Rollback(r) \/ Attest(r) PROVE Kept
  <2>1. PICK st \in StepStatuses : Save(r, WithStatus(req[r].run, req[r].step, st))
    BY <1>3, HandlerType DEF FailStep, Claim, Rollback, Attest, StepStatuses, Outcomes
  <2>2. req[r].pc \in {"fail", "claim", "rollback", "attest"}
    BY <1>3 DEF FailStep, Claim, Rollback, Attest
  <2> QED
    BY <1>1, <2>1, <2>2, StatusWriteKeepsDecisions
<1>4. ASSUME NEW r \in Requests, AwaitApproval(r) PROVE Kept
  <2> DEFINE s == req[r].step
             waiting == WithStatus(req[r].run, s, "WAITING_APPROVAL")
             run == [waiting EXCEPT !.approvalId[s] = req[r].requested]
  <2>1. waiting \in WorkflowRuns
    BY HandlerType, WithStatusType DEF StepStatuses
  <2>2. run \in WorkflowRuns /\ run.status = waiting.status /\ run.output = req[r].run.output
    BY <2>1, HandlerType DEF WorkflowRuns, WithStatus
  <2>3. Save(r, run) /\ req[r].pc = "wait"
    BY <1>4 DEF AwaitApproval
  <2>4. \A t \in Steps \ {s} : waiting.status[t] = req[r].run.status[t]
    BY HandlerType DEF WithStatus, WorkflowRuns
  <2> HIDE DEF run, waiting
  <2> QED
    BY <1>1, <2>2, <2>3, <2>4, SaveKeepsDecisions
<1>5. ASSUME NEW r \in Requests, NEW result \in Results, RecordResult(r, result) PROVE Kept
  <2> DEFINE s == req[r].step
             completed == WithStatus(req[r].run, s, "COMPLETED")
             run == [completed EXCEPT !.output[s] = result]
  <2>1. CASE result = "timeout"
    BY <1>5, <2>1, HandlerType, SaveKeepsDecisions DEF RecordResult, Recorded
  <2>2. CASE result = "failed"
    BY <1>1, <1>5, <2>2, StatusWriteKeepsDecisions DEF RecordResult, Recorded, StepStatuses
  <2>3. CASE result \notin {"timeout", "failed"}
    <3>1. completed \in WorkflowRuns
      BY HandlerType, WithStatusType DEF StepStatuses
    <3>2. run \in WorkflowRuns /\ run.status = completed.status
      BY <2>3, <3>1, HandlerType DEF WorkflowRuns, Results
    <3>3. Save(r, run) /\ req[r].pc = "record"
      BY <1>5, <2>3 DEF RecordResult, Recorded, Completed
    <3>4. \A t \in Steps \ {s} : /\ completed.status[t] = req[r].run.status[t]
                                 /\ run.output[t] = req[r].run.output[t]
      BY HandlerType DEF WithStatus, WorkflowRuns
    <3> HIDE DEF run, completed
    <3> QED
      BY <1>1, <3>2, <3>3, <3>4, SaveKeepsDecisions
  <2> QED
    BY <2>1, <2>2, <2>3 DEF Results
<1>6. ASSUME NEW r \in Requests, AuthorizeRecovery(r) PROVE Kept
  <2> DEFINE run == [req[r].run EXCEPT !.recoveries[req[r].step] = @ + 1]
  <2>1. run \in WorkflowRuns
    <3>1. req[r].run.recoveries[req[r].step] + 1 \in Nat
      BY HandlerType DEF WorkflowRuns
    <3> QED
      BY <3>1, HandlerType DEF WorkflowRuns
  <2>2. Save(r, run) /\ req[r].pc # "idle"
    BY <1>6 DEF AuthorizeRecovery
  <2>3. run.status = req[r].run.status /\ run.output = req[r].run.output
    BY HandlerType DEF WorkflowRuns
  <2> HIDE DEF run
  <2> QED
    BY <2>1, <2>2, <2>3, SaveKeepsDecisions
<1>7. CASE UNCHANGED store
  BY <1>7
<1> QED
  BY <1>2, <1>3, <1>4, <1>5, <1>6, <1>7
     DEF Next, Proceed, Operate, Environment, LoseRace, ReadPermissions, RequestApproval,
         ConsumeApproval, Invoke, RecordAudit, AdvanceLoad, RecoveryLoad, ReconcileLoad,
         Crash, Redeploy, Approve, Refuse, ChangePermissions, Elapse, stored, vars

\* A decided step keeps its status and output for ever: no stale handler, rollback,
\* attestation or branch decision rewrites what another request has concluded.
THEOREM DecisionsAreFinal == Spec => DecidedStepsAreFinal
<1>1. TypeOK /\ ClaimInv /\ [Next]_vars =>
        [\A s \in Steps : store.status[s] \in TerminalStatuses =>
           store'.status[s] = store.status[s] /\ store'.output[s] = store.output[s]]_vars
  BY DecisionsKept
<1> QED
  BY <1>1, TypeCorrect, Claims, PTL DEF Spec, DecidedStepsAreFinal

----------------------------------------------------------------------------
(* A HIGH-risk tool runs under one approval, of that step, granted and spent on that
   call; and an approval that was spent has claimed its step.  The argument adds what
   each handler knows about approvals *)

\* Requests only accumulate, and a decision or a consumption is never taken back.
ApprovalsAdvance ==
    /\ A!Ids \subseteq A!Ids'
    /\ \A a \in A!Ids :
         /\ approvals'[a].subject = approvals[a].subject
         /\ approvals[a].consumed => approvals'[a].consumed
         /\ approvals[a].approved =>
              approvals'[a].approved /\ approvals'[a].rejected = approvals[a].rejected

\* All that a step may do to approvals and to the steps they are for.
ApprovalStep ==
    /\ definition' = definition
    /\ ApprovalsAdvance
    /\ \A a \in A!Ids' : approvals'[a].consumed =>
         \/ a \in A!Ids /\ approvals[a].consumed
         \/ \E r \in Requests :
              /\ req[r].pc = "consume" /\ req'[r].pc = "invoke"
              /\ approvals'[a].subject = req[r].step /\ a = req[r].presented
              /\ store' = store
    /\ \A s \in Steps : store'.approvalId[s] # store.approvalId[s] =>
         /\ store.status[s] \notin ClaimedStatuses
         /\ store'.approvalId[s] \in A!Ids'
         /\ approvals'[store'.approvalId[s]].subject = s
    /\ \A s \in Steps :
         store.status[s] \in ClaimedStatuses /\ store'.status[s] \notin ClaimedStatuses =>
           \E r \in Requests : req[r].pc = "rollback" /\ s = req[r].step /\ approvals' = approvals
    /\ \A s \in Steps : invoked'[s] > 0 =>
         \/ invoked[s] > 0
         \/ \E r \in Requests : /\ req[r].pc = "invoke" /\ s = req[r].step
                                /\ store' = store /\ approvals' = approvals

LEMMA ApprovalRecordType ==
    ASSUME TypeOK, NEW a \in A!Ids
    PROVE  a \in Nat /\ a # NoApproval /\ approvals[a] \in A!ApprovalRecords
<1>1. approvals \in Seq(A!ApprovalRecords) /\ a \in 1 .. Len(approvals)
  BY LenProperties DEF TypeOK, A!ApprovalsType, A!Ids
<1>2. approvals[a] \in A!ApprovalRecords
  BY <1>1, ElementOfSeq
<1> QED
  BY <1>1, <1>2, LenProperties DEF NoApproval

\* A handler that the step leaves alone still knows what it knew: it is the only executor
\* of its step, so nobody else has consumed for it or reopened it.
LEMMA OthersHold ==
    ASSUME TypeOK, ClaimInv, ApprovalInv, ApprovalStep,
           NEW q \in Requests, req'[q] = req[q]
    PROVE  ApprovalIsHeld(req[q])'
<1> DEFINE h == req[q]
<1>1. h \in HandlerStates /\ h.step \in Steps /\ ApprovalIsHeld(h)
  BY HandlerType DEF ApprovalInv
<1>2. A!Ids \subseteq A!Ids' /\ \A a \in A!Ids : approvals'[a].subject = approvals[a].subject
  BY DEF ApprovalStep, ApprovalsAdvance
<1>3. Executing(q) => store'.approvalId[h.step] = store.approvalId[h.step]
  BY <1>1 DEF ApprovalStep, ClaimInv, ExecutingStepsAreClaimed
<1>4. ASSUME h.pc \in {"consume", "rollback"}, NEW a \in A!Ids', approvals'[a].subject = h.step
      PROVE  ~approvals'[a].consumed
  <2>1. SUFFICES ASSUME approvals'[a].consumed PROVE FALSE
    OBVIOUS
  <2>2. CASE a \in A!Ids /\ approvals[a].consumed
    BY <1>1, <1>2, <1>4, <2>2 DEF ApprovalIsHeld
  <2>3. ASSUME NEW r \in Requests, req[r].pc = "consume", req'[r].pc = "invoke",
               approvals'[a].subject = req[r].step
        PROVE  FALSE
    <3>1. Executing(r) /\ Executing(q) /\ req[r].step = req[q].step
      BY <1>4, <2>3 DEF Executing
    <3>2. r = q
      BY <3>1 DEF ClaimInv, OneExecutor
    <3> QED
      BY <1>4, <2>3, <3>2
  <2> QED
    BY <2>1, <2>2, <2>3 DEF ApprovalStep
<1>5. NeedsApproval(h.step)' = NeedsApproval(h.step)
  BY DEF NeedsApproval, ApprovalStep
<1>6. h.pc = "invoke" /\ NeedsApproval(h.step) => GrantedFor(store.approvalId[h.step], h.step)'
  <2>1. SUFFICES ASSUME h.pc = "invoke", NeedsApproval(h.step)
                 PROVE  GrantedFor(store.approvalId[h.step], h.step)'
    OBVIOUS
  <2>2. GrantedFor(store.approvalId[h.step], h.step)
    BY <1>1, <2>1 DEF ApprovalIsHeld
  <2>3. store'.approvalId[h.step] = store.approvalId[h.step]
    BY <1>3, <2>1 DEF Executing
  <2> QED
    BY <2>2, <2>3 DEF ApprovalStep, ApprovalsAdvance, GrantedFor
<1> QED
  BY <1>1, <1>2, <1>3, <1>4, <1>5, <1>6 DEF ApprovalIsHeld, Executing

\* What is left to show for each action: that it is such a step, and that the handler
\* that takes it knows enough when it goes on.
LEMMA ApprovalStepKeepsInvariant ==
    ASSUME TypeOK, ClaimInv, ApprovalInv, ApprovalStep,
           \A q \in Requests : req'[q] = req[q] \/ ApprovalIsHeld(req[q])'
    PROVE  ApprovalInv'
<1>1. \A q \in Requests : ApprovalIsHeld(req[q])'
  BY OthersHold
<1>2. ApprovalsMatchSteps'
  BY DEF ApprovalStep, ApprovalsAdvance, ApprovalInv, ApprovalsMatchSteps
<1>3. HighRiskNeedsConsumedApproval'
  <2> SUFFICES ASSUME NEW s \in Steps, invoked'[s] > 0, NeedsApproval(s)
               PROVE  GrantedFor(store.approvalId[s], s)'
    BY DEF HighRiskNeedsConsumedApproval, ApprovalStep, NeedsApproval
  <2>1. CASE invoked[s] > 0
    <3>1. GrantedFor(store.approvalId[s], s) /\ store.status[s] \in ClaimedStatuses
      BY <2>1 DEF ApprovalInv, HighRiskNeedsConsumedApproval, ClaimInv,
                  InvocationIsRecorded, ClaimedStatuses
    <3>2. store'.approvalId[s] = store.approvalId[s]
      BY <3>1 DEF ApprovalStep
    <3> QED
      BY <3>1, <3>2 DEF ApprovalStep, ApprovalsAdvance, GrantedFor
  <2>2. ASSUME NEW r \in Requests, req[r].pc = "invoke", s = req[r].step, store' = store,
               approvals' = approvals
        PROVE  GrantedFor(store.approvalId[s], s)'
    <3>1. GrantedFor(store.approvalId[s], s)
      BY <2>2 DEF ApprovalInv, ApprovalIsHeld
    <3> QED
      BY <2>2, <3>1 DEF ApprovalStep, ApprovalsAdvance, GrantedFor
  <2> QED
    BY <2>1, <2>2 DEF ApprovalStep
<1>4. ConsumptionClaimsStep'
  <2> SUFFICES ASSUME NEW a \in A!Ids', approvals'[a].consumed
               PROVE  /\ store'.approvalId[approvals'[a].subject] = a
                      /\ store'.status[approvals'[a].subject] \in ClaimedStatuses
    BY DEF ConsumptionClaimsStep, ClaimedStatuses
  <2> DEFINE s == approvals'[a].subject
  <2>1. CASE a \in A!Ids /\ approvals[a].consumed
    <3>1. s = approvals[a].subject /\ store.approvalId[s] = a /\ store.status[s] \in ClaimedStatuses
      BY <2>1 DEF ApprovalInv, ConsumptionClaimsStep, ApprovalStep, ApprovalsAdvance,
                  ClaimedStatuses
    <3>2. s \in Steps
      BY <2>1, <3>1, ApprovalRecordType DEF A!ApprovalRecords
    <3>3. store'.status[s] \in ClaimedStatuses
      <4>1. \A r \in Requests : req[r].pc = "rollback" => req[r].step # s
        BY <2>1, <3>1 DEF ApprovalInv, ApprovalIsHeld
      <4> QED
        BY <3>1, <3>2, <4>1 DEF ApprovalStep
    <3>4. store'.approvalId[s] = a
      BY <3>1, <3>2 DEF ApprovalStep
    <3> QED
      BY <3>3, <3>4
  <2>2. ASSUME NEW r \in Requests, req[r].pc = "consume", s = req[r].step,
               a = req[r].presented, store' = store
        PROVE  store'.approvalId[s] = a /\ store'.status[s] \in ClaimedStatuses
    BY <2>2 DEF ApprovalInv, ApprovalIsHeld, ClaimInv, ExecutingStepsAreClaimed, Executing
  <2> QED
    BY <2>1, <2>2 DEF ApprovalStep
<1> QED
  BY <1>1, <1>2, <1>3, <1>4 DEF ApprovalInv

----------------------------------------------------------------------------
(* Every step *)

\* A step that leaves approvals alone and, but for statuses, the store as well.
LEMMA StatusesOnly ==
    ASSUME definition' = definition, approvals' = approvals, invoked' = invoked,
           \A s \in Steps : store'.approvalId[s] = store.approvalId[s],
           \A s \in Steps : store.status[s] \in ClaimedStatuses =>
               \/ store'.status[s] \in ClaimedStatuses
               \/ \E r \in Requests : req[r].pc = "rollback" /\ s = req[r].step
    PROVE  ApprovalStep
  BY DEF ApprovalStep, ApprovalsAdvance, A!Ids

\* Most of the places a handler may be at ask only that its approval id was given out.
Unburdened == {"idle", "settle", "close", "permissions", "fail", "record", "audit",
               "authorize", "attest"}

LEMMA UnburdenedHolds ==
    ASSUME NEW q \in Requests, req'[q].pc \in Unburdened,
           req'[q].presented \in {NoApproval} \cup A!Ids'
    PROVE  ApprovalIsHeld(req[q])'
  BY DEF ApprovalIsHeld, Unburdened

\* A handler that saves its run: the stored run becomes the one it saves.
LEMMA SaveOnlyStatuses ==
    ASSUME TypeOK, ClaimInv, NEW r \in Requests, req[r].pc # "idle",
           NEW run \in WorkflowRuns, Save(r, run), run.approvalId = req[r].run.approvalId,
           definition' = definition, approvals' = approvals, invoked' = invoked,
           \A s \in Steps : req[r].run.status[s] \in ClaimedStatuses =>
               \/ run.status[s] \in ClaimedStatuses
               \/ req[r].pc = "rollback" /\ s = req[r].step
    PROVE  ApprovalStep
<1>1. req[r].run = store
  BY DEF ClaimInv, CopiesAreFaithful, Save
<1>2. store'.status = run.status /\ store'.approvalId = run.approvalId
  BY DEF Save, WorkflowRuns
<1> QED
  BY <1>1, <1>2, StatusesOnly

\* And then goes on unburdened, with the approval it had or with none.
LEMMA SaveKeepsApprovals ==
    ASSUME TypeOK, ClaimInv, ApprovalInv, NEW r \in Requests, req[r].pc # "idle",
           NEW run \in WorkflowRuns, Save(r, run), run.approvalId = req[r].run.approvalId,
           definition' = definition, approvals' = approvals, invoked' = invoked,
           \A s \in Steps : req[r].run.status[s] \in ClaimedStatuses =>
               \/ run.status[s] \in ClaimedStatuses
               \/ req[r].pc = "rollback" /\ s = req[r].step,
           NEW h, Goto(r, h), h.pc \in Unburdened,
           h.presented \in {NoApproval, req[r].presented}
    PROVE  ApprovalInv'
<1>1. ApprovalStep
  BY SaveOnlyStatuses
<1>2. req'[r] = h /\ \A q \in Requests \ {r} : req'[q] = req[q]
  BY DEF Goto, TypeOK
<1>3. h.presented \in {NoApproval} \cup A!Ids'
  BY DEF ApprovalInv, ApprovalIsHeld, A!Ids
<1> QED
  BY <1>1, <1>2, <1>3, UnburdenedHolds, ApprovalStepKeepsInvariant

LEMMA ReadKeepsApprovals ==
    ASSUME TypeOK, ClaimInv, ApprovalInv, NEW r \in Requests,
           definition' = definition, store' = store, approvals' = approvals,
           invoked' = invoked, NEW h, Goto(r, h),
           \/ h.pc \in Unburdened /\ h.presented \in {NoApproval} \cup A!Ids
           \/ ApprovalIsHeld(req[r])'
    PROVE  ApprovalInv'
<1>1. ApprovalStep
  BY StatusesOnly
<1>2. req'[r] = h /\ \A q \in Requests \ {r} : req'[q] = req[q]
  BY DEF Goto, TypeOK
<1>3. ApprovalIsHeld(req[r])'
  BY <1>2, UnburdenedHolds DEF A!Ids
<1> QED
  BY <1>1, <1>2, <1>3, ApprovalStepKeepsInvariant

\* Handlers stop, or the world changes around them.
LEMMA WorldKeepsApprovals ==
    ASSUME TypeOK, ClaimInv, ApprovalInv, definition' = definition, store' = store,
           invoked' = invoked, ApprovalsAdvance,
           \A a \in A!Ids' : approvals'[a].consumed => a \in A!Ids /\ approvals[a].consumed,
           \A q \in Requests : req'[q] = req[q] \/ req'[q] = Idle
    PROVE  ApprovalInv'
<1>1. ApprovalStep
  BY DEF ApprovalStep
<1>2. Idle.pc \in Unburdened /\ Idle.presented = NoApproval
  BY DEF Idle, Unburdened
<1>3. \A q \in Requests : req'[q] = req[q] \/ ApprovalIsHeld(req[q])'
  BY <1>2, UnburdenedHolds
<1> QED
  BY <1>1, <1>3, ApprovalStepKeepsInvariant

LEMMA IdleUnburdened == Idle.pc \in Unburdened /\ Idle.presented = NoApproval
  BY DEF Idle, Unburdened

LEMMA RouteUnburdened ==
    ASSUME NEW run \in WorkflowRuns, NEW presented \in Nat
    PROVE  /\ Route(run, presented).pc \in Unburdened
           /\ Route(run, presented).presented \in {NoApproval, presented}
<1>1. Route(run, presented).pc = "idle" => Route(run, presented).presented = NoApproval
  BY IdleUnburdened DEF Route, Idle
<1> QED
  BY <1>1, RouteEffect DEF Unburdened

LEMMA ClosingUnburdened ==
    ASSUME NEW run
    PROVE  Closing(run).pc \in Unburdened /\ Closing(run).presented = NoApproval
  BY DEF Closing, Idle, Unburdened

LEMMA ApprovalInvInit == Init => ApprovalInv
<1> SUFFICES ASSUME Init PROVE ApprovalInv
  OBVIOUS
<1>1. A!Ids = {}
  BY EmptySeq DEF Init, A!ApprovalsInit, A!Ids
<1> QED
  BY <1>1, IdleUnburdened
     DEF Init, ApprovalInv, ApprovalsMatchSteps, ApprovalIsHeld, Unburdened, NewRun,
         HighRiskNeedsConsumedApproval, ConsumptionClaimsStep

\* A waiting step gets the approval its handler has just created; it was pending.
LEMMA AwaitKeepsApprovals ==
    ASSUME TypeOK, ClaimInv, ApprovalInv, NEW r \in Requests, AwaitApproval(r)
    PROVE  ApprovalInv'
<1> DEFINE s == req[r].step
           waiting == WithStatus(req[r].run, s, "WAITING_APPROVAL")
           run == [waiting EXCEPT !.approvalId[s] = req[r].requested]
<1>1. s \in Steps /\ req[r].run = store /\ store.status[s] = "PENDING"
  <2>1. req[r].run = store
    BY DEF AwaitApproval, ClaimInv, CopiesAreFaithful, Save
  <2> QED
    BY <2>1, HandlerType DEF AwaitApproval, ClaimInv, TargetsAreAsRead, TargetIsAsRead
<1>2. waiting \in WorkflowRuns /\ waiting.approvalId = store.approvalId
  <2>1. waiting \in WorkflowRuns
    BY HandlerType, WithStatusType DEF StepStatuses
  <2> QED
    BY <1>1, <2>1, HandlerType DEF WithStatus, WorkflowRuns
<1>3. /\ run.status = [store.status EXCEPT ![s] = "WAITING_APPROVAL"]
      /\ run.approvalId = [store.approvalId EXCEPT ![s] = req[r].requested]
      /\ run \in WorkflowRuns
  BY <1>1, <1>2, HandlerType DEF WithStatus, WorkflowRuns
<1>4. store'.status = run.status /\ store'.approvalId = run.approvalId
  <2>1. Save(r, run)
    BY DEF AwaitApproval
  <2> HIDE DEF run
  <2> QED
    BY <1>3, <2>1 DEF Save, WorkflowRuns
<1>5. /\ definition' = definition /\ approvals' = approvals /\ invoked' = invoked
      /\ req[r].pc = "wait"
  BY DEF AwaitApproval, history
<1>6. req[r].requested \in A!Ids /\ approvals[req[r].requested].subject = s
  BY <1>5 DEF ApprovalInv, ApprovalIsHeld
<1> HIDE DEF run, waiting
<1>7. \A t \in Steps \ {s} : /\ store'.status[t] = store.status[t]
                             /\ store'.approvalId[t] = store.approvalId[t]
  BY <1>1, <1>3, <1>4 DEF TypeOK, WorkflowRuns
<1>8. store'.approvalId[s] = req[r].requested
  BY <1>1, <1>3, <1>4 DEF TypeOK, WorkflowRuns
<1>9. store.status[s] \notin ClaimedStatuses
  BY <1>1 DEF ClaimedStatuses
<1>10. ApprovalStep
  BY <1>5, <1>6, <1>7, <1>8, <1>9 DEF ApprovalStep, ApprovalsAdvance, A!Ids
<1>11. req'[r] = Idle /\ \A q \in Requests \ {r} : req'[q] = req[q]
  BY DEF AwaitApproval, Goto, TypeOK
<1> QED
  BY <1>10, <1>11, IdleUnburdened, UnburdenedHolds, ApprovalStepKeepsInvariant

\* Claiming a waiting step: no approval of that step has been spent yet.
LEMMA ClaimKeepsApprovals ==
    ASSUME TypeOK, ClaimInv, ApprovalInv, NEW r \in Requests, Claim(r)
    PROVE  ApprovalInv'
<1> DEFINE s == req[r].step
           run == WithStatus(req[r].run, s, "RUNNING")
<1>1. /\ s \in Steps /\ req[r].run = store /\ ApprovalIsHeld(req[r]) /\ req[r].pc = "claim"
      /\ store.status[s] =
           IF req[r].presented = NoApproval THEN "PENDING" ELSE "WAITING_APPROVAL"
  <2>1. req[r].run = store
    BY DEF Claim, ClaimInv, CopiesAreFaithful, Save
  <2> QED
    BY <2>1, HandlerType DEF Claim, ClaimInv, TargetsAreAsRead, TargetIsAsRead, ApprovalInv
<1>2. run \in WorkflowRuns /\ run.approvalId = req[r].run.approvalId
  <2>1. run \in WorkflowRuns
    BY HandlerType, WithStatusType DEF StepStatuses
  <2> QED
    BY <2>1, HandlerType DEF WithStatus, WorkflowRuns
<1>3. \A t \in Steps : run.status[t] = req[r].run.status[t] \/ run.status[t] = "RUNNING"
  BY HandlerType DEF WithStatus, WorkflowRuns
<1>4. /\ Save(r, run) /\ definition' = definition /\ approvals' = approvals
      /\ invoked' = invoked
  BY DEF Claim, history
<1> HIDE DEF run
<1>5. ApprovalStep
  BY <1>1, <1>2, <1>3, <1>4, SaveOnlyStatuses DEF ClaimedStatuses
<1>6. store'.approvalId = store.approvalId
  BY <1>1, <1>2, <1>4 DEF Save, WorkflowRuns
<1>7. /\ req'[r].pc = IF Pending(r) THEN "consume" ELSE "invoke"
      /\ req'[r].step = s /\ req'[r].presented = req[r].presented
      /\ \A q \in Requests \ {r} : req'[q] = req[q]
  BY HandlerType DEF Claim, AfterClaim, Goto, TypeOK, HandlerStates
<1>8. Pending(r) <=> req[r].presented # NoApproval
  BY <1>1 DEF Pending
<1>9. \A a \in A!Ids : approvals[a].subject = s => ~approvals[a].consumed
  BY <1>1 DEF ApprovalInv, ConsumptionClaimsStep
<1>10. NeedsApproval(req[r].step)' = NeedsApproval(s)
  BY <1>4, <1>7 DEF NeedsApproval
<1>11. ApprovalIsHeld(req[r])'
  BY <1>1, <1>4, <1>6, <1>7, <1>8, <1>9, <1>10 DEF ApprovalIsHeld, A!Ids
<1> QED
  BY <1>5, <1>7, <1>11, ApprovalStepKeepsInvariant

\* Consuming spends the approval on record for the claimed step, or nothing.
LEMMA ConsumeKeepsApprovals ==
    ASSUME TypeOK, ClaimInv, ApprovalInv, NEW r \in Requests, ConsumeApproval(r)
    PROVE  ApprovalInv'
<1> DEFINE s == req[r].step
           a == req[r].presented
<1>1. /\ req[r].pc = "consume" /\ store' = store /\ invoked' = invoked
      /\ definition' = definition /\ s \in Steps
  BY HandlerType DEF ConsumeApproval, history
<1>2. /\ a \in A!Ids /\ store.approvalId[s] = a
      /\ \A b \in A!Ids : approvals[b].subject = s => ~approvals[b].consumed
  BY <1>1 DEF ApprovalInv, ApprovalIsHeld
<1>3. /\ req'[r].step = s /\ req'[r].presented = a
      /\ \A q \in Requests \ {r} : req'[q] = req[q]
  BY HandlerType DEF ConsumeApproval, Goto, TypeOK, HandlerStates
<1>4. CASE A!Consumable(a, s)
  <2>1. approvals' = [approvals EXCEPT ![a].consumed = TRUE] /\ req'[r].pc = "invoke"
    BY <1>4, HandlerType DEF ConsumeApproval, A!Consume, Goto, TypeOK, HandlerStates
  <2>2. approvals[a] \in A!ApprovalRecords
    BY <1>2, ApprovalRecordType
  <2>3. /\ A!Ids' = A!Ids
        /\ \A b \in A!Ids \ {a} : approvals'[b] = approvals[b]
        /\ approvals'[a] = [approvals[a] EXCEPT !.consumed = TRUE]
    BY <1>2, <2>1 DEF A!Ids
  <2>4. /\ approvals'[a].subject = s /\ approvals'[a].approved
        /\ approvals'[a].consumed /\ ~approvals'[a].rejected
        /\ approvals[a].subject = s /\ approvals'[a].rejected = approvals[a].rejected
    BY <1>4, <2>2, <2>3 DEF A!ApprovalRecords, A!Consumable
  <2>5. ApprovalsAdvance
    BY <2>3, <2>4 DEF ApprovalsAdvance
  <2>6. ApprovalStep
    BY <1>1, <2>1, <2>3, <2>4, <2>5 DEF ApprovalStep
  <2>7. GrantedFor(store.approvalId[s], s)'
    BY <1>1, <1>2, <1>3, <2>3, <2>4 DEF GrantedFor
  <2>8. ApprovalIsHeld(req[r])'
    BY <1>1, <1>2, <1>3, <2>1, <2>3, <2>7 DEF ApprovalIsHeld
  <2> QED
    BY <1>3, <2>6, <2>8, ApprovalStepKeepsInvariant
<1>5. CASE ~A!Consumable(a, s)
  <2>1. approvals' = approvals /\ req'[r].pc = "rollback"
    BY <1>5, HandlerType DEF ConsumeApproval, Goto, TypeOK, HandlerStates
  <2>2. ApprovalIsHeld(req[r])'
    BY <1>1, <1>2, <1>3, <2>1 DEF ApprovalInv, ApprovalIsHeld, A!Ids
  <2>3. ApprovalStep
    BY <1>1, <2>1, StatusesOnly
  <2> QED
    BY <1>3, <2>2, <2>3, ApprovalStepKeepsInvariant
<1> QED
  BY <1>4, <1>5

LEMMA InvokeKeepsApprovals ==
    ASSUME TypeOK, ClaimInv, ApprovalInv, NEW r \in Requests, Invoke(r)
    PROVE  ApprovalInv'
<1>1. /\ req[r].pc = "invoke" /\ store' = store /\ approvals' = approvals
      /\ definition' = definition
      /\ \A s \in Steps : invoked'[s] > 0 => invoked[s] > 0 \/ s = req[r].step
  BY DEF Invoke, stored, TypeOK
<1>2. ApprovalStep
  BY <1>1 DEF ApprovalStep, ApprovalsAdvance, A!Ids
<1>3. /\ req'[r].pc = "record" /\ req'[r].presented = req[r].presented
      /\ \A q \in Requests \ {r} : req'[q] = req[q]
  BY HandlerType DEF Invoke, Goto, TypeOK, HandlerStates
<1>4. ApprovalIsHeld(req[r])'
  BY <1>1, <1>3, UnburdenedHolds DEF ApprovalInv, ApprovalIsHeld, A!Ids, Unburdened
<1> QED
  BY <1>2, <1>3, <1>4, ApprovalStepKeepsInvariant

\* Asking for an approval adds it at the end, undecided, for the step asked about.
LEMMA RequestKeepsApprovals ==
    ASSUME TypeOK, ClaimInv, ApprovalInv, NEW r \in Requests, RequestApproval(r)
    PROVE  ApprovalInv'
<1> DEFINE s == req[r].step
           n == Len(approvals) + 1
           approval == [subject |-> s, approved |-> FALSE, rejected |-> FALSE,
                        consumed |-> FALSE, expired |-> FALSE]
<1>1. /\ definition' = definition /\ store' = store /\ invoked' = invoked
      /\ approvals' = Append(approvals, approval) /\ req[r].pc = "request" /\ s \in Steps
  BY HandlerType DEF RequestApproval, A!Request, history
<1>2. /\ A!Ids = 1 .. Len(approvals) /\ A!Ids' = 1 .. n /\ Len(approvals) \in Nat
      /\ \A a \in A!Ids : approvals'[a] = approvals[a]
      /\ approvals'[n] = approval
  <2>1. approvals \in Seq(A!ApprovalRecords) /\ approval \in A!ApprovalRecords
    BY <1>1 DEF TypeOK, A!ApprovalsType, A!ApprovalRecords
  <2> HIDE DEF approval
  <2> QED
    BY <1>1, <2>1, AppendProperties, LenProperties DEF A!Ids
<1>3. ApprovalsAdvance
  BY <1>2 DEF ApprovalsAdvance
<1>4. ApprovalStep
  BY <1>1, <1>2, <1>3 DEF ApprovalStep
<1>5. /\ req'[r].pc = "wait" /\ req'[r].step = s /\ req'[r].requested = n
      /\ req'[r].presented = req[r].presented
      /\ \A q \in Requests \ {r} : req'[q] = req[q]
  BY HandlerType DEF RequestApproval, Goto, TypeOK, HandlerStates
<1>6. ApprovalIsHeld(req[r])'
  BY <1>2, <1>5 DEF ApprovalInv, ApprovalIsHeld
<1> QED
  BY <1>4, <1>5, <1>6, ApprovalStepKeepsInvariant

LEMMA ApprovalInvNext == TypeOK /\ ClaimInv /\ ApprovalInv /\ [Next]_vars => ApprovalInv'
<1> SUFFICES ASSUME TypeOK, ClaimInv, ApprovalInv, [Next]_vars PROVE ApprovalInv'
  OBVIOUS
<1>1. ASSUME NEW r \in Requests, LoseRace(r) PROVE ApprovalInv'
  BY <1>1, IdleUnburdened, ReadKeepsApprovals DEF LoseRace, stored, history
<1>2. ASSUME NEW r \in Requests, Close(r) \/ Settle(r) PROVE ApprovalInv'
  <2> DEFINE run == Branches(definition, req[r].run)
             h == IF Close(r) THEN Idle ELSE Route(store', req[r].presented)
  <2>1. run \in WorkflowRuns /\ run.approvalId = req[r].run.approvalId
    BY HandlerType, DecidingEffect
  <2>2. \A s \in Steps : req[r].run.status[s] \in ClaimedStatuses
                           => run.status[s] \in ClaimedStatuses
    BY HandlerType, DecidingEffect DEF ClaimedStatuses
  <2>3. /\ Save(r, run) /\ Goto(r, h) /\ req[r].pc # "idle" /\ definition' = definition
        /\ approvals' = approvals /\ invoked' = invoked
    BY <1>2 DEF Close, Settle, history
  <2>4. store' \in WorkflowRuns
    BY <2>1, <2>3, SaveType
  <2>5. h.pc \in Unburdened /\ h.presented \in {NoApproval, req[r].presented}
    BY <2>4, IdleUnburdened, RouteUnburdened, HandlerType
  <2> HIDE DEF run, h
  <2> QED
    BY <2>1, <2>2, <2>3, <2>5, SaveKeepsApprovals
<1>3. ASSUME NEW r \in Requests, FailStep(r) \/ Rollback(r) PROVE ApprovalInv'
  <2> DEFINE s == req[r].step
             st == IF FailStep(r) THEN "FAILED" ELSE "WAITING_APPROVAL"
             run == WithStatus(req[r].run, s, st)
  <2>1. run \in WorkflowRuns
    BY HandlerType, WithStatusType DEF StepStatuses
  <2>2. /\ run.approvalId = req[r].run.approvalId
        /\ \A t \in Steps : run.status[t] = IF t = s THEN st ELSE req[r].run.status[t]
    BY <2>1, HandlerType DEF WithStatus, WorkflowRuns
  <2>3. /\ Save(r, run) /\ Goto(r, Idle) /\ req[r].pc # "idle" /\ definition' = definition
        /\ approvals' = approvals /\ invoked' = invoked
        /\ ~FailStep(r) => req[r].pc = "rollback"
    BY <1>3 DEF FailStep, Rollback, history
  <2>4. \A t \in Steps : req[r].run.status[t] \in ClaimedStatuses =>
          run.status[t] \in ClaimedStatuses \/ (req[r].pc = "rollback" /\ t = s)
    BY <2>2, <2>3 DEF ClaimedStatuses
  <2> HIDE DEF run, s
  <2> QED
    BY <2>1, <2>2, <2>3, <2>4, IdleUnburdened, SaveKeepsApprovals DEF s
<1>4. ASSUME NEW r \in Requests, ReadPermissions(r) PROVE ApprovalInv'
  <2>1. /\ req[r].pc = "permissions" /\ store' = store /\ invoked' = invoked
        /\ definition' = definition /\ approvals' = approvals
        /\ ApprovalIsHeld(req[r])
    BY <1>4 DEF ReadPermissions, stored, history, ApprovalInv
  <2>2. CASE req'[r] = Idle
    BY <1>4, <2>1, <2>2, IdleUnburdened, UnburdenedHolds, StatusesOnly,
       ApprovalStepKeepsInvariant DEF ReadPermissions, Goto, TypeOK
  <2>3. CASE req'[r] # Idle
    <3>1. PICK pc \in {"fail", "request", "claim"} :
            /\ Goto(r, [req[r] EXCEPT !.pc = pc])
            /\ pc = "request" => ~Pending(r)
            /\ pc = "claim" /\ Pending(r) => req[r].run.approvalId[req[r].step] = req[r].presented
            /\ pc = "claim" /\ ~Pending(r) => ~NeedsApproval(req[r].step)
      BY <1>4, <2>3 DEF ReadPermissions, Permitted, Goto, TypeOK
    <3>2. /\ req'[r].pc = pc /\ req'[r].step = req[r].step /\ req'[r].run = req[r].run
          /\ req'[r].presented = req[r].presented
      BY <3>1, HandlerType DEF Goto, TypeOK, HandlerStates
    <3>3. Pending(r) <=> req[r].presented # NoApproval
      BY <2>1 DEF Pending, ClaimInv, TargetsAreAsRead, TargetIsAsRead
    <3>4. NeedsApproval(req[r].step)' = NeedsApproval(req[r].step)
      BY <2>1, <3>2 DEF NeedsApproval
    <3>5. ApprovalIsHeld(req[r])'
      BY <2>1, <3>1, <3>2, <3>3, <3>4 DEF ApprovalIsHeld, A!Ids
    <3> QED
      BY <2>1, <3>1, <3>5, ReadKeepsApprovals
  <2> QED
    BY <2>2, <2>3
<1>5. ASSUME NEW r \in Requests, NEW result \in Results, RecordResult(r, result)
      PROVE  ApprovalInv'
  <2> DEFINE s == req[r].step
             completed == WithStatus(req[r].run, s, "COMPLETED")
             failed == WithStatus(req[r].run, s, "FAILED")
             run == CASE result = "timeout" -> req[r].run
                      [] result = "failed"  -> failed
                      [] OTHER -> [completed EXCEPT !.output[s] = result]
             h == [req[r] EXCEPT !.pc = "audit", !.run = store']
  <2>1. failed \in WorkflowRuns /\ completed \in WorkflowRuns
    BY HandlerType, WithStatusType DEF StepStatuses
  <2>2. /\ failed.approvalId = req[r].run.approvalId
        /\ completed.approvalId = req[r].run.approvalId
        /\ \A t \in Steps : failed.status[t] \in {"FAILED", req[r].run.status[t]}
        /\ \A t \in Steps : completed.status[t] \in {"COMPLETED", req[r].run.status[t]}
    BY HandlerType DEF WithStatus, WorkflowRuns
  <2> HIDE DEF failed, completed
  <2>3. /\ run \in WorkflowRuns /\ run.approvalId = req[r].run.approvalId
        /\ \A t \in Steps : \/ run.status[t] = req[r].run.status[t]
                            \/ run.status[t] \in ClaimedStatuses
    BY <2>1, <2>2, HandlerType DEF WorkflowRuns, Results, ClaimedStatuses
  <2>4. /\ Save(r, run) /\ Goto(r, h) /\ req[r].pc # "idle" /\ definition' = definition
        /\ approvals' = approvals /\ invoked' = invoked
    BY <1>5 DEF RecordResult, Recorded, Completed, history, failed, completed
  <2>5. h.pc \in Unburdened /\ h.presented = req[r].presented
    BY HandlerType DEF HandlerStates, Unburdened
  <2> HIDE DEF run, h
  <2> QED
    BY <2>3, <2>4, <2>5, SaveKeepsApprovals
<1>6. ASSUME NEW r \in Requests, RecordAudit(r) PROVE ApprovalInv'
  BY <1>6, ClosingUnburdened, ReadKeepsApprovals DEF RecordAudit, stored
<1>7. ASSUME NEW r \in Requests, AuthorizeRecovery(r) \/ Attest(r) PROVE ApprovalInv'
  <2> DEFINE s == req[r].step
             authorized == [req[r].run EXCEPT !.recoveries[s] = @ + 1]
             attested == WithStatus(req[r].run, s, req[r].outcome)
             run == IF AuthorizeRecovery(r) THEN authorized ELSE attested
  <2>1. authorized \in WorkflowRuns
    <3>1. req[r].run.recoveries[s] + 1 \in Nat
      BY HandlerType DEF WorkflowRuns
    <3> QED
      BY <3>1, HandlerType DEF WorkflowRuns
  <2>2. attested \in WorkflowRuns
    BY HandlerType, WithStatusType DEF StepStatuses, Outcomes
  <2>3. /\ run.approvalId = req[r].run.approvalId
        /\ \A t \in Steps : \/ run.status[t] = req[r].run.status[t]
                            \/ run.status[t] \in ClaimedStatuses
    BY HandlerType DEF WithStatus, WorkflowRuns, ClaimedStatuses, Outcomes
  <2>4. /\ Save(r, run) /\ Goto(r, Closing(store')) /\ req[r].pc # "idle"
        /\ definition' = definition /\ approvals' = approvals /\ invoked' = invoked
        /\ run \in WorkflowRuns
    BY <1>7, <2>1, <2>2 DEF AuthorizeRecovery, Attest, history
  <2> HIDE DEF run
  <2> QED
    BY <2>3, <2>4, ClosingUnburdened, SaveKeepsApprovals
<1>8. ASSUME NEW r \in Requests, Operate(r) PROVE ApprovalInv'
  <2>1. PICK h :
          /\ Goto(r, h) /\ h.pc \in Unburdened /\ h.presented \in {NoApproval} \cup A!Ids
          /\ stored' = stored /\ invoked' = invoked
    <3>1. ASSUME NEW a \in {NoApproval} \cup A!Ids, AdvanceLoad(r, a)
          PROVE  LET h == IF ~Gated(store) /\ Branches(definition, store) # store
                          THEN [Idle EXCEPT !.pc = "settle", !.run = store, !.presented = a]
                          ELSE Route(store, a)
                 IN  h.pc \in Unburdened /\ h.presented \in {NoApproval} \cup A!Ids
      <4>1. a \in Nat
        BY ApprovalRecordType DEF NoApproval
      <4> QED
        BY <4>1, RouteUnburdened DEF Idle, Unburdened, TypeOK
    <3>2. ASSUME NEW a \in {NoApproval} \cup A!Ids, AdvanceLoad(r, a)
          PROVE  /\ Goto(r, IF ~Gated(store) /\ Branches(definition, store) # store
                            THEN [Idle EXCEPT !.pc = "settle", !.run = store, !.presented = a]
                            ELSE Route(store, a))
                 /\ stored' = stored /\ invoked' = invoked
      BY <3>2 DEF AdvanceLoad, stored, history
    <3>3. ASSUME NEW s \in Steps, RecoveryLoad(r, s)
          PROVE  /\ Goto(r, [Idle EXCEPT !.pc = "authorize", !.run = store, !.step = s])
                 /\ stored' = stored /\ invoked' = invoked
      BY <3>3 DEF RecoveryLoad, stored, history
    <3>4. ASSUME NEW outcome \in Outcomes, ReconcileLoad(r, outcome)
          PROVE  /\ Goto(r, [Idle EXCEPT !.pc = "attest", !.run = store,
                                         !.outcome = outcome,
                                         !.step = FirstStep(InStatus(store, "RUNNING"))])
                 /\ stored' = stored /\ invoked' = invoked
      BY <3>4 DEF ReconcileLoad, stored, history
    <3> QED
      BY <1>8, <3>1, <3>2, <3>3, <3>4 DEF Operate, Idle, Unburdened
  <2> QED
    BY <2>1, ReadKeepsApprovals DEF stored
<1>9. ASSUME NEW r \in Requests, Crash(r) PROVE ApprovalInv'
  BY <1>9, IdleUnburdened, ReadKeepsApprovals DEF Crash, stored, history
<1>10. ASSUME NEW a \in A!Ids, Approve(a) \/ Refuse(a) PROVE ApprovalInv'
  <2>1. approvals[a] \in A!ApprovalRecords
    BY ApprovalRecordType
  <2>2. /\ A!Ids' = A!Ids
        /\ \A b \in A!Ids \ {a} : approvals'[b] = approvals[b]
        /\ approvals'[a].subject = approvals[a].subject
        /\ approvals'[a].consumed = approvals[a].consumed
        /\ approvals[a].approved =>
             approvals'[a].approved /\ approvals'[a].rejected = approvals[a].rejected
    BY <1>10, <2>1
       DEF Approve, Refuse, A!Approve, A!Reject, A!Expire, A!Undecided, A!Ids,
           A!ApprovalRecords
  <2>3. ApprovalsAdvance
    BY <2>2 DEF ApprovalsAdvance
  <2> QED
    BY <1>10, <2>2, <2>3, WorldKeepsApprovals DEF Approve, Refuse, history
<1>11. CASE \/ \E granted \in SUBSET Permissions : ChangePermissions(granted)
            \/ \E tools \in SUBSET Steps : Redeploy(tools)
            \/ Elapse
            \/ UNCHANGED vars
  <2>1. /\ stored' = stored /\ invoked' = invoked
        /\ \A q \in Requests : req'[q] = req[q] \/ req'[q] = Idle
    BY <1>11 DEF ChangePermissions, Redeploy, Elapse, vars, stored, history
  <2>2. ApprovalsAdvance
    BY <2>1 DEF ApprovalsAdvance, stored, A!Ids
  <2> QED
    BY <2>1, <2>2, WorldKeepsApprovals DEF stored, A!Ids
<1> QED
  BY <1>1, <1>2, <1>3, <1>4, <1>5, <1>6, <1>7, <1>8, <1>9, <1>10, <1>11,
     AwaitKeepsApprovals, ClaimKeepsApprovals, ConsumeKeepsApprovals,
     InvokeKeepsApprovals, RequestKeepsApprovals
     DEF Next, Proceed, Environment

LEMMA Holdings == Spec => []ApprovalInv
  BY ApprovalInvInit, ApprovalInvNext, TypeCorrect, Claims, PTL DEF Spec

\* No HIGH-risk tool runs without an approval of its own step, granted, not rejected,
\* and spent on that call, whatever races, crashes or stale handlers there are.
THEOREM HighRiskIsApproved == Spec => []HighRiskNeedsConsumedApproval
<1>1. ApprovalInv => HighRiskNeedsConsumedApproval
  BY DEF ApprovalInv
<1> QED
  BY <1>1, Holdings, PTL

\* Losing the version race never costs the operator an approval.
THEOREM ConsumedApprovalsClaim == Spec => []ConsumptionClaimsStep
<1>1. ApprovalInv => ConsumptionClaimsStep
  BY DEF ApprovalInv
<1> QED
  BY <1>1, Holdings, PTL
=============================================================================
