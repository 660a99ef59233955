---------------------- MODULE WorkflowRefinementProofs ----------------------
(***************************************************************************)
(* WorkflowEngine does what SupervisedRun does, for any definitions and    *)
(* any number of concurrent requests: every write of the store is a move   *)
(* of the run, made on what the store holds at that moment.  What follows  *)
(* from this order: dependencies, audit, the refinement itself, and, in    *)
(* the second half, what WorkflowTimeline records and tells of a run.      *)
(***************************************************************************)
EXTENDS WorkflowEngineProofs, WorkflowTimeline, SequenceTheorems

----------------------------------------------------------------------------
(* Only the progress of a run matters *)

LEMMA ProgressType ==
    ASSUME NEW run \in WorkflowRuns
    PROVE  Progress(run) \in ProgressRuns
  BY DEF Progress, ProgressRuns, WorkflowRuns, Statuses

\* What is computed from a run ignores its version and its approvals.
LEMMA ProgressDetermines ==
    ASSUME NEW d, NEW run
    PROVE  /\ Progress(run).status = run.status
           /\ Progress(run).output = run.output
           /\ Progress(run).recoveries = run.recoveries
           /\ \A st : InStatus(Progress(run), st) = InStatus(run, st)
           /\ \A s \in Steps : RecoveryAuthorized(Progress(run), s) <=> RecoveryAuthorized(run, s)
           /\ \A s \in Steps : HopelessFailure(d, Progress(run), s) <=> HopelessFailure(d, run, s)
           /\ \A s \in Steps : DependenciesReady(d, Progress(run), s) <=> DependenciesReady(d, run, s)
           /\ BranchesUndecidable(d, Progress(run)) <=> BranchesUndecidable(d, run)
<1>1. /\ Progress(run).status = run.status
      /\ Progress(run).output = run.output
      /\ Progress(run).recoveries = run.recoveries
  BY DEF Progress
<1>2. \A st : InStatus(Progress(run), st) = InStatus(run, st)
  BY <1>1 DEF InStatus
<1>3. \A s \in Steps : RecoveryAuthorized(Progress(run), s) <=> RecoveryAuthorized(run, s)
  BY <1>1 DEF RecoveryAuthorized
<1>4. \A s \in Steps : HopelessFailure(d, Progress(run), s) <=> HopelessFailure(d, run, s)
  BY <1>1 DEF HopelessFailure
<1>5. \A s \in Steps : DependenciesReady(d, Progress(run), s) <=> DependenciesReady(d, run, s)
  <2>1. /\ InStatus(Progress(run), "COMPLETED") = InStatus(run, "COMPLETED")
        /\ InStatus(Progress(run), "SKIPPED") = InStatus(run, "SKIPPED")
    BY <1>2
  <2>2. \A s : RecoveryAuthorized(Progress(run), s) <=> RecoveryAuthorized(run, s)
    BY <1>1 DEF RecoveryAuthorized
  <2> QED
    BY <1>1, <2>1, <2>2 DEF DependenciesReady
<1>6. BranchesUndecidable(d, Progress(run)) <=> BranchesUndecidable(d, run)
  BY <1>2, <1>3 DEF BranchesUndecidable, InStatus
<1> QED
  BY <1>1, <1>2, <1>3, <1>4, <1>5, <1>6

LEMMA ProgressChooses ==
    ASSUME NEW d, NEW run
    PROVE  /\ WorkflowStatus(d, Progress(run)) = WorkflowStatus(d, run)
           /\ NextSteps(d, Progress(run)) = NextSteps(d, run)
           /\ NextStep(d, Progress(run)) = NextStep(d, run)
<1>1. Progress(run).status = run.status /\ \A st : InStatus(Progress(run), st) = InStatus(run, st)
  BY ProgressDetermines
<1>2. ReadySteps(d, Progress(run)) = ReadySteps(d, run)
  BY <1>1, ProgressDetermines DEF ReadySteps, InStatus
<1>3. \A s \in InStatus(run, "FAILED") :
        /\ HopelessFailure(d, Progress(run), s) <=> HopelessFailure(d, run, s)
        /\ RecoveryAuthorized(Progress(run), s) <=> RecoveryAuthorized(run, s)
  BY ProgressDetermines DEF InStatus
<1>4. WorkflowStatus(d, Progress(run)) = WorkflowStatus(d, run)
  BY <1>1, <1>3 DEF WorkflowStatus
<1>5. NextStep(d, Progress(run)) = NextStep(d, run)
  BY <1>1, <1>2 DEF NextStep, FirstReadyStep
<1> QED
  BY <1>1, <1>2, <1>4, <1>5 DEF NextSteps

LEMMA ProgressDecides ==
    ASSUME NEW d, NEW run \in WorkflowRuns
    PROVE  /\ Branches(d, Progress(run)) = Progress(Branches(d, run))
           /\ Branches(d, run) = run <=> Branches(d, Progress(run)) = Progress(run)
<1>1. Progress(run) \in ProgressRuns
  BY ProgressType
<1>2. Progress(Progress(run)) = Progress(run)
  BY <1>1, ProgressOfProgress
<1>3. CASE BranchesUndecidable(d, run)
  BY <1>3, ProgressDetermines DEF Branches
<1>4. CASE ~BranchesUndecidable(d, run)
  <2> DEFINE x == Decided(d, Progress(run))
  <2>1. Branches(d, run) = [run EXCEPT !.status = x]
    BY <1>4 DEF Branches
  <2>2. Branches(d, Progress(run)) = [Progress(run) EXCEPT !.status = x]
    BY <1>2, <1>4, ProgressDetermines DEF Branches
  <2> HIDE DEF x
  <2>3. [Progress(run) EXCEPT !.status = x] = Progress([run EXCEPT !.status = x])
    BY DEF Progress, WorkflowRuns
  <2>4. [run EXCEPT !.status = x] = run <=> x = run.status
    BY DEF WorkflowRuns
  <2>5. [Progress(run) EXCEPT !.status = x] = Progress(run) <=> x = run.status
    BY DEF Progress
  <2> QED
    BY <2>1, <2>2, <2>3, <2>4, <2>5
<1> QED
  BY <1>3, <1>4

----------------------------------------------------------------------------
(* What a handler knows of the run it holds *)

\* The run has branches to decide, and is not one that nothing changes any more.
Decidable(run) ==
    /\ WorkflowStatus(definition, run) \notin FinalStatuses \cup {"NEEDS_RECONCILIATION"}
    /\ Branches(definition, run) # run

\* Step s is the one to act on.
Chosen(run, s) ==
    /\ WorkflowStatus(definition, run) \in AdvanceableStatuses
    /\ s \in NextSteps(definition, run) /\ s = NextStep(definition, run)
    /\ Branches(definition, run) = run

ActsInOrder(h) ==
    /\ h.pc \in {"fail", "permissions", "request", "wait", "claim"} => Chosen(h.run, h.step)
    /\ h.pc \in {"request", "wait", "consume", "rollback"} => NeedsApproval(h.step)
    /\ h.pc \in {"settle", "close"} => Decidable(h.run)
    /\ h.pc = "audit" => Branches(definition, h.run) = h.run \/ Decidable(h.run)
    /\ h.pc = "authorize" => Recoverable(h.run, h.step)

\* The run in the store is one that its moves can lead to, and every handler is about to
\* make one of them, as far as the run it holds shows.
OrderInv ==
    /\ Supervised(definition, Progress(store))
    /\ \A r \in Requests : ActsInOrder(req[r])

LEMMA IdleInOrder == ActsInOrder(Idle)
  BY DEF ActsInOrder, Idle

LEMMA RouteInOrder ==
    ASSUME NEW run \in WorkflowRuns, NEW presented \in Nat,
           WorkflowStatus(definition, run) \in AdvanceableStatuses =>
             Branches(definition, run) = run
    PROVE  ActsInOrder(Route(run, presented))
<1> DEFINE h == Route(run, presented)
           s == NextStep(definition, run)
<1>1. CASE h = Idle
  BY <1>1, IdleInOrder
<1>2. CASE h # Idle
  <2>1. /\ WorkflowStatus(definition, run) \in AdvanceableStatuses
        /\ NextSteps(definition, run) # {}
        /\ h = [Idle EXCEPT !.pc = IF InputAvailable(run, s) THEN "permissions" ELSE "fail",
                            !.run = run, !.step = s, !.presented = presented]
    BY <1>2 DEF Route
  <2>2. Chosen(run, s)
    BY <2>1, NextStepMember DEF Chosen
  <2> HIDE DEF s
  <2>3. h.pc \in {"permissions", "fail"} /\ h.run = run /\ h.step = s
    BY <2>1 DEF Idle
  <2> HIDE DEF h
  <2> QED
    BY <2>2, <2>3 DEF ActsInOrder, h
<1> QED
  BY <1>1, <1>2

LEMMA ClosingInOrder ==
    ASSUME NEW run \in WorkflowRuns, Branches(definition, run) = run \/ Decidable(run)
    PROVE  ActsInOrder(Closing(run))
<1>1. CASE Branches(definition, run) = run
  BY <1>1, IdleInOrder DEF Closing
<1>2. CASE Branches(definition, run) # run
  <2>1. Closing(run).pc = "close" /\ Closing(run).run = run
    BY <1>2 DEF Closing, Idle
  <2> QED
    BY <1>2, <2>1 DEF ActsInOrder
<1> QED
  BY <1>1, <1>2

\* A run with something to decide, and no failure beyond recovery, is not over.
LEMMA HopefulIsOpen ==
    ASSUME NEW run \in WorkflowRuns, \A s \in Steps : ~HopelessFailure(definition, run, s)
    PROVE  Branches(definition, run) = run \/ Decidable(run)
<1> SUFFICES ASSUME Branches(definition, run) # run PROVE Decidable(run)
  OBVIOUS
<1>1. Progress(run) \in ProgressRuns /\ run.status \in Statuses
  BY ProgressType DEF WorkflowRuns, Statuses
<1>2. PICK x \in Statuses : /\ Branches(definition, run) = [run EXCEPT !.status = x]
                            /\ Advances(run.status, x)
                            /\ ~BranchesUndecidable(definition, run)
  BY <1>1, BranchesEffect
<1>3. x # run.status
  BY <1>2 DEF WorkflowRuns
<1>4. PICK s \in Steps : x[s] # run.status[s]
  BY <1>1, <1>3 DEF Statuses
<1>5. run.status[s] = "PENDING"
  BY <1>2, <1>4 DEF Advances
<1>6. InStatus(run, "RUNNING") = {} /\ \E t \in Steps : run.status[t] \notin TerminalStatuses
  BY <1>2, <1>5 DEF BranchesUndecidable, TerminalStatuses
<1>7. ~ \E t \in InStatus(run, "FAILED") : HopelessFailure(definition, run, t)
  BY DEF InStatus
<1>8. WorkflowStatus(definition, run) \in
        {"RECOVERY_REQUIRED", "AWAITING_APPROVAL", "ACTIVE", "RECOVERING"}
  BY <1>6, <1>7 DEF WorkflowStatus
<1> QED
  BY <1>8 DEF Decidable, FinalStatuses

\* Once the running step has ended, no failure is beyond recovery, unless its own is to
\* be looked at first.
LEMMA EndIsHopeful ==
    ASSUME NEW d, NEW p \in ProgressRuns, Supervised(d, p), NEW q, NEW s \in Steps,
           NEW st \in StepStatuses, NEW outputs, Ends(d, p, q, s, st, outputs)
    PROVE  Branches(d, q) = q \/ \A t \in Steps : ~HopelessFailure(d, q, t)
<1>1. p.status[s] = "RUNNING" /\ s \in InStatus(p, "RUNNING")
  BY DEF Ends, InStatus
<1>2. /\ q.recoveries = p.recoveries
      /\ \A t \in Steps : q.status[t] = IF t = s THEN st ELSE p.status[t]
  <2>1. outputs \in [Steps -> Outputs] /\ SetsStatus(p, q, s, st, outputs)
    BY DEF Ends, SetsStatus
  <2> QED
    BY <2>1, OneStatusMoves
<1>3. CASE st = "FAILED"
  <2>1. ~RecoveryAuthorized(p, s)
    BY <1>1 DEF Supervised
  <2>2. s \in InStatus(q, "FAILED") /\ ~RecoveryAuthorized(q, s)
    BY <1>2, <1>3, <2>1 DEF InStatus, RecoveryAuthorized
  <2> QED
    BY <2>2 DEF Branches, BranchesUndecidable
<1>4. CASE st # "FAILED"
  <2>1. \A t \in Steps : ~HopelessFailure(d, p, t)
    BY <1>1 DEF Supervised
  <2>2. st \notin {"FAILED", "SKIPPED"}
    BY <1>4 DEF Ends
  <2> QED
    BY <1>2, <2>1, <2>2 DEF HopelessFailure, FailedStepHandlers
<1> QED
  BY <1>3, <1>4

----------------------------------------------------------------------------
(* Every write of the store moves the run *)

\* A write that succeeds was computed from the stored run.
LEMMA SavedProgress ==
    ASSUME TypeOK, ClaimInv, NEW r \in Requests, req[r].pc # "idle",
           NEW run \in WorkflowRuns, Save(r, run)
    PROVE  /\ req[r].run = store
           /\ store' \in WorkflowRuns
           /\ Progress(store') = Progress(run)
<1>1. req[r].run = store
  BY DEF Save, ClaimInv, CopiesAreFaithful
<1>2. store' \in WorkflowRuns
  BY SaveType
<1>3. Progress(store') = Progress(run)
  BY DEF Save, Progress, WorkflowRuns
<1> QED
  BY <1>1, <1>2, <1>3

LEMMA ProgressOfStatus ==
    ASSUME NEW run \in WorkflowRuns, NEW s \in Steps, NEW st \in StepStatuses
    PROVE  /\ Progress(WithStatus(run, s, st)) = [Progress(run) EXCEPT !.status[s] = st]
           /\ WithStatus(run, s, st).recoveries = run.recoveries
  BY DEF Progress, WithStatus, WorkflowRuns

CompletedWith(p, s, output) ==
    [p EXCEPT !.status[s] = "COMPLETED", !.output[s] = output]

LEMMA SameProgress ==
    ASSUME NEW p \in ProgressRuns, NEW q \in ProgressRuns,
           p.status = q.status, p.output = q.output, p.recoveries = q.recoveries
    PROVE  p = q
  BY DEF ProgressRuns

LEMMA ProgressOfOutput ==
    ASSUME NEW run \in WorkflowRuns, NEW s \in Steps, NEW output \in Outputs
    PROVE  Progress(Completed(run, s, output)) = CompletedWith(Progress(run), s, output)
<1> DEFINE after == Completed(run, s, output)
           x == [run.status EXCEPT ![s] = "COMPLETED"]
           y == [run.output EXCEPT ![s] = output]
           p == Progress(run)
<1>1. /\ after.status = x /\ after.output = y /\ after.recoveries = run.recoveries
      /\ after \in WorkflowRuns
  BY WithStatusType DEF Completed, WithStatus, WorkflowRuns, StepStatuses
<1>2. /\ p \in ProgressRuns /\ p.status = run.status /\ p.output = run.output
      /\ p.recoveries = run.recoveries
  BY ProgressType DEF Progress
<1> HIDE DEF after, p
<1>3. x \in Statuses /\ y \in [Steps -> Outputs]
  BY DEF WorkflowRuns, Statuses, StepStatuses
<1>4. CompletedWith(p, s, output) = [p EXCEPT !.status = x, !.output = y]
  BY <1>2 DEF CompletedWith, ProgressRuns
<1> HIDE DEF x, y
<1>5. /\ CompletedWith(p, s, output) \in ProgressRuns
      /\ CompletedWith(p, s, output).status = x
      /\ CompletedWith(p, s, output).output = y
      /\ CompletedWith(p, s, output).recoveries = run.recoveries
  BY <1>2, <1>3, <1>4 DEF ProgressRuns
<1>6. /\ Progress(after) \in ProgressRuns /\ Progress(after).status = x
      /\ Progress(after).output = y /\ Progress(after).recoveries = run.recoveries
  BY <1>1, ProgressType DEF Progress
<1> QED
  BY <1>5, <1>6, SameProgress DEF after, p

LEMMA DecidingMoves ==
    ASSUME TypeOK, ClaimInv, NEW r \in Requests, Close(r) \/ Settle(r)
    PROVE  /\ req[r].run = store /\ store' \in WorkflowRuns
           /\ Progress(store') = Branches(definition, Progress(store))
           /\ Moves(definition, Progress(store), Progress(store'))
<1> DEFINE run == Branches(definition, req[r].run)
<1>1. run \in WorkflowRuns
  BY HandlerType, DecidingEffect
<1>2. Save(r, run) /\ req[r].pc # "idle"
  BY DEF Close, Settle
<1>3. req[r].run = store /\ store' \in WorkflowRuns /\ Progress(store') = Progress(run)
  BY <1>1, <1>2, SavedProgress
<1>4. Progress(store') = Branches(definition, Progress(store))
  BY <1>3, ProgressDecides DEF TypeOK
<1> QED
  BY <1>3, <1>4 DEF Moves

\* The writes of a handler about the step it has chosen.
AttemptOf(r, st) ==
    \/ FailStep(r) /\ st = "FAILED"
    \/ AwaitApproval(r) /\ st = "WAITING_APPROVAL"
    \/ Claim(r) /\ st = "RUNNING"

LEMMA AttemptMoves ==
    ASSUME TypeOK, ClaimInv, OrderInv, NEW r \in Requests, NEW st, AttemptOf(r, st)
    PROVE  /\ req[r].run = store /\ store' \in WorkflowRuns
           /\ Chosen(store, req[r].step)
           /\ Progress(store') = [Progress(store) EXCEPT !.status[req[r].step] = st]
           /\ Moves(definition, Progress(store), Progress(store'))
<1> DEFINE s == req[r].step
           run == IF AwaitApproval(r)
                  THEN [WithStatus(req[r].run, s, st) EXCEPT !.approvalId[s] = req[r].requested]
                  ELSE WithStatus(req[r].run, s, st)
<1>1. s \in Steps /\ req[r].run \in WorkflowRuns /\ st \in StepStatuses
  BY HandlerType DEF AttemptOf, StepStatuses
<1>2. WithStatus(req[r].run, s, st) \in WorkflowRuns
  BY <1>1, WithStatusType
<1>3. run \in WorkflowRuns /\ Progress(run) = Progress(WithStatus(req[r].run, s, st))
  BY <1>2, HandlerType DEF Progress, WorkflowRuns
<1>4. Save(r, run) /\ req[r].pc \in {"fail", "wait", "claim"}
  BY DEF AttemptOf, FailStep, AwaitApproval, Claim
<1> HIDE DEF run
<1>5. /\ req[r].run = store /\ store' \in WorkflowRuns
      /\ Progress(store') = [Progress(store) EXCEPT !.status[s] = st]
  BY <1>1, <1>3, <1>4, SavedProgress, ProgressOfStatus
<1>6. ActsInOrder(req[r]) /\ Chosen(store, s)
  BY <1>4, <1>5 DEF OrderInv, ActsInOrder
<1>7. st = "WAITING_APPROVAL" => definition.risk[s] = "HIGH"
  BY <1>4, <1>6 DEF AttemptOf, AwaitApproval, FailStep, Claim, ActsInOrder, NeedsApproval
<1>8. store.status[s] \in {"PENDING", "WAITING_APPROVAL"}
  BY <1>4, <1>5 DEF ClaimInv, TargetsAreAsRead, TargetIsAsRead
<1>9. Attempts(definition, Progress(store), Progress(store'), s, st)
  <2>1. st \in {"FAILED", "WAITING_APPROVAL", "RUNNING"}
    BY DEF AttemptOf
  <2>2. /\ Progress(store).status = store.status
        /\ WorkflowStatus(definition, Progress(store)) \in AdvanceableStatuses
        /\ s \in NextSteps(definition, Progress(store))
    BY <1>6, ProgressDetermines, ProgressChooses DEF Chosen
  <2> QED
    BY <1>5, <1>7, <1>8, <2>1, <2>2 DEF Attempts
<1> QED
  BY <1>1, <1>5, <1>6, <1>9 DEF Moves

\* The writes about the step that is running.
EndOf(r, st) ==
    \/ Rollback(r) /\ st = "WAITING_APPROVAL"
    \/ RecordResult(r, "failed") /\ st = "FAILED"
    \/ Attest(r) /\ st = req[r].outcome

LEMMA EndMoves ==
    ASSUME TypeOK, ClaimInv, OrderInv, NEW r \in Requests, NEW st, EndOf(r, st)
    PROVE  /\ req[r].run = store /\ store' \in WorkflowRuns
           /\ store.status[req[r].step] = "RUNNING"
           /\ Progress(store') = [Progress(store) EXCEPT !.status[req[r].step] = st]
           /\ Ends(definition, Progress(store), Progress(store'), req[r].step, st, store.output)
           /\ Moves(definition, Progress(store), Progress(store'))
<1> DEFINE s == req[r].step
           run == WithStatus(req[r].run, s, st)
<1>1. s \in Steps /\ req[r].run \in WorkflowRuns /\ st \in StepStatuses
  BY HandlerType DEF EndOf, StepStatuses, Outcomes
<1>2. run \in WorkflowRuns
  BY <1>1, WithStatusType
<1>3. Save(r, run) /\ req[r].pc \in {"rollback", "record", "attest"}
  BY DEF EndOf, Rollback, RecordResult, Recorded, Attest
<1>4. /\ req[r].run = store /\ store' \in WorkflowRuns
      /\ Progress(store') = [Progress(store) EXCEPT !.status[s] = st]
  BY <1>1, <1>2, <1>3, SavedProgress, ProgressOfStatus
<1>5. store.status[s] = "RUNNING"
  BY <1>3, <1>4 DEF ClaimInv, TargetsAreAsRead, TargetIsAsRead
<1>6. st \in {"COMPLETED", "FAILED", "WAITING_APPROVAL"}
  BY HandlerType DEF EndOf, Outcomes
<1>7. st = "WAITING_APPROVAL" => definition.risk[s] = "HIGH"
  <2>1. st = "WAITING_APPROVAL" => req[r].pc = "rollback"
    BY HandlerType DEF EndOf, Rollback, Outcomes
  <2> QED
    BY <2>1 DEF OrderInv, ActsInOrder, NeedsApproval
<1>8. Progress(store') = [Progress(store) EXCEPT !.status[s] = st, !.output = store.output]
  BY <1>4 DEF Progress
<1>9. /\ Progress(store).status = store.status /\ store.output \in [Steps -> Outputs]
  BY DEF Progress, TypeOK, WorkflowRuns
<1>10. Ends(definition, Progress(store), Progress(store'), s, st, store.output)
  BY <1>5, <1>6, <1>7, <1>8, <1>9 DEF Ends
<1> QED
  BY <1>1, <1>4, <1>5, <1>10 DEF Moves

LEMMA FinishMoves ==
    ASSUME TypeOK, ClaimInv, NEW r \in Requests, NEW output \in Outputs, RecordResult(r, output)
    PROVE  /\ req[r].run = store /\ store' \in WorkflowRuns
           /\ store.status[req[r].step] = "RUNNING"
           /\ Progress(store') = CompletedWith(Progress(store), req[r].step, output)
           /\ \E outputs : Ends(definition, Progress(store), Progress(store'), req[r].step,
                                "COMPLETED", outputs)
           /\ Moves(definition, Progress(store), Progress(store'))
<1> DEFINE s == req[r].step
           run == Completed(req[r].run, s, output)
           outputs == [store.output EXCEPT ![s] = output]
<1>1. s \in Steps /\ req[r].run \in WorkflowRuns /\ "COMPLETED" \in StepStatuses
  BY HandlerType DEF StepStatuses
<1>2. run \in WorkflowRuns
  BY <1>1, WithStatusType DEF Completed, WorkflowRuns
<1>3. Save(r, run) /\ req[r].pc = "record"
  BY DEF RecordResult, Recorded, Outputs, NoOutput, Answers
<1>4. /\ req[r].run = store /\ store' \in WorkflowRuns
      /\ Progress(store') = CompletedWith(Progress(store), s, output)
  <2>1. Progress(run) = CompletedWith(Progress(req[r].run), s, output)
    BY <1>1, ProgressOfOutput
  <2> HIDE DEF run
  <2>2. req[r].run = store /\ store' \in WorkflowRuns /\ Progress(store') = Progress(run)
    BY <1>2, <1>3, SavedProgress
  <2> QED
    BY <2>1, <2>2
<1>5. store.status[s] = "RUNNING"
  BY <1>3, <1>4 DEF ClaimInv, TargetsAreAsRead, TargetIsAsRead
<1>6. /\ Progress(store).status = store.status /\ Progress(store).output = store.output
      /\ outputs \in [Steps -> Outputs]
  BY <1>1 DEF Progress, TypeOK, WorkflowRuns
<1>7. Progress(store') = [Progress(store) EXCEPT !.status[s] = "COMPLETED", !.output = outputs]
  BY <1>4 DEF Progress, CompletedWith
<1>8. Ends(definition, Progress(store), Progress(store'), s, "COMPLETED", outputs)
  BY <1>5, <1>6, <1>7 DEF Ends
<1> QED
  BY <1>1, <1>4, <1>5, <1>8 DEF Moves

LEMMA RecoveryMoves ==
    ASSUME TypeOK, ClaimInv, OrderInv, NEW r \in Requests, AuthorizeRecovery(r)
    PROVE  /\ req[r].run = store /\ store' \in WorkflowRuns
           /\ Recoverable(store, req[r].step)
           /\ store'.status = store.status
           /\ Progress(store') = [Progress(store) EXCEPT !.recoveries[req[r].step] = 1]
           /\ Moves(definition, Progress(store), Progress(store'))
<1> DEFINE s == req[r].step
           run == [req[r].run EXCEPT !.recoveries[s] = @ + 1]
<1>1. s \in Steps /\ req[r].run \in WorkflowRuns /\ req[r].run.recoveries[s] \in Nat
  BY HandlerType DEF WorkflowRuns
<1>2. run \in WorkflowRuns
  <2>1. req[r].run.recoveries[s] + 1 \in Nat
    BY <1>1
  <2> QED
    BY <1>1, <2>1 DEF WorkflowRuns
<1>3. Save(r, run) /\ req[r].pc = "authorize"
  BY DEF AuthorizeRecovery
<1>4. req[r].run = store /\ store' \in WorkflowRuns /\ Progress(store') = Progress(run)
  BY <1>2, <1>3, SavedProgress
<1>5. Recoverable(store, s)
  BY <1>3, <1>4 DEF OrderInv, ActsInOrder
<1>6. store.recoveries[s] = 0 /\ store.status[s] = "FAILED"
  BY <1>1, <1>4, <1>5 DEF Recoverable, RecoveryAuthorized
<1>7. Progress(run) = [Progress(store) EXCEPT !.recoveries[s] = 1] /\ run.status = store.status
  BY <1>1, <1>4, <1>6 DEF Progress, WorkflowRuns
<1>8. Recovers(Progress(store), Progress(store'), s)
  BY <1>4, <1>6, <1>7 DEF Recovers, Progress
<1>9. store'.status = store.status
  BY <1>4, <1>7 DEF Progress
<1> QED
  BY <1>1, <1>4, <1>5, <1>7, <1>8, <1>9 DEF Moves

----------------------------------------------------------------------------
(* The order of things is kept by every step *)

\* ActsInOrder looks at the definition, which nothing changes.
LEMMA StaysInOrder ==
    ASSUME definition' = definition, NEW q, ActsInOrder(req'[q])
    PROVE  ActsInOrder(req[q])'
<1>1. \A s : NeedsApproval(s)' <=> NeedsApproval(s)
  BY DEF NeedsApproval
<1>2. Chosen(req'[q].run, req'[q].step) => Chosen(req[q].run, req[q].step)'
  BY DEF Chosen
<1>3. Decidable(req'[q].run) => Decidable(req[q].run)'
  BY DEF Decidable
<1>4. Recoverable(req'[q].run, req'[q].step) => Recoverable(req[q].run, req[q].step)'
  BY DEF Recoverable
<1>5. NeedsApproval(req'[q].step) => NeedsApproval(req[q].step)'
  BY DEF NeedsApproval
<1> QED
  BY <1>2, <1>3, <1>4, <1>5 DEF ActsInOrder

\* A handler goes on in order while the run moves or stays.
LEMMA OrderKept ==
    ASSUME TypeOK, OrderInv, definition \in Definitions, definition' = definition,
           NEW r \in Requests, NEW h, Goto(r, h), ActsInOrder(h),
           Moves(definition, Progress(store), Progress(store'))
    PROVE  OrderInv'
<1>1. \A q \in Requests : ActsInOrder(req'[q])
  BY DEF Goto, OrderInv, TypeOK
<1>2. \A q \in Requests : ActsInOrder(req[q])'
  BY <1>1, StaysInOrder
<1>3. Supervised(definition, Progress(store'))
  BY DefinitionsAssumption, ProgressType, MovesKeepSupervised DEF OrderInv, TypeOK
<1> QED
  BY <1>2, <1>3 DEF OrderInv

\* Nothing is written, and every handler goes on or stops.
LEMMA OrderUntouched ==
    ASSUME OrderInv, definition' = definition, store' = store,
           \A q \in Requests : req'[q] = req[q] \/ ActsInOrder(req'[q])
    PROVE  OrderInv'
<1>1. \A q \in Requests : ActsInOrder(req'[q])
  BY DEF OrderInv
<1>2. \A q \in Requests : ActsInOrder(req[q])'
  BY <1>1, StaysInOrder
<1> QED
  BY <1>2 DEF OrderInv

LEMMA OrderRead ==
    ASSUME TypeOK, OrderInv, definition' = definition, store' = store,
           NEW r \in Requests, NEW h, Goto(r, h), ActsInOrder(h)
    PROVE  OrderInv'
<1>1. \A q \in Requests : req'[q] = req[q] \/ ActsInOrder(req'[q])
  BY DEF Goto, TypeOK
<1> QED
  BY <1>1, OrderUntouched

LEMMA OrderInit == Init => OrderInv
<1> SUFFICES ASSUME Init PROVE OrderInv
  OBVIOUS
<1>1. /\ \A s \in Steps : Progress(store).status[s] = "PENDING"
      /\ \A s \in Steps : Progress(store).recoveries[s] = 0
  BY DEF Init, NewRun, Progress
<1>2. Supervised(definition, Progress(store))
  BY <1>1 DEF Supervised, InFlight, RecoveryAuthorized, InStatus
<1>3. \A r \in Requests : ActsInOrder(req[r])
  BY IdleInOrder DEF Init
<1> QED
  BY <1>2, <1>3 DEF OrderInv

\* After its own write a handler settles what that write has decided, if anything.
LEMMA ClosesInOrder ==
    ASSUME TypeOK, OrderInv, store' \in WorkflowRuns, NEW s \in Steps, NEW st \in StepStatuses,
           NEW outputs,
           Ends(definition, Progress(store), Progress(store'), s, st, outputs)
    PROVE  Branches(definition, store') = store' \/ Decidable(store')
<1>1. \/ Branches(definition, Progress(store')) = Progress(store')
      \/ \A t \in Steps : ~HopelessFailure(definition, Progress(store'), t)
  BY ProgressType, EndIsHopeful DEF TypeOK, OrderInv
<1> QED
  BY <1>1, ProgressDecides, ProgressDetermines, HopefulIsOpen

LEMMA OrderNext ==
    TypeOK /\ ClaimInv /\ OrderInv /\ definition \in Definitions /\ [Next]_vars
      => OrderInv' /\ definition' = definition
<1> SUFFICES ASSUME TypeOK, ClaimInv, OrderInv, definition \in Definitions, [Next]_vars
             PROVE  OrderInv' /\ definition' = definition
  OBVIOUS
<1>0. definition' = definition
  BY DEF Next, Proceed, Operate, Environment, LoseRace, Close, Settle, FailStep,
         ReadPermissions, RequestApproval, AwaitApproval, Claim, ConsumeApproval, Rollback,
         Invoke, RecordResult, RecordAudit, AuthorizeRecovery, Attest, AdvanceLoad,
         RecoveryLoad, ReconcileLoad, Crash, Redeploy, Approve, Refuse, ChangePermissions,
         Elapse, stored, vars
<1>1. ASSUME NEW r \in Requests, LoseRace(r) PROVE OrderInv'
  BY <1>0, <1>1, IdleInOrder, OrderRead DEF LoseRace, stored
<1>2. ASSUME NEW r \in Requests, Close(r) PROVE OrderInv'
  BY <1>0, <1>2, IdleInOrder, DecidingMoves, OrderKept DEF Close
<1>3. ASSUME NEW r \in Requests, Settle(r) PROVE OrderInv'
  <2>1. /\ store' \in WorkflowRuns
        /\ Progress(store') = Branches(definition, Progress(store))
        /\ Moves(definition, Progress(store), Progress(store'))
    BY <1>3, DecidingMoves
  <2>2. \A s \in Steps : RecoveryAuthorized(Progress(store), s) => Progress(store).status[s] = "FAILED"
    BY DEF OrderInv, Supervised
  <2>3. Branches(definition, Progress(store')) = Progress(store')
    BY <2>1, <2>2, ProgressType, BranchesIdempotent DEF TypeOK
  <2>4. Branches(definition, store') = store' /\ req[r].presented \in Nat
    BY <2>1, <2>3, ProgressDecides, HandlerType
  <2>5. ActsInOrder(Route(store', req[r].presented))
    BY <2>1, <2>4, RouteInOrder
  <2> QED
    BY <1>0, <1>3, <2>1, <2>5, OrderKept DEF Settle
<1>4. ASSUME NEW r \in Requests, FailStep(r) \/ AwaitApproval(r) PROVE OrderInv'
  <2>1. Goto(r, Idle) /\ Moves(definition, Progress(store), Progress(store'))
    BY <1>4, AttemptMoves DEF AttemptOf, FailStep, AwaitApproval
  <2> QED
    BY <1>0, <2>1, IdleInOrder, OrderKept
<1>5. ASSUME NEW r \in Requests, ReadPermissions(r) PROVE OrderInv'
  <2>1. CASE Permitted(r) = "idle"
    BY <1>0, <1>5, <2>1, IdleInOrder, OrderRead DEF ReadPermissions, stored
  <2>2. CASE Permitted(r) # "idle"
    <3> DEFINE h == [req[r] EXCEPT !.pc = Permitted(r)]
    <3>1. /\ Permitted(r) \in {"fail", "request", "claim"}
          /\ Permitted(r) = "request" => NeedsApproval(req[r].step)
      BY <2>2 DEF Permitted
    <3>2. h.pc = Permitted(r) /\ h.run = req[r].run /\ h.step = req[r].step
      BY HandlerType DEF HandlerStates
    <3>3. Chosen(req[r].run, req[r].step)
      BY <1>5 DEF ReadPermissions, OrderInv, ActsInOrder
    <3> HIDE DEF h
    <3>4. ActsInOrder(h)
      BY <3>1, <3>2, <3>3 DEF ActsInOrder
    <3> QED
      BY <1>0, <1>5, <2>2, <3>4, OrderRead DEF ReadPermissions, stored, h
  <2> QED
    BY <2>1, <2>2
<1>6. ASSUME NEW r \in Requests, RequestApproval(r) PROVE OrderInv'
  <2> DEFINE h == [req[r] EXCEPT !.pc = "wait", !.requested = Len(approvals) + 1]
  <2>1. h.pc = "wait" /\ h.run = req[r].run /\ h.step = req[r].step
    BY HandlerType DEF HandlerStates
  <2>2. Chosen(req[r].run, req[r].step) /\ NeedsApproval(req[r].step)
    BY <1>6 DEF RequestApproval, OrderInv, ActsInOrder
  <2>3. Goto(r, h) /\ store' = store
    BY <1>6 DEF RequestApproval
  <2> HIDE DEF h
  <2>4. ActsInOrder(h)
    BY <2>1, <2>2 DEF ActsInOrder
  <2> QED
    BY <1>0, <2>3, <2>4, OrderRead
<1>7. ASSUME NEW r \in Requests, Claim(r) PROVE OrderInv'
  <2> DEFINE h == [req[r] EXCEPT !.pc = AfterClaim(r), !.run = store']
  <2>1. /\ req[r].run = store /\ req[r].step \in Steps
        /\ Moves(definition, Progress(store), Progress(store'))
    BY <1>7, AttemptMoves, HandlerType DEF AttemptOf
  <2>2. h.pc = AfterClaim(r) /\ h.step = req[r].step
    BY HandlerType DEF HandlerStates
  <2>3. AfterClaim(r) \in {"consume", "invoke"}
    BY DEF AfterClaim
  <2>4. AfterClaim(r) = "consume" => NeedsApproval(req[r].step)
    BY <2>1, ProgressDetermines
       DEF AfterClaim, Pending, OrderInv, Supervised, InStatus, NeedsApproval
  <2>5. Goto(r, h)
    BY <1>7 DEF Claim
  <2> HIDE DEF h
  <2>6. ActsInOrder(h)
    BY <2>2, <2>3, <2>4 DEF ActsInOrder
  <2> QED
    BY <1>0, <2>1, <2>5, <2>6, OrderKept
<1>8. ASSUME NEW r \in Requests, ConsumeApproval(r) \/ Invoke(r) PROVE OrderInv'
  <2>1. PICK pc \in {"invoke", "rollback", "record"} :
          /\ Goto(r, [req[r] EXCEPT !.pc = pc])
          /\ pc = "rollback" => NeedsApproval(req[r].step)
    BY <1>8 DEF ConsumeApproval, Invoke, OrderInv, ActsInOrder
  <2> DEFINE h == [req[r] EXCEPT !.pc = pc]
  <2>2. h.pc = pc /\ h.step = req[r].step
    BY HandlerType DEF HandlerStates
  <2>3. Goto(r, h) /\ store' = store
    BY <1>8, <2>1 DEF ConsumeApproval, Invoke, stored
  <2> HIDE DEF h
  <2>4. ActsInOrder(h)
    BY <2>1, <2>2 DEF ActsInOrder
  <2> QED
    BY <1>0, <2>3, <2>4, OrderRead
<1>9. ASSUME NEW r \in Requests, Rollback(r) PROVE OrderInv'
  <2>1. Goto(r, Idle) /\ Moves(definition, Progress(store), Progress(store'))
    BY <1>9, EndMoves DEF EndOf, Rollback
  <2> QED
    BY <1>0, <2>1, IdleInOrder, OrderKept
<1>10. ASSUME NEW r \in Requests, NEW result \in Results, RecordResult(r, result)
       PROVE  OrderInv'
  <2> DEFINE h == [req[r] EXCEPT !.pc = "audit", !.run = store']
  <2>1. req[r] \in HandlerStates /\ req[r].step \in Steps /\ req[r].run \in WorkflowRuns
    BY HandlerType
  <2>2. h.pc = "audit" /\ h.run = store' /\ Goto(r, h)
    BY <1>10, <2>1 DEF HandlerStates, RecordResult
  <2>3. /\ Moves(definition, Progress(store), Progress(store'))
        /\ Branches(definition, store') = store' \/ Decidable(store')
    <3>1. CASE result = "timeout"
      <4>1. Save(r, req[r].run) /\ req[r].pc = "record"
        BY <1>10, <3>1 DEF RecordResult, Recorded
      <4>2. req[r].run = store /\ store' \in WorkflowRuns /\ Progress(store') = Progress(store)
        BY <2>1, <4>1, SavedProgress
      <4>3. store.status[req[r].step] = "RUNNING"
        BY <4>1, <4>2 DEF ClaimInv, TargetsAreAsRead, TargetIsAsRead
      <4>4. InStatus(store', "RUNNING") # {}
        BY <2>1, <4>2, <4>3, ProgressDetermines DEF InStatus
      <4>5. Branches(definition, store') = store'
        BY <4>4 DEF Branches, BranchesUndecidable
      <4> QED
        BY <4>2, <4>5 DEF Moves
    <3>2. CASE result = "failed"
      <4>1. EndOf(r, "FAILED") /\ "FAILED" \in StepStatuses
        BY <1>10, <3>2 DEF EndOf, StepStatuses
      <4>2. /\ store' \in WorkflowRuns
            /\ Ends(definition, Progress(store), Progress(store'), req[r].step, "FAILED", store.output)
            /\ Moves(definition, Progress(store), Progress(store'))
        BY <4>1, EndMoves
      <4> QED
        BY <2>1, <4>1, <4>2, ClosesInOrder
    <3>3. CASE result \in Outputs
      <4>1. /\ store' \in WorkflowRuns /\ "COMPLETED" \in StepStatuses
            /\ \E outputs : Ends(definition, Progress(store), Progress(store'), req[r].step,
                                 "COMPLETED", outputs)
            /\ Moves(definition, Progress(store), Progress(store'))
        BY <1>10, <3>3, FinishMoves DEF StepStatuses
      <4> QED
        BY <2>1, <4>1, ClosesInOrder
    <3> QED
      BY <3>1, <3>2, <3>3 DEF Results
  <2> HIDE DEF h
  <2>4. ActsInOrder(h)
    BY <2>2, <2>3 DEF ActsInOrder, Decidable
  <2> QED
    BY <1>0, <2>2, <2>3, <2>4, OrderKept
<1>11. ASSUME NEW r \in Requests, RecordAudit(r) PROVE OrderInv'
  <2>1. ActsInOrder(Closing(req[r].run))
    BY <1>11, HandlerType, ClosingInOrder DEF RecordAudit, OrderInv, ActsInOrder
  <2> QED
    BY <1>0, <1>11, <2>1, OrderRead DEF RecordAudit, stored
<1>12. ASSUME NEW r \in Requests, AuthorizeRecovery(r) PROVE OrderInv'
  <2>1. /\ Recoverable(store, req[r].step) /\ store'.status = store.status
        /\ store' \in WorkflowRuns
        /\ Moves(definition, Progress(store), Progress(store'))
    BY <1>12, RecoveryMoves
  <2>2. \A t \in Steps : ~HopelessFailure(definition, store', t)
    <3>1. \A t \in Steps : ~HopelessFailure(definition, store, t)
      BY <2>1 DEF Recoverable, WorkflowStatus, HopelessFailure, InStatus
    <3> QED
      BY <2>1, <3>1 DEF HopelessFailure
  <2>3. ActsInOrder(Closing(store'))
    BY <2>1, <2>2, HopefulIsOpen, ClosingInOrder
  <2> QED
    BY <1>0, <1>12, <2>1, <2>3, OrderKept DEF AuthorizeRecovery
<1>13. ASSUME NEW r \in Requests, Attest(r) PROVE OrderInv'
  <2>1. req[r].step \in Steps /\ req[r].outcome \in StepStatuses /\ EndOf(r, req[r].outcome)
    BY <1>13, HandlerType DEF Outcomes, StepStatuses, EndOf
  <2>2. /\ store' \in WorkflowRuns
        /\ Ends(definition, Progress(store), Progress(store'), req[r].step, req[r].outcome,
                store.output)
        /\ Moves(definition, Progress(store), Progress(store'))
    BY <2>1, EndMoves
  <2>3. ActsInOrder(Closing(store'))
    BY <2>1, <2>2, ClosesInOrder, ClosingInOrder
  <2> QED
    BY <1>0, <1>13, <2>2, <2>3, OrderKept DEF Attest
<1>14. ASSUME NEW r \in Requests, NEW a \in {NoApproval} \cup A!Ids, AdvanceLoad(r, a)
       PROVE  OrderInv'
  <2>1. a \in Nat /\ store \in WorkflowRuns
    BY LenProperties DEF A!Ids, TypeOK, A!ApprovalsType, NoApproval
  <2>2. CASE ~Gated(store) /\ Branches(definition, store) # store
    <3> DEFINE h == [Idle EXCEPT !.pc = "settle", !.run = store, !.presented = a]
    <3>1. h.pc = "settle" /\ h.run = store
      BY DEF Idle
    <3>2. PICK s \in Steps : store.status[s] = "PENDING"
      <4>1. PICK s \in Steps : Branches(definition, store).status[s] # store.status[s]
        <5>1. Branches(definition, store) \in WorkflowRuns
          BY <2>1, DecidingEffect
        <5>2. \/ Branches(definition, store).status # store.status
              \/ Branches(definition, store) = store
          BY <2>1, <5>1, DecidingEffect DEF WorkflowRuns
        <5> QED
          BY <2>1, <2>2, <5>1, <5>2 DEF WorkflowRuns
      <4> QED
        BY <2>1, <4>1, DecidingEffect
    <3>3. WorkflowStatus(definition, store) \notin {"COMPLETED", "COMPLETED_WITH_FAILURES"}
      BY <3>2 DEF WorkflowStatus, TerminalStatuses
    <3>4. Decidable(store)
      BY <2>2, <3>3 DEF Decidable, Gated, FinalStatuses
    <3>5. Goto(r, h) /\ store' = store
      BY <1>14, <2>2 DEF AdvanceLoad, stored
    <3> HIDE DEF h
    <3>6. ActsInOrder(h)
      BY <3>1, <3>4 DEF ActsInOrder
    <3> QED
      BY <1>0, <3>5, <3>6, OrderRead
  <2>3. CASE ~(~Gated(store) /\ Branches(definition, store) # store)
    <3>1. WorkflowStatus(definition, store) \in AdvanceableStatuses
            => Branches(definition, store) = store
      BY <2>3 DEF Gated, AdvanceableStatuses
    <3>2. ActsInOrder(Route(store, a))
      BY <2>1, <3>1, RouteInOrder
    <3>3. Goto(r, Route(store, a)) /\ store' = store
      BY <1>14, <2>3 DEF AdvanceLoad, stored
    <3> QED
      BY <1>0, <3>2, <3>3, OrderRead
  <2> QED
    BY <2>2, <2>3
<1>15. ASSUME NEW r \in Requests, NEW s \in Steps, RecoveryLoad(r, s) PROVE OrderInv'
  <2> DEFINE h == [Idle EXCEPT !.pc = "authorize", !.run = store, !.step = s]
  <2>1. h.pc = "authorize" /\ h.run = store /\ h.step = s
    BY DEF Idle
  <2>2. Goto(r, h) /\ store' = store /\ Recoverable(store, s)
    BY <1>15 DEF RecoveryLoad, stored
  <2> HIDE DEF h
  <2>3. ActsInOrder(h)
    BY <2>1, <2>2 DEF ActsInOrder
  <2> QED
    BY <1>0, <2>2, <2>3, OrderRead
<1>16. ASSUME NEW r \in Requests, NEW outcome \in Outcomes, ReconcileLoad(r, outcome)
       PROVE  OrderInv'
  <2>1. PICK h : Goto(r, h) /\ h.pc = "attest" /\ store' = store
    BY <1>16 DEF ReconcileLoad, stored, Idle
  <2>2. ActsInOrder(h)
    BY <2>1 DEF ActsInOrder
  <2> QED
    BY <1>0, <2>1, <2>2, OrderRead
<1>17. ASSUME NEW r \in Requests, Crash(r) PROVE OrderInv'
  BY <1>0, <1>17, IdleInOrder, OrderRead DEF Crash, stored
<1>18. CASE Environment
  <2>1. store' = store /\ \A q \in Requests : req'[q] = req[q] \/ req'[q] = Idle
    BY <1>18 DEF Environment, Approve, Refuse, ChangePermissions, Redeploy, Elapse, stored
  <2> QED
    BY <1>0, <2>1, IdleInOrder, OrderUntouched
<1>19. CASE UNCHANGED vars
  BY <1>0, <1>19, OrderUntouched DEF vars, stored
<1> QED
  BY <1>0, <1>1, <1>2, <1>3, <1>4, <1>5, <1>6, <1>7, <1>8, <1>9, <1>10, <1>11, <1>12, <1>13,
     <1>14, <1>15, <1>16, <1>17, <1>18, <1>19
     DEF Next, Proceed, Operate

----------------------------------------------------------------------------
(* The order always holds, and what follows from it *)

LEMMA OrderAlways == Spec => [](OrderInv /\ definition \in Definitions)
<1>1. Init => OrderInv /\ definition \in Definitions
  BY OrderInit DEF Init
<1>2. /\ TypeOK /\ ClaimInv
      /\ OrderInv /\ definition \in Definitions
      /\ [Next]_vars
      => (OrderInv /\ definition \in Definitions)'
  BY OrderNext
<1> QED
  BY <1>1, <1>2, TypeCorrect, Claims, PTL DEF Spec

\* Calls: a tool is called only by Invoke, and for a step that was claimed.
LEMMA CallIsInvoke ==
    ASSUME TypeOK, [Next]_vars, invoked' # invoked
    PROVE  \E r \in Requests : Invoke(r)
  BY DEF Next, Proceed, Operate, Environment, LoseRace, Close, Settle, FailStep,
         ReadPermissions, RequestApproval, AwaitApproval, Claim, ConsumeApproval, Rollback,
         RecordResult, RecordAudit, AuthorizeRecovery, Attest, AdvanceLoad,
         RecoveryLoad, ReconcileLoad, Crash, Redeploy, Approve, Refuse, ChangePermissions,
         Elapse, history, vars

\* Whatever requests interleave, crash or attest, and for every definition, a tool starts
\* only when the dependencies its step declares have come out as the step requires.
THEOREM DependenciesComeFirst == Spec => DependenciesFirst
<1> DEFINE First == \A s \in Steps : invoked'[s] # invoked[s] =>
                      DependenciesReady(definition, store, s)
<1>1. TypeOK /\ ClaimInv /\ OrderInv /\ [Next]_vars => [First]_vars
  <2> SUFFICES ASSUME TypeOK, ClaimInv, OrderInv, [Next]_vars,
                      NEW s \in Steps, invoked'[s] # invoked[s]
               PROVE  DependenciesReady(definition, store, s)
    OBVIOUS
  <2>1. PICK r \in Requests : Invoke(r)
    BY CallIsInvoke
  <2>2. s = req[r].step /\ req[r].pc = "invoke"
    BY <2>1, HandlerType DEF Invoke, TypeOK
  <2>3. store.status[s] \in ClaimedStatuses
    BY <2>2 DEF ClaimInv, ExecutingStepsAreClaimed, Executing
  <2>4. DependenciesReady(definition, Progress(store), s)
    BY <2>3, ProgressDetermines DEF OrderInv, Supervised, ClaimedStatuses
  <2> QED
    BY <2>4, ProgressDetermines
<1> QED
  BY <1>1, TypeCorrect, Claims, OrderAlways, PTL DEF Spec, DependenciesFirst

----------------------------------------------------------------------------
(* Prompt execution: nobody writes while a handler executes a step *)

PromptInv ==
    /\ \A r \in Requests : Executing(r) => Current(r) /\ ~overdue
    /\ \A r \in Requests : req[r].pc = "attest" /\ Current(r) => overdue

ExecutingPcs == {"consume", "rollback", "invoke", "record"}

\* A claimed run is written by the handler that executes its step, or by nobody.
LEMMA WriterIsExecutor ==
    ASSUME TypeOK, ClaimInv, OrderInv, PromptInv,
           NEW r \in Requests, req[r].pc \in Writes, Current(r),
           NEW q \in Requests, Executing(q)
    PROVE  q = r
<1> DEFINE s == req[q].step
<1>1. Current(q) /\ ~overdue /\ req[q].pc \in ExecutingPcs
  BY DEF PromptInv, Executing, ExecutingPcs
<1>2. req[q].run = store /\ req[r].run = store
  BY <1>1 DEF ClaimInv, CopiesAreFaithful, ExecutingPcs, Writes
<1>3. store.status[s] = "RUNNING" /\ s \in Steps
  BY <1>1, <1>2, HandlerType DEF ClaimInv, TargetsAreAsRead, TargetIsAsRead, ExecutingPcs
<1>4. InStatus(store, "RUNNING") # {}
  BY <1>3 DEF InStatus
<1>5. WorkflowStatus(definition, store) = "NEEDS_RECONCILIATION"
  BY <1>4 DEF WorkflowStatus
<1>6. ActsInOrder(req[r])
  BY DEF OrderInv
<1>7. req[r].pc \notin {"settle", "close"}
  BY <1>2, <1>5, <1>6 DEF ActsInOrder, Decidable
<1>8. req[r].pc \notin {"fail", "wait", "claim"}
  BY <1>2, <1>5, <1>6 DEF ActsInOrder, Chosen, AdvanceableStatuses
<1>9. req[r].pc # "authorize"
  BY <1>2, <1>5, <1>6 DEF ActsInOrder, Recoverable
<1>10. req[r].pc # "attest"
  BY <1>1 DEF PromptInv
<1>11. req[r].pc \in {"rollback", "record"}
  BY <1>7, <1>8, <1>9, <1>10 DEF Writes
<1>12. /\ store.status[req[r].step] = "RUNNING" /\ req[r].step \in Steps
       /\ Executing(r)
  BY <1>2, <1>11, HandlerType DEF ClaimInv, TargetsAreAsRead, TargetIsAsRead, Executing
<1>13. s \in InFlight(Progress(store)) /\ req[r].step \in InFlight(Progress(store))
  BY <1>3, <1>12, ProgressDetermines DEF InFlight
<1>14. req[r].step = s
  BY <1>13 DEF OrderInv, Supervised
<1> QED
  BY <1>12, <1>14 DEF ClaimInv, OneExecutor

LEMMA PromptRead ==
    ASSUME TypeOK, PromptInv, store' = store, overdue' = overdue,
           \A q \in Requests :
             \/ req'[q] = req[q]
             \/ req'[q].pc \notin ExecutingPcs \cup {"attest"}
             \/ Executing(q) /\ req'[q].run = req[q].run /\ req'[q].pc # "attest"
             \/ overdue /\ req'[q].pc = "attest"
    PROVE  PromptInv'
<1>1. \A q \in Requests : req'[q].pc \in ExecutingPcs => store.version = req'[q].run.version /\ ~overdue
  BY DEF PromptInv, Executing, ExecutingPcs, Current
<1>2. \A q \in Requests : req'[q].pc = "attest" /\ store.version = req'[q].run.version => overdue
  BY DEF PromptInv, ExecutingPcs, Current
<1> QED
  BY <1>1, <1>2 DEF PromptInv, Executing, ExecutingPcs, Current

LEMMA PromptSave ==
    ASSUME TypeOK, ClaimInv, OrderInv, PromptInv,
           NEW r \in Requests, NEW run \in WorkflowRuns, Save(r, run), req[r].pc \in Writes,
           NEW h, Goto(r, h), h.pc # "attest",
           \/ h.pc \notin ExecutingPcs
           \/ h.run = store' /\ overdue' = FALSE
    PROVE  PromptInv'
<1>1. store'.version = store.version + 1 /\ store.version \in Nat
  BY DEF Save, Current, TypeOK, WorkflowRuns
<1>2. req'[r] = h /\ \A q \in Requests \ {r} : req'[q] = req[q]
  BY DEF Goto, TypeOK
<1>3. \A q \in Requests \ {r} : ~Executing(q)
  BY WriterIsExecutor DEF Save
<1>4. \A q \in Requests : req[q].pc # "idle" => req[q].run.version \in Nat /\ req[q].run.version <= store.version
  BY HandlerType DEF ClaimInv, CopiesAreOld, WorkflowRuns
<1>5. ASSUME NEW q \in Requests, req'[q].pc \in ExecutingPcs
      PROVE  store'.version = req'[q].run.version /\ ~overdue'
  <2>1. q = r
    BY <1>2, <1>3, <1>5 DEF Executing, ExecutingPcs
  <2> QED
    BY <1>2, <1>5, <2>1
<1>6. ASSUME NEW q \in Requests, req'[q].pc = "attest", store'.version = req'[q].run.version
      PROVE  FALSE
  BY <1>1, <1>2, <1>4, <1>6
<1> QED
  BY <1>5, <1>6 DEF PromptInv, Executing, ExecutingPcs, Current

LEMMA PromptInit == Init => PromptInv
  BY IdleType DEF Init, PromptInv, Executing

LEMMA PromptNext ==
    PromptExecution /\ TypeOK /\ ClaimInv /\ OrderInv /\ PromptInv /\ [Next]_vars => PromptInv'
<1> SUFFICES ASSUME PromptExecution, TypeOK, ClaimInv, OrderInv, PromptInv, [Next]_vars
             PROVE  PromptInv'
  OBVIOUS
<1>1. ASSUME NEW r \in Requests, Close(r) \/ Settle(r) PROVE PromptInv'
  <2> DEFINE run == Branches(definition, req[r].run)
             h == IF Close(r) THEN Idle ELSE Route(store', req[r].presented)
  <2>1. run \in WorkflowRuns
    BY HandlerType, DecidingEffect
  <2>2. Save(r, run) /\ Goto(r, h) /\ req[r].pc \in Writes
    BY <1>1 DEF Close, Settle, Writes
  <2>3. store' \in WorkflowRuns
    BY <2>1, <2>2, SaveType
  <2>4. h.pc \notin ExecutingPcs \cup {"attest"}
    BY <2>3, IdleType, RouteEffect, HandlerType DEF ExecutingPcs
  <2> HIDE DEF run, h
  <2> QED
    BY <2>1, <2>2, <2>4, PromptSave
<1>2. ASSUME NEW r \in Requests, FailStep(r) \/ Rollback(r) PROVE PromptInv'
  <2>1. PICK st \in {"FAILED", "WAITING_APPROVAL"} : Save(r, WithStatus(req[r].run, req[r].step, st))
    BY <1>2 DEF FailStep, Rollback
  <2>2. WithStatus(req[r].run, req[r].step, st) \in WorkflowRuns
    BY HandlerType, WithStatusType DEF StepStatuses
  <2>3. Goto(r, Idle) /\ req[r].pc \in Writes
    BY <1>2 DEF FailStep, Rollback, Writes
  <2> QED
    BY <2>1, <2>2, <2>3, IdleType, PromptSave DEF ExecutingPcs
<1>3. ASSUME NEW r \in Requests, AwaitApproval(r) PROVE PromptInv'
  <2> DEFINE waiting == WithStatus(req[r].run, req[r].step, "WAITING_APPROVAL")
             run == [waiting EXCEPT !.approvalId[req[r].step] = req[r].requested]
  <2>1. waiting \in WorkflowRuns
    BY HandlerType, WithStatusType DEF StepStatuses
  <2>2. run \in WorkflowRuns
    BY <2>1, HandlerType DEF WorkflowRuns
  <2>3. Save(r, run) /\ Goto(r, Idle) /\ req[r].pc \in Writes
    BY <1>3 DEF AwaitApproval, Writes
  <2> HIDE DEF run
  <2> QED
    BY <2>2, <2>3, IdleType, PromptSave DEF ExecutingPcs
<1>4. ASSUME NEW r \in Requests, Claim(r) PROVE PromptInv'
  <2> DEFINE run == WithStatus(req[r].run, req[r].step, "RUNNING")
             h == [req[r] EXCEPT !.pc = AfterClaim(r), !.run = store']
  <2>1. run \in WorkflowRuns
    BY HandlerType, WithStatusType DEF StepStatuses
  <2>2. Save(r, run) /\ Goto(r, h) /\ req[r].pc \in Writes /\ overdue' = FALSE
    BY <1>4 DEF Claim, Writes
  <2>3. h.pc = AfterClaim(r) /\ h.run = store'
    BY HandlerType DEF HandlerStates
  <2>4. h.pc # "attest"
    BY <2>3 DEF AfterClaim
  <2> HIDE DEF run, h
  <2> QED
    BY <2>1, <2>2, <2>3, <2>4, PromptSave
<1>5. ASSUME NEW r \in Requests, NEW result \in Results, RecordResult(r, result) PROVE PromptInv'
  <2> DEFINE run == Recorded(req[r].run, req[r].step, result)
             h == [req[r] EXCEPT !.pc = "audit", !.run = store']
  <2>1. req[r].run \in WorkflowRuns /\ req[r].step \in Steps
    BY HandlerType
  <2>2. /\ WithStatus(req[r].run, req[r].step, "FAILED") \in WorkflowRuns
        /\ WithStatus(req[r].run, req[r].step, "COMPLETED") \in WorkflowRuns
    BY <2>1, WithStatusType DEF StepStatuses
  <2>3. result \notin {"timeout", "failed"} => Completed(req[r].run, req[r].step, result) \in WorkflowRuns
    BY <2>1, <2>2 DEF Results, WorkflowRuns, Completed
  <2>4. run \in WorkflowRuns
    BY <2>1, <2>2, <2>3 DEF Recorded
  <2>5. Save(r, run) /\ Goto(r, h) /\ req[r].pc \in Writes
    BY <1>5 DEF RecordResult, Writes
  <2>6. h.pc = "audit"
    BY HandlerType DEF HandlerStates
  <2> HIDE DEF run, h
  <2> QED
    BY <2>4, <2>5, <2>6, PromptSave DEF ExecutingPcs
<1>6. ASSUME NEW r \in Requests, AuthorizeRecovery(r) \/ Attest(r) PROVE PromptInv'
  <2> DEFINE authorized == [req[r].run EXCEPT !.recoveries[req[r].step] = @ + 1]
             attested == WithStatus(req[r].run, req[r].step, req[r].outcome)
             run == IF AuthorizeRecovery(r) THEN authorized ELSE attested
  <2>1. authorized \in WorkflowRuns
    <3>1. req[r].run.recoveries[req[r].step] + 1 \in Nat
      BY HandlerType DEF WorkflowRuns
    <3> QED
      BY <3>1, HandlerType DEF WorkflowRuns
  <2>2. attested \in WorkflowRuns
    BY HandlerType, WithStatusType DEF StepStatuses, Outcomes
  <2>3. Save(r, run) /\ Goto(r, Closing(store')) /\ req[r].pc \in Writes /\ run \in WorkflowRuns
    BY <1>6, <2>1, <2>2 DEF AuthorizeRecovery, Attest, Writes
  <2> HIDE DEF run
  <2>4. Closing(store').pc \in {"idle", "close"}
    BY <2>3, SaveType, ClosingEffect
  <2> QED
    BY <2>3, <2>4, PromptSave DEF ExecutingPcs
<1>7. ASSUME NEW r \in Requests, ConsumeApproval(r) \/ Invoke(r) PROVE PromptInv'
  <2>1. PICK pc \in {"invoke", "rollback", "record"} : Goto(r, [req[r] EXCEPT !.pc = pc])
    BY <1>7 DEF ConsumeApproval, Invoke
  <2>2. req'[r].pc = pc /\ req'[r].run = req[r].run /\ Executing(r)
    BY <1>7, <2>1, HandlerType DEF Goto, TypeOK, HandlerStates, ConsumeApproval, Invoke, Executing
  <2>3. \A q \in Requests \ {r} : req'[q] = req[q]
    BY <2>1 DEF Goto, TypeOK
  <2>4. store' = store /\ overdue' = overdue
    BY <1>7 DEF ConsumeApproval, Invoke, world, stored
  <2> QED
    BY <2>2, <2>3, <2>4, PromptRead
<1>8. ASSUME NEW r \in Requests, NEW h, Goto(r, h), store' = store, overdue' = overdue,
             h.pc \notin ExecutingPcs \cup {"attest"} \/ (overdue /\ h.pc = "attest")
      PROVE  PromptInv'
  <2>1. req'[r] = h /\ \A q \in Requests \ {r} : req'[q] = req[q]
    BY <1>8 DEF Goto, TypeOK
  <2> QED
    BY <1>8, <2>1, PromptRead
<1>9. ASSUME NEW r \in Requests, LoseRace(r) \/ Crash(r) PROVE PromptInv'
  BY <1>8, <1>9, IdleType DEF LoseRace, Crash, stored, world, ExecutingPcs
<1>10. ASSUME NEW r \in Requests, ReadPermissions(r) PROVE PromptInv'
  <2>1. PICK pc \in {"idle", "fail", "request", "claim"} :
          Goto(r, IF pc = "idle" THEN Idle ELSE [req[r] EXCEPT !.pc = pc])
    BY <1>10 DEF ReadPermissions, Permitted
  <2> DEFINE h == IF pc = "idle" THEN Idle ELSE [req[r] EXCEPT !.pc = pc]
  <2>2. h.pc = pc /\ Goto(r, h)
    BY <2>1, IdleType, HandlerType DEF HandlerStates
  <2>3. store' = store /\ overdue' = overdue
    BY <1>10 DEF ReadPermissions, stored, world
  <2> HIDE DEF h
  <2> QED
    BY <1>8, <2>2, <2>3 DEF ExecutingPcs
<1>11. ASSUME NEW r \in Requests, RequestApproval(r) PROVE PromptInv'
  <2> DEFINE h == [req[r] EXCEPT !.pc = "wait", !.requested = Len(approvals) + 1]
  <2>1. h.pc = "wait" /\ Goto(r, h)
    BY <1>11, HandlerType DEF HandlerStates, RequestApproval
  <2> HIDE DEF h
  <2> QED
    BY <1>8, <1>11, <2>1 DEF ExecutingPcs, RequestApproval, world
<1>12. ASSUME NEW r \in Requests, RecordAudit(r) PROVE PromptInv'
  <2>1. Closing(req[r].run).pc \in {"idle", "close"}
    BY HandlerType, ClosingEffect
  <2> QED
    BY <1>8, <1>12, <2>1 DEF ExecutingPcs, RecordAudit, stored, world
<1>13. ASSUME NEW r \in Requests, Operate(r) PROVE PromptInv'
  <2>1. store' = store /\ overdue' = overdue
    BY <1>13 DEF Operate, AdvanceLoad, RecoveryLoad, ReconcileLoad, stored, world
  <2>2. ASSUME NEW a \in {NoApproval} \cup A!Ids, AdvanceLoad(r, a) PROVE PromptInv'
    <3> DEFINE settle == [Idle EXCEPT !.pc = "settle", !.run = store, !.presented = a]
               h == IF ~Gated(store) /\ Branches(definition, store) # store
                    THEN settle ELSE Route(store, a)
    <3>1. a \in Nat /\ store \in WorkflowRuns
      BY LenProperties DEF A!Ids, TypeOK, A!ApprovalsType, NoApproval
    <3>2. Route(store, a).pc \in {"idle", "permissions", "fail"}
      BY <3>1, RouteEffect
    <3>3. settle.pc = "settle"
      BY DEF Idle
    <3>4. h.pc \notin ExecutingPcs \cup {"attest"}
      BY <3>2, <3>3 DEF ExecutingPcs
    <3>5. Goto(r, h)
      BY <2>2 DEF AdvanceLoad
    <3> HIDE DEF h
    <3> QED
      BY <1>8, <2>1, <3>4, <3>5
  <2>3. ASSUME NEW s \in Steps, RecoveryLoad(r, s) PROVE PromptInv'
    <3> DEFINE h == [Idle EXCEPT !.pc = "authorize", !.run = store, !.step = s]
    <3>1. h.pc = "authorize" /\ Goto(r, h)
      BY <2>3 DEF Idle, RecoveryLoad
    <3> HIDE DEF h
    <3> QED
      BY <1>8, <2>1, <3>1 DEF ExecutingPcs
  <2>4. ASSUME NEW outcome \in Outcomes, ReconcileLoad(r, outcome) PROVE PromptInv'
    <3> DEFINE h == [Idle EXCEPT !.pc = "attest", !.run = store, !.outcome = outcome,
                                 !.step = FirstStep(InStatus(store, "RUNNING"))]
    <3>1. h.pc = "attest"
      BY DEF Idle
    <3>2. Goto(r, h) /\ overdue
      BY <2>4 DEF ReconcileLoad, Reconcilable
    <3> HIDE DEF h
    <3> QED
      BY <1>8, <2>1, <3>1, <3>2
  <2> QED
    BY <1>13, <2>2, <2>3, <2>4 DEF Operate
<1>14. CASE Environment
  <2>1. CASE Elapse
    BY <2>1 DEF Elapse, PromptInv, Executing, Current
  <2>2. CASE ~Elapse
    <3>1. /\ store' = store /\ overdue' = overdue
          /\ \A q \in Requests : req'[q] = req[q] \/ req'[q] = Idle
      BY <1>14, <2>2 DEF Environment, Approve, Refuse, ChangePermissions, Redeploy, stored, world
    <3> QED
      BY <3>1, IdleType, PromptRead DEF ExecutingPcs
  <2> QED
    BY <2>1, <2>2
<1>15. CASE UNCHANGED vars
  BY <1>15, PromptRead DEF vars, stored, world
<1> QED
  BY <1>1, <1>2, <1>3, <1>4, <1>5, <1>6, <1>7, <1>9, <1>10, <1>11, <1>12, <1>13, <1>14, <1>15
     DEF Next, Proceed

LEMMA PromptAlways ==
    ASSUME PromptExecution
    PROVE  Spec => []PromptInv
  BY PromptInit, PromptNext, TypeCorrect, Claims, OrderAlways, PTL DEF Spec

----------------------------------------------------------------------------
(* Every call is audited, once *)

Bookkeeping(r) == req[r].pc \in {"record", "audit"}

\* A handler that has called the tool is alone to answer for that call, and has not
\* audited it yet.
AuditInv ==
    /\ \A r \in Requests : Bookkeeping(r) =>
         invoked[req[r].step] = 1 /\ audited[req[r].step] = 0
    /\ \A r, q \in Requests :
         Bookkeeping(r) /\ Bookkeeping(q) /\ req[r].step = req[q].step => r = q
    /\ \A s \in Steps : audited[s] <= invoked[s]
    /\ CallsAreAudited

LEMMA AuditInit == Init => AuditInv
  BY IdleType DEF Init, AuditInv, Bookkeeping, CallsAreAudited

\* Steps that neither call nor audit: who answers for a call goes on answering for it,
\* unless it is interrupted.
LEMMA AuditUntouched ==
    ASSUME TypeOK, AuditInv, invoked' = invoked, audited' = audited, crashes' \in Nat,
           \A q \in Requests :
             \/ req'[q] = req[q]
             \/ /\ req'[q].pc \in {"record", "audit"} => Bookkeeping(q) /\ req'[q].step = req[q].step
                /\ \/ ~Bookkeeping(q)
                   \/ req'[q].pc \in {"record", "audit"}
                   \/ crashes' # 0,
           crashes' = 0 => crashes = 0
    PROVE  AuditInv'
<1>1. \A q \in Requests : Bookkeeping(q)' => Bookkeeping(q) /\ req'[q].step = req[q].step
  BY DEF Bookkeeping
<1>2. crashes' = 0 => \A q \in Requests : Bookkeeping(q) =>
                        Bookkeeping(q)' /\ req'[q].step = req[q].step
  BY DEF Bookkeeping
<1>3. CallsAreAudited'
  BY <1>2 DEF AuditInv, CallsAreAudited, Bookkeeping
<1> QED
  BY <1>1, <1>3 DEF AuditInv

LEMMA AuditNext ==
    /\ PromptExecution /\ TypeOK /\ ClaimInv /\ PromptInv /\ AuditInv /\ [Next]_vars
    => AuditInv'
<1> SUFFICES ASSUME PromptExecution, TypeOK, ClaimInv, PromptInv, AuditInv, [Next]_vars
             PROVE  AuditInv'
  OBVIOUS
<1>1. ASSUME NEW r \in Requests, Invoke(r) PROVE AuditInv'
  <2> DEFINE s == req[r].step
             h == [req[r] EXCEPT !.pc = "record"]
  <2>1. s \in Steps /\ req[r].pc = "invoke" /\ invoked[s] = 0 /\ audited[s] \in Nat
    BY <1>1, HandlerType DEF Invoke, ClaimInv, NotCalledYet, TypeOK
  <2>2. audited[s] = 0
    BY <2>1 DEF AuditInv
  <2>3. \A q \in Requests : Bookkeeping(q) => req[q].step # s
    BY <2>1 DEF AuditInv
  <2>4. h.pc = "record" /\ h.step = s
    BY HandlerType DEF HandlerStates
  <2> HIDE DEF h
  <2>5. req'[r] = h /\ \A q \in Requests \ {r} : req'[q] = req[q]
    BY <1>1 DEF Invoke, Goto, TypeOK, h
  <2>6. /\ \A t \in Steps : invoked'[t] = IF t = s THEN 1 ELSE invoked[t]
        /\ audited' = audited /\ crashes' = crashes
    BY <1>1, <2>1 DEF Invoke, TypeOK, world
  <2>7. \A q \in Requests : Bookkeeping(q)' <=> q = r \/ Bookkeeping(q)
    BY <2>4, <2>5 DEF Bookkeeping
  <2>8. ~Bookkeeping(r)
    BY <2>1 DEF Bookkeeping
  <2>9. CallsAreAudited'
    <3> SUFFICES ASSUME crashes' = 0, NEW t \in Steps, invoked'[t] # audited'[t]
                 PROVE  \E q \in Requests : req'[q].step = t /\ req'[q].pc \in {"record", "audit"}
      BY DEF CallsAreAudited
    <3>1. CASE t = s
      BY <2>4, <2>5, <3>1
    <3>2. CASE t # s
      <4>1. PICK q \in Requests : req[q].step = t /\ req[q].pc \in {"record", "audit"}
        BY <2>6, <3>2 DEF AuditInv, CallsAreAudited
      <4> QED
        BY <2>1, <2>5, <4>1
    <3> QED
      BY <3>1, <3>2
  <2>10. \A q \in Requests : Bookkeeping(q)' =>
           invoked'[req'[q].step] = 1 /\ audited'[req'[q].step] = 0
    BY <2>2, <2>3, <2>4, <2>5, <2>6, <2>7, HandlerType DEF AuditInv
  <2>11. \A q, p \in Requests :
           Bookkeeping(q)' /\ Bookkeeping(p)' /\ req'[q].step = req'[p].step => q = p
    BY <2>3, <2>4, <2>5, <2>7, <2>8 DEF AuditInv
  <2>12. \A t \in Steps : audited'[t] <= invoked'[t]
    BY <2>2, <2>6 DEF AuditInv
  <2> QED
    BY <2>9, <2>10, <2>11, <2>12 DEF AuditInv
<1>2. ASSUME NEW r \in Requests, NEW result \in Results, RecordResult(r, result) PROVE AuditInv'
  <2>1. req[r].pc = "record" /\ req'[r].pc = "audit" /\ req'[r].step = req[r].step
    BY <1>2, HandlerType DEF RecordResult, Goto, TypeOK, HandlerStates
  <2>2. \A q \in Requests \ {r} : req'[q] = req[q]
    BY <1>2 DEF RecordResult, Goto, TypeOK
  <2>3. invoked' = invoked /\ audited' = audited /\ crashes' = crashes /\ crashes' \in Nat
    BY <1>2 DEF RecordResult, world, history, TypeOK
  <2> QED
    BY <2>1, <2>2, <2>3, AuditUntouched DEF Bookkeeping
<1>3. ASSUME NEW r \in Requests, RecordAudit(r) PROVE AuditInv'
  <2> DEFINE s == req[r].step
             h == Closing(req[r].run)
  <2>1. s \in Steps /\ Bookkeeping(r) /\ invoked[s] = 1 /\ audited[s] = 0
    BY <1>3, HandlerType DEF RecordAudit, Bookkeeping, AuditInv
  <2>2. h.pc \notin {"record", "audit"}
    BY HandlerType, ClosingEffect
  <2> HIDE DEF h
  <2>3. req'[r] = h /\ \A q \in Requests \ {r} : req'[q] = req[q]
    BY <1>3 DEF RecordAudit, Goto, TypeOK, h
  <2>4. /\ \A t \in Steps : audited'[t] = IF t = s THEN 1 ELSE audited[t]
        /\ invoked' = invoked /\ crashes' = crashes
    BY <1>3, <2>1 DEF RecordAudit, TypeOK, world
  <2>5. \A q \in Requests : Bookkeeping(q)' <=> q # r /\ Bookkeeping(q)
    BY <2>2, <2>3 DEF Bookkeeping
  <2>6. \A q \in Requests \ {r} : Bookkeeping(q) => req[q].step # s
    BY <2>1 DEF AuditInv
  <2>7. CallsAreAudited'
    <3> SUFFICES ASSUME crashes' = 0, NEW t \in Steps, invoked'[t] # audited'[t]
                 PROVE  \E q \in Requests : req'[q].step = t /\ req'[q].pc \in {"record", "audit"}
      BY DEF CallsAreAudited
    <3>1. t # s
      BY <2>1, <2>4
    <3>2. PICK q \in Requests : req[q].step = t /\ req[q].pc \in {"record", "audit"}
      BY <2>4, <3>1 DEF AuditInv, CallsAreAudited
    <3> QED
      BY <2>3, <3>1, <3>2
  <2>8. \A q \in Requests : Bookkeeping(q)' =>
          invoked'[req'[q].step] = 1 /\ audited'[req'[q].step] = 0
    BY <2>3, <2>4, <2>5, <2>6, HandlerType DEF AuditInv
  <2>9. \A q, p \in Requests :
          Bookkeeping(q)' /\ Bookkeeping(p)' /\ req'[q].step = req'[p].step => q = p
    BY <2>3, <2>5 DEF AuditInv
  <2>10. \A t \in Steps : audited'[t] <= invoked'[t]
    BY <2>1, <2>4 DEF AuditInv
  <2> QED
    BY <2>7, <2>8, <2>9, <2>10 DEF AuditInv
<1>4. ASSUME NEW r \in Requests, NEW h, Goto(r, h), h.pc \notin {"record", "audit"},
             ~Bookkeeping(r) \/ crashes' # 0,
             crashes' \in Nat, crashes' = 0 => crashes = 0, invoked' = invoked, audited' = audited
      PROVE  AuditInv'
  <2>1. req'[r] = h /\ \A q \in Requests \ {r} : req'[q] = req[q]
    BY <1>4 DEF Goto, TypeOK
  <2> QED
    BY <1>4, <2>1, AuditUntouched
<1>5. crashes \in Nat
  BY DEF TypeOK
<1>6. ASSUME NEW r \in Requests, LoseRace(r) PROVE AuditInv'
  <2>1. ~Bookkeeping(r)
    BY <1>6 DEF LoseRace, Writes, Bookkeeping, PromptInv, Executing
  <2> QED
    BY <1>4, <1>5, <1>6, <2>1, IdleType DEF LoseRace, world, history
<1>7. ASSUME NEW r \in Requests, Crash(r) PROVE AuditInv'
  BY <1>4, <1>5, <1>7, IdleType DEF Crash, history
<1>8. ASSUME NEW r \in Requests, Settle(r) PROVE AuditInv'
  <2>1. store' \in WorkflowRuns /\ req[r].presented \in Nat
    BY <1>8, DecidingMoves, HandlerType
  <2>2. Route(store', req[r].presented).pc \notin {"record", "audit"}
    BY <2>1, RouteEffect
  <2> QED
    BY <1>4, <1>5, <1>8, <2>2 DEF Settle, world, history, Bookkeeping
<1>9. ASSUME NEW r \in Requests, Close(r) \/ FailStep(r) \/ AwaitApproval(r) \/ Rollback(r)
      PROVE  AuditInv'
  BY <1>4, <1>5, <1>9, IdleType
     DEF Close, FailStep, AwaitApproval, Rollback, world, history, Bookkeeping
<1>10. ASSUME NEW r \in Requests, AuthorizeRecovery(r) \/ Attest(r) PROVE AuditInv'
  <2>1. Closing(store').pc \notin {"record", "audit"}
    BY DEF Closing, Idle
  <2> QED
    BY <1>4, <1>5, <1>10, <2>1 DEF AuthorizeRecovery, Attest, world, history, Bookkeeping
<1>11. ASSUME NEW r \in Requests, ReadPermissions(r) \/ RequestApproval(r) \/ Claim(r)
                \/ ConsumeApproval(r)
       PROVE  AuditInv'
  <2>1. PICK h : /\ Goto(r, h)
                 /\ h.pc \in {"idle", "fail", "request", "claim", "wait", "consume", "invoke", "rollback"}
    <3>1. CASE ReadPermissions(r)
      <4> DEFINE h == IF Permitted(r) = "idle" THEN Idle ELSE [req[r] EXCEPT !.pc = Permitted(r)]
      <4>1. h.pc \in {"idle", "fail", "request", "claim"}
        BY HandlerType, IdleType DEF Permitted, HandlerStates
      <4>2. Goto(r, h)
        BY <3>1 DEF ReadPermissions
      <4> HIDE DEF h
      <4> QED
        BY <4>1, <4>2
    <3>2. CASE RequestApproval(r)
      <4> DEFINE h == [req[r] EXCEPT !.pc = "wait", !.requested = Len(approvals) + 1]
      <4>1. h.pc = "wait" /\ Goto(r, h)
        BY <3>2, HandlerType DEF HandlerStates, RequestApproval
      <4> HIDE DEF h
      <4> QED
        BY <4>1
    <3>3. CASE Claim(r)
      <4> DEFINE h == [req[r] EXCEPT !.pc = AfterClaim(r), !.run = store']
      <4>1. h.pc \in {"consume", "invoke"} /\ Goto(r, h)
        BY <3>3, HandlerType DEF HandlerStates, Claim, AfterClaim
      <4> HIDE DEF h
      <4> QED
        BY <4>1
    <3>4. CASE ConsumeApproval(r)
      <4>1. PICK pc \in {"invoke", "rollback"} : Goto(r, [req[r] EXCEPT !.pc = pc])
        BY <3>4 DEF ConsumeApproval
      <4> DEFINE h == [req[r] EXCEPT !.pc = pc]
      <4>2. h.pc = pc /\ Goto(r, h)
        BY <4>1, HandlerType DEF HandlerStates
      <4> HIDE DEF h
      <4> QED
        BY <4>1, <4>2
    <3> QED
      BY <1>11, <3>1, <3>2, <3>3, <3>4
  <2>2. /\ req[r].pc \in {"permissions", "request", "claim", "consume"}
        /\ invoked' = invoked /\ audited' = audited /\ crashes' = crashes
    BY <1>11 DEF ReadPermissions, RequestApproval, Claim, ConsumeApproval, world, history
  <2> QED
    BY <1>4, <1>5, <2>1, <2>2 DEF Bookkeeping
<1>12. ASSUME NEW r \in Requests, Operate(r) PROVE AuditInv'
  <2>1. PICK h : Goto(r, h) /\ h.pc \in {"settle", "idle", "permissions", "fail", "authorize", "attest"}
    <3>1. ASSUME NEW a \in {NoApproval} \cup A!Ids, AdvanceLoad(r, a)
          PROVE  \E h : Goto(r, h) /\ h.pc \in {"settle", "idle", "permissions", "fail"}
      <4> DEFINE settle == [Idle EXCEPT !.pc = "settle", !.run = store, !.presented = a]
                 h == IF ~Gated(store) /\ Branches(definition, store) # store
                      THEN settle ELSE Route(store, a)
      <4>1. a \in Nat /\ store \in WorkflowRuns
        BY LenProperties DEF A!Ids, TypeOK, A!ApprovalsType, NoApproval
      <4>2. settle.pc = "settle" /\ Route(store, a).pc \in {"idle", "permissions", "fail"}
        BY <4>1, RouteEffect DEF Idle
      <4>3. h.pc \in {"settle", "idle", "permissions", "fail"} /\ Goto(r, h)
        BY <3>1, <4>2 DEF AdvanceLoad
      <4> HIDE DEF h
      <4> QED
        BY <4>3
    <3>2. ASSUME NEW s \in Steps, RecoveryLoad(r, s)
          PROVE  \E h : Goto(r, h) /\ h.pc = "authorize"
      <4> DEFINE h == [Idle EXCEPT !.pc = "authorize", !.run = store, !.step = s]
      <4>1. h.pc = "authorize" /\ Goto(r, h)
        BY <3>2 DEF Idle, RecoveryLoad
      <4> HIDE DEF h
      <4> QED
        BY <4>1
    <3>3. ASSUME NEW outcome \in Outcomes, ReconcileLoad(r, outcome)
          PROVE  \E h : Goto(r, h) /\ h.pc = "attest"
      <4> DEFINE h == [Idle EXCEPT !.pc = "attest", !.run = store, !.outcome = outcome,
                                   !.step = FirstStep(InStatus(store, "RUNNING"))]
      <4>1. h.pc = "attest"
        BY DEF Idle
      <4>2. Goto(r, h)
        BY <3>3 DEF ReconcileLoad
      <4> HIDE DEF h
      <4> QED
        BY <4>1, <4>2
    <3> QED
      BY <1>12, <3>1, <3>2, <3>3 DEF Operate
  <2>2. /\ req[r].pc = "idle" /\ crashes' = crashes
        /\ invoked' = invoked /\ audited' = audited
    BY <1>12 DEF Operate, AdvanceLoad, RecoveryLoad, ReconcileLoad, world, history
  <2> QED
    BY <1>4, <1>5, <2>1, <2>2 DEF Bookkeeping
<1>13. CASE Environment
  <2>1. /\ invoked' = invoked /\ audited' = audited
        /\ \/ req' = req /\ crashes' = crashes
           \/ crashes' = crashes + 1 /\ req' = [q \in Requests |-> Idle]
    BY <1>13 DEF Environment, Approve, Refuse, ChangePermissions, Redeploy, Elapse, world, history
  <2>2. CASE req' = req /\ crashes' = crashes
    BY <1>5, <2>1, <2>2, AuditUntouched
  <2>3. CASE crashes' = crashes + 1 /\ req' = [q \in Requests |-> Idle]
    <3>1. \A q \in Requests : req'[q].pc = "idle"
      BY <2>3, IdleType
    <3> QED
      BY <1>5, <2>1, <2>3, <3>1, AuditUntouched
  <2> QED
    BY <2>1, <2>2, <2>3
<1>14. CASE UNCHANGED vars
  BY <1>5, <1>14, AuditUntouched DEF vars, world, history
<1> QED
  BY <1>1, <1>2, <1>3, <1>6, <1>7, <1>8, <1>9, <1>10, <1>11, <1>12, <1>13, <1>14
     DEF Next, Proceed

LEMMA AuditAlways ==
    ASSUME PromptExecution
    PROVE  Spec => []AuditInv
  BY AuditInit, AuditNext, TypeCorrect, Claims, PromptAlways, PTL DEF Spec

\* As long as nothing is interrupted, and results are recorded before an operator may
\* attest in the handler's place, no call of a tool escapes the audit.
THEOREM CallsAreAuditedAlways ==
    ASSUME PromptExecution
    PROVE  Spec => []CallsAreAudited
<1>1. AuditInv => CallsAreAudited
  BY DEF AuditInv
<1> QED
  BY <1>1, AuditAlways, PTL

----------------------------------------------------------------------------
(* Refinement *)

\* The abstract specification computes what the engine computes.
LEMMA SerialSteps == Serial!Steps = Steps /\ Serial!Outputs = Outputs
  BY DEF Serial!Steps, Steps, Serial!Outputs, Outputs, Serial!NoOutput, NoOutput,
         Serial!Answers, Answers

LEMMA SerialStatuses ==
    /\ Serial!AdvanceableStatuses = AdvanceableStatuses
    /\ Serial!FinalStatuses = FinalStatuses
    /\ Serial!TerminalStatuses = TerminalStatuses
    /\ \A r, st : Serial!InStatus(r, st) = InStatus(r, st)
    /\ \A d, s : Serial!FailedStepHandlers(d, s) = FailedStepHandlers(d, s)
    /\ \A r, s : Serial!RecoveryAuthorized(r, s) <=> RecoveryAuthorized(r, s)
    /\ \A d, s : Serial!IsHandler(d, s) <=> IsHandler(d, s)
  BY SerialSteps
     DEF Serial!AdvanceableStatuses, AdvanceableStatuses, Serial!FinalStatuses, FinalStatuses,
         Serial!TerminalStatuses, TerminalStatuses, Serial!InStatus, InStatus,
         Serial!FailedStepHandlers, FailedStepHandlers, Serial!RecoveryAuthorized,
         RecoveryAuthorized, Serial!IsHandler, IsHandler, Serial!NoStep, NoStep

LEMMA SerialHopeless ==
    ASSUME NEW d, NEW r, NEW s
    PROVE  Serial!HopelessFailure(d, r, s) <=> HopelessFailure(d, r, s)
  BY SerialStatuses DEF Serial!HopelessFailure, HopelessFailure

LEMMA SerialStatus ==
    ASSUME NEW d, NEW r
    PROVE  Serial!WorkflowStatus(d, r) = WorkflowStatus(d, r)
  BY SerialSteps, SerialStatuses, SerialHopeless
     DEF Serial!WorkflowStatus, WorkflowStatus

LEMMA SerialReady ==
    ASSUME NEW d, NEW r
    PROVE  Serial!ReadySteps(d, r) = ReadySteps(d, r)
<1>1. \A s : Serial!DependenciesReady(d, r, s) <=> DependenciesReady(d, r, s)
  BY SerialStatuses DEF Serial!DependenciesReady, DependenciesReady
<1> QED
  BY <1>1, SerialStatuses DEF Serial!ReadySteps, ReadySteps

LEMMA SerialNext ==
    ASSUME NEW d, NEW r
    PROVE  /\ Serial!NextSteps(d, r) = NextSteps(d, r)
           /\ Serial!NextStep(d, r) = NextStep(d, r)
<1>1. Serial!NextSteps(d, r) = NextSteps(d, r)
  BY SerialStatuses, SerialReady DEF Serial!NextSteps, NextSteps
<1>2. ASSUME NEW S PROVE Serial!FirstStep(S) = FirstStep(S)
  BY DEF Serial!FirstStep, FirstStep
<1>3. Serial!FirstReadyStep(d, r) = FirstReadyStep(d, r)
  BY <1>2, SerialStatuses, SerialReady DEF Serial!FirstReadyStep, FirstReadyStep
<1> QED
  BY <1>1, <1>2, <1>3, SerialStatuses DEF Serial!NextStep, NextStep

\* Both sides have the same definition, down to the last operator.
LEMMA SerialPasses ==
    ASSUME NEW d, NEW r
    PROVE  Serial!Passes(d, r) = Passes(d, r) /\ Serial!MaxPasses = MaxPasses
  BY Zenon
     DEF Serial!Passes, Passes, Serial!MaxPasses, MaxPasses, Serial!Pass, Pass,
         Serial!ConditionFailed, ConditionFailed, Serial!Decision, Decision,
         Serial!Unreachable, Unreachable, Serial!Readable, Readable, Serial!DependenciesReady,
         DependenciesReady, Serial!IsHandler, IsHandler, Serial!RecoveryAuthorized,
         RecoveryAuthorized, Serial!InStatus, InStatus, Serial!NoWhen, NoWhen, Serial!NoStep,
         NoStep, Serial!Answers, Answers, Serial!Statuses, Statuses, Serial!StepStatuses,
         StepStatuses, Serial!Steps, Steps

LEMMA SerialBranches ==
    ASSUME NEW d, NEW r
    PROVE  Serial!Branches(d, r) = Branches(d, r)
<1>1. Serial!BranchesUndecidable(d, r) <=> BranchesUndecidable(d, r)
  BY SerialStatuses DEF Serial!BranchesUndecidable, BranchesUndecidable
<1>2. Serial!Progress(r) = Progress(r)
  BY DEF Serial!Progress, Progress
<1>3. Serial!Decided(d, Serial!Progress(r)) = Decided(d, Progress(r))
  BY <1>2, SerialPasses DEF Serial!Decided, Decided
<1> QED
  BY <1>1, <1>3 DEF Serial!Branches, Branches

\* What SupervisedRun says of the step to act on, in the engine's terms.
LEMMA ChosenIsNext ==
    ASSUME TypeOK, NEW s, Chosen(store, s), store.status[s] \in {"PENDING", "WAITING_APPROVAL"}
    PROVE  Serial!IsNext(s)
<1>1. /\ WorkflowStatus(definition, Progress(store)) \in AdvanceableStatuses
      /\ s \in NextSteps(definition, Progress(store))
      /\ s = NextStep(definition, Progress(store))
  BY ProgressChooses DEF Chosen
<1>2. Branches(definition, Progress(store)) = Progress(store)
  BY ProgressDecides DEF Chosen, TypeOK
<1>3. Progress(store).status = store.status
  BY ProgressDetermines
<1> QED
  BY <1>1, <1>2, <1>3, SerialStatus, SerialStatuses, SerialNext, SerialBranches, Zenon
     DEF Serial!IsNext, Serial!Status

LEMMA InitSimulates == Init => Serial!Init
<1> SUFFICES ASSUME Init PROVE Serial!Init
  OBVIOUS
<1>1. /\ Progress(store) = [status |-> [s \in Steps |-> "PENDING"],
                            output |-> [s \in Steps |-> NoOutput],
                            recoveries |-> [s \in Steps |-> 0]]
      /\ definition \in Definitions /\ invoked = [s \in Steps |-> 0]
  BY DEF Init, NewRun, Progress
<1> QED
  BY <1>1, SerialSteps DEF Serial!Init, Serial!NoOutput, NoOutput

SerialVars == <<definition, Progress(store), invoked>>

\* Every step of the engine is a step of the run as one thing at a time, or none.
LEMMA NextSimulates ==
    ASSUME PromptExecution, TypeOK, ClaimInv, ApprovalInv, OrderInv, PromptInv, AuditInv,
           definition \in Definitions, [Next]_vars
    PROVE  [Serial!Next]_SerialVars
<1>0. definition' = definition
  BY OrderNext
<1>1. ASSUME NEW r \in Requests, Close(r) \/ Settle(r) PROVE [Serial!Next]_SerialVars
  <2>1. /\ req[r].run = store
        /\ Progress(store') = Branches(definition, Progress(store))
    BY <1>1, DecidingMoves
  <2>2. Decidable(store) /\ invoked' = invoked
    BY <1>1, <2>1 DEF Close, Settle, OrderInv, ActsInOrder, history
  <2>3. WorkflowStatus(definition, Progress(store)) \notin FinalStatuses \cup {"NEEDS_RECONCILIATION"}
    BY <2>2, ProgressChooses DEF Decidable
  <2>4. Progress(store') # Progress(store)
    BY <2>1, <2>2, ProgressDecides DEF Decidable, TypeOK
  <2>5. Serial!Decide
    BY <1>0, <2>1, <2>2, <2>3, <2>4, SerialStatus, SerialStatuses, SerialBranches
       DEF Serial!Decide, Serial!Status
  <2> QED
    BY <2>5 DEF Serial!Next
<1>2. ASSUME NEW r \in Requests, NEW st, AttemptOf(r, st) PROVE [Serial!Next]_SerialVars
  <2> DEFINE s == req[r].step
  <2>1. /\ req[r].run = store /\ Chosen(store, s) /\ s \in Steps
        /\ Progress(store') = [Progress(store) EXCEPT !.status[s] = st]
    BY <1>2, AttemptMoves, HandlerType
  <2>2. req[r].pc \in {"fail", "wait", "claim"} /\ invoked' = invoked
    BY <1>2 DEF AttemptOf, FailStep, AwaitApproval, Claim, history
  <2>3. /\ store.status[s] \in {"PENDING", "WAITING_APPROVAL"}
        /\ store.status[s] = "PENDING" <=> req[r].presented = NoApproval
    BY <2>1, <2>2 DEF ClaimInv, TargetsAreAsRead, TargetIsAsRead
  <2>4. Serial!IsNext(s) /\ Progress(store).status[s] = store.status[s]
    BY <2>1, <2>3, ChosenIsNext, ProgressDetermines
  <2>5. CASE FailStep(r) /\ st = "FAILED"
    <3>1. Serial!Refuse(s)
      BY <1>0, <2>1, <2>2, <2>4, <2>5 DEF Serial!Refuse, Serial!SetStatus
    <3> QED
      BY <2>1, <3>1, SerialSteps DEF Serial!Next, Serial!StepOf
  <2>6. CASE AwaitApproval(r) /\ st = "WAITING_APPROVAL"
    <3>1. definition.risk[s] = "HIGH" /\ store.status[s] = "PENDING"
      BY <2>3, <2>6 DEF AwaitApproval, OrderInv, ActsInOrder, NeedsApproval, ClaimInv,
                        TargetsAreAsRead, TargetIsAsRead
    <3>2. Serial!Hold(s)
      BY <1>0, <2>1, <2>2, <2>4, <2>6, <3>1 DEF Serial!Hold, Serial!SetStatus
    <3> QED
      BY <2>1, <3>2, SerialSteps DEF Serial!Next, Serial!StepOf
  <2>7. CASE Claim(r) /\ st = "RUNNING"
    <3>1. definition.risk[s] = "HIGH" => store.status[s] = "WAITING_APPROVAL"
      <4>1. NeedsApproval(s) => req[r].presented # NoApproval
        BY <2>7 DEF Claim, ApprovalInv, ApprovalIsHeld
      <4> QED
        BY <2>3, <4>1 DEF NeedsApproval
    <3>2. store.status[s] = "WAITING_APPROVAL" => definition.risk[s] = "HIGH"
      BY <2>1, <2>4 DEF OrderInv, Supervised, InStatus
    <3>3. Serial!Start(s)
      BY <1>0, <2>1, <2>2, <2>4, <2>7, <3>1, <3>2 DEF Serial!Start, Serial!SetStatus
    <3> QED
      BY <2>1, <3>3, SerialSteps DEF Serial!Next, Serial!StepOf
  <2> QED
    BY <1>2, <2>5, <2>6, <2>7 DEF AttemptOf
<1>3. ASSUME NEW r \in Requests, NEW st, EndOf(r, st) PROVE [Serial!Next]_SerialVars
  <2> DEFINE s == req[r].step
  <2>1. /\ store.status[s] = "RUNNING" /\ s \in Steps
        /\ Progress(store') = [Progress(store) EXCEPT !.status[s] = st]
        /\ Progress(store).status[s] = "RUNNING"
    BY <1>3, EndMoves, HandlerType, ProgressDetermines
  <2>2. invoked' = invoked
    BY <1>3 DEF EndOf, Rollback, RecordResult, Attest, history
  <2>3. CASE Rollback(r) /\ st = "WAITING_APPROVAL"
    <3>1. definition.risk[s] = "HIGH" /\ invoked[s] = 0
      BY <2>3 DEF Rollback, OrderInv, ActsInOrder, NeedsApproval, ClaimInv, NotCalledYet
    <3>2. Serial!Release(s)
      BY <1>0, <2>1, <2>2, <2>3, <3>1 DEF Serial!Release, Serial!SetStatus
    <3> QED
      BY <2>1, <3>2, SerialSteps DEF Serial!Next, Serial!StepOf
  <2>4. CASE st \in {"COMPLETED", "FAILED"}
    <3>1. Serial!Resolve(s, st)
      BY <1>0, <2>1, <2>2 DEF Serial!Resolve, Serial!SetStatus
    <3> QED
      BY <2>1, <2>4, <3>1, SerialSteps DEF Serial!Next, Serial!StepOf
  <2> QED
    BY <1>3, <2>3, <2>4, HandlerType DEF EndOf, Outcomes
<1>4. ASSUME NEW r \in Requests, NEW result \in Results, RecordResult(r, result)
      PROVE  [Serial!Next]_SerialVars
  <2> DEFINE s == req[r].step
  <2>1. invoked' = invoked /\ req[r].pc = "record" /\ s \in Steps
    BY <1>4, HandlerType DEF RecordResult, history
  <2>2. CASE result = "timeout"
    <3>1. Save(r, req[r].run) /\ req[r].run \in WorkflowRuns
      BY <1>4, <2>2, HandlerType DEF RecordResult, Recorded
    <3>2. Progress(store') = Progress(store)
      BY <2>1, <3>1, SavedProgress
    <3> QED
      BY <1>0, <2>1, <3>2 DEF SerialVars
  <2>3. CASE result = "failed"
    BY <1>3, <1>4, <2>3 DEF EndOf
  <2>4. CASE result \in Outputs
    <3>1. /\ store.status[s] = "RUNNING" /\ Progress(store).status[s] = "RUNNING"
          /\ Progress(store') = CompletedWith(Progress(store), s, result)
      BY <1>4, <2>4, FinishMoves, ProgressDetermines
    <3>2. invoked[s] = 1
      BY <2>1 DEF AuditInv, Bookkeeping
    <3>3. Serial!Finish(s, result)
      BY <1>0, <2>1, <3>1, <3>2 DEF Serial!Finish, CompletedWith
    <3> QED
      BY <2>1, <2>4, <3>3, SerialSteps DEF Serial!Next, Serial!StepOf
  <2> QED
    BY <2>2, <2>3, <2>4 DEF Results
<1>5. ASSUME NEW r \in Requests, AuthorizeRecovery(r) PROVE [Serial!Next]_SerialVars
  <2> DEFINE s == req[r].step
  <2>1. /\ Recoverable(store, s) /\ s \in Steps
        /\ Progress(store') = [Progress(store) EXCEPT !.recoveries[s] = 1]
        /\ invoked' = invoked
    BY <1>5, RecoveryMoves, HandlerType DEF AuthorizeRecovery, history
  <2>2. /\ WorkflowStatus(definition, Progress(store)) \in {"RECOVERY_REQUIRED", "RECOVERING"}
        /\ Progress(store).status[s] = "FAILED"
        /\ \E h \in FailedStepHandlers(definition, s) : Progress(store).status[h] = "PENDING"
        /\ ~RecoveryAuthorized(Progress(store), s)
    BY <2>1, ProgressChooses, ProgressDetermines DEF Recoverable
  <2>3. Serial!AuthorizeRecovery(s)
    BY <1>0, <2>1, <2>2, SerialStatus, SerialStatuses
       DEF Serial!AuthorizeRecovery, Serial!Status
  <2> QED
    BY <2>1, <2>3, SerialSteps DEF Serial!Next, Serial!StepOf
<1>6. ASSUME NEW r \in Requests, Invoke(r) PROVE [Serial!Next]_SerialVars
  <2> DEFINE s == req[r].step
  <2>1. s \in Steps /\ store' = store /\ req[r].pc = "invoke"
    BY <1>6, HandlerType DEF Invoke, stored
  <2>2. req[r].run = store
    BY <2>1 DEF PromptInv, Executing, ClaimInv, CopiesAreFaithful
  <2>3. Progress(store).status[s] = "RUNNING"
    BY <2>1, <2>2, ProgressDetermines DEF ClaimInv, TargetsAreAsRead, TargetIsAsRead
  <2>4. invoked[s] = 0
    BY <2>1 DEF ClaimInv, NotCalledYet
  <2>5. invoked' = [invoked EXCEPT ![s] = 1]
    BY <1>6, <2>4 DEF Invoke
  <2>6. Serial!Call(s)
    BY <1>0, <2>1, <2>3, <2>4, <2>5 DEF Serial!Call
  <2> QED
    BY <2>1, <2>6, SerialSteps DEF Serial!Next, Serial!StepOf
<1>7. CASE UNCHANGED <<store, invoked>>
  BY <1>0, <1>7 DEF SerialVars
<1>8. ASSUME NEW r \in Requests, LoseRace(r) \/ ReadPermissions(r) \/ RequestApproval(r)
                \/ ConsumeApproval(r) \/ RecordAudit(r) \/ Operate(r) \/ Crash(r)
      PROVE  UNCHANGED <<store, invoked>>
  BY <1>8 DEF LoseRace, ReadPermissions, RequestApproval, ConsumeApproval, RecordAudit, Operate,
              AdvanceLoad, RecoveryLoad, ReconcileLoad, Crash, stored, history
<1>9. CASE Environment
  <2>1. UNCHANGED <<store, invoked>>
    BY <1>9 DEF Environment, Approve, Refuse, ChangePermissions, Redeploy, Elapse, stored, history
  <2> QED
    BY <1>7, <2>1
<1>10. CASE UNCHANGED vars
  BY <1>7, <1>10 DEF vars, stored, history
<1>11. ASSUME NEW r \in Requests, FailStep(r) \/ AwaitApproval(r) \/ Claim(r)
       PROVE  [Serial!Next]_SerialVars
  BY <1>2, <1>11 DEF AttemptOf
<1>12. ASSUME NEW r \in Requests, Rollback(r) \/ Attest(r) PROVE [Serial!Next]_SerialVars
  BY <1>3, <1>12 DEF EndOf
<1> QED
  BY <1>1, <1>4, <1>5, <1>6, <1>7, <1>8, <1>9, <1>10, <1>11, <1>12 DEF Next, Proceed

\* As long as handlers reach and record their tool calls before an operator may attest in
\* their place, the engine with all its requests, copies and crashes does only what a run
\* does that is handled one step at a time: what holds of SupervisedRun holds of it.
THEOREM EngineIsSerial ==
    ASSUME PromptExecution
    PROVE  Spec => ImplementsSupervisedRun
<1>1. /\ TypeOK /\ ClaimInv /\ ApprovalInv
      /\ OrderInv /\ definition \in Definitions
      /\ PromptInv /\ AuditInv
      /\ [Next]_vars
      => [Serial!Next]_(Serial!vars)
  BY NextSimulates DEF SerialVars, Serial!vars
<1> QED
  BY <1>1, InitSimulates, TypeCorrect, Claims, Holdings, OrderAlways, PromptAlways,
     AuditAlways, PTL
     DEF Spec, ImplementsSupervisedRun, Serial!Spec

----------------------------------------------------------------------------
(* No dead end: a run in which nothing is in flight and every failure was authorized has
   a step to run or a branch to decide *)

\* A pending step whose parents are all done is ready, unless it is unreachable.
LEMMA ParentsDone ==
    ASSUME NEW d, ValidDefinition(d), NEW run, NEW s \in Steps,
           \A p \in d.dependsOn[s] :
             /\ run.status[p] \in TerminalStatuses
             /\ run.status[p] = "FAILED" => RecoveryAuthorized(run, p)
    PROVE  Unreachable(d, run, s) \/ DependenciesReady(d, run, s)
<1> DEFINE parents == d.dependsOn[s]
           source == d.onFailureOf[s]
           completed == parents \cap InStatus(run, "COMPLETED")
           failed == parents \cap InStatus(run, "FAILED")
           skipped == parents \cap InStatus(run, "SKIPPED")
<1>1. /\ parents \subseteq Steps /\ d.dependsMode[s] \in {"all", "settled"}
      /\ IsHandler(d, s) => source \in parents
      /\ d.dependsMode[s] = "settled" => parents # {}
  BY DEF ValidDefinition, WorkflowDefinitions, HandlerIsDeclaredProperly, StepIsDeclaredProperly
<1>2. parents = completed \cup failed \cup skipped
  BY <1>1 DEF InStatus, TerminalStatuses
<1> SUFFICES ASSUME ~Unreachable(d, run, s) PROVE DependenciesReady(d, run, s)
  OBVIOUS
<1>3. /\ ~(IsHandler(d, s) /\ run.status[source] \in {"COMPLETED", "SKIPPED"})
      /\ ~(failed # {} /\ (~IsHandler(d, s) \/ failed # {source}))
      /\ ~(skipped # {} /\ (d.dependsMode[s] = "all" \/ IsHandler(d, s)))
      /\ ~(d.dependsMode[s] = "settled" /\ parents # {} /\ skipped = parents)
  BY DEF Unreachable
<1>4. CASE IsHandler(d, s)
  <2>1. run.status[source] = "FAILED" /\ RecoveryAuthorized(run, source)
    BY <1>1, <1>3, <1>4 DEF TerminalStatuses
  <2>2. skipped = {} /\ failed \subseteq {source}
    BY <1>3, <1>4
  <2>3. parents \ {source} \subseteq InStatus(run, "COMPLETED")
    BY <1>2, <2>2
  <2> QED
    BY <1>4, <2>1, <2>3 DEF DependenciesReady
<1>5. CASE ~IsHandler(d, s)
  <2>1. failed = {}
    BY <1>3, <1>5
  <2>2. CASE d.dependsMode[s] = "settled"
    <3>1. parents \cap InStatus(run, "COMPLETED") # {}
      BY <1>1, <1>2, <1>3, <2>1, <2>2
    <3>2. parents \subseteq InStatus(run, "COMPLETED") \cup InStatus(run, "SKIPPED")
      BY <1>2, <2>1
    <3> QED
      BY <1>5, <2>2, <3>1, <3>2 DEF DependenciesReady
  <2>3. CASE d.dependsMode[s] = "all"
    <3>1. parents \subseteq InStatus(run, "COMPLETED")
      BY <1>2, <1>3, <2>1, <2>3
    <3> QED
      BY <1>5, <2>3, <3>1 DEF DependenciesReady
  <2> QED
    BY <1>1, <2>2, <2>3
<1> QED
  BY <1>4, <1>5

\* There is such a step: one of the least rank.
LEMMA FirstPending ==
    ASSUME NEW d, ValidDefinition(d), NEW run, InStatus(run, "PENDING") # {}
    PROVE  \E s \in InStatus(run, "PENDING") : \A p \in d.dependsOn[s] : run.status[p] # "PENDING"
<1>1. PICK rank \in [Steps -> Steps] :
        \A s \in Steps : \A p \in d.dependsOn[s] : rank[p] < rank[s]
  BY DEF ValidDefinition, Acyclic
<1> DEFINE Ranks == {rank[s] : s \in InStatus(run, "PENDING")}
<1>2. Ranks \in SUBSET Nat /\ Ranks # {}
  BY <1>1, StepCountAssumption DEF InStatus, Steps
<1>3. PICK least \in Ranks : \A n \in Ranks : least <= n
  BY <1>2, LeastElement
<1>4. PICK s \in InStatus(run, "PENDING") : least = rank[s]
  OBVIOUS
<1>5. ASSUME NEW p \in d.dependsOn[s], run.status[p] = "PENDING" PROVE FALSE
  <2>1. s \in Steps /\ p \in Steps
    BY DEF InStatus, ValidDefinition, WorkflowDefinitions
  <2>2. rank[p] \in Ranks /\ rank[p] < rank[s] /\ rank[p] \in Nat /\ rank[s] \in Nat
    BY <1>1, <1>2, <1>5, <2>1 DEF InStatus
  <2> QED
    BY <1>3, <1>4, <2>2
<1> QED
  BY <1>5

\* So that step is one to run, or evaluateWorkflowBranches has something to decide.
LEMMA NoDeadEnd ==
    ASSUME NEW d, ValidDefinition(d), NEW run \in WorkflowRuns,
           InStatus(run, "RUNNING") = {}, InStatus(run, "WAITING_APPROVAL") = {},
           InStatus(run, "PENDING") # {},
           \A s \in InStatus(run, "FAILED") :
             RecoveryAuthorized(run, s) /\ FailedStepHandlers(d, s) # {}
    PROVE  ReadySteps(d, run) # {} \/ Branches(d, run) # run
<1> SUFFICES ASSUME ReadySteps(d, run) = {}, Branches(d, run) = run PROVE FALSE
  OBVIOUS
<1> DEFINE p == Progress(run)
<1>1. /\ p \in ProgressRuns /\ p.status = run.status
      /\ Progress(p) = p /\ At(p, p.status) = p
  BY ProgressType, ProgressDetermines, ProgressOfProgress DEF At, ProgressRuns
<1>2. ~BranchesUndecidable(d, run)
  BY DEF BranchesUndecidable
<1>3. Decided(d, p) = p.status
  <2>1. run = [run EXCEPT !.status = Decided(d, p)]
    BY <1>2 DEF Branches
  <2> HIDE DEF p
  <2>2. [run EXCEPT !.status = Decided(d, p)].status = Decided(d, p)
    BY DEF WorkflowRuns
  <2> QED
    BY <1>1, <2>1, <2>2
<1>4. Settled(d, p, p.status)
  <2>1. ~ConditionFailed(p.status, p.status)
    BY DEF ConditionFailed
  <2> HIDE DEF p
  <2> QED
    BY <1>1, <1>3, <2>1, DecidedEffect
<1>5. PICK s \in InStatus(run, "PENDING") : \A t \in d.dependsOn[s] : run.status[t] # "PENDING"
  BY FirstPending
<1>6. s \in Steps /\ run.status[s] = "PENDING" /\ d.dependsOn[s] \subseteq Steps
  BY DEF InStatus, ValidDefinition, WorkflowDefinitions
<1>7. \A t \in d.dependsOn[s] :
        /\ run.status[t] \in TerminalStatuses
        /\ run.status[t] = "FAILED" => RecoveryAuthorized(run, t)
  BY <1>5, <1>6 DEF InStatus, WorkflowRuns, StepStatuses, TerminalStatuses
<1>8. Decision(d, p, s) = "none"
  BY <1>1, <1>4, <1>6 DEF Settled
<1>9. ~DependenciesReady(d, p, s)
  <2>1. ~DependenciesReady(d, run, s)
    BY <1>5 DEF ReadySteps
  <2> QED
    BY <1>6, <2>1, ProgressDetermines
<1> HIDE DEF p
<1>10. \A t \in d.dependsOn[s] :
        /\ p.status[t] \in TerminalStatuses
        /\ p.status[t] = "FAILED" => RecoveryAuthorized(p, t)
  BY <1>1, <1>6, <1>7, ProgressDetermines DEF p
<1>11. Unreachable(d, p, s)
  BY <1>6, <1>9, <1>10, ParentsDone
<1> QED
  BY <1>1, <1>6, <1>8, <1>11 DEF Decision

\* A step waits for an approval only once the run shows one for it.
WaitingIsRequested == \A s \in WaitingSteps(store) : store.approvalId[s] # NoApproval

LEMMA SaveKeepsWaiting ==
    ASSUME TypeOK, ClaimInv, WaitingIsRequested, NEW r \in Requests, req[r].pc # "idle",
           NEW run \in WorkflowRuns, Save(r, run),
           \A s \in Steps : run.status[s] = "WAITING_APPROVAL" =>
               \/ run.approvalId[s] # NoApproval
               \/ /\ run.approvalId[s] = req[r].run.approvalId[s]
                  /\ req[r].run.status[s] = "WAITING_APPROVAL"
    PROVE  WaitingIsRequested'
<1>1. req[r].run = store
  BY DEF ClaimInv, CopiesAreFaithful, Save
<1>2. store'.status = run.status /\ store'.approvalId = run.approvalId
  BY DEF Save, WorkflowRuns
<1> QED
  BY <1>1, <1>2 DEF WaitingIsRequested, WaitingSteps, InStatus

LEMMA WaitingKept ==
    TypeOK /\ ClaimInv /\ ApprovalInv /\ WaitingIsRequested /\ [Next]_vars
      => WaitingIsRequested'
<1> SUFFICES ASSUME TypeOK, ClaimInv, ApprovalInv, WaitingIsRequested, [Next]_vars
             PROVE  WaitingIsRequested'
  OBVIOUS
<1>1. ASSUME NEW r \in Requests, Close(r) \/ Settle(r) PROVE WaitingIsRequested'
  <2> DEFINE run == Branches(definition, req[r].run)
  <2>1. /\ run \in WorkflowRuns /\ run.approvalId = req[r].run.approvalId
        /\ \A s \in Steps : run.status[s] = "WAITING_APPROVAL"
                              => req[r].run.status[s] = "WAITING_APPROVAL"
    BY HandlerType, DecidingEffect
  <2>2. Save(r, run) /\ req[r].pc # "idle"
    BY <1>1 DEF Close, Settle
  <2> HIDE DEF run
  <2> QED
    BY <2>1, <2>2, SaveKeepsWaiting
<1>2. ASSUME NEW r \in Requests, NEW st \in StepStatuses,
             Save(r, WithStatus(req[r].run, req[r].step, st)), req[r].pc # "idle",
             st = "WAITING_APPROVAL" => req[r].pc = "rollback"
      PROVE  WaitingIsRequested'
  <2> DEFINE run == WithStatus(req[r].run, req[r].step, st)
  <2>1. run \in WorkflowRuns /\ run.approvalId = req[r].run.approvalId
    BY HandlerType, WithStatusType DEF WithStatus, WorkflowRuns
  <2>2. \A t \in Steps : run.status[t] = IF t = req[r].step THEN st ELSE req[r].run.status[t]
    BY HandlerType DEF WithStatus, WorkflowRuns
  <2>3. req[r].pc = "rollback" => req[r].run.approvalId[req[r].step] # NoApproval
    BY <1>2 DEF ApprovalInv, ApprovalIsHeld, ClaimInv, CopiesAreFaithful, Save
  <2>4. Save(r, run)
    BY <1>2
  <2> HIDE DEF run
  <2> QED
    BY <1>2, <2>1, <2>2, <2>3, <2>4, SaveKeepsWaiting
<1>3. ASSUME NEW r \in Requests, FailStep(r) \/ Claim(r) \/ Rollback(r) \/ Attest(r)
      PROVE  WaitingIsRequested'
  BY <1>2, <1>3, HandlerType DEF FailStep, Claim, Rollback, Attest, StepStatuses, Outcomes
<1>4. ASSUME NEW r \in Requests, AwaitApproval(r) PROVE WaitingIsRequested'
  <2> DEFINE s == req[r].step
             waiting == WithStatus(req[r].run, s, "WAITING_APPROVAL")
             run == [waiting EXCEPT !.approvalId[s] = req[r].requested]
  <2>1. waiting \in WorkflowRuns
    BY HandlerType, WithStatusType DEF StepStatuses
  <2>2. /\ run \in WorkflowRuns /\ run.status = waiting.status
        /\ \A t \in Steps : run.approvalId[t] =
             IF t = s THEN req[r].requested ELSE req[r].run.approvalId[t]
    BY <2>1, HandlerType DEF WorkflowRuns, WithStatus
  <2>3. Save(r, run) /\ req[r].pc = "wait"
    BY <1>4 DEF AwaitApproval
  <2>4. \A t \in Steps \ {s} : waiting.status[t] = req[r].run.status[t]
    BY HandlerType DEF WithStatus, WorkflowRuns
  <2>5. req[r].requested # NoApproval
    BY <2>3 DEF ApprovalInv, ApprovalIsHeld, A!Ids, NoApproval, TypeOK, A!ApprovalsType
  <2> HIDE DEF run, waiting
  <2> QED
    BY <2>2, <2>3, <2>4, <2>5, SaveKeepsWaiting
<1>5. ASSUME NEW r \in Requests, NEW result \in Results, RecordResult(r, result)
      PROVE  WaitingIsRequested'
  <2> DEFINE s == req[r].step
             completed == WithStatus(req[r].run, s, "COMPLETED")
             run == [completed EXCEPT !.output[s] = result]
  <2>1. CASE result = "timeout"
    BY <1>5, <2>1, HandlerType, SaveKeepsWaiting DEF RecordResult, Recorded
  <2>2. CASE result = "failed"
    BY <1>2, <1>5, <2>2 DEF RecordResult, Recorded, StepStatuses
  <2>3. CASE result \notin {"timeout", "failed"}
    <3>1. completed \in WorkflowRuns
      BY HandlerType, WithStatusType DEF StepStatuses
    <3>2. run \in WorkflowRuns /\ run.status = completed.status
      BY <2>3, <3>1, HandlerType DEF WorkflowRuns, Results
    <3>3. run.approvalId = req[r].run.approvalId
      BY HandlerType DEF WithStatus, WorkflowRuns
    <3>4. Save(r, run) /\ req[r].pc = "record"
      BY <1>5, <2>3 DEF RecordResult, Recorded, Completed
    <3>5. \A t \in Steps : completed.status[t] \in {"COMPLETED", req[r].run.status[t]}
      BY HandlerType DEF WithStatus, WorkflowRuns
    <3> HIDE DEF run, completed
    <3> QED
      BY <3>2, <3>3, <3>4, <3>5, SaveKeepsWaiting
  <2> QED
    BY <2>1, <2>2, <2>3 DEF Results
<1>6. ASSUME NEW r \in Requests, AuthorizeRecovery(r) PROVE WaitingIsRequested'
  <2> DEFINE run == [req[r].run EXCEPT !.recoveries[req[r].step] = @ + 1]
  <2>1. run \in WorkflowRuns
    <3>1. req[r].run.recoveries[req[r].step] + 1 \in Nat
      BY HandlerType DEF WorkflowRuns
    <3> QED
      BY <3>1, HandlerType DEF WorkflowRuns
  <2>2. Save(r, run) /\ req[r].pc # "idle"
    BY <1>6 DEF AuthorizeRecovery
  <2>3. run.status = req[r].run.status /\ run.approvalId = req[r].run.approvalId
    BY HandlerType DEF WorkflowRuns
  <2> HIDE DEF run
  <2> QED
    BY <2>1, <2>2, <2>3, SaveKeepsWaiting
<1>7. CASE UNCHANGED store
  BY <1>7 DEF WaitingIsRequested
<1> QED
  BY <1>1, <1>3, <1>4, <1>5, <1>6, <1>7
     DEF Next, Proceed, Operate, Environment, LoseRace, ReadPermissions, RequestApproval,
         ConsumeApproval, Invoke, RecordAudit, AdvanceLoad, RecoveryLoad, ReconcileLoad,
         Crash, Redeploy, Approve, Refuse, ChangePermissions, Elapse, stored, vars

LEMMA WaitingAlways == Spec => []WaitingIsRequested
<1>1. Init => WaitingIsRequested
  BY DEF Init, NewRun, WaitingIsRequested, WaitingSteps, InStatus
<1> QED
  BY <1>1, WaitingKept, TypeCorrect, Claims, Holdings, PTL DEF Spec

\* So its approval is its own, and a consumed one would have claimed the step.
LEMMA DecisionsCount ==
    ASSUME TypeOK, ApprovalInv, WaitingIsRequested, NEW s \in WaitingSteps(store)
    PROVE  DecisionCounts(s)
<1> DEFINE a == store.approvalId[s]
<1>1. s \in Steps /\ store.status[s] = "WAITING_APPROVAL"
  BY DEF WaitingSteps, InStatus
<1>2. a \in A!Ids /\ approvals[a].subject = s
  BY <1>1 DEF ApprovalInv, ApprovalsMatchSteps, WaitingIsRequested
<1>3. ~approvals[a].consumed
  BY <1>1, <1>2 DEF ApprovalInv, ConsumptionClaimsStep
<1> QED
  BY <1>2, <1>3 DEF DecisionCounts, Refused, A!Undecided, A!Consumable

\* What the diagnosis sends the operator to do can be done.
LEMMA AdviceWorks ==
    ASSUME TypeOK, OrderInv, definition \in Definitions, ApprovalInv, WaitingIsRequested
    PROVE  AdviceCanBeFollowed
<1> DEFINE status == WorkflowStatus(definition, store)
           failed == InStatus(store, "FAILED")
<1>1. store \in WorkflowRuns /\ ValidDefinition(definition)
  BY DefinitionsAssumption DEF TypeOK
<1>2. Advice(store) = "authorizeRecovery" => status = "RECOVERY_REQUIRED"
  BY DEF Advice
<1>3. Advice(store) = "advance" =>
        status = "RECOVERING" \/ ReadySteps(definition, store) # {}
  BY DEF Advice
<1>4. Advice(store) = "advance" \/ Advice(store) = "dependencies" =>
        status \in {"RECOVERING", "ACTIVE"}
  BY DEF Advice, WorkflowStatus, FinalStatuses
<1>5. Advice(store) = "dependencies" => ReadySteps(definition, store) = {}
  BY DEF Advice
<1>6. ASSUME status = "RECOVERY_REQUIRED" PROVE \E s \in Steps : Recoverable(store, s)
  <2>1. /\ \E s \in failed : ~RecoveryAuthorized(store, s)
        /\ \A s \in failed : ~HopelessFailure(definition, store, s)
    BY <1>6 DEF WorkflowStatus
  <2>2. PICK s \in failed : ~RecoveryAuthorized(store, s)
    BY <2>1
  <2>3. s \in Steps /\ store.status[s] = "FAILED"
    BY DEF InStatus
  <2>4. PICK h \in FailedStepHandlers(definition, s) : store.status[h] \notin {"FAILED", "SKIPPED"}
    BY <2>1, <2>3 DEF HopelessFailure
  <2>5. h \in Steps /\ definition.onFailureOf[h] = s /\ IsHandler(definition, h)
    BY <2>3, StepCountAssumption DEF FailedStepHandlers, IsHandler, NoStep, Steps
  <2>6. store.status[h] = "PENDING"
    <3> SUFFICES ASSUME store.status[h] # "PENDING" PROVE FALSE
      OBVIOUS
    <3>1. DependenciesReady(definition, Progress(store), h)
      BY <2>4, <2>5, ProgressDetermines DEF OrderInv, Supervised
    <3>2. RecoveryAuthorized(store, s)
      BY <2>3, <2>5, <3>1, ProgressDetermines DEF DependenciesReady
    <3> QED
      BY <2>2, <3>2
  <2> QED
    BY <1>6, <2>2, <2>3, <2>4, <2>6 DEF Recoverable
<1>7. ASSUME status \in {"RECOVERING", "ACTIVE"}
      PROVE  /\ InStatus(store, "WAITING_APPROVAL") = {}
             /\ ReadySteps(definition, store) # {} \/ Branches(definition, store) # store
  <2>1. /\ InStatus(store, "RUNNING") = {} /\ InStatus(store, "WAITING_APPROVAL") = {}
        /\ \A s \in failed : /\ ~HopelessFailure(definition, store, s)
                             /\ RecoveryAuthorized(store, s)
        /\ \E s \in Steps : store.status[s] \notin TerminalStatuses
    BY <1>7 DEF WorkflowStatus
  <2>2. \A s \in failed : FailedStepHandlers(definition, s) # {}
    BY <2>1 DEF HopelessFailure, InStatus
  <2>3. InStatus(store, "PENDING") # {}
    BY <1>1, <2>1 DEF InStatus, WorkflowRuns, StepStatuses, TerminalStatuses
  <2> QED
    BY <1>1, <2>1, <2>2, <2>3, NoDeadEnd
<1>8. Advice(store) = "advance" =>
        NextSteps(definition, store) # {} \/ Branches(definition, store) # store
  BY <1>4, <1>7 DEF NextSteps
<1>9. Advice(store) = "decide" => status = "AWAITING_APPROVAL"
  BY DEF Advice
<1>10. status = "AWAITING_APPROVAL" => WaitingSteps(store) # {}
  BY DEF WorkflowStatus, WaitingSteps
<1>11. \A s \in WaitingSteps(store) : DecisionCounts(s)
  BY DecisionsCount
<1> HIDE DEF status
<1> QED
  BY <1>2, <1>4, <1>5, <1>6, <1>7, <1>8, <1>9, <1>10, <1>11 DEF AdviceCanBeFollowed

----------------------------------------------------------------------------
(* The events of a write *)

\* `upTo` of InOrder collects the steps of S, each once.
LEMMA InOrderLists ==
    ASSUME NEW S \in SUBSET Steps
    PROVE  /\ InOrder(S) \in Seq(S)
           /\ \A s \in S : \E i \in 1..Len(InOrder(S)) : InOrder(S)[i] = s
           /\ \A i, j \in 1..Len(InOrder(S)) : InOrder(S)[i] = InOrder(S)[j] => i = j
<1> DEFINE Body(f, n) == IF n = 0 THEN << >>
                         ELSE IF n \in S THEN Append(f[n - 1], n) ELSE f[n - 1]
           Solves(f, m) == f = [n \in 0..m |-> Body(f, n)]
           Solved == {m \in Nat : \E f : Solves(f, m)}
<1>1. 0 \in Solved
  <2> DEFINE f == [n \in 0..0 |-> << >>]
  <2>1. Solves(f, 0)
    OBVIOUS
  <2> HIDE DEF f, Solves
  <2> QED
    BY <2>1
<1>2. ASSUME NEW m \in Nat, m \in Solved PROVE m + 1 \in Solved
  <2>1. PICK f : Solves(f, m)
    BY <1>2
  <2> DEFINE g == [n \in 0..(m + 1) |-> IF n = m + 1 THEN Body(f, m + 1) ELSE f[n]]
  <2>2. ASSUME NEW n \in 0..(m + 1) PROVE g[n] = Body(g, n)
    <3>1. CASE n = m + 1
      <4>1. g[m] = f[m]
        OBVIOUS
      <4> QED
        BY <3>1, <4>1
    <3>2. CASE n # m + 1
      <4>1. n \in 0..m /\ g[n] = f[n] /\ (n # 0 => g[n - 1] = f[n - 1])
        BY <3>2
      <4>2. f[n] = Body(f, n)
        BY <2>1, <4>1
      <4> QED
        BY <4>1, <4>2
    <3> QED
      BY <3>1, <3>2
  <2> HIDE DEF Body
  <2>3. Solves(g, m + 1)
    BY <2>2
  <2> HIDE DEF g, Solves
  <2> QED
    BY <2>3
<1>3. StepCount \in Nat
  BY StepCountAssumption
<1>4. \E f : Solves(f, StepCount)
  <2>1. StepCount \in Solved
    <3> HIDE DEF Solved
    <3> QED
      BY <1>1, <1>2, <1>3, Induction
  <2> HIDE DEF Solves
  <2> QED
    BY <2>1
<1> DEFINE upTo == CHOOSE f : Solves(f, StepCount)
<1>5. InOrder(S) = upTo[StepCount]
  BY DEF InOrder
<1>6. Solves(upTo, StepCount)
  <2> HIDE DEF Solves
  <2> QED
    BY <1>4
<1> HIDE DEF upTo
<1>7. /\ upTo[0] = << >>
      /\ \A n \in 1..StepCount : upTo[n] = IF n \in S THEN Append(upTo[n - 1], n) ELSE upTo[n - 1]
  <2>1. \A n \in 0..StepCount : upTo[n] = Body(upTo, n)
    <3> HIDE DEF Body
    <3> QED
      BY <1>6
  <2>2. 0 \in 0..StepCount /\ \A n \in 1..StepCount : n \in 0..StepCount /\ n # 0
    BY <1>3
  <2> QED
    BY <2>1, <2>2
<1> DEFINE Lists(u, n) ==
             /\ u \in Seq(S)
             /\ \A i \in 1..Len(u) : u[i] <= n
             /\ \A s \in S : s <= n => \E i \in 1..Len(u) : u[i] = s
             /\ \A i, j \in 1..Len(u) : u[i] = u[j] => i = j
           Right == {n \in Nat : n <= StepCount => Lists(upTo[n], n)}
<1>8. 0 \in Right
  <2>1. \A s \in S : ~(s <= 0)
    BY <1>3 DEF Steps
  <2>2. Lists(<< >>, 0)
    BY <2>1
  <2> HIDE DEF Lists
  <2> QED
    BY <1>7, <2>2
<1>9. ASSUME NEW n \in Nat, n \in Right PROVE n + 1 \in Right
  <2> SUFFICES ASSUME n + 1 <= StepCount PROVE Lists(upTo[n + 1], n + 1)
    OBVIOUS
  <2> DEFINE u == upTo[n]
  <2>1. /\ Lists(u, n)
        /\ upTo[n + 1] = IF n + 1 \in S THEN Append(u, n + 1) ELSE u
    BY <1>3, <1>7, <1>9
  <2>2. \A s \in S : s \in Nat
    BY <1>3 DEF Steps
  <2> HIDE DEF u
  <2>3. CASE n + 1 \notin S
    <3>1. upTo[n + 1] = u
      BY <2>1, <2>3
    <3>2. \A s \in S : s <= n + 1 => s <= n
      BY <2>2, <2>3
    <3>3. \A i \in 1..Len(u) : u[i] <= n + 1
      <4>1. \A i \in 1..Len(u) : u[i] \in S /\ u[i] <= n
        BY <2>1
      <4> QED
        BY <2>2, <4>1
    <3> QED
      BY <2>1, <3>1, <3>2, <3>3
  <2>4. CASE n + 1 \in S
    <3> DEFINE v == Append(u, n + 1)
    <3>1. /\ v \in Seq(S) /\ Len(v) = Len(u) + 1 /\ Len(u) \in Nat
          /\ v[Len(u) + 1] = n + 1
          /\ \A i \in 1..Len(u) : v[i] = u[i] /\ i \in 1..Len(v) /\ u[i] \in Nat /\ u[i] <= n
      BY <2>1, <2>2, <2>4
    <3> HIDE DEF v
    <3>2. \A i \in 1..Len(v) : i = Len(u) + 1 \/ i \in 1..Len(u)
      BY <3>1
    <3>3. \A i \in 1..Len(v) : v[i] <= n + 1
      BY <3>1, <3>2
    <3>4. ASSUME NEW s \in S, s <= n + 1 PROVE \E i \in 1..Len(v) : v[i] = s
      <4>1. CASE s = n + 1
        BY <3>1, <4>1
      <4>2. CASE s # n + 1
        <5>1. s <= n
          BY <2>2, <3>4, <4>2
        <5> QED
          BY <2>1, <3>1, <5>1
      <4> QED
        BY <4>1, <4>2
    <3>5. ASSUME NEW i \in 1..Len(v), NEW j \in 1..Len(v), v[i] = v[j] PROVE i = j
      BY <2>1, <3>1, <3>2, <3>5
    <3> QED
      BY <2>1, <2>4, <3>1, <3>3, <3>4, <3>5 DEF v
  <2> QED
    BY <2>3, <2>4
<1>10. Lists(upTo[StepCount], StepCount)
  <2>1. StepCount \in Right
    <3> HIDE DEF Right
    <3> QED
      BY <1>3, <1>8, <1>9, Induction
  <2> QED
    BY <2>1, <1>3
<1> HIDE DEF Body, Solves
<1> QED
  BY <1>3, <1>5, <1>10 DEF Steps

\* What an event says, apart from its number, and the events as stored.
EventKinds == {"WORKFLOW_CREATED", "STEP_STATUS_CHANGED", "RECOVERY_AUTHORIZED"}

EventBodies ==
    [kind : EventKinds, step : Steps \cup {NoStep},
     from : StepStatuses \cup {NoStatus}, to : StepStatuses \cup {NoStatus}]

Events ==
    [seq : Nat, kind : EventKinds, step : Steps \cup {NoStep},
     from : StepStatuses \cup {NoStatus}, to : StepStatuses \cup {NoStatus}]

TellsStatus(e, before, after) ==
    /\ e.kind = "STEP_STATUS_CHANGED" /\ e.step \in StatusChanged(before, after)
    /\ e.from = before.status[e.step] /\ e.to = after.status[e.step]

TellsRecovery(e, before, after) ==
    e.kind = "RECOVERY_AUTHORIZED" /\ e.step \in NewlyAuthorized(before, after)

\* The events of a write: all that changed, nothing else, and each status once.
Tells(new, before, after) ==
    /\ \A i \in 1..Len(new) :
         TellsStatus(new[i], before, after) \/ TellsRecovery(new[i], before, after)
    /\ \A s \in StatusChanged(before, after) : \E i \in 1..Len(new) :
         new[i].kind = "STEP_STATUS_CHANGED" /\ new[i].step = s
    /\ \A s \in NewlyAuthorized(before, after) : \E i \in 1..Len(new) :
         new[i].kind = "RECOVERY_AUTHORIZED" /\ new[i].step = s
    /\ \A i, j \in 1..Len(new) :
         /\ new[i].kind = "STEP_STATUS_CHANGED" /\ new[j].kind = "STEP_STATUS_CHANGED"
         /\ new[i].step = new[j].step
         => i = j

\* The loops over the statuses and over the recoveries find all that changed, once each.
LEMMA ChangesTell ==
    ASSUME NEW before \in WorkflowRuns, NEW after \in WorkflowRuns
    PROVE  /\ Changes(before, after) \in Seq(EventBodies)
           /\ Tells(Changes(before, after), before, after)
<1> DEFINE s == InOrder(StatusChanged(before, after))
           a == InOrder(NewlyAuthorized(before, after))
           status == [i \in 1..Len(s) |->
                        [kind |-> "STEP_STATUS_CHANGED", step |-> s[i],
                         from |-> before.status[s[i]], to |-> after.status[s[i]]]]
           recovery == [i \in 1..Len(a) |->
                          [kind |-> "RECOVERY_AUTHORIZED", step |-> a[i],
                           from |-> NoStatus, to |-> NoStatus]]
           c == Changes(before, after)
<1>1. c = status \o recovery
  BY DEF Changes
<1>2. /\ s \in Seq(StatusChanged(before, after)) /\ Len(s) \in Nat
      /\ \A t \in StatusChanged(before, after) : \E i \in 1..Len(s) : s[i] = t
      /\ \A i, j \in 1..Len(s) : s[i] = s[j] => i = j
  <2>1. StatusChanged(before, after) \in SUBSET Steps
    BY DEF StatusChanged
  <2> QED
    BY <2>1, InOrderLists
<1>3. /\ a \in Seq(NewlyAuthorized(before, after)) /\ Len(a) \in Nat
      /\ \A t \in NewlyAuthorized(before, after) : \E i \in 1..Len(a) : a[i] = t
  <2>1. NewlyAuthorized(before, after) \in SUBSET Steps
    BY DEF NewlyAuthorized
  <2> QED
    BY <2>1, InOrderLists
<1> HIDE DEF s, a, c
<1>4. /\ \A i \in 1..Len(s) : s[i] \in StatusChanged(before, after) /\ s[i] \in Steps
      /\ \A i \in 1..Len(a) : a[i] \in NewlyAuthorized(before, after) /\ a[i] \in Steps
  BY <1>2, <1>3 DEF StatusChanged, NewlyAuthorized
<1>5. /\ status \in Seq(EventBodies) /\ Len(status) = Len(s)
      /\ recovery \in Seq(EventBodies) /\ Len(recovery) = Len(a)
  <2>1. /\ \A i \in 1..Len(s) : status[i] \in EventBodies
        /\ \A i \in 1..Len(a) : recovery[i] \in EventBodies
    BY <1>4 DEF EventBodies, EventKinds, WorkflowRuns
  <2> QED
    BY <1>2, <1>3, <2>1
<1>6. /\ \A i \in 1..Len(s) : /\ TellsStatus(status[i], before, after)
                              /\ status[i].kind = "STEP_STATUS_CHANGED" /\ status[i].step = s[i]
      /\ \A i \in 1..Len(a) : /\ TellsRecovery(recovery[i], before, after)
                              /\ recovery[i].kind = "RECOVERY_AUTHORIZED" /\ recovery[i].step = a[i]
  BY <1>4 DEF TellsStatus, TellsRecovery
<1> HIDE DEF status, recovery
<1>7. /\ c \in Seq(EventBodies) /\ Len(c) = Len(s) + Len(a)
      /\ \A i \in 1..Len(c) : c[i] = IF i <= Len(s) THEN status[i] ELSE recovery[i - Len(s)]
  <2>1. /\ status \o recovery \in Seq(EventBodies)
        /\ Len(status \o recovery) = Len(status) + Len(recovery)
        /\ \A i \in 1..Len(status) + Len(recovery) :
             (status \o recovery)[i] =
               IF i <= Len(status) THEN status[i] ELSE recovery[i - Len(status)]
    BY <1>5, ConcatProperties
  <2> QED
    BY <1>1, <1>5, <2>1
<1>8. /\ \A i \in 1..Len(s) : i \in 1..Len(c) /\ c[i] = status[i]
      /\ \A i \in 1..Len(a) : Len(s) + i \in 1..Len(c) /\ c[Len(s) + i] = recovery[i]
      /\ \A i \in 1..Len(c) : \/ i \in 1..Len(s) /\ c[i] = status[i]
                              \/ \E j \in 1..Len(a) : i = Len(s) + j /\ c[i] = recovery[j]
  <2>1. \A i \in 1..Len(s) : i \in 1..Len(c) /\ c[i] = status[i]
    BY <1>2, <1>3, <1>7
  <2>2. \A i \in 1..Len(a) : Len(s) + i \in 1..Len(c) /\ c[Len(s) + i] = recovery[i]
    <3> SUFFICES ASSUME NEW i \in 1..Len(a)
                 PROVE  Len(s) + i \in 1..Len(c) /\ c[Len(s) + i] = recovery[i]
      OBVIOUS
    <3>1. Len(s) + i \in 1..Len(c) /\ ~(Len(s) + i <= Len(s)) /\ (Len(s) + i) - Len(s) = i
      BY <1>2, <1>3, <1>7
    <3> QED
      BY <1>7, <3>1
  <2>3. ASSUME NEW i \in 1..Len(c), i \notin 1..Len(s)
        PROVE  \E j \in 1..Len(a) : i = Len(s) + j /\ c[i] = recovery[j]
    <3>1. i - Len(s) \in 1..Len(a) /\ i = Len(s) + (i - Len(s)) /\ ~(i <= Len(s))
      BY <1>2, <1>3, <1>7, <2>3
    <3> QED
      BY <1>7, <3>1
  <2> QED
    BY <2>1, <2>2, <2>3
<1>9. \A i \in 1..Len(c) : TellsStatus(c[i], before, after) \/ TellsRecovery(c[i], before, after)
  BY <1>6, <1>8
<1>10. ASSUME NEW t \in StatusChanged(before, after)
       PROVE  \E i \in 1..Len(c) : c[i].kind = "STEP_STATUS_CHANGED" /\ c[i].step = t
  <2>1. PICK i \in 1..Len(s) : s[i] = t
    BY <1>2
  <2>2. i \in 1..Len(c) /\ c[i].kind = "STEP_STATUS_CHANGED" /\ c[i].step = t
    BY <1>6, <1>8, <2>1
  <2> QED
    BY <2>2
<1>11. ASSUME NEW t \in NewlyAuthorized(before, after)
       PROVE  \E i \in 1..Len(c) : c[i].kind = "RECOVERY_AUTHORIZED" /\ c[i].step = t
  <2>1. PICK i \in 1..Len(a) : a[i] = t
    BY <1>3
  <2>2. /\ Len(s) + i \in 1..Len(c)
        /\ c[Len(s) + i].kind = "RECOVERY_AUTHORIZED" /\ c[Len(s) + i].step = t
    BY <1>6, <1>8, <2>1
  <2> QED
    BY <2>2
<1>12. ASSUME NEW i \in 1..Len(c), NEW j \in 1..Len(c),
              c[i].kind = "STEP_STATUS_CHANGED", c[j].kind = "STEP_STATUS_CHANGED",
              c[i].step = c[j].step
       PROVE  i = j
  <2>1. i \in 1..Len(s) /\ j \in 1..Len(s) /\ c[i] = status[i] /\ c[j] = status[j]
    BY <1>6, <1>8, <1>12
  <2> QED
    BY <1>2, <1>6, <1>12, <2>1
<1> QED
  BY <1>7, <1>9, <1>10, <1>11, <1>12 DEF Tells, c

\* The events of a write as AppendWorkflowEvents numbers them.
Numbered(events, before, after) ==
    LET new == Changes(before, after)
    IN  [i \in 1..Len(new) |->
           [seq |-> LastSeq(events) + i, kind |-> new[i].kind,
            step |-> new[i].step, from |-> new[i].from, to |-> new[i].to]]

\* Numbering leaves what the events say as it is, and goes on from the last event.
LEMMA NumberedTells ==
    ASSUME NEW events \in Seq(Events), events # << >>,
           NEW before \in WorkflowRuns, NEW after \in WorkflowRuns
    PROVE  /\ Numbered(events, before, after) \in Seq(Events)
           /\ Tells(Numbered(events, before, after), before, after)
           /\ \A i \in 1..Len(Numbered(events, before, after)) :
                Numbered(events, before, after)[i].seq = events[Len(events)].seq + i
<1> DEFINE new == Changes(before, after)
           n == Numbered(events, before, after)
<1>1. new \in Seq(EventBodies) /\ Tells(new, before, after)
  BY ChangesTell
<1>2. LastSeq(events) = events[Len(events)].seq /\ LastSeq(events) \in Nat
  <2>1. events[Len(events)] \in Events
    BY ElementOfSeq, EmptySeq
  <2> QED
    BY <2>1 DEF LastSeq, Last, Events
<1> HIDE DEF new
<1>3. Len(new) \in Nat /\ \A i \in 1..Len(new) : new[i] \in EventBodies
  BY <1>1
<1>4. n = [i \in 1..Len(new) |->
             [seq |-> LastSeq(events) + i, kind |-> new[i].kind,
              step |-> new[i].step, from |-> new[i].from, to |-> new[i].to]]
  BY DEF Numbered, new
<1> HIDE DEF n
<1>5. \A i \in 1..Len(new) :
        /\ n[i] \in Events /\ n[i].seq = LastSeq(events) + i
        /\ n[i].kind = new[i].kind /\ n[i].step = new[i].step
        /\ n[i].from = new[i].from /\ n[i].to = new[i].to
  BY <1>2, <1>3, <1>4 DEF Events, EventBodies
<1>6. n \in Seq(Events) /\ Len(n) = Len(new)
  BY <1>3, <1>4, <1>5
<1>7. Tells(n, before, after)
  <2>1. \A i \in 1..Len(n) :
          /\ TellsStatus(n[i], before, after) <=> TellsStatus(new[i], before, after)
          /\ TellsRecovery(n[i], before, after) <=> TellsRecovery(new[i], before, after)
    BY <1>5, <1>6 DEF TellsStatus, TellsRecovery
  <2>2. ASSUME NEW s \in Steps, NEW kind,
               \E i \in 1..Len(new) : new[i].kind = kind /\ new[i].step = s
        PROVE  \E i \in 1..Len(n) : n[i].kind = kind /\ n[i].step = s
    BY <1>5, <1>6, <2>2
  <2>3. /\ StatusChanged(before, after) \subseteq Steps
        /\ NewlyAuthorized(before, after) \subseteq Steps
    BY DEF StatusChanged, NewlyAuthorized
  <2>4. \A i \in 1..Len(n) :
          TellsStatus(n[i], before, after) \/ TellsRecovery(n[i], before, after)
    BY <1>1, <1>6, <2>1 DEF Tells
  <2>5. /\ \A s \in StatusChanged(before, after) : \E i \in 1..Len(n) :
             n[i].kind = "STEP_STATUS_CHANGED" /\ n[i].step = s
        /\ \A s \in NewlyAuthorized(before, after) : \E i \in 1..Len(n) :
             n[i].kind = "RECOVERY_AUTHORIZED" /\ n[i].step = s
    BY <1>1, <2>2, <2>3 DEF Tells
  <2>6. \A i, j \in 1..Len(n) :
          /\ n[i].kind = "STEP_STATUS_CHANGED" /\ n[j].kind = "STEP_STATUS_CHANGED"
          /\ n[i].step = n[j].step
          => i = j
    BY <1>1, <1>5, <1>6 DEF Tells
  <2> QED
    BY <2>4, <2>5, <2>6 DEF Tells
<1> QED
  BY <1>2, <1>5, <1>6, <1>7 DEF n

----------------------------------------------------------------------------
(* An authorization is never withdrawn *)

\* A write made through a current copy, which takes no authorization away.
LEMMA SaveKeepsRecoveries ==
    ASSUME TypeOK, ClaimInv, NEW r \in Requests, req[r].pc # "idle",
           NEW run \in WorkflowRuns, Save(r, run),
           \A s \in Steps : run.recoveries[s] >= req[r].run.recoveries[s]
    PROVE  \A s \in Steps : RecoveryAuthorized(store, s) => RecoveryAuthorized(store', s)
<1>1. req[r].run = store
  BY DEF ClaimInv, CopiesAreFaithful, Save
<1>2. store'.recoveries = run.recoveries
  BY DEF Save, WorkflowRuns
<1>3. \A s \in Steps : store.recoveries[s] \in Nat /\ run.recoveries[s] \in Nat
  BY DEF TypeOK, WorkflowRuns
<1> QED
  BY <1>1, <1>2, <1>3 DEF RecoveryAuthorized

LEMMA RecoveriesStay ==
    TypeOK /\ ClaimInv /\ [Next]_vars =>
      \A s \in Steps : RecoveryAuthorized(store, s) => RecoveryAuthorized(store', s)
<1> DEFINE Kept == \A s \in Steps : RecoveryAuthorized(store, s) => RecoveryAuthorized(store', s)
           Saved(r, run) ==
             /\ req[r].pc # "idle" /\ run \in WorkflowRuns /\ Save(r, run)
             /\ run.recoveries = req[r].run.recoveries
<1> SUFFICES ASSUME TypeOK, ClaimInv, [Next]_vars PROVE Kept
  OBVIOUS
<1>1. ASSUME NEW r \in Requests, NEW run, Saved(r, run) PROVE Kept
  <2>1. \A s \in Steps : run.recoveries[s] \in Nat
    BY <1>1 DEF WorkflowRuns
  <2>2. \A s \in Steps : run.recoveries[s] >= req[r].run.recoveries[s]
    BY <1>1, <2>1
  <2> QED
    BY <1>1, <2>2, SaveKeepsRecoveries
<1>2. ASSUME NEW r \in Requests, Close(r) \/ Settle(r) PROVE Kept
  <2> DEFINE run == Branches(definition, req[r].run)
  <2>1. run \in WorkflowRuns /\ run.recoveries = req[r].run.recoveries
    BY HandlerType, DecidingEffect
  <2>2. Save(r, run) /\ req[r].pc # "idle"
    BY <1>2 DEF Close, Settle
  <2> HIDE DEF run
  <2> QED
    BY <1>1, <2>1, <2>2
<1>3. ASSUME NEW r \in Requests, FailStep(r) \/ Claim(r) \/ Rollback(r) \/ Attest(r) PROVE Kept
  <2>1. PICK st \in StepStatuses : Save(r, WithStatus(req[r].run, req[r].step, st))
    BY <1>3, HandlerType DEF FailStep, Claim, Rollback, Attest, StepStatuses, Outcomes
  <2>2. req[r].pc # "idle"
    BY <1>3 DEF FailStep, Claim, Rollback, Attest
  <2> DEFINE run == WithStatus(req[r].run, req[r].step, st)
  <2>3. run \in WorkflowRuns
    BY HandlerType, WithStatusType
  <2>4. run.recoveries = req[r].run.recoveries
    BY HandlerType DEF WithStatus, WorkflowRuns
  <2> HIDE DEF run
  <2>5. Saved(r, run)
    BY <2>1, <2>2, <2>3, <2>4 DEF run
  <2> QED
    BY <1>1, <2>5
<1>4. ASSUME NEW r \in Requests, AwaitApproval(r) PROVE Kept
  <2> DEFINE s == req[r].step
             waiting == WithStatus(req[r].run, s, "WAITING_APPROVAL")
             run == [waiting EXCEPT !.approvalId[s] = req[r].requested]
  <2>1. waiting \in WorkflowRuns /\ waiting.recoveries = req[r].run.recoveries
    <3>1. waiting \in WorkflowRuns
      BY HandlerType, WithStatusType DEF StepStatuses
    <3>2. waiting.recoveries = req[r].run.recoveries
      BY HandlerType DEF WithStatus, WorkflowRuns
    <3> QED
      BY <3>1, <3>2
  <2> HIDE DEF waiting
  <2>2. run \in WorkflowRuns /\ run.recoveries = waiting.recoveries
    BY <2>1, HandlerType DEF WorkflowRuns
  <2>3. Save(r, run) /\ req[r].pc # "idle"
    BY <1>4 DEF AwaitApproval, waiting
  <2> HIDE DEF run
  <2> QED
    BY <1>1, <2>1, <2>2, <2>3
<1>5. ASSUME NEW r \in Requests, NEW result \in Results, RecordResult(r, result) PROVE Kept
  <2> DEFINE run == Recorded(req[r].run, req[r].step, result)
  <2>1. run \in WorkflowRuns /\ run.recoveries = req[r].run.recoveries
    <3>1. CASE result = "timeout"
      BY <3>1, HandlerType DEF Recorded
    <3>2. CASE result = "failed"
      <4> DEFINE failed == WithStatus(req[r].run, req[r].step, "FAILED")
      <4>1. run = failed
        BY <3>2 DEF Recorded
      <4>2. failed \in WorkflowRuns
        BY HandlerType, WithStatusType DEF StepStatuses
      <4>3. failed.recoveries = req[r].run.recoveries
        BY HandlerType DEF WithStatus, WorkflowRuns
      <4> QED
        BY <4>1, <4>2, <4>3
    <3>3. CASE result \notin {"timeout", "failed"}
      <4> DEFINE completed == WithStatus(req[r].run, req[r].step, "COMPLETED")
      <4>1. run = [completed EXCEPT !.output[req[r].step] = result] /\ result \in Outputs
        BY <3>3 DEF Recorded, Completed, Results
      <4>2. completed \in WorkflowRuns
        BY HandlerType, WithStatusType DEF StepStatuses
      <4>3. completed.recoveries = req[r].run.recoveries
        BY HandlerType DEF WithStatus, WorkflowRuns
      <4> HIDE DEF completed, run
      <4> QED
        BY <4>1, <4>2, <4>3 DEF WorkflowRuns
    <3> QED
      BY <3>1, <3>2, <3>3
  <2>2. Save(r, run) /\ req[r].pc # "idle"
    BY <1>5 DEF RecordResult
  <2> HIDE DEF run
  <2> QED
    BY <1>1, <2>1, <2>2
<1>6. ASSUME NEW r \in Requests, AuthorizeRecovery(r) PROVE Kept
  <2> DEFINE s == req[r].step
             run == [req[r].run EXCEPT !.recoveries[s] = @ + 1]
  <2>1. /\ req[r].run \in WorkflowRuns /\ s \in Steps
        /\ req[r].run.recoveries[s] + 1 \in Nat
        /\ \A t \in Steps : req[r].run.recoveries[t] \in Nat
    BY HandlerType DEF WorkflowRuns
  <2>2. Save(r, run) /\ req[r].pc # "idle"
    BY <1>6 DEF AuthorizeRecovery
  <2>3. /\ run \in WorkflowRuns
        /\ \A t \in Steps : run.recoveries[t] >= req[r].run.recoveries[t]
    BY <2>1 DEF WorkflowRuns
  <2> HIDE DEF run
  <2> QED
    BY <2>2, <2>3, SaveKeepsRecoveries
<1>7. CASE UNCHANGED store
  BY <1>7
<1> QED
  BY <1>2, <1>3, <1>4, <1>5, <1>6, <1>7
     DEF Next, Proceed, Operate, Environment, LoseRace, ReadPermissions, RequestApproval,
         ConsumeApproval, Invoke, RecordAudit, AdvanceLoad, RecoveryLoad, ReconcileLoad,
         Crash, Redeploy, Approve, Refuse, ChangePermissions, Elapse, stored, vars

----------------------------------------------------------------------------
(* Timelines that explain a run *)

IsNumbered(u) ==
    /\ u \in Seq(Events) /\ u # << >> /\ u[1].seq >= 1
    /\ \A i \in 1..Len(u) : u[i].seq = u[1].seq + i - 1

IsAbout(u, s, i) == u[i].step = s /\ u[i].kind = "STEP_STATUS_CHANGED"

AboutIn(u, s) == {i \in 1..Len(u) : IsAbout(u, s, i)}

NextIn(u, s, i, j) == i < j /\ \A k \in AboutIn(u, s) : k <= i \/ j <= k

Chained(u, s) == \A i, j \in AboutIn(u, s) : NextIn(u, s, i, j) => u[j].from = u[i].to

EndsAsShown(u, run, s) ==
    \A i \in AboutIn(u, s) : (\A k \in AboutIn(u, s) : k <= i) => u[i].to = run.status[s]

Complete(u) == u[1].kind = "WORKFLOW_CREATED" /\ u[1].seq = 1

RecoveryIn(u, s) == \E i \in 1..Len(u) : u[i].step = s /\ u[i].kind = "RECOVERY_AUTHORIZED"

TellsAll(u, run, s) ==
    /\ AboutIn(u, s) = {} => run.status[s] = "PENDING"
    /\ \A i \in AboutIn(u, s) : (\A k \in AboutIn(u, s) : i <= k) => u[i].from = "PENDING"
    /\ RecoveryIn(u, s) <=> RecoveryAuthorized(run, s)

Explains(u, run) ==
    \A s \in Steps :
        Chained(u, s) /\ EndsAsShown(u, run, s) /\ (Complete(u) => TellsAll(u, run, s))

\* A timeline and the events of a write: positions up to Len(u) are those of u.
LEMMA JoinedTimeline ==
    ASSUME NEW u \in Seq(Events), NEW new \in Seq(Events)
    PROVE  /\ u \o new \in Seq(Events) /\ Len(u \o new) = Len(u) + Len(new)
           /\ Len(u) \in Nat /\ Len(new) \in Nat
           /\ \A i \in 1..Len(u) : i \in 1..Len(u \o new) /\ (u \o new)[i] = u[i]
           /\ \A i \in 1..Len(new) : /\ Len(u) + i \in 1..Len(u \o new)
                                     /\ (u \o new)[Len(u) + i] = new[i]
           /\ \A i \in 1..Len(u \o new) :
                i \in 1..Len(u) \/ \E j \in 1..Len(new) : i = Len(u) + j
<1>1. Len(u) \in Nat /\ Len(new) \in Nat
  OBVIOUS
<1> DEFINE v == u \o new
<1>2. /\ v \in Seq(Events) /\ Len(v) = Len(u) + Len(new)
      /\ \A i \in 1..Len(u) + Len(new) : v[i] = IF i <= Len(u) THEN u[i] ELSE new[i - Len(u)]
  BY ConcatProperties
<1> HIDE DEF v
<1>3. \A i \in 1..Len(u) : i \in 1..Len(v) /\ v[i] = u[i]
  BY <1>1, <1>2
<1>4. ASSUME NEW i \in 1..Len(new) PROVE Len(u) + i \in 1..Len(v) /\ v[Len(u) + i] = new[i]
  <2>1. Len(u) + i \in 1..Len(v) /\ ~(Len(u) + i <= Len(u)) /\ (Len(u) + i) - Len(u) = i
    BY <1>1, <1>2
  <2> QED
    BY <1>2, <2>1
<1>5. ASSUME NEW i \in 1..Len(v), i \notin 1..Len(u)
      PROVE  \E j \in 1..Len(new) : i = Len(u) + j
  <2>1. i - Len(u) \in 1..Len(new) /\ i = Len(u) + (i - Len(u))
    BY <1>1, <1>2, <1>5
  <2> QED
    BY <2>1
<1> QED
  BY <1>1, <1>2, <1>3, <1>4, <1>5 DEF v

\* Numbers stay consecutive when the events of a write are added.
LEMMA JoinedIsNumbered ==
    ASSUME NEW u, IsNumbered(u), NEW new \in Seq(Events),
           \A i \in 1..Len(new) : new[i].seq = u[Len(u)].seq + i
    PROVE  IsNumbered(u \o new)
<1> DEFINE v == u \o new
<1>1. u \in Seq(Events) /\ Len(u) \in Nat \ {0}
  BY EmptySeq DEF IsNumbered
<1>2. /\ v \in Seq(Events) /\ Len(v) = Len(u) + Len(new) /\ Len(new) \in Nat
      /\ \A i \in 1..Len(u) : v[i] = u[i]
      /\ \A i \in 1..Len(new) : v[Len(u) + i] = new[i]
      /\ \A i \in 1..Len(v) : i \in 1..Len(u) \/ \E j \in 1..Len(new) : i = Len(u) + j
  BY <1>1, JoinedTimeline
<1> HIDE DEF v
<1>3. v[1] = u[1] /\ u[1].seq \in Nat /\ u[1].seq >= 1 /\ v # << >>
  <2>1. 1 \in 1..Len(u) /\ Len(v) # 0
    BY <1>1, <1>2
  <2>2. u[1] \in Events
    BY <1>1, <2>1, ElementOfSeq
  <2> QED
    BY <1>2, <2>1, <2>2 DEF IsNumbered, Events
<1>4. u[Len(u)].seq = u[1].seq + Len(u) - 1
  BY <1>1 DEF IsNumbered
<1>5. ASSUME NEW i \in 1..Len(v) PROVE v[i].seq = v[1].seq + i - 1
  <2>1. CASE i \in 1..Len(u)
    BY <1>2, <1>3, <2>1 DEF IsNumbered
  <2>2. CASE \E j \in 1..Len(new) : i = Len(u) + j
    <3>1. PICK j \in 1..Len(new) : i = Len(u) + j
      BY <2>2
    <3>2. v[i].seq = u[1].seq + Len(u) - 1 + j
      BY <1>2, <1>4, <3>1
    <3>3. j \in Nat /\ v[1].seq = u[1].seq /\ u[1].seq \in Nat /\ Len(u) \in Nat
      BY <1>1, <1>2, <1>3
    <3> QED
      BY <3>1, <3>2, <3>3
  <2> QED
    BY <1>2, <2>1, <2>2
<1> QED
  BY <1>2, <1>3, <1>5 DEF IsNumbered, v

\* The events of a write continue the explanation.
LEMMA WriteIsExplained ==
    ASSUME NEW before \in WorkflowRuns, NEW after \in WorkflowRuns,
           NEW u, IsNumbered(u), Explains(u, before),
           NEW new \in Seq(Events), Tells(new, before, after),
           \A s \in Steps : RecoveryAuthorized(before, s) => RecoveryAuthorized(after, s)
    PROVE  Explains(u \o new, after)
<1> DEFINE v == u \o new
           L == Len(u)
<1>1. u \in Seq(Events) /\ L \in Nat /\ 1 \in 1..L
  BY EmptySeq DEF IsNumbered
<1>2. /\ Len(v) \in Nat /\ Len(new) \in Nat
      /\ \A i \in 1..L : i \in 1..Len(v) /\ v[i] = u[i]
      /\ \A i \in 1..Len(new) : L + i \in 1..Len(v) /\ v[L + i] = new[i]
      /\ \A i \in 1..Len(v) : i \in 1..L \/ \E j \in 1..Len(new) : i = L + j
  BY <1>1, JoinedTimeline
<1> HIDE DEF v, L
<1> SUFFICES ASSUME NEW s \in Steps
             PROVE  /\ Chained(v, s) /\ EndsAsShown(v, after, s)
                    /\ Complete(v) => TellsAll(v, after, s)
  BY DEF Explains, v
<1> DEFINE old == AboutIn(u, s)
           all == AboutIn(v, s)
<1>3. /\ Chained(u, s) /\ EndsAsShown(u, before, s)
      /\ Complete(u) => TellsAll(u, before, s)
  BY DEF Explains
<1>4. /\ old \subseteq 1..L /\ old \subseteq all /\ all \subseteq Nat
      /\ \A i \in all : i \in 1..L => i \in old
  BY <1>1, <1>2 DEF AboutIn, IsAbout, L
<1>5. ASSUME NEW i \in all, i \notin old
      PROVE  /\ i > L /\ s \in StatusChanged(before, after)
             /\ v[i].from = before.status[s] /\ v[i].to = after.status[s]
             /\ \E j \in 1..Len(new) : i = L + j /\ IsAbout(new, s, j)
  <2>1. i \in 1..Len(v) /\ IsAbout(v, s, i) /\ i \notin 1..L
    BY <1>4, <1>5 DEF AboutIn
  <2>2. PICK j \in 1..Len(new) : i = L + j
    BY <1>2, <2>1
  <2>3. v[i] = new[j] /\ IsAbout(new, s, j)
    BY <1>2, <2>1, <2>2 DEF IsAbout
  <2>4. TellsStatus(new[j], before, after)
    BY <2>3 DEF Tells, TellsRecovery, IsAbout
  <2>5. i > L
    BY <1>1, <1>2, <2>2
  <2> QED
    BY <2>2, <2>3, <2>4, <2>5 DEF TellsStatus, IsAbout
<1>6. ASSUME NEW i \in all, NEW j \in all, i \notin old, j \notin old PROVE i = j
  <2>1. PICK m \in 1..Len(new) : i = L + m /\ IsAbout(new, s, m)
    BY <1>5, <1>6
  <2>2. PICK n \in 1..Len(new) : j = L + n /\ IsAbout(new, s, n)
    BY <1>5, <1>6
  <2>3. m = n
    BY <2>1, <2>2 DEF Tells, IsAbout
  <2> QED
    BY <2>1, <2>2, <2>3
<1>7. s \in StatusChanged(before, after) => \E i \in all : i \notin old
  <2> SUFFICES ASSUME s \in StatusChanged(before, after) PROVE \E i \in all : i \notin old
    OBVIOUS
  <2>1. PICK j \in 1..Len(new) : new[j].kind = "STEP_STATUS_CHANGED" /\ new[j].step = s
    BY DEF Tells
  <2>2. L + j \in 1..Len(v) /\ v[L + j] = new[j] /\ L + j \notin 1..L
    BY <1>1, <1>2
  <2>3. L + j \in all
    BY <2>1, <2>2 DEF AboutIn, IsAbout
  <2> QED
    BY <1>4, <2>2, <2>3
<1>8. s \notin StatusChanged(before, after) => after.status[s] = before.status[s]
  BY DEF StatusChanged
<1> HIDE DEF old, all
<1>9. Chained(v, s)
  <2> SUFFICES ASSUME NEW i \in all, NEW j \in all, i < j, \A k \in all : k <= i \/ j <= k
               PROVE  v[j].from = v[i].to
    BY DEF Chained, NextIn, all
  <2>1. CASE j \in old
    <3>1. i \in old
      <4>1. i \in Nat /\ i < j /\ j <= L /\ j \in Nat
        BY <1>1, <1>4, <2>1
      <4> QED
        BY <1>1, <1>4, <1>5, <4>1
    <3>2. NextIn(u, s, i, j)
      BY <1>4 DEF NextIn, old
    <3>3. u[j].from = u[i].to
      BY <1>3, <2>1, <3>1, <3>2 DEF Chained, old
    <3> QED
      BY <1>2, <1>4, <2>1, <3>1, <3>3
  <2>2. CASE j \notin old
    <3>1. i \in old
      BY <1>4, <1>6, <2>2
    <3>2. j > L /\ v[j].from = before.status[s]
      BY <1>5, <2>2
    <3>3. ASSUME NEW k \in old PROVE k <= i
      <4>1. k \in all /\ k \in Nat /\ j \in Nat /\ k <= L
        BY <1>1, <1>4
      <4>2. ~(j <= k)
        BY <1>1, <3>2, <4>1
      <4> QED
        BY <4>1, <4>2
    <3>4. u[i].to = before.status[s]
      BY <1>3, <3>1, <3>3 DEF EndsAsShown, old
    <3> QED
      BY <1>2, <1>4, <3>1, <3>2, <3>4
  <2> QED
    BY <2>1, <2>2
<1>10. EndsAsShown(v, after, s)
  <2> SUFFICES ASSUME NEW i \in all, \A k \in all : k <= i
               PROVE  v[i].to = after.status[s]
    BY DEF EndsAsShown, all
  <2>1. CASE i \notin old
    BY <1>5, <2>1
  <2>2. CASE i \in old
    <3>1. s \notin StatusChanged(before, after)
      <4> SUFFICES ASSUME s \in StatusChanged(before, after) PROVE FALSE
        OBVIOUS
      <4>1. PICK k \in all : k \notin old
        BY <1>7
      <4>2. k > L /\ k <= i /\ i <= L /\ k \in Nat /\ i \in Nat
        BY <1>1, <1>4, <1>5, <2>2, <4>1
      <4> QED
        BY <1>1, <4>2
    <3>2. u[i].to = before.status[s]
      BY <1>3, <1>4, <2>2 DEF EndsAsShown, old
    <3> QED
      BY <1>2, <1>4, <1>8, <2>2, <3>1, <3>2
  <2> QED
    BY <2>1, <2>2
<1>11. ASSUME Complete(v) PROVE TellsAll(v, after, s)
  <2>1. TellsAll(u, before, s)
    BY <1>1, <1>2, <1>3, <1>11 DEF Complete
  <2>2. ASSUME all = {} PROVE after.status[s] = "PENDING"
    BY <1>4, <1>7, <1>8, <2>1, <2>2 DEF TellsAll, old
  <2>3. ASSUME NEW i \in all, \A k \in all : i <= k PROVE v[i].from = "PENDING"
    <3>1. CASE i \in old
      <4>1. u[i].from = "PENDING"
        BY <1>4, <2>1, <2>3, <3>1 DEF TellsAll, old
      <4> QED
        BY <1>2, <1>4, <3>1, <4>1
    <3>2. CASE i \notin old
      <4>1. old = {}
        <5> SUFFICES ASSUME NEW k \in old PROVE FALSE
          OBVIOUS
        <5>1. i <= k /\ k <= L /\ i > L /\ i \in Nat /\ k \in Nat
          BY <1>1, <1>4, <1>5, <2>3, <3>2
        <5> QED
          BY <1>1, <5>1
      <4> QED
        BY <1>5, <2>1, <3>2, <4>1 DEF TellsAll, old
    <3> QED
      BY <3>1, <3>2
  <2>4. RecoveryIn(v, s) <=> RecoveryAuthorized(after, s)
    <3>1. RecoveryIn(u, s) => RecoveryIn(v, s)
      BY <1>2 DEF RecoveryIn, L
    <3>2. s \in NewlyAuthorized(before, after) => RecoveryIn(v, s)
      <4> SUFFICES ASSUME s \in NewlyAuthorized(before, after) PROVE RecoveryIn(v, s)
        OBVIOUS
      <4>1. PICK j \in 1..Len(new) : new[j].kind = "RECOVERY_AUTHORIZED" /\ new[j].step = s
        BY DEF Tells
      <4> QED
        BY <1>2, <4>1 DEF RecoveryIn
    <3>3. RecoveryIn(v, s) => RecoveryIn(u, s) \/ s \in NewlyAuthorized(before, after)
      <4> SUFFICES ASSUME NEW i \in 1..Len(v), v[i].step = s, v[i].kind = "RECOVERY_AUTHORIZED"
                   PROVE  RecoveryIn(u, s) \/ s \in NewlyAuthorized(before, after)
        BY DEF RecoveryIn
      <4>1. CASE i \in 1..L
        BY <1>2, <4>1 DEF RecoveryIn, L
      <4>2. CASE \E j \in 1..Len(new) : i = L + j
        <5>1. PICK j \in 1..Len(new) : i = L + j
          BY <4>2
        <5>2. new[j].step = s /\ new[j].kind = "RECOVERY_AUTHORIZED"
          BY <1>2, <5>1
        <5> QED
          BY <5>2 DEF Tells, TellsStatus, TellsRecovery
      <4> QED
        BY <1>2, <4>1, <4>2
    <3>4. RecoveryAuthorized(after, s) <=>
            RecoveryAuthorized(before, s) \/ s \in NewlyAuthorized(before, after)
      BY DEF NewlyAuthorized
    <3> QED
      BY <2>1, <3>1, <3>2, <3>3, <3>4 DEF TellsAll
  <2> QED
    BY <2>2, <2>3, <2>4 DEF TellsAll, all
<1> QED
  BY <1>9, <1>10, <1>11

\* What is left of a timeline after the oldest events were dropped explains the run too,
\* and shows that it is not complete.
LEMMA WindowExplains ==
    ASSUME NEW u, IsNumbered(u), NEW n \in 1..Len(u)
    PROVE  /\ IsNumbered(Newest(u, n)) /\ Len(Newest(u, n)) = n
           /\ \A i \in 1..n : Newest(u, n)[i] = u[Len(u) - n + i]
           /\ n < Len(u) => \A run : Explains(u, run) => Explains(Newest(u, n), run)
<1> DEFINE w == Newest(u, n)
           d == Len(u) - n
<1>1. u \in Seq(Events) /\ Len(u) \in Nat /\ n \in Nat /\ d \in Nat /\ d + n = Len(u)
  BY DEF IsNumbered
<1>2. w \in Seq(Events) /\ Len(w) = n /\ \A i \in 1..n : w[i] = u[d + i]
  <2>1. Len(u) - n + 1 \in Int /\ \A i \in (Len(u) - n + 1)..Len(u) : u[i] \in Events
    BY <1>1
  <2>2. /\ w \in Seq(Events)
        /\ Len(w) = IF Len(u) - n + 1 <= Len(u) THEN Len(u) - (Len(u) - n + 1) + 1 ELSE 0
        /\ \A i \in 1..Len(u) - (Len(u) - n + 1) + 1 : w[i] = u[(Len(u) - n + 1) + i - 1]
    BY <1>1, <2>1, SubSeqProperties DEF Newest
  <2>3. /\ Len(u) - n + 1 <= Len(u) /\ Len(u) - (Len(u) - n + 1) + 1 = n
        /\ \A i \in 1..n : (Len(u) - n + 1) + i - 1 = d + i
    BY <1>1
  <2> HIDE DEF w, d
  <2> QED
    BY <2>2, <2>3
<1> HIDE DEF w, d
<1>3. \A i \in 1..n : d + i \in 1..Len(u)
  BY <1>1
<1>4. u[1].seq \in Nat /\ u[1].seq >= 1
  <2>1. 1 \in 1..Len(u)
    BY <1>1
  <2>2. u[1] \in Events
    BY <1>1, <2>1, ElementOfSeq
  <2> QED
    BY <2>2 DEF IsNumbered, Events
<1>5. \A i \in 1..n : w[i].seq = u[1].seq + (d + i) - 1
  BY <1>2, <1>3 DEF IsNumbered
<1>6. 1 \in 1..n /\ w[1].seq = u[1].seq + (d + 1) - 1
  BY <1>1, <1>5
<1>7. IsNumbered(w)
  <2>1. w # << >> /\ w[1].seq >= 1
    BY <1>1, <1>2, <1>4, <1>6
  <2>2. \A i \in 1..Len(w) : w[i].seq = w[1].seq + i - 1
    BY <1>1, <1>2, <1>4, <1>5, <1>6
  <2> QED
    BY <1>2, <2>1, <2>2 DEF IsNumbered
<1>8. ASSUME n < Len(u), NEW run, Explains(u, run), NEW s \in Steps
      PROVE  Chained(w, s) /\ EndsAsShown(w, run, s) /\ ~Complete(w)
  <2>1. ~Complete(w)
    BY <1>1, <1>4, <1>6, <1>8 DEF Complete
  <2> DEFINE all == AboutIn(u, s)
             left == AboutIn(w, s)
  <2>2. /\ left \subseteq 1..n /\ all \subseteq 1..Len(u)
        /\ \A i \in left : d + i \in all
        /\ \A k \in all : k > d => k - d \in left
    <3>1. ASSUME NEW k \in all, k > d PROVE k - d \in left
      <4>1. k - d \in 1..n /\ d + (k - d) = k
        BY <1>1, <3>1 DEF AboutIn
      <4> QED
        BY <1>2, <4>1 DEF AboutIn, IsAbout
    <3>2. ASSUME NEW i \in left PROVE d + i \in all
      BY <1>2, <1>3 DEF AboutIn, IsAbout
    <3>3. left \subseteq 1..n /\ all \subseteq 1..Len(u)
      BY <1>2 DEF AboutIn
    <3> QED
      BY <3>1, <3>2, <3>3
  <2>3. Chained(u, s) /\ EndsAsShown(u, run, s)
    BY <1>8 DEF Explains
  <2> HIDE DEF all, left
  <2>4. Chained(w, s)
    <3> SUFFICES ASSUME NEW i \in left, NEW j \in left, i < j, \A k \in left : k <= i \/ j <= k
                 PROVE  w[j].from = w[i].to
      BY DEF Chained, NextIn, left
    <3>1. d + i \in all /\ d + j \in all /\ i \in 1..n /\ j \in 1..n /\ d + i < d + j
      BY <1>1, <2>2
    <3>2. ASSUME NEW k \in all PROVE k <= d + i \/ d + j <= k
      <4>1. CASE k <= d
        BY <1>1, <2>2, <3>1, <4>1
      <4>2. CASE k > d
        <5>1. k - d \in left
          BY <2>2, <4>2
        <5>2. k - d <= i \/ j <= k - d
          BY <5>1
        <5> QED
          BY <1>1, <2>2, <3>1, <5>2
      <4> QED
        BY <1>1, <2>2, <4>1, <4>2
    <3>3. NextIn(u, s, d + i, d + j)
      BY <3>1, <3>2 DEF NextIn, all
    <3>4. u[d + j].from = u[d + i].to
      BY <2>3, <3>1, <3>3 DEF Chained, all
    <3> QED
      BY <1>2, <3>1, <3>4
  <2>5. EndsAsShown(w, run, s)
    <3> SUFFICES ASSUME NEW i \in left, \A k \in left : k <= i PROVE w[i].to = run.status[s]
      BY DEF EndsAsShown, left
    <3>1. d + i \in all /\ i \in 1..n
      BY <2>2
    <3>2. ASSUME NEW k \in all PROVE k <= d + i
      <4>1. CASE k <= d
        BY <1>1, <2>2, <3>1, <4>1
      <4>2. CASE k > d
        <5>1. k - d \in left
          BY <2>2, <4>2
        <5>2. k - d <= i
          BY <5>1
        <5> QED
          BY <1>1, <2>2, <3>1, <5>2
      <4> QED
        BY <1>1, <2>2, <4>1, <4>2
    <3>3. u[d + i].to = run.status[s]
      BY <2>3, <3>1, <3>2 DEF EndsAsShown, all
    <3> QED
      BY <1>2, <3>1, <3>3
  <2> QED
    BY <2>1, <2>4, <2>5
<1>9. \A i \in 1..n : w[i] = u[Len(u) - n + i]
  BY <1>2 DEF d
<1>10. n < Len(u) => \A run : Explains(u, run) => Explains(w, run)
  BY <1>8 DEF Explains
<1> QED
  BY <1>2, <1>7, <1>9, <1>10 DEF w

----------------------------------------------------------------------------
(* The timeline of every run *)

TimelineInv == IsNumbered(timeline) /\ Explains(timeline, store)

LEMMA TimelineStarts == TimelineInit => TimelineInv
<1> SUFFICES ASSUME TimelineInit PROVE TimelineInv
  OBVIOUS
<1>1. timeline = <<Created>> /\ store = NewRun
  BY DEF TimelineInit, Init
<1>2. Created \in Events /\ Created.seq = 1 /\ Created.kind = "WORKFLOW_CREATED"
  BY DEF Created, Events, EventKinds
<1>3. IsNumbered(timeline)
  BY <1>1, <1>2 DEF IsNumbered
<1>4. \A s \in Steps : AboutIn(timeline, s) = {} /\ ~RecoveryIn(timeline, s)
  BY <1>1, <1>2 DEF AboutIn, IsAbout, RecoveryIn
<1>5. \A s \in Steps : store.status[s] = "PENDING" /\ ~RecoveryAuthorized(store, s)
  BY <1>1 DEF NewRun, RecoveryAuthorized
<1>6. Explains(timeline, store)
  BY <1>4, <1>5 DEF Explains, Chained, EndsAsShown, TellsAll
<1> QED
  BY <1>3, <1>6 DEF TimelineInv

\* Every step of the engine adds events that explain what it changed, and keeps a window.
LEMMA TimelineContinues ==
    TypeOK /\ TypeOK' /\ ClaimInv /\ TimelineInv /\ [TimelineNext]_timelineVars => TimelineInv'
<1> SUFFICES ASSUME TypeOK, TypeOK', ClaimInv, TimelineInv, [TimelineNext]_timelineVars
             PROVE  TimelineInv'
  OBVIOUS
<1>1. CASE UNCHANGED timelineVars
  <2>1. timeline' = timeline /\ store' = store
    BY <1>1 DEF timelineVars, vars, stored
  <2>2. IsNumbered(timeline') /\ Explains(timeline', store')
    BY <2>1 DEF TimelineInv
  <2> QED
    BY <2>2 DEF TimelineInv
<1>2. CASE TimelineNext
  <2>1. \A s \in Steps : RecoveryAuthorized(store, s) => RecoveryAuthorized(store', s)
    BY <1>2, RecoveriesStay DEF TimelineNext
  <2>2. PICK after \in WorkflowRuns : after = store'
    BY DEF TypeOK
  <2>3. /\ store \in WorkflowRuns /\ IsNumbered(timeline) /\ Explains(timeline, store)
        /\ timeline \in Seq(Events) /\ timeline # << >>
    BY DEF TypeOK, TimelineInv, IsNumbered
  <2> DEFINE new == Numbered(timeline, store, after)
             u == timeline \o new
  <2>4. timeline' = Window(u)
    BY <1>2, <2>2 DEF TimelineNext, AppendWorkflowEvents, Numbered
  <2>5. /\ new \in Seq(Events) /\ Tells(new, store, after)
        /\ \A i \in 1..Len(new) : new[i].seq = timeline[Len(timeline)].seq + i
    BY <2>3, NumberedTells
  <2> HIDE DEF new
  <2>6. IsNumbered(u)
    BY <2>3, <2>5, JoinedIsNumbered
  <2>7. Explains(u, after)
    BY <2>1, <2>2, <2>3, <2>5, WriteIsExplained
  <2> HIDE DEF u
  <2>8. CASE Len(u) <= MaxStoredEvents
    <3>1. timeline' = u
      BY <2>4, <2>8 DEF Window
    <3>2. IsNumbered(timeline') /\ Explains(timeline', store')
      BY <2>2, <2>6, <2>7, <3>1
    <3> QED
      BY <3>2 DEF TimelineInv
  <2>9. CASE ~(Len(u) <= MaxStoredEvents)
    <3>1. timeline' = Newest(u, MaxStoredEvents)
      BY <2>4, <2>9 DEF Window
    <3>2. MaxStoredEvents \in 1..Len(u) /\ MaxStoredEvents < Len(u)
      <4>1. Len(u) \in Nat
        BY <2>6 DEF IsNumbered
      <4> QED
        BY <2>9, <4>1, MaxStoredEventsAssumption
    <3>3. /\ IsNumbered(Newest(u, MaxStoredEvents))
          /\ Explains(Newest(u, MaxStoredEvents), after)
      BY <2>6, <2>7, <3>2, WindowExplains
    <3>4. IsNumbered(timeline') /\ Explains(timeline', store')
      BY <2>2, <3>1, <3>3
    <3> QED
      BY <3>4 DEF TimelineInv
  <2> QED
    BY <2>8, <2>9
<1> QED
  BY <1>1, <1>2

\* The timeline adds a variable to the engine and nothing else.
LEMMA TimelineIsEngine == TimelineSpec => Spec
<1>1. TimelineInit => Init
  BY DEF TimelineInit
<1>2. [TimelineNext]_timelineVars => [Next]_vars
  BY DEF TimelineNext, timelineVars
<1> QED
  BY <1>1, <1>2, PTL DEF TimelineSpec, Spec

LEMMA TimelineAlways == TimelineSpec => []TimelineInv
<1>1. TypeOK /\ TypeOK' /\ ClaimInv /\ TimelineInv /\ [TimelineNext]_timelineVars => TimelineInv'
  BY TimelineContinues
<1> QED
  BY <1>1, TimelineStarts, TimelineIsEngine, TypeCorrect, Claims, PTL DEF TimelineSpec

\* However many events were dropped, the numbers of those that are shown are consecutive,
\* up to the newest: a gap is at the oldest end only.
THEOREM TimelinesAreNumbered == TimelineSpec => []TimelineIsNumbered
<1>1. TimelineInv => TimelineIsNumbered
  <2> SUFFICES ASSUME IsNumbered(timeline), NEW limit \in 1..MaxStoredEvents
               PROVE  /\ Shown(limit)[1] = Last(timeline)
                      /\ \A i \in 2..Len(Shown(limit)) :
                           Shown(limit)[i].seq = Shown(limit)[i - 1].seq - 1
    BY DEF TimelineInv, TimelineIsNumbered
  <2> DEFINE shown == IF Len(timeline) <= limit THEN timeline ELSE Newest(timeline, limit)
  <2>1. timeline \in Seq(Events) /\ Len(timeline) \in Nat \ {0} /\ limit \in Nat
    BY EmptySeq, MaxStoredEventsAssumption DEF IsNumbered
  <2>2. /\ IsNumbered(shown)
        /\ shown[Len(shown)] = timeline[Len(timeline)]
    <3>1. CASE Len(timeline) <= limit
      BY <3>1
    <3>2. CASE ~(Len(timeline) <= limit)
      <4>1. limit \in 1..Len(timeline) /\ limit \in 1..limit
        BY <2>1, <3>2
      <4>2. /\ IsNumbered(Newest(timeline, limit)) /\ Len(Newest(timeline, limit)) = limit
            /\ Newest(timeline, limit)[limit] = timeline[Len(timeline) - limit + limit]
        BY <4>1, WindowExplains
      <4>3. Len(timeline) - limit + limit = Len(timeline)
        BY <2>1
      <4> QED
        BY <3>2, <4>2, <4>3
    <3> QED
      BY <3>1, <3>2
  <2>3. Shown(limit) = Reverse(shown)
    BY DEF Shown
  <2> HIDE DEF shown
  <2>4. /\ shown \in Seq(Events) /\ Len(shown) \in Nat \ {0}
        /\ \A i \in 1..Len(shown) : shown[i].seq = shown[1].seq + i - 1
    BY <2>2, EmptySeq DEF IsNumbered
  <2>5. shown[1].seq \in Nat
    <3>1. shown[1] \in Events
      BY <2>4, ElementOfSeq
    <3> QED
      BY <3>1 DEF Events
  <2>6. /\ Len(Shown(limit)) = Len(shown)
        /\ \A i \in 1..Len(shown) : Shown(limit)[i] = shown[(Len(shown) - i) + 1]
    BY <2>3, <2>4 DEF Reverse
  <2>7. Shown(limit)[1] = Last(timeline)
    <3>1. 1 \in 1..Len(shown) /\ (Len(shown) - 1) + 1 = Len(shown)
      BY <2>4
    <3> QED
      BY <2>2, <2>6, <3>1 DEF Last
  <2>8. ASSUME NEW i \in 2..Len(shown)
        PROVE  Shown(limit)[i].seq = Shown(limit)[i - 1].seq - 1
    <3> DEFINE m == (Len(shown) - i) + 1
    <3>1. /\ i \in 1..Len(shown) /\ i - 1 \in 1..Len(shown)
          /\ m \in 1..Len(shown) /\ m + 1 \in 1..Len(shown)
          /\ (Len(shown) - (i - 1)) + 1 = m + 1
      BY <2>4
    <3>2. Shown(limit)[i] = shown[m] /\ Shown(limit)[i - 1] = shown[m + 1]
      BY <2>6, <3>1
    <3> HIDE DEF m
    <3>3. shown[m].seq = shown[1].seq + m - 1 /\ shown[m + 1].seq = shown[1].seq + (m + 1) - 1
      BY <2>4, <3>1
    <3> QED
      BY <2>5, <3>1, <3>2, <3>3
  <2> QED
    BY <2>6, <2>7, <2>8
<1> QED
  BY <1>1, TimelineAlways, PTL

\* The events that are kept tell how the run came to be what the store shows.
THEOREM TimelinesExplainRuns == TimelineSpec => []TimelineExplainsRun
<1>1. TimelineInv => TimelineExplainsRun
  <2> SUFFICES ASSUME TimelineInv, NEW s \in Steps
               PROVE  /\ \A i, j \in About(s) : NextAbout(s, i, j) => timeline[j].from = timeline[i].to
                      /\ \A i \in About(s) : (\A k \in About(s) : k <= i) => timeline[i].to = store.status[s]
                      /\ HistoryComplete =>
                           /\ About(s) = {} => store.status[s] = "PENDING"
                           /\ \A i \in About(s) : (\A k \in About(s) : i <= k) => timeline[i].from = "PENDING"
                           /\ (\E i \in 1..Len(timeline) :
                                 timeline[i].step = s /\ timeline[i].kind = "RECOVERY_AUTHORIZED")
                              <=> RecoveryAuthorized(store, s)
    BY DEF TimelineExplainsRun
  <2>1. About(s) = AboutIn(timeline, s)
    BY DEF About, AboutIn, IsAbout
  <2>2. \A i, j : NextAbout(s, i, j) <=> NextIn(timeline, s, i, j)
    BY <2>1 DEF NextAbout, NextIn
  <2>3. HistoryComplete <=> Complete(timeline)
    BY DEF HistoryComplete, Complete
  <2>4. /\ Chained(timeline, s) /\ EndsAsShown(timeline, store, s)
        /\ Complete(timeline) => TellsAll(timeline, store, s)
    BY DEF TimelineInv, Explains
  <2> QED
    BY <2>1, <2>2, <2>3, <2>4 DEF Chained, EndsAsShown, TellsAll, RecoveryIn
<1> QED
  BY <1>1, TimelineAlways, PTL

\* What the diagnosis tells the operator to do can be done, in every state of every run:
\* authorize, advance, or decide on an approval that, unless it was rejected or has
\* expired, is still to be decided or opens the step that waits for it.
THEOREM AdviceCanAlwaysBeFollowed == TimelineSpec => []AdviceCanBeFollowed
<1>1. TypeOK /\ OrderInv /\ definition \in Definitions /\ ApprovalInv /\ WaitingIsRequested
        => AdviceCanBeFollowed
  BY AdviceWorks
<1> QED
  BY <1>1, TimelineIsEngine, TypeCorrect, OrderAlways, Holdings, WaitingAlways, PTL
=============================================================================
