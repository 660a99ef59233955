-------------------------- MODULE WorkflowBranches --------------------------
(***************************************************************************)
(* evaluateWorkflowBranches (src/src/workflows/conditions.ts): the         *)
(* automatic decisions - SKIPPED, or FAILED when a condition cannot be     *)
(* evaluated - that `settle` saves with one compare-and-swap, and          *)
(* resolveStepInput (bindings.ts), which reads outputs the same way.       *)
(***************************************************************************)
EXTENDS WorkflowGraph

\* readStepOutput throws unless the step completed with the value asked for.
Readable(run, s) == run.status[s] = "COMPLETED" /\ run.output[s] \in Answers

\* resolveStepInput succeeds: every output the step's input refers to is there.
InputResolves(d, run, s) == \A p \in d.reads[s] : Readable(run, p)

\* Some branch is still ambiguous, or a failure awaits the operator: no decision is taken.
BranchesUndecidable(d, run) ==
    \/ InStatus(run, "RUNNING") # {}
    \/ \E s \in InStatus(run, "FAILED") :
           FailedStepHandlers(d, s) = {} \/ ~RecoveryAuthorized(run, s)

Fault_IdleHandlersStay(d, run, s) ==
    LET parents == d.dependsOn[s]
        skipped == parents \cap InStatus(run, "SKIPPED")
    IN  \/ parents \cap InStatus(run, "FAILED") # {} /\ ~IsHandler(d, s)
        \/ skipped # {} /\ (d.dependsMode[s] = "all" \/ IsHandler(d, s))
        \/ d.dependsMode[s] = "settled" /\ parents # {} /\ skipped = parents

\* The rules that make a step unreachable, whatever its condition says.
Unreachable(d, run, s) ==
    LET parents == d.dependsOn[s]
        failed == parents \cap InStatus(run, "FAILED")
        skipped == parents \cap InStatus(run, "SKIPPED")
        source == d.onFailureOf[s]
    IN  \/ IsHandler(d, s) /\ run.status[source] \in {"COMPLETED", "SKIPPED"}
        \/ failed # {} /\ (~IsHandler(d, s) \/ failed # {source})
        \/ skipped # {} /\ (d.dependsMode[s] = "all" \/ IsHandler(d, s))
        \/ d.dependsMode[s] = "settled" /\ parents # {} /\ skipped = parents

\* What one visit of the loop body decides about step s.
Decision(d, run, s) ==
    LET source == d.when[s].step IN
    IF run.status[s] # "PENDING" THEN "none"
    ELSE IF Unreachable(d, run, s) THEN "skip"
    ELSE IF ~DependenciesReady(d, run, s) \/ d.when[s] = NoWhen THEN "none"
    ELSE IF run.status[source] = "SKIPPED" THEN "skip"
    ELSE IF ~Readable(run, source) THEN "fail"
    ELSE IF run.output[source] # d.when[s].on THEN "skip"
    ELSE "none"

Statuses == [Steps -> StepStatuses]

\* A pass over the array, in order, with `left` steps still to visit; the first condition
\* that fails ends it.
Pass(d, run) ==
    LET pass[left \in 0 .. StepCount] ==
          [status \in Statuses |->
             LET s == StepCount + 1 - left
                 decision == Decision(d, [run EXCEPT !.status = status], s)
             IN  IF left = 0 THEN status
                 ELSE IF decision = "fail" THEN [status EXCEPT ![s] = "FAILED"]
                 ELSE IF decision = "skip" THEN pass[left - 1][[status EXCEPT ![s] = "SKIPPED"]]
                 ELSE pass[left - 1][status]]
    IN  pass

Fault_SinglePass == 1

\* A pass that is not the last skips at least one step, so that the last of so many
\* passes finds nothing to skip.
MaxPasses == StepCount + 1

\* Some condition has failed since the statuses were `before`.
ConditionFailed(before, after) == \E s \in Steps : after[s] = "FAILED" /\ before[s] # "FAILED"

\* The loop: a pass, and another one while a pass skips a step and fails none.
Passes(d, run) ==
    LET loop[left \in 0 .. MaxPasses] ==
          [status \in Statuses |->
             LET after == Pass(d, run)[StepCount][status]
             IN  IF left = 0 THEN status
                 ELSE IF after = status \/ ConditionFailed(status, after) THEN after
                 ELSE loop[left - 1][after]]
    IN  loop

Decided(d, run) == Passes(d, run)[MaxPasses][run.status]

\* What deciding reads of a run: its progress, whatever its version and its approvals.
Progress(run) ==
    [status |-> run.status, output |-> run.output, recoveries |-> run.recoveries]

\* The run as decided; `skip` and `fail` are the loop's only assignments.
Branches(d, run) ==
    IF BranchesUndecidable(d, run) THEN run
    ELSE [run EXCEPT !.status = Decided(d, Progress(run))]
=============================================================================
