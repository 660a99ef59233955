--------------------------- MODULE WorkflowGraph ---------------------------
(***************************************************************************)
(* The pure part of a workflow (src/src/workflows/types.ts): what a        *)
(* definition is and when it is accepted, and the status, the ready steps  *)
(* and the recovery state that are computed from a run.                    *)
(*                                                                         *)
(* Steps are the positions of the run's step array: the code scans that    *)
(* array in order, so the order matters wherever it takes the first match. *)
(*                                                                         *)
(* Operators named Fault_... are deliberate errors, one edit away from the *)
(* definition that follows them: with the fault in its place a property    *)
(* must fail.  No specification uses them.                                 *)
(***************************************************************************)
EXTENDS Naturals, FiniteSets

CONSTANTS
    StepCount,      \* length of run.steps (the code accepts 1 to 32)
    Permissions     \* the permissions tools may require

ASSUME StepCountAssumption == StepCount \in Nat \ {0}

Steps == 1 .. StepCount

NoStep == 0

\* A condition compares a value read from the output of `step`; `on` is the
\* answer for which it is true.  A step without `when` has condition NoWhen.
Answers == {"yes", "no"}
Conditions == [step : Steps \cup {NoStep}, on : Answers]
NoWhen == [step |-> NoStep, on |-> "yes"]

\* The tool's risk and permissions are kept with the step that names the tool;
\* `reads` is the set of steps whose outputs the step's input refers to.
WorkflowDefinitions ==
    [ dependsOn   : [Steps -> SUBSET Steps],
      dependsMode : [Steps -> {"all", "settled"}],
      when        : [Steps -> Conditions],
      onFailureOf : [Steps -> Steps \cup {NoStep}],
      reads       : [Steps -> SUBSET Steps],
      risk        : [Steps -> {"LOW", "HIGH"}],
      permissions : [Steps -> SUBSET Permissions] ]

StepStatuses ==
    {"PENDING", "RUNNING", "WAITING_APPROVAL", "COMPLETED", "SKIPPED", "FAILED"}

TerminalStatuses == {"COMPLETED", "SKIPPED", "FAILED"}

\* What the engine can tell about a step's output: absent, present but without
\* the value a reader asks for, or holding a value for which an `eq` condition
\* is true ("yes") or false ("no").
NoOutput == "absent"
Outputs == {NoOutput, "malformed"} \cup Answers

----------------------------------------------------------------------------
(* parseWorkflowDefinition, and the reference checks of validate *)

IsHandler(d, s) == d.onFailureOf[s] # NoStep

HandlerIsDeclaredProperly(d, s) ==
    IsHandler(d, s) =>
        /\ d.onFailureOf[s] \in d.dependsOn[s]
        /\ \A t \in Steps \ {s} : d.onFailureOf[t] # d.onFailureOf[s]
        /\ d.when[s] = NoWhen
        /\ d.dependsMode[s] = "all"
        /\ \A t \in Steps : d.onFailureOf[t] # s
        /\ d.onFailureOf[s] \notin d.reads[s]

StepIsDeclaredProperly(d, s) ==
    /\ s \notin d.dependsOn[s]
    /\ d.dependsMode[s] = "settled" => d.dependsOn[s] # {}
    /\ d.when[s] # NoWhen => d.when[s].step \in d.dependsOn[s]
    /\ d.reads[s] \subseteq d.dependsOn[s]

\* `visit` finds no cycle exactly when the steps can be ranked above their parents.
Acyclic(d) ==
    \E rank \in [Steps -> Steps] :
        \A s \in Steps : \A p \in d.dependsOn[s] : rank[p] < rank[s]

ValidDefinition(d) ==
    /\ d \in WorkflowDefinitions
    /\ \A s \in Steps : HandlerIsDeclaredProperly(d, s) /\ StepIsDeclaredProperly(d, s)
    /\ Acyclic(d)

----------------------------------------------------------------------------
(* Runs and what is computed from them *)

InStatus(run, st) == {s \in Steps : run.status[s] = st}

FailedStepHandlers(d, s) == {h \in Steps : d.onFailureOf[h] = s}

RecoveryAuthorized(run, s) == run.recoveries[s] > 0

\* A failure nobody can recover from any more.
HopelessFailure(d, run, s) ==
    /\ run.status[s] = "FAILED"
    /\ \A h \in FailedStepHandlers(d, s) : run.status[h] \in {"FAILED", "SKIPPED"}

Fault_IgnoresRunning(d, run) ==
    LET failed == InStatus(run, "FAILED")
    IN  IF \E s \in failed : HopelessFailure(d, run, s) THEN "FAILED"
        ELSE IF \E s \in failed : ~RecoveryAuthorized(run, s) THEN "RECOVERY_REQUIRED"
        ELSE IF InStatus(run, "WAITING_APPROVAL") # {} THEN "AWAITING_APPROVAL"
        ELSE IF \A s \in Steps : run.status[s] \in TerminalStatuses THEN "COMPLETED"
        ELSE "ACTIVE"

WorkflowStatus(d, run) ==
    LET failed == InStatus(run, "FAILED")
        finished == \A s \in Steps : run.status[s] \in TerminalStatuses
        Recovered(s) == \E h \in FailedStepHandlers(d, s) : run.status[h] = "COMPLETED"
    IN  IF InStatus(run, "RUNNING") # {} THEN "NEEDS_RECONCILIATION"
        ELSE IF \E s \in failed : HopelessFailure(d, run, s) THEN "FAILED"
        ELSE IF \E s \in failed : ~RecoveryAuthorized(run, s) THEN "RECOVERY_REQUIRED"
        ELSE IF InStatus(run, "WAITING_APPROVAL") # {} THEN "AWAITING_APPROVAL"
        ELSE IF ~finished THEN (IF failed = {} THEN "ACTIVE" ELSE "RECOVERING")
        ELSE IF failed = {} THEN "COMPLETED"
        ELSE IF \A s \in failed : Recovered(s) THEN "COMPLETED_WITH_FAILURES"
        ELSE "FAILED"

\* The statuses in which no request changes the run any more.
FinalStatuses == {"COMPLETED", "COMPLETED_WITH_FAILURES", "FAILED"}

Fault_HandlerNeedsNoFailure(d, run, s) ==
    d.dependsOn[s] \ {d.onFailureOf[s]} \subseteq InStatus(run, "COMPLETED")

\* readyWorkflowSteps, as a set.
DependenciesReady(d, run, s) ==
    LET parents == d.dependsOn[s]
        complete == InStatus(run, "COMPLETED")
        settled == complete \cup InStatus(run, "SKIPPED")
        source == d.onFailureOf[s]
    IN  IF IsHandler(d, s)
        THEN /\ run.status[source] = "FAILED"
             /\ RecoveryAuthorized(run, source)
             /\ parents \ {source} \subseteq complete
        ELSE IF d.dependsMode[s] = "settled"
        THEN parents \subseteq settled /\ parents \cap complete # {}
        ELSE parents \subseteq complete

Fault_EveryPendingStepIsReady(d, run) == InStatus(run, "PENDING")

ReadySteps(d, run) == {s \in InStatus(run, "PENDING") : DependenciesReady(d, run, s)}

\* ... and its first element: handlers before ordinary steps, each in array order.
FirstStep(S) == CHOOSE s \in S : \A t \in S : s <= t

FirstReadyStep(d, run) ==
    LET ready == ReadySteps(d, run)
        handlers == {s \in ready : IsHandler(d, s)}
    IN  FirstStep(IF handlers # {} THEN handlers ELSE ready)

\* The step `advance` acts on: the one waiting for approval, else the first ready one.
NextSteps(d, run) ==
    LET waiting == InStatus(run, "WAITING_APPROVAL")
    IN  IF waiting # {} THEN waiting ELSE ReadySteps(d, run)

NextStep(d, run) ==
    LET waiting == InStatus(run, "WAITING_APPROVAL")
    IN  IF waiting # {} THEN FirstStep(waiting) ELSE FirstReadyStep(d, run)

\* The statuses in which `advance` goes on to a step.
AdvanceableStatuses == {"ACTIVE", "RECOVERING", "AWAITING_APPROVAL"}
============================================================================
