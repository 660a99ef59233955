--------------------------- MODULE SupervisedRun ---------------------------
(***************************************************************************)
(* What the workflow engine promises about one run, stated as if it did    *)
(* one thing at a time: every step below looks at the run as it is now.    *)
(* WorkflowEngine - concurrent requests acting on loaded copies - is shown *)
(* to implement it.                                                        *)
(***************************************************************************)
EXTENDS WorkflowBranches

CONSTANT Definitions

ASSUME ValidDefinitionsAssumption == \A d \in Definitions : ValidDefinition(d)

VARIABLES
    definition,   \* the steps as declared
    run,          \* their progress: status, output and recoveries of each step
    calls         \* times the tool of each step was called

vars == <<definition, run, calls>>

Init ==
    /\ definition \in Definitions
    /\ run = [ status     |-> [s \in Steps |-> "PENDING"],
               output     |-> [s \in Steps |-> NoOutput],
               recoveries |-> [s \in Steps |-> 0] ]
    /\ calls = [s \in Steps |-> 0]

Status == WorkflowStatus(definition, run)

SetStatus(s, st) == run' = [run EXCEPT !.status[s] = st]

\* Step s is the one to act on: everything else about the run is settled.
IsNext(s) ==
    /\ run.status[s] \in {"PENDING", "WAITING_APPROVAL"}
    /\ Status \in AdvanceableStatuses
    /\ s \in NextSteps(definition, run) /\ s = NextStep(definition, run)
    /\ Branches(definition, run) = run

\* Branches that can be decided are, all at once.
Decide ==
    /\ Status # "NEEDS_RECONCILIATION" /\ Status \notin FinalStatuses
    /\ run' = Branches(definition, run) /\ run' # run
    /\ UNCHANGED <<definition, calls>>

\* The step cannot be attempted.
Refuse(s) == IsNext(s) /\ SetStatus(s, "FAILED") /\ UNCHANGED <<definition, calls>>

\* A risky step waits for a human.
Hold(s) ==
    /\ definition.risk[s] = "HIGH" /\ run.status[s] = "PENDING" /\ IsNext(s)
    /\ SetStatus(s, "WAITING_APPROVAL")
    /\ UNCHANGED <<definition, calls>>

Start(s) ==
    /\ definition.risk[s] = "HIGH" <=> run.status[s] = "WAITING_APPROVAL"
    /\ IsNext(s)
    /\ SetStatus(s, "RUNNING")
    /\ UNCHANGED <<definition, calls>>

\* The human did not approve after all.
Release(s) ==
    /\ run.status[s] = "RUNNING" /\ definition.risk[s] = "HIGH" /\ calls[s] = 0
    /\ SetStatus(s, "WAITING_APPROVAL")
    /\ UNCHANGED <<definition, calls>>

Call(s) ==
    /\ run.status[s] = "RUNNING" /\ calls[s] = 0
    /\ calls' = [calls EXCEPT ![s] = 1]
    /\ UNCHANGED <<definition, run>>

Finish(s, output) ==
    /\ run.status[s] = "RUNNING" /\ calls[s] = 1
    /\ run' = [run EXCEPT !.status[s] = "COMPLETED", !.output[s] = output]
    /\ UNCHANGED <<definition, calls>>

\* The call failed, or an operator knows how it ended.
Resolve(s, st) ==
    /\ run.status[s] = "RUNNING"
    /\ SetStatus(s, st)
    /\ UNCHANGED <<definition, calls>>

AuthorizeRecovery(s) ==
    /\ Status \in {"RECOVERY_REQUIRED", "RECOVERING"}
    /\ run.status[s] = "FAILED" /\ ~RecoveryAuthorized(run, s)
    /\ \E h \in FailedStepHandlers(definition, s) : run.status[h] = "PENDING"
    /\ run' = [run EXCEPT !.recoveries[s] = 1]
    /\ UNCHANGED <<definition, calls>>

StepOf(s) ==
    \/ Refuse(s) \/ Hold(s) \/ Start(s) \/ Release(s) \/ Call(s)
    \/ \E output \in Outputs : Finish(s, output)
    \/ \E st \in {"COMPLETED", "FAILED"} : Resolve(s, st)
    \/ AuthorizeRecovery(s)

Next == Decide \/ \E s \in Steps : StepOf(s)

Spec == Init /\ [][Next]_vars

\* Somebody keeps the run going, and approves what waits instead of releasing it for ever.
Fairness ==
    /\ WF_vars(Next)
    /\ \A s \in Steps : SF_vars(\E output \in Outputs : Finish(s, output)) /\ SF_vars(Call(s))

FairSpec == Spec /\ Fairness

----------------------------------------------------------------------------
(* Properties *)

\* Concurrency never puts two steps of a run in progress together.
OneStepInFlight ==
    Cardinality({s \in Steps : run.status[s] \in {"RUNNING", "WAITING_APPROVAL"}}) <= 1

\* What evaluateWorkflowBranches decides in one call does not depend on the order in
\* which it visits the steps: unless it stopped at a condition that failed it leaves
\* nothing to decide, every step it skipped is one that the resulting run makes
\* unreachable or whose condition is false, and at most one condition fails.
BranchesSettle ==
    LET after == Branches(definition, run)
        changed(st) == {s \in Steps : after.status[s] = st /\ run.status[s] # st}
        pendingAgain(s) == [after EXCEPT !.status[s] = "PENDING"]
    IN  /\ Cardinality(changed("FAILED")) <= 1
        /\ changed("FAILED") = {} => Branches(definition, after) = after
        /\ \A s \in changed("SKIPPED") : Decision(definition, pendingAgain(s), s) = "skip"
        /\ \A s \in changed("FAILED") : Decision(definition, pendingAgain(s), s) = "fail"

\* A recovery handler never runs beside a source that did not fail, nor without the
\* operator's authorization; a step whose parent failed never runs at all.
RecoveryIsSupervised ==
    \A s \in Steps : run.status[s] \in {"WAITING_APPROVAL", "RUNNING", "COMPLETED"} =>
        \A p \in definition.dependsOn[s] :
            IF definition.onFailureOf[s] = p
            THEN run.status[p] = "FAILED" /\ RecoveryAuthorized(run, p)
            ELSE run.status[p] # "FAILED"

\* Every run comes to an end, whatever its definition and whichever steps fail.
RunFinishes == <>(Status \in FinalStatuses)
============================================================================
