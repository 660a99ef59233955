------------------------ MODULE SupervisedRunProofs ------------------------
(***************************************************************************)
(* The promises of SupervisedRun, for every set of valid definitions: one  *)
(* step in flight, recovery under supervision, and branches that settle.   *)
(***************************************************************************)
EXTENDS SupervisedRun, WorkflowBranchProofs

RunType ==
    /\ definition \in Definitions
    /\ run \in ProgressRuns
    /\ calls \in [Steps -> Nat]

\* The inductive invariant: the run is one that its moves can lead to.
SupervisedInv == RunType /\ Supervised(definition, run)

LEMMA DefinitionValid ==
    ASSUME RunType
    PROVE  ValidDefinition(definition)
  BY ValidDefinitionsAssumption DEF RunType

LEMMA SupervisedInit == Init => SupervisedInv
<1> SUFFICES ASSUME Init PROVE SupervisedInv
  OBVIOUS
<1>1. run \in ProgressRuns
  BY DEF Init, ProgressRuns, Statuses, StepStatuses, Outputs
<1>2. RunType
  BY <1>1 DEF Init, RunType
<1>3. Supervised(definition, run)
  BY DEF Init, Supervised, InFlight, RecoveryAuthorized, InStatus
<1> QED
  BY <1>2, <1>3 DEF SupervisedInv

\* Each step of the system moves the run, or leaves it alone.
LEMMA NextMoves ==
    ASSUME RunType, [Next]_vars
    PROVE  /\ Moves(definition, run, run')
           /\ definition' = definition /\ calls' \in [Steps -> Nat]
<1>1. run \in ProgressRuns /\ calls \in [Steps -> Nat]
  BY DEF RunType
<1>2. CASE Decide
  BY <1>1, <1>2 DEF Decide, Moves
<1>3. ASSUME NEW s \in Steps, Refuse(s) \/ Hold(s) \/ Start(s)
      PROVE  /\ Moves(definition, run, run')
             /\ definition' = definition /\ calls' \in [Steps -> Nat]
  <2>1. PICK st \in {"FAILED", "WAITING_APPROVAL", "RUNNING"} :
          /\ run' = [run EXCEPT !.status[s] = st]
          /\ st = "WAITING_APPROVAL" => definition.risk[s] = "HIGH"
    BY <1>3 DEF Refuse, Hold, Start, SetStatus
  <2>2. IsNext(s) /\ definition' = definition /\ calls' = calls
    BY <1>3 DEF Refuse, Hold, Start
  <2>3. st \in StepStatuses /\ Attempts(definition, run, run', s, st)
    BY <2>1, <2>2 DEF IsNext, Status, Attempts, StepStatuses
  <2> QED
    BY <1>1, <2>2, <2>3 DEF Moves
<1>4. ASSUME NEW s \in Steps, Release(s) \/ \E st \in {"COMPLETED", "FAILED"} : Resolve(s, st)
      PROVE  /\ Moves(definition, run, run')
             /\ definition' = definition /\ calls' \in [Steps -> Nat]
  <2>1. PICK st \in {"WAITING_APPROVAL", "COMPLETED", "FAILED"} :
          /\ run' = [run EXCEPT !.status[s] = st]
          /\ st = "WAITING_APPROVAL" => definition.risk[s] = "HIGH"
    BY <1>4 DEF Release, Resolve, SetStatus
  <2>2. run.status[s] = "RUNNING" /\ definition' = definition /\ calls' = calls
    BY <1>4 DEF Release, Resolve
  <2>3. run' = [run EXCEPT !.status[s] = st, !.output = run.output]
    BY <1>1, <2>1 DEF ProgressRuns
  <2>4. st \in StepStatuses /\ Ends(definition, run, run', s, st, run.output)
    BY <1>1, <2>1, <2>2, <2>3 DEF Ends, StepStatuses, ProgressRuns
  <2> QED
    BY <1>1, <2>2, <2>4 DEF Moves
<1>5. ASSUME NEW s \in Steps, NEW output \in Outputs, Finish(s, output)
      PROVE  /\ Moves(definition, run, run')
             /\ definition' = definition /\ calls' \in [Steps -> Nat]
  <2> DEFINE outputs == [run.output EXCEPT ![s] = output]
  <2>1. run' = [run EXCEPT !.status[s] = "COMPLETED", !.output = outputs]
    BY <1>1, <1>5 DEF Finish, ProgressRuns
  <2>2. outputs \in [Steps -> Outputs]
    BY <1>1 DEF ProgressRuns
  <2>3. "COMPLETED" \in StepStatuses /\ Ends(definition, run, run', s, "COMPLETED", outputs)
    BY <1>5, <2>1, <2>2 DEF Finish, Ends, StepStatuses
  <2> QED
    BY <1>1, <1>5, <2>3 DEF Moves, Finish
<1>6. ASSUME NEW s \in Steps, AuthorizeRecovery(s)
      PROVE  /\ Moves(definition, run, run')
             /\ definition' = definition /\ calls' \in [Steps -> Nat]
  <2>1. Recovers(run, run', s)
    BY <1>6 DEF AuthorizeRecovery, Recovers
  <2> QED
    BY <1>1, <1>6, <2>1 DEF Moves, AuthorizeRecovery
<1>7. ASSUME NEW s \in Steps, Call(s)
      PROVE  /\ Moves(definition, run, run')
             /\ definition' = definition /\ calls' \in [Steps -> Nat]
  BY <1>1, <1>7 DEF Call, Moves
<1>8. CASE UNCHANGED vars
  BY <1>1, <1>8 DEF vars, Moves
<1> QED
  BY <1>2, <1>3, <1>4, <1>5, <1>6, <1>7, <1>8 DEF Next, StepOf

LEMMA SupervisedNext == SupervisedInv /\ [Next]_vars => SupervisedInv'
<1> SUFFICES ASSUME SupervisedInv, [Next]_vars PROVE SupervisedInv'
  OBVIOUS
<1>1. /\ RunType /\ run \in ProgressRuns /\ Supervised(definition, run)
      /\ definition \in Definitions
  BY DEF SupervisedInv, RunType
<1>2. /\ Moves(definition, run, run')
      /\ definition' = definition /\ calls' \in [Steps -> Nat]
  BY <1>1, NextMoves
<1>3. run' \in ProgressRuns /\ Supervised(definition, run')
  BY <1>1, <1>2, DefinitionValid, MovesKeepSupervised
<1> QED
  BY <1>1, <1>2, <1>3, Zenon DEF SupervisedInv, RunType

LEMMA SupervisedAlways == Spec => []SupervisedInv
  BY SupervisedInit, SupervisedNext, PTL DEF Spec

----------------------------------------------------------------------------
(* What follows from the invariant *)

\* At most one step of a run is running or waiting for approval.
THEOREM OneStepInFlightAlways == Spec => []OneStepInFlight
<1>1. SupervisedInv => OneStepInFlight
  <2> SUFFICES ASSUME SupervisedInv PROVE OneStepInFlight
    OBVIOUS
  <2>1. CASE InFlight(run) = {}
    BY <2>1, FS_EmptySet DEF OneStepInFlight, InFlight
  <2>2. CASE InFlight(run) # {}
    <3>1. PICK s : InFlight(run) = {s}
      BY <2>2 DEF SupervisedInv, Supervised
    <3>2. Cardinality({s}) = 1
      BY FS_Singleton
    <3> QED
      BY <3>1, <3>2 DEF OneStepInFlight, InFlight
  <2> QED
    BY <2>1, <2>2
<1> QED
  BY <1>1, SupervisedAlways, PTL

\* A recovery handler runs only beside a source that failed and whose recovery the
\* operator authorized, and no other step runs below a failed parent.
LEMMA ReadyIsSupervised ==
    ASSUME NEW d, ValidDefinition(d), NEW r, NEW s \in Steps, DependenciesReady(d, r, s)
    PROVE  \A p \in d.dependsOn[s] :
             IF d.onFailureOf[s] = p
             THEN r.status[p] = "FAILED" /\ RecoveryAuthorized(r, p)
             ELSE r.status[p] # "FAILED"
<1>1. d.dependsOn[s] \subseteq Steps
  BY DEF ValidDefinition, WorkflowDefinitions
<1>2. NoStep \notin Steps
  BY StepCountAssumption DEF Steps, NoStep
<1>3. CASE IsHandler(d, s)
  BY <1>1, <1>3 DEF DependenciesReady, InStatus
<1>4. CASE ~IsHandler(d, s)
  BY <1>1, <1>2, <1>4 DEF DependenciesReady, InStatus, IsHandler
<1> QED
  BY <1>3, <1>4

THEOREM RecoveryIsSupervisedAlways == Spec => []RecoveryIsSupervised
<1>1. SupervisedInv => RecoveryIsSupervised
  <2> SUFFICES ASSUME SupervisedInv, NEW s \in Steps,
                      run.status[s] \in {"WAITING_APPROVAL", "RUNNING", "COMPLETED"}
               PROVE  \A p \in definition.dependsOn[s] :
                        IF definition.onFailureOf[s] = p
                        THEN run.status[p] = "FAILED" /\ RecoveryAuthorized(run, p)
                        ELSE run.status[p] # "FAILED"
    BY DEF RecoveryIsSupervised
  <2>1. ValidDefinition(definition) /\ DependenciesReady(definition, run, s)
    BY DefinitionValid DEF SupervisedInv, Supervised
  <2> QED
    BY <2>1, ReadyIsSupervised
<1> QED
  BY <1>1, SupervisedAlways, PTL

\* Whatever the definition and the run, one call of evaluateWorkflowBranches decides all
\* that can be decided, each decision is right in the run it returns, and at most one
\* condition fails.
THEOREM BranchesSettleAlways == Spec => []BranchesSettle
<1>1. SupervisedInv => BranchesSettle
  <2> SUFFICES ASSUME SupervisedInv PROVE BranchesSettle
    OBVIOUS
  <2> DEFINE after == Branches(definition, run)
             changed(st) == {s \in Steps : after.status[s] = st /\ run.status[s] # st}
             pendingAgain(s) == [after EXCEPT !.status[s] = "PENDING"]
             Right == /\ Cardinality(changed("FAILED")) <= 1
                      /\ changed("FAILED") = {} => Branches(definition, after) = after
                      /\ \A s \in changed("SKIPPED") :
                           Decision(definition, pendingAgain(s), s) = "skip"
                      /\ \A s \in changed("FAILED") :
                           Decision(definition, pendingAgain(s), s) = "fail"
  <2>1. /\ run \in ProgressRuns /\ run.status \in Statuses /\ Progress(run) = run
        /\ ValidDefinition(definition)
    BY DefinitionValid DEF SupervisedInv, RunType, ProgressRuns, Progress
  <2>2. CASE BranchesUndecidable(definition, run)
    <3>1. after = run /\ changed("FAILED") = {} /\ changed("SKIPPED") = {}
      BY <2>2 DEF Branches
    <3> QED
      BY <3>1, FS_EmptySet DEF BranchesSettle
  <2>3. CASE ~BranchesUndecidable(definition, run)
    <3> DEFINE x == Decided(definition, run)
    <3>1. after = At(run, x)
      BY <2>1, <2>3 DEF Branches, At
    <3>2. /\ x \in Statuses /\ Sound(definition, run, run.status, x)
          /\ Settled(definition, run, x) \/ ConditionFailed(run.status, x)
      BY <2>1, DecidedEffect
    <3> HIDE DEF x
    <3>3. after.status = x
      BY <2>1, <3>1 DEF At, ProgressRuns
    <3>4. \A s \in Steps : pendingAgain(s) = At(run, [x EXCEPT ![s] = "PENDING"])
      BY <2>1, <3>1 DEF At, ProgressRuns
    <3> HIDE DEF after
    <3>5. \A s, t \in changed("FAILED") : s = t
      BY <3>2, <3>3 DEF Sound
    <3>6. changed("FAILED") = {} => Branches(definition, after) = after
      BY <2>1, <3>1, <3>2, <3>3, DecidingAgain DEF ConditionFailed
    <3>7. Cardinality(changed("FAILED")) <= 1
      <4>1. CASE changed("FAILED") = {}
        BY <4>1, FS_EmptySet
      <4>2. CASE changed("FAILED") # {}
        <5>1. PICK s : changed("FAILED") = {s}
          BY <3>5, <4>2
        <5>2. Cardinality({s}) = 1
          BY FS_Singleton
        <5> HIDE DEF changed
        <5>3. Cardinality(changed("FAILED")) = 1
          BY <5>1, <5>2
        <5> QED
          BY <5>3
      <4> QED
        BY <4>1, <4>2
    <3>8. \A s \in changed("SKIPPED") : Decision(definition, pendingAgain(s), s) = "skip"
      BY <2>1, <3>2, <3>3, <3>4 DEF Sound
    <3>9. \A s \in changed("FAILED") : Decision(definition, pendingAgain(s), s) = "fail"
      BY <2>1, <3>2, <3>3, <3>4 DEF Sound
    <3> HIDE DEF changed, pendingAgain
    <3>10. Right
      BY <3>6, <3>7, <3>8, <3>9
    <3> QED
      BY <3>10 DEF BranchesSettle, Right, changed, pendingAgain, after
  <2> QED
    BY <2>2, <2>3
<1> QED
  BY <1>1, SupervisedAlways, PTL
=============================================================================
