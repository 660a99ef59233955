-------------------------- MODULE MCWorkflowEngine --------------------------
(***************************************************************************)
(* Small workflows for WorkflowEngine: one shape per interesting feature   *)
(* of the definition language.                                             *)
(***************************************************************************)
EXTENDS WorkflowEngine, TLC

CONSTANT r1, r2

MCRequests == {r1, r2}
MCPermissions == {"external_action"}
Symmetry == Permutations(MCRequests)

\* A definition from its edges <<parent, step>>, the joins with mode "settled", the
\* conditions and handlers as functions of some steps, and the HIGH-risk steps.
Workflow(edges, joins, whens, handlers, high) ==
    [ dependsOn   |-> [s \in Steps |-> {p \in Steps : <<p, s>> \in edges}],
      dependsMode |-> [s \in Steps |-> IF s \in joins THEN "settled" ELSE "all"],
      when        |-> [s \in Steps |-> IF s \in DOMAIN whens THEN whens[s] ELSE NoWhen],
      onFailureOf |-> [s \in Steps |-> IF s \in DOMAIN handlers THEN handlers[s] ELSE NoStep],
      reads       |-> [s \in Steps |-> {}],
      risk        |-> [s \in Steps |-> IF s \in high THEN "HIGH" ELSE "LOW"],
      permissions |-> [s \in Steps |-> IF s \in high THEN Permissions ELSE {}] ]

None == << >>
When(p, answer) == [step |-> p, on |-> answer]

\* Step 2 needs approval and a permission, and reads the output of step 1.
Supervised ==
    [Workflow({<<1, 2>>}, {}, None, None, {2}) EXCEPT
        !.reads = [s \in Steps |-> IF s = 2 THEN {1} ELSE {}]]

\* Step 2 handles the failure of step 1, and needs approval; step 3, if any, follows it.
SupervisedRecovery == Workflow({<<1, 2>>, <<2, 3>>}, {}, None, 2 :> 1, {2})

\* Step 1 handles the failure of step 3, on whose success step 2 depends.
Recovery == Workflow({<<3, 1>>, <<3, 2>>}, {}, None, 1 :> 3, {})

\* A handler that also depends on a step that may be skipped: recovery may be hopeless.
ConditionalRecovery ==
    Workflow({<<1, 2>>, <<1, 3>>, <<2, 3>>, <<3, 4>>}, {}, 2 :> When(1, "yes"), 3 :> 2, {})

\* Two branches on the answer of step 1, and a join of whatever ran.
Branching ==
    Workflow({<<1, 2>>, <<1, 3>>, <<2, 4>>, <<3, 4>>}, {4},
             2 :> When(1, "yes") @@ 3 :> When(1, "no"), None, {})

\* An independent step 3, and a join of it with the handler of step 1, which needs approval.
RecoveryAndJoin ==
    Workflow({<<1, 2>>, <<2, 4>>, <<3, 4>>}, {4}, None, 2 :> 1, {2})

RiskyWorkflows == {Supervised, SupervisedRecovery}
RecoveryWorkflows == {SupervisedRecovery, Recovery, ConditionalRecovery}
RoutedWorkflows == {Branching, ConditionalRecovery, RecoveryAndJoin}
=============================================================================
