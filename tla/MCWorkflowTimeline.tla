-------------------------- MODULE MCWorkflowTimeline --------------------------
(***************************************************************************)
(* The small workflows of MCWorkflowEngine, run with their timeline.       *)
(***************************************************************************)
EXTENDS MCWorkflowEngine, WorkflowTimeline
=============================================================================
