------------------------------ MODULE MCMonitor ------------------------------
(***************************************************************************)
(* Two processes check one workflow.  A unit is 30 seconds: the cooldown   *)
(* and one interval are the least the code accepts, the other interval is  *)
(* one unit more.                                                          *)
(***************************************************************************)
EXTENDS Monitor

CONSTANTS p1, p2, w1

MCProcesses == {p1, p2}
MCWorkflows == {w1}
MCStatuses == {"ACTIVE", "AWAITING_APPROVAL", "NEEDS_RECONCILIATION"}
MCIntervals == {2, 3}
MCCooldowns == {2}
=============================================================================
