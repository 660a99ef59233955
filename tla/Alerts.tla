------------------------------- MODULE Alerts -------------------------------
(***************************************************************************)
(* The alert inbox (src/src/alerts): an alert is the current state of a    *)
(* run that needs somebody, computed anew each time, and an                *)
(* acknowledgement belongs to one version and status of a run.  The runs   *)
(* themselves are the engine's: here they only move to other versions and  *)
(* statuses.  Which of them the inbox lists, its reader says: the newest   *)
(* `limit` for a tab, and for the monitor all of the model's few.          *)
(***************************************************************************)
EXTENDS Naturals

CONSTANTS
    Workflows,
    RunStatuses,     \* the statuses the runs take
    MaxVersion,      \* bound on the versions of a run
    Grace            \* RUNNING_GRACE_MS, in units of time

ASSUME AlertsAssumption ==
    /\ "ACTIVE" \in RunStatuses
    /\ MaxVersion \in Nat \ {0}
    /\ Grace \in Nat

VARIABLES
    run,     \* run[w]: version, status, and what is left of the grace of its RUNNING step
    acks     \* the acknowledged keys

alertVars == <<run, acks>>

WatchedStatuses ==
    {"NEEDS_RECONCILIATION", "FAILED", "RECOVERY_REQUIRED", "AWAITING_APPROVAL", "RECOVERING"}

FinalStatuses == {"FAILED", "COMPLETED", "COMPLETED_WITH_FAILURES"}

Keys == [workflow : Workflows, version : 1..MaxVersion, status : RunStatuses]

KeyOf(w) == [workflow |-> w, version |-> run[w].version, status |-> run[w].status]

\* isTrackedRun.
Tracked(w) ==
    /\ run[w].status \in WatchedStatuses
    /\ run[w].status = "NEEDS_RECONCILIATION" => run[w].grace = 0

\* What `inbox` makes of the runs it lists.
Candidates == {KeyOf(w) : w \in {v \in Workflows : Tracked(v)}}

\* And what it returns for a view, once it has asked which keys are acknowledged.
Inbox(keys, view) ==
    LET alerts == {[key |-> k, acknowledged |-> k \in acks] : k \in keys}
    IN  IF view = "unread" THEN {a \in alerts : ~a.acknowledged} ELSE alerts

Fault_WorkflowIsEnough(key) == KeyOf(key.workflow).status = key.status

\* acknowledge: the run must still be as the operator saw it.
StillCurrent(key) == KeyOf(key.workflow) = key

\* INSERT ... ON CONFLICT DO NOTHING.
Record(key) == acks' = acks \cup {key}

----------------------------------------------------------------------------
AlertsInit ==
    /\ run = [w \in Workflows |-> [version |-> 1, status |-> "ACTIVE", grace |-> 0]]
    /\ acks = {}

\* A write of the engine: a new version, in the same status or in another one.
WorkflowMoves(w, s) ==
    /\ run[w].version < MaxVersion
    /\ run[w].status \notin FinalStatuses
    /\ ~(s = "NEEDS_RECONCILIATION" /\ run[w].status = s)
    /\ run' = [run EXCEPT ![w] =
                 [version |-> run[w].version + 1, status |-> s,
                  grace |-> IF s = "NEEDS_RECONCILIATION" THEN Grace ELSE 0]]
    /\ UNCHANGED acks

\* What is left of the graces after a unit of time.
GracesRunOut ==
    run' = [w \in Workflows |->
              [run[w] EXCEPT !.grace = IF run[w].grace = 0 THEN 0 ELSE run[w].grace - 1]]
=============================================================================
