-------------------------- MODULE WorkflowTimeline --------------------------
(***************************************************************************)
(* The timeline kept inside a run (src/src/workflows/timeline.ts) and what *)
(* the panel reads from it.  Every compare-and-swap of WorkflowEngine that *)
(* changes the run appends, in the same write, one event for each change   *)
(* it finds between the copy the handler loaded and the run it saves; only *)
(* the last MaxStoredEvents events stay.  The specification is the engine's*)
(* with that one variable added.                                           *)
(***************************************************************************)
EXTENDS WorkflowEngine, SequencesExt

CONSTANT MaxStoredEvents

ASSUME MaxStoredEventsAssumption == MaxStoredEvents \in Nat \ {0}

VARIABLE timeline    \* run.events

timelineVars == <<vars, timeline>>

----------------------------------------------------------------------------
(* Events *)

NoStatus == "none"

\* workflowCreatedEvent: the first event of every run.
Created == [seq |-> 1, kind |-> "WORKFLOW_CREATED", step |-> NoStep,
            from |-> NoStatus, to |-> NoStatus]

StatusChanged(before, after) == {s \in Steps : before.status[s] # after.status[s]}

NewlyAuthorized(before, after) ==
    {s \in Steps : ~RecoveryAuthorized(before, s) /\ RecoveryAuthorized(after, s)}

\* `for (const current of after.steps)`: the steps that belong to S, in their order.
InOrder(S) ==
    LET upTo[n \in 0..StepCount] ==
          IF n = 0 THEN << >> ELSE IF n \in S THEN Append(upTo[n - 1], n) ELSE upTo[n - 1]
    IN  upTo[StepCount]

Fault_NumberedByPosition(events) == Len(events)

\* original.at(-1)?.seq: numbering goes on from the last event, whatever was dropped.
LastSeq(events) == Last(events).seq

\* slice(-MAX_STORED_EVENTS).
Newest(events, n) == SubSeq(events, Len(events) - n + 1, Len(events))

Window(events) ==
    IF Len(events) <= MaxStoredEvents THEN events ELSE Newest(events, MaxStoredEvents)

Fault_OneEventForEachWrite(before, after) ==
    LET s == InOrder(StatusChanged(before, after))
    IN  [i \in 1..(IF s = << >> THEN 0 ELSE 1) |->
           [kind |-> "STEP_STATUS_CHANGED", step |-> s[i],
            from |-> before.status[s[i]], to |-> after.status[s[i]]]]

\* What a write changed: the statuses in step order, then the recoveries it authorized.
Changes(before, after) ==
    LET s == InOrder(StatusChanged(before, after))
        a == InOrder(NewlyAuthorized(before, after))
    IN  [i \in 1..Len(s) |->
           [kind |-> "STEP_STATUS_CHANGED", step |-> s[i],
            from |-> before.status[s[i]], to |-> after.status[s[i]]]]
        \o
        [i \in 1..Len(a) |->
           [kind |-> "RECOVERY_AUTHORIZED", step |-> a[i],
            from |-> NoStatus, to |-> NoStatus]]

AppendWorkflowEvents(events, before, after) ==
    LET new == Changes(before, after)
        numbered == [i \in 1..Len(new) |->
                       [seq |-> LastSeq(events) + i, kind |-> new[i].kind,
                        step |-> new[i].step, from |-> new[i].from, to |-> new[i].to]]
    IN  Window(events \o numbered)

----------------------------------------------------------------------------
(* The specification *)

TimelineInit == Init /\ timeline = <<Created>>

\* `before` is the handler's copy, which is the stored run whenever its write succeeds.
TimelineNext == Next /\ timeline' = AppendWorkflowEvents(timeline, store, store')

TimelineSpec == TimelineInit /\ [][TimelineNext]_timelineVars

----------------------------------------------------------------------------
(* What the panel shows *)

HistoryComplete == timeline[1].kind = "WORKFLOW_CREATED" /\ timeline[1].seq = 1

\* workflowTimeline: the newest `limit` events, newest first.
Shown(limit) ==
    Reverse(IF Len(timeline) <= limit THEN timeline ELSE Newest(timeline, limit))

\* diagnoseWorkflow, reduced to the request it sends the operator to.
Advice(run) ==
    LET status == WorkflowStatus(definition, run)
    IN  CASE status = "NEEDS_RECONCILIATION" -> "reconcile"
          [] status = "RECOVERY_REQUIRED" -> "authorizeRecovery"
          [] status = "AWAITING_APPROVAL" -> "decide"
          [] status = "RECOVERING" -> "advance"
          [] status \in FinalStatuses -> "nothing"
          [] OTHER -> IF ReadySteps(definition, run) # {} THEN "advance" ELSE "dependencies"

----------------------------------------------------------------------------
(* Properties *)

\* The numbers of the stored events are consecutive, newest first for the panel, so that
\* a gap never hides in the middle of what is shown, however many events were dropped.
TimelineIsNumbered ==
    \A limit \in 1..MaxStoredEvents :
        LET shown == Shown(limit)
        IN  /\ shown[1] = Last(timeline)
            /\ \A i \in 2..Len(shown) : shown[i].seq = shown[i - 1].seq - 1

\* Where the timeline tells of the status of step s, and which of two such events is next.
About(s) == {i \in 1..Len(timeline) : timeline[i].step = s /\ timeline[i].kind = "STEP_STATUS_CHANGED"}

NextAbout(s, i, j) == i < j /\ \A k \in About(s) : k <= i \/ j <= k

\* The timeline explains the run: the events of a step form a chain of transitions that
\* ends in the status the store shows now; and when the history is complete, the chain
\* starts at PENDING, a step without events is PENDING still, and every authorized
\* recovery is on it.
TimelineExplainsRun ==
    \A s \in Steps :
        /\ \A i, j \in About(s) : NextAbout(s, i, j) => timeline[j].from = timeline[i].to
        /\ \A i \in About(s) : (\A k \in About(s) : k <= i) => timeline[i].to = store.status[s]
        /\ HistoryComplete =>
             /\ About(s) = {} => store.status[s] = "PENDING"
             /\ \A i \in About(s) : (\A k \in About(s) : i <= k) => timeline[i].from = "PENDING"
             /\ (\E i \in 1..Len(timeline) :
                   timeline[i].step = s /\ timeline[i].kind = "RECOVERY_AUTHORIZED")
                <=> RecoveryAuthorized(store, s)

\* The approval the run shows for waiting step s is its own and unspent: still to be
\* decided, or granted for the request that presents it - unless it was refused.
Refused(a) == approvals[a].rejected \/ approvals[a].expired

DecisionCounts(s) ==
    LET a == store.approvalId[s]
    IN  /\ a \in A!Ids /\ approvals[a].subject = s
        /\ Refused(a) \/ A!Undecided(a) \/ A!Consumable(a, s)

\* What "nextAction" asks for can be done, refusals apart: a run that is said to need
\* recovery has a failure that can be authorized; one to advance has a step to run or
\* branches to settle; one said to have nothing ready is only waiting for `advance` to
\* settle its branches; and one that awaits a decision has a waiting step, the approval
\* of each was requested for it, and may be decided or, once granted, used.  Where that
\* approval was rejected or has expired the advice does lead nowhere: see
\* WaitingStepIsResolved in WorkflowEngine.
AdviceCanBeFollowed ==
    /\ Advice(store) = "authorizeRecovery" => \E s \in Steps : Recoverable(store, s)
    /\ Advice(store) = "decide" =>
         WaitingSteps(store) # {} /\ \A s \in WaitingSteps(store) : DecisionCounts(s)
    /\ Advice(store) = "advance" =>
         NextSteps(definition, store) # {} \/ Branches(definition, store) # store
    /\ Advice(store) = "dependencies" => Branches(definition, store) # store
=============================================================================
