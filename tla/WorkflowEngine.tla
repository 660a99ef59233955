--------------------------- MODULE WorkflowEngine ---------------------------
(***************************************************************************)
(* WorkflowEngine (src/src/workflows/engine.ts) over one workflow run: the *)
(* requests `advance`, `authorizeRecovery` and `reconcile`, handled        *)
(* concurrently and on stored state that only a compare-and-swap on the    *)
(* run's version changes.                                                  *)
(*                                                                         *)
(* A request runs without interruption from one store call to the next, so *)
(* an action is one store call (or the tool call) and the computation that *)
(* follows it.  req[r].pc names the call the request makes next.           *)
(***************************************************************************)
EXTENDS WorkflowBranches, Sequences

CONSTANTS
    Definitions,      \* the definitions a run may be created from
    Requests,         \* handlers that may be in progress at the same time
    MaxVersion,       \* bound: no request starts on a run of a higher version
    MaxApprovals,     \* bound: approval requests ever created
    MaxCrashes,       \* bound: interruptions of handlers, redeployments included
    PromptExecution,  \* a handler reaches its tool, and records the result, within
                      \* the 30 seconds that `reconcile` waits after startedAt
    DiligentClients,  \* clients advance a waiting step with its own approval, once granted
    RefusalsHappen    \* operators reject approvals, or let them expire

ASSUME DefinitionsAssumption == \A d \in Definitions : ValidDefinition(d)
ASSUME BoundsAssumption ==
    /\ MaxVersion \in Nat /\ MaxApprovals \in Nat /\ MaxCrashes \in Nat
    /\ PromptExecution \in BOOLEAN /\ DiligentClients \in BOOLEAN
    /\ RefusalsHappen \in BOOLEAN

VARIABLES
    definition,   \* the run's steps as declared; never changes
    store,        \* the saved run
    approvals,    \* the approval store
    permissions,  \* the permissions granted to the owner
    registered,   \* the steps whose tool is in this deployment's registry
    overdue,      \* more than 30 seconds since the startedAt of the RUNNING step
    req,          \* the handler of each request
    crashes,      \* interruptions so far (bound)
    invoked,      \* history: times each step's tool was called
    audited       \* history: audit records of each step

stored == <<definition, store, approvals>>
world == <<permissions, registered, overdue, crashes>>
history == <<invoked, audited>>
vars == <<stored, world, req, history>>

A == INSTANCE Approvals WITH Subjects <- Steps

----------------------------------------------------------------------------
(* State *)

NoApproval == 0

\* recoveries[s] counts the entries of run.recoveries for step s.
WorkflowRuns ==
    [ version    : Nat,
      status     : [Steps -> StepStatuses],
      output     : [Steps -> Outputs],
      approvalId : [Steps -> Nat],
      recoveries : [Steps -> Nat] ]

NewRun ==
    [ version    |-> 1,
      status     |-> [s \in Steps |-> "PENDING"],
      output     |-> [s \in Steps |-> NoOutput],
      approvalId |-> [s \in Steps |-> NoApproval],
      recoveries |-> [s \in Steps |-> 0] ]

\* The calls that save the run with a compare-and-swap.
Writes == {"settle", "fail", "wait", "claim", "rollback", "record", "close",
           "authorize", "attest"}
Calls == Writes \cup {"idle", "permissions", "request", "consume", "invoke", "audit"}

Outcomes == {"COMPLETED", "FAILED"}

\* run: the run as this handler last loaded or saved it; step: the step it acts on;
\* presented: the approval id of the HTTP request; requested: the approval it has
\* just created; outcome: what the operator attests.
HandlerStates ==
    [ pc : Calls, run : WorkflowRuns, step : Steps, presented : Nat, requested : Nat,
      outcome : Outcomes ]

Idle ==
    [ pc |-> "idle", run |-> NewRun, step |-> 1, presented |-> NoApproval,
      requested |-> NoApproval, outcome |-> "COMPLETED" ]

TypeOK ==
    /\ definition \in WorkflowDefinitions
    /\ store \in WorkflowRuns
    /\ A!ApprovalsType
    /\ permissions \in SUBSET Permissions
    /\ registered \in SUBSET Steps
    /\ overdue \in BOOLEAN
    /\ req \in [Requests -> HandlerStates]
    /\ crashes \in Nat
    /\ invoked \in [Steps -> Nat]
    /\ audited \in [Steps -> Nat]

Init ==
    /\ definition \in Definitions
    /\ store = NewRun
    /\ A!ApprovalsInit
    /\ permissions \in SUBSET Permissions
    /\ registered = Steps          \* `validate` accepts registered tools only
    /\ overdue = FALSE
    /\ req = [r \in Requests |-> Idle]
    /\ crashes = 0
    /\ invoked = [s \in Steps |-> 0]
    /\ audited = [s \in Steps |-> 0]

----------------------------------------------------------------------------
(* Saving *)

Goto(r, h) == req' = [req EXCEPT ![r] = h]

Fault_NoVersionCheck(r) == TRUE

\* store.update with the version of the run the handler holds.
Current(r) == store.version = req[r].run.version

Fault_OnlyNewer(r, run) ==
    /\ store.version >= req[r].run.version
    /\ store' = [run EXCEPT !.version = store.version + 1]

Save(r, run) ==
    /\ Current(r)
    /\ store' = [run EXCEPT !.version = req[r].run.version + 1]

WithStatus(run, s, st) == [run EXCEPT !.status[s] = st]

\* The compare-and-swap of a handler fails: it answers with a conflict.
LoseRace(r) ==
    /\ req[r].pc \in Writes /\ ~Current(r)
    /\ Goto(r, Idle)
    /\ UNCHANGED <<stored, world, history>>

\* The last thing each handler does: settle what its own write has decided.
Closing(run) ==
    IF Branches(definition, run) = run THEN Idle
    ELSE [Idle EXCEPT !.pc = "close", !.run = run]

Close(r) ==
    /\ req[r].pc = "close"
    /\ Save(r, Branches(definition, req[r].run))
    /\ Goto(r, Idle)
    /\ UNCHANGED <<definition, approvals, world, history>>

----------------------------------------------------------------------------
(* advance *)

Gated(run) == WorkflowStatus(definition, run) \in {"FAILED", "NEEDS_RECONCILIATION"}

WaitingSteps(run) == InStatus(run, "WAITING_APPROVAL")

\* A waiting step keeps the input it was approved with; others resolve it now.
InputAvailable(run, s) ==
    /\ s \in registered
    /\ run.status[s] = "WAITING_APPROVAL" \/ InputResolves(definition, run, s)

\* Everything from the settled run to the first await after it.
Route(run, presented) ==
    IF \/ WorkflowStatus(definition, run) \notin AdvanceableStatuses
       \/ (WaitingSteps(run) = {}) # (presented = NoApproval)
       \/ NextSteps(definition, run) = {}
    THEN Idle
    ELSE LET s == NextStep(definition, run)
         IN  [Idle EXCEPT !.pc = IF InputAvailable(run, s) THEN "permissions" ELSE "fail",
                          !.run = run, !.step = s, !.presented = presented]

Presentable(a) ==
    \/ a = NoApproval
    \/ /\ a \in A!Ids
       /\ DiligentClients =>
            /\ approvals[a].approved /\ ~approvals[a].expired
            /\ \E s \in WaitingSteps(store) : store.approvalId[s] = a

AdvanceLoad(r, a) ==
    /\ req[r].pc = "idle" /\ store.version < MaxVersion
    /\ Presentable(a)
    /\ Goto(r, IF ~Gated(store) /\ Branches(definition, store) # store
               THEN [Idle EXCEPT !.pc = "settle", !.run = store, !.presented = a]
               ELSE Route(store, a))
    /\ UNCHANGED <<stored, world, history>>

Settle(r) ==
    /\ req[r].pc = "settle"
    /\ Save(r, Branches(definition, req[r].run))
    /\ Goto(r, Route(store', req[r].presented))
    /\ UNCHANGED <<definition, approvals, world, history>>

\* Unavailable tool, unresolved input or missing permission.
FailStep(r) ==
    /\ req[r].pc = "fail"
    /\ Save(r, WithStatus(req[r].run, req[r].step, "FAILED"))
    /\ Goto(r, Idle)
    /\ UNCHANGED <<definition, approvals, world, history>>

Pending(r) == req[r].run.status[req[r].step] = "WAITING_APPROVAL"

HasPermissions(s, granted) == definition.permissions[s] \subseteq granted

NeedsApproval(s) == definition.risk[s] = "HIGH"

Fault_AnyApprovalWillDo(r) ==
    IF ~HasPermissions(req[r].step, permissions) THEN "fail"
    ELSE IF ~Pending(r) /\ NeedsApproval(req[r].step) THEN "request"
    ELSE "claim"

Fault_ApprovalNotAsked(r) ==
    IF HasPermissions(req[r].step, permissions) THEN "claim" ELSE "fail"

\* What the policy, and the approval presented for a waiting step, let the handler do.
Permitted(r) ==
    LET s == req[r].step IN
    IF ~HasPermissions(s, permissions) THEN "fail"
    ELSE IF ~Pending(r) THEN (IF NeedsApproval(s) THEN "request" ELSE "claim")
    ELSE IF req[r].run.approvalId[s] = req[r].presented THEN "claim"
    ELSE "idle"

ReadPermissions(r) ==
    /\ req[r].pc = "permissions"
    /\ Goto(r, IF Permitted(r) = "idle" THEN Idle ELSE [req[r] EXCEPT !.pc = Permitted(r)])
    /\ UNCHANGED <<stored, world, history>>

RequestApproval(r) ==
    /\ req[r].pc = "request" /\ Len(approvals) < MaxApprovals
    /\ A!Request(req[r].step)
    /\ Goto(r, [req[r] EXCEPT !.pc = "wait", !.requested = Len(approvals) + 1])
    /\ UNCHANGED <<definition, store, world, history>>

AwaitApproval(r) ==
    /\ req[r].pc = "wait"
    /\ LET s == req[r].step IN
       Save(r, [WithStatus(req[r].run, s, "WAITING_APPROVAL") EXCEPT
                    !.approvalId[s] = req[r].requested])
    /\ Goto(r, Idle)
    /\ UNCHANGED <<definition, approvals, world, history>>

AfterClaim(r) == IF Pending(r) THEN "consume" ELSE "invoke"

\* RUNNING and startedAt are saved before the approval is consumed.
Claim(r) ==
    /\ req[r].pc = "claim"
    /\ Save(r, WithStatus(req[r].run, req[r].step, "RUNNING"))
    /\ overdue' = FALSE
    /\ Goto(r, [req[r] EXCEPT !.pc = AfterClaim(r), !.run = store'])
    /\ UNCHANGED <<definition, approvals, permissions, registered, crashes, history>>

ConsumeApproval(r) ==
    /\ req[r].pc = "consume"
    /\ LET a == req[r].presented IN
       IF A!Consumable(a, req[r].step)
       THEN A!Consume(a) /\ Goto(r, [req[r] EXCEPT !.pc = "invoke"])
       ELSE UNCHANGED approvals /\ Goto(r, [req[r] EXCEPT !.pc = "rollback"])
    /\ UNCHANGED <<definition, store, world, history>>

\* Not granted or expired: the step waits for approval again.
Rollback(r) ==
    /\ req[r].pc = "rollback"
    /\ Save(r, WithStatus(req[r].run, req[r].step, "WAITING_APPROVAL"))
    /\ Goto(r, Idle)
    /\ UNCHANGED <<definition, approvals, world, history>>

\* The executor calls the tool.  Its own lookup and policy check repeat the ones made
\* above, on the same registry and on the grants captured then: they cannot refuse.
Invoke(r) ==
    /\ req[r].pc = "invoke"
    /\ invoked' = [invoked EXCEPT ![req[r].step] = @ + 1]
    /\ Goto(r, [req[r] EXCEPT !.pc = "record"])
    /\ UNCHANGED <<stored, world, audited>>

\* The result: an output, a failure, or the executor's timeout, which leaves the
\* step RUNNING because the effect may still happen.
Results == Outputs \cup {"failed", "timeout"}

Completed(run, s, output) == [WithStatus(run, s, "COMPLETED") EXCEPT !.output[s] = output]

Fault_FailureIsRetried(run, s, result) ==
    IF result \in Outputs THEN Completed(run, s, result) ELSE WithStatus(run, s, "PENDING")

Recorded(run, s, result) ==
    CASE result = "timeout" -> run
      [] result = "failed"  -> WithStatus(run, s, "FAILED")
      [] OTHER -> Completed(run, s, result)

RecordResult(r, result) ==
    /\ req[r].pc = "record"
    /\ Save(r, Recorded(req[r].run, req[r].step, result))
    /\ Goto(r, [req[r] EXCEPT !.pc = "audit", !.run = store'])
    /\ UNCHANGED <<definition, approvals, world, history>>

Fault_FailureNotAudited(r) ==
    /\ req[r].pc = "audit"
    /\ audited' = [audited EXCEPT ![req[r].step] =
                     @ + (IF req[r].run.status[req[r].step] = "FAILED" THEN 0 ELSE 1)]
    /\ Goto(r, Closing(req[r].run))
    /\ UNCHANGED <<stored, world, invoked>>

RecordAudit(r) ==
    /\ req[r].pc = "audit"
    /\ audited' = [audited EXCEPT ![req[r].step] = @ + 1]
    /\ Goto(r, Closing(req[r].run))
    /\ UNCHANGED <<stored, world, invoked>>

----------------------------------------------------------------------------
(* authorizeRecovery and reconcile *)

Recoverable(run, s) ==
    /\ WorkflowStatus(definition, run) \in {"RECOVERY_REQUIRED", "RECOVERING"}
    /\ run.status[s] = "FAILED"
    /\ \E h \in FailedStepHandlers(definition, s) : run.status[h] = "PENDING"
    /\ ~RecoveryAuthorized(run, s)

RecoveryLoad(r, s) ==
    /\ req[r].pc = "idle" /\ store.version < MaxVersion
    /\ Recoverable(store, s)
    /\ Goto(r, [Idle EXCEPT !.pc = "authorize", !.run = store, !.step = s])
    /\ UNCHANGED <<stored, world, history>>

AuthorizeRecovery(r) ==
    /\ req[r].pc = "authorize"
    /\ Save(r, [req[r].run EXCEPT !.recoveries[req[r].step] = @ + 1])
    /\ Goto(r, Closing(store'))
    /\ UNCHANGED <<definition, approvals, world, history>>

Reconcilable == InStatus(store, "RUNNING") # {} /\ overdue

ReconcileLoad(r, outcome) ==
    /\ req[r].pc = "idle" /\ store.version < MaxVersion
    /\ Reconcilable
    /\ Goto(r, [Idle EXCEPT !.pc = "attest", !.run = store, !.outcome = outcome,
                            !.step = FirstStep(InStatus(store, "RUNNING"))])
    /\ UNCHANGED <<stored, world, history>>

\* The operator's answer is saved without any output.
Attest(r) ==
    /\ req[r].pc = "attest"
    /\ Save(r, WithStatus(req[r].run, req[r].step, req[r].outcome))
    /\ Goto(r, Closing(store'))
    /\ UNCHANGED <<definition, approvals, world, history>>

----------------------------------------------------------------------------
(* The environment *)

\* A process dies, or a store call fails before or after taking effect.
Crash(r) ==
    /\ req[r].pc # "idle" /\ crashes < MaxCrashes
    /\ Goto(r, Idle)
    /\ crashes' = crashes + 1
    /\ UNCHANGED <<stored, permissions, registered, overdue, history>>

\* A deployment restarts the server with another tool registry.
Redeploy(tools) ==
    /\ crashes < MaxCrashes
    /\ req' = [r \in Requests |-> Idle]
    /\ registered' = tools
    /\ crashes' = crashes + 1
    /\ UNCHANGED <<stored, permissions, overdue, history>>

Approve(a) == A!Approve(a) /\ UNCHANGED <<definition, store, world, req, history>>

Refuse(a) ==
    /\ RefusalsHappen
    /\ A!Reject(a) \/ A!Expire(a)
    /\ UNCHANGED <<definition, store, world, req, history>>

ChangePermissions(granted) ==
    /\ permissions' = granted
    /\ UNCHANGED <<stored, registered, overdue, crashes, req, history>>

\* A handler that has claimed a step and not yet saved what became of it.
Executing(r) == req[r].pc \in {"consume", "rollback", "invoke", "record"}

\* The grace period of the RUNNING step ends.
Elapse ==
    /\ InStatus(store, "RUNNING") # {} /\ ~overdue
    /\ PromptExecution => \A r \in Requests : ~Executing(r)
    /\ overdue' = TRUE
    /\ UNCHANGED <<stored, permissions, registered, crashes, req, history>>

----------------------------------------------------------------------------
(* The specification *)

Proceed(r) ==
    \/ LoseRace(r) \/ Close(r)
    \/ Settle(r) \/ FailStep(r) \/ ReadPermissions(r) \/ RequestApproval(r)
    \/ AwaitApproval(r) \/ Claim(r) \/ ConsumeApproval(r) \/ Rollback(r) \/ Invoke(r)
    \/ \E result \in Results : RecordResult(r, result)
    \/ RecordAudit(r) \/ AuthorizeRecovery(r) \/ Attest(r)

Operate(r) ==
    \/ \E a \in {NoApproval} \cup A!Ids : AdvanceLoad(r, a)
    \/ \E s \in Steps : RecoveryLoad(r, s)
    \/ \E outcome \in Outcomes : ReconcileLoad(r, outcome)

Environment ==
    \/ \E a \in A!Ids : Approve(a) \/ Refuse(a)
    \/ \E granted \in SUBSET Permissions : ChangePermissions(granted)
    \/ \E tools \in SUBSET Steps : Redeploy(tools)
    \/ Elapse

Next ==
    \/ \E r \in Requests : Proceed(r) \/ Operate(r) \/ Crash(r)
    \/ Environment

Spec == Init /\ [][Next]_vars

\* Handlers are never suspended for ever, operators answer what is asked of them, and
\* somebody keeps advancing the run; nothing is assumed of crashes or refusals.
Fairness ==
    /\ \A r \in Requests : WF_vars(Proceed(r))
    /\ WF_vars(Elapse)
    /\ WF_vars(\E a \in A!Ids : Approve(a))
    /\ WF_vars(\E r \in Requests : Operate(r))

FairSpec == Spec /\ Fairness

----------------------------------------------------------------------------
(* Refinement *)

\* Forgetting versions, approval ids and handlers, the store does what SupervisedRun
\* does, one decision at a time: the compare-and-swap makes loaded copies as good as
\* the store itself.
Serial ==
    INSTANCE SupervisedRun WITH
        run   <- Progress(store),
        calls <- invoked

\* The concurrent engine implements the one-thing-at-a-time run.
ImplementsSupervisedRun == Serial!Spec

----------------------------------------------------------------------------
(* Safety *)

\* The tool of a step is called at most once, whatever the clients, the operators and
\* the crashes do: `advance` saves RUNNING before it calls the tool, and nothing turns
\* a step whose tool was called back into one that can be claimed.
AtMostOneInvocation == \A s \in Steps : invoked[s] <= 1

\* The intent to act is on record before the action: a step whose tool was called is
\* RUNNING, COMPLETED or FAILED in the store, never PENDING, waiting or skipped.
InvocationIsRecorded ==
    \A s \in Steps :
        invoked[s] > 0 => store.status[s] \in {"RUNNING", "COMPLETED", "FAILED"}

\* Approval a authorizes, and has been spent on, a call for step s.
GrantedFor(a, s) ==
    /\ a \in A!Ids
    /\ approvals[a].subject = s
    /\ approvals[a].approved /\ approvals[a].consumed /\ ~approvals[a].rejected

\* A HIGH-risk tool is called only under the approval the run shows for the step,
\* granted by the owner, never rejected, and consumed by that call.
HighRiskNeedsConsumedApproval ==
    \A s \in Steps :
        invoked[s] > 0 /\ NeedsApproval(s) => GrantedFor(store.approvalId[s], s)

\* "A competing request cannot consume authorization and then lose the workflow version
\* race" (engine.ts, before the claim): a consumed approval has always claimed its step.
ConsumptionClaimsStep ==
    \A a \in A!Ids :
        approvals[a].consumed =>
            /\ store.approvalId[approvals[a].subject] = a
            /\ store.status[approvals[a].subject] \in {"RUNNING", "COMPLETED", "FAILED"}

\* "Auditoria de chamadas de ferramentas" (README.md): as long as no handler is
\* interrupted, every call of a tool is audited once its handler is done with it.
CallsAreAudited ==
    crashes = 0 =>
        \A s \in Steps : invoked[s] # audited[s] =>
            \E r \in Requests : req[r].step = s /\ req[r].pc \in {"record", "audit"}

----------------------------------------------------------------------------
(* Why the safety properties hold: the inductive invariant *)

\* A handler never holds a newer run than the store, and a copy of the stored
\* version is the stored run: this is what the compare-and-swap compares.
CopiesAreOld ==
    \A r \in Requests : req[r].pc # "idle" => req[r].run.version <= store.version

CopiesAreFaithful ==
    \A r \in Requests : req[r].pc # "idle" /\ Current(r) => req[r].run = store

\* What each handler has read about the step it acts on.
TargetIsAsRead(h) ==
    /\ h.pc \in {"fail", "permissions", "request", "wait", "claim"} =>
         h.run.status[h.step] =
            IF h.presented = NoApproval THEN "PENDING" ELSE "WAITING_APPROVAL"
    /\ h.pc \in {"request", "wait"} => h.presented = NoApproval
    /\ h.pc \in {"consume", "rollback", "invoke", "record", "attest"} =>
         h.run.status[h.step] = "RUNNING"

TargetsAreAsRead == \A r \in Requests : TargetIsAsRead(req[r])

\* A step that was claimed is not open to another claim ...
ClaimedStatuses == {"RUNNING", "COMPLETED", "FAILED"}

ExecutingStepsAreClaimed ==
    \A r \in Requests : Executing(r) => store.status[req[r].step] \in ClaimedStatuses

\* ... so it has one executor, who alone may call its tool.
OneExecutor ==
    \A r, q \in Requests :
        Executing(r) /\ Executing(q) /\ req[r].step = req[q].step => r = q

NotCalledYet ==
    \A r \in Requests :
        req[r].pc \in {"consume", "rollback", "invoke"} => invoked[req[r].step] = 0

\* The store's compare-and-swap and the durable claim together: the whole argument.
ClaimInv ==
    /\ CopiesAreOld /\ CopiesAreFaithful
    /\ TargetsAreAsRead
    /\ ExecutingStepsAreClaimed /\ OneExecutor /\ NotCalledYet
    /\ AtMostOneInvocation /\ InvocationIsRecorded

\* The approval on record for a step was requested for that step.
ApprovalsMatchSteps ==
    \A s \in Steps :
        store.approvalId[s] # NoApproval =>
            /\ store.approvalId[s] \in A!Ids
            /\ approvals[store.approvalId[s]].subject = s

\* What a handler knows of the approval it was presented, requested or has consumed.
ApprovalIsHeld(h) ==
    /\ h.presented \in {NoApproval} \cup A!Ids
    /\ h.pc = "wait" => h.requested \in A!Ids /\ approvals[h.requested].subject = h.step
    /\ h.pc = "request" => h.presented = NoApproval
    /\ h.pc = "claim" =>
         /\ h.presented # NoApproval => h.run.approvalId[h.step] = h.presented
         /\ NeedsApproval(h.step) => h.presented # NoApproval
    /\ h.pc \in {"consume", "rollback"} =>
         /\ store.approvalId[h.step] = h.presented /\ h.presented # NoApproval
         /\ \A a \in A!Ids : approvals[a].subject = h.step => ~approvals[a].consumed
    /\ h.pc = "invoke" /\ NeedsApproval(h.step) =>
         GrantedFor(store.approvalId[h.step], h.step)

\* Consuming after claiming, and only the approval on record, is what keeps an approval
\* from being spent on nothing, twice, or on another step.
ApprovalInv ==
    /\ ApprovalsMatchSteps
    /\ \A r \in Requests : ApprovalIsHeld(req[r])
    /\ HighRiskNeedsConsumedApproval /\ ConsumptionClaimsStep

----------------------------------------------------------------------------
(* Action properties *)

\* A tool starts only when every dependency the step declares has come out as the step
\* requires, in the store of that moment: parents COMPLETED (or settled, for a join),
\* and for a recovery handler its source FAILED and authorized by the operator.
DependenciesFirst ==
    [][\A s \in Steps : invoked'[s] # invoked[s] => DependenciesReady(definition, store, s)]_vars

\* A decided step stays decided: no later write changes its status or its output.
DecidedStepsAreFinal ==
    [][\A s \in Steps :
         store.status[s] \in TerminalStatuses =>
            store'.status[s] = store.status[s] /\ store'.output[s] = store.output[s]]_vars

----------------------------------------------------------------------------
(* Liveness *)

\* With diligent operators every run finishes, whatever fails, crashes or is skipped.
RunFinishes == <>(WorkflowStatus(definition, store) \in FinalStatuses)

\* Whatever becomes of its approval, a waiting step is eventually dealt with.
WaitingStepIsResolved ==
    \A s \in Steps :
        store.status[s] = "WAITING_APPROVAL" ~> store.status[s] # "WAITING_APPROVAL"
=============================================================================
