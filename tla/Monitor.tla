------------------------------- MODULE Monitor -------------------------------
(***************************************************************************)
(* The autonomous monitor (src/src/autonomy) on several server processes   *)
(* that share one database.  A timer, a request to check now, or a change  *)
(* of the settings begins a check: it takes the session lock, reads the    *)
(* settings, takes the inbox of Alerts, publishes a notice for each alert, *)
(* and records when the next check is due.  Any query may fail and any     *)
(* process may die in the middle.                                          *)
(*                                                                         *)
(* Time passes in units of 30 seconds and is kept as ages, so that it has  *)
(* no end: `due` is how long until the next check, `age` how long ago a    *)
(* notice was created, `elapsed` how long ago a check began.               *)
(***************************************************************************)
EXTENDS Alerts, Integers

CONSTANTS
    Processes,
    NoProcess,
    Intervals,       \* the intervals and cooldowns the operator chooses from
    Cooldowns,
    MinCooldown,     \* the least cooldown validateMonitorSettings accepts
    MaxCooldown,
    MaxDelay,        \* bound on the time between the start of a check and its last insert
    MaxFailures      \* bound on failed queries and dead processes

ASSUME MonitorAssumption ==
    /\ NoProcess \notin Processes
    /\ Intervals \subseteq Nat \ {0}
    /\ MinCooldown \in Nat /\ MaxCooldown \in Nat
    /\ Cooldowns \subseteq MinCooldown..MaxCooldown
    /\ Intervals # {} /\ Cooldowns # {}
    /\ MaxDelay \in Nat
    /\ MaxFailures \in Nat

VARIABLES
    settings,    \* the row of cortex_monitor_settings
    lock,        \* the process whose session holds the advisory lock
    check,       \* check[p]: the check in flight on process p
    notices,     \* cortex_persistent_notifications
    failures     \* failed queries and dead processes so far

monitorVars == <<alertVars, settings, lock, check, notices, failures>>

RateLimit == 1            \* 30 seconds between a check and a manual one
OverdueBy == 1            \* the 30 seconds after which the diagnosis says "overdue"
MaxAge == MaxCooldown + MaxDelay    \* older notices silence nothing: their age stops here

Idle == [pc |-> "idle", force |-> FALSE, cooldown |-> MinCooldown, elapsed |-> 0,
         todo |-> {}, fresh |-> {}, ok |-> TRUE]

\* The steps during which a check still uses the time it began at.
Working == {"inbox", "publish", "insert"}

----------------------------------------------------------------------------
(* Operators of the code *)

Fault_LockIsShared == TRUE

\* pg_try_advisory_lock.
LockFree == lock = NoProcess

Fault_LockOutlivesItsProcess(p) == lock

\* The lock goes with the session of the process that held it.
LockWithout(p) == IF lock = p THEN NoProcess ELSE lock

\* checkLocked: whether this check has to look at the runs.
Wanted(c) ==
    /\ settings.enabled
    /\ c.force => settings.ok = "none" \/ settings.last >= RateLimit
    /\ ~c.force => settings.due <= 0

Fault_SilentForEver(key, cooldown, elapsed) ==
    \E n \in notices : n.key.workflow = key.workflow /\ n.key.status = key.status

\* A notice of the same workflow and status created less than `cooldown` before the
\* start of the check, which was `elapsed` ago.
Silenced(key, cooldown, elapsed) ==
    \E n \in notices :
        /\ n.key.workflow = key.workflow
        /\ n.key.status = key.status
        /\ n.age < elapsed + cooldown

Published == {n.key : n \in notices}

\* `complete`.
Completed(outcome) ==
    [settings EXCEPT !.last = 0, !.ok = outcome, !.due = settings.interval]

\* The settings row after `configure`: enabling, or another interval, makes a check due.
Configured(enabled, interval, cooldown) ==
    [settings EXCEPT
        !.enabled = enabled, !.interval = interval, !.cooldown = cooldown,
        !.due = IF enabled /\ (~settings.enabled \/ settings.interval # interval)
                THEN 0 ELSE settings.due]

\* diagnoseMonitorHealth.
Health ==
    CASE ~settings.enabled -> "disabled"
      [] settings.enabled /\ settings.ok = "failed" -> "degraded"
      [] settings.enabled /\ settings.ok # "failed" /\ settings.due < -OverdueBy -> "overdue"
      [] settings.enabled /\ settings.ok = "none" /\ settings.due >= -OverdueBy -> "starting"
      [] OTHER -> "healthy"

----------------------------------------------------------------------------
(* A check *)

MonitorInit ==
    /\ AlertsInit
    /\ \E i \in Intervals, c \in Cooldowns :
          settings = [enabled |-> FALSE, interval |-> i, cooldown |-> c, due |-> 0,
                      last |-> RateLimit, ok |-> "none"]
    /\ lock = NoProcess
    /\ check = [p \in Processes |-> Idle]
    /\ notices = {}
    /\ failures = 0

Goes(p, c) == check' = [check EXCEPT ![p] = c]

\* checkDue and withLock: one check at a time on a process, and none while another
\* process holds the lock.
Begin(p, force) ==
    /\ check[p].pc = "idle"
    /\ LockFree
    /\ lock' = p
    /\ Goes(p, [Idle EXCEPT !.pc = "settings", !.force = force])
    /\ UNCHANGED <<alertVars, settings, notices, failures>>

\* The check begins here, with the time and the cooldown of this moment.
ReadSettings(p) ==
    /\ check[p].pc = "settings"
    /\ Goes(p, IF Wanted(check[p])
               THEN [Idle EXCEPT !.pc = "inbox", !.cooldown = settings.cooldown]
               ELSE [Idle EXCEPT !.pc = "unlock"])
    /\ UNCHANGED <<alertVars, settings, lock, notices, failures>>

ReadInbox(p) ==
    /\ check[p].pc = "inbox"
    /\ Goes(p, [check[p] EXCEPT !.pc = "publish", !.todo = Candidates])
    /\ UNCHANGED <<alertVars, settings, lock, notices, failures>>

\* The WHERE NOT EXISTS of `insert` sees the notices committed before it runs.
Publish(p, k) ==
    /\ check[p].pc = "publish"
    /\ k \in check[p].todo
    /\ Goes(p, [check[p] EXCEPT
                  !.pc = "insert",
                  !.todo = check[p].todo \ {k},
                  !.fresh = IF Silenced(k, check[p].cooldown, check[p].elapsed)
                            THEN {} ELSE {k}])
    /\ UNCHANGED <<alertVars, settings, lock, notices, failures>>

\* The row goes in unless the same version and status is there already.
Insert(p) ==
    /\ check[p].pc = "insert"
    /\ notices' = notices \cup
         {[key |-> k, age |-> check[p].elapsed, read |-> FALSE] : k \in check[p].fresh \ Published}
    /\ Goes(p, [check[p] EXCEPT !.pc = "publish", !.fresh = {}])
    /\ UNCHANGED <<alertVars, settings, lock, failures>>

Complete(p) ==
    /\ check[p].pc = "publish"
    /\ check[p].todo = {}
    /\ settings' = Completed("ok")
    /\ Goes(p, [Idle EXCEPT !.pc = "event"])
    /\ UNCHANGED <<alertVars, lock, notices, failures>>

\* The catch of checkLocked records the failure.
ReportFailure(p) ==
    /\ check[p].pc = "failed"
    /\ settings' = Completed("failed")
    /\ Goes(p, [Idle EXCEPT !.pc = "event", !.ok = FALSE])
    /\ UNCHANGED <<alertVars, lock, notices, failures>>

\* The second statement of `complete`: the record of the check.
RecordEvent(p) ==
    /\ check[p].pc = "event"
    /\ Goes(p, [Idle EXCEPT !.pc = "unlock"])
    /\ UNCHANGED <<alertVars, settings, lock, notices, failures>>

Unlock(p) ==
    /\ check[p].pc = "unlock"
    /\ lock' = LockWithout(p)
    /\ Goes(p, Idle)
    /\ UNCHANGED <<alertVars, settings, notices, failures>>

Advance(p) ==
    \/ ReadSettings(p) \/ ReadInbox(p) \/ (\E k \in check[p].todo : Publish(p, k))
    \/ Insert(p) \/ Complete(p) \/ ReportFailure(p) \/ RecordEvent(p) \/ Unlock(p)

----------------------------------------------------------------------------
(* Failures, the operator, and time *)

\* A query fails: inside the try it leads to the record of a failure, outside to the end.
Fail(p) ==
    /\ failures < MaxFailures
    /\ failures' = failures + 1
    /\ \/ /\ check[p].pc \in Working \/ (check[p].pc = "event" /\ check[p].ok)
          /\ Goes(p, [Idle EXCEPT !.pc = "failed"])
       \/ /\ check[p].pc \in {"settings", "failed"} \/ (check[p].pc = "event" /\ ~check[p].ok)
          /\ Goes(p, [Idle EXCEPT !.pc = "unlock"])
    /\ UNCHANGED <<alertVars, settings, lock, notices>>

Crash(p) ==
    /\ failures < MaxFailures
    /\ failures' = failures + 1
    /\ check[p].pc # "idle"
    /\ lock' = LockWithout(p)
    /\ Goes(p, Idle)
    /\ UNCHANGED <<alertVars, settings, notices>>

Configure(enabled, interval, cooldown) ==
    /\ Configured(enabled, interval, cooldown) # settings
    /\ settings' = Configured(enabled, interval, cooldown)
    /\ UNCHANGED <<alertVars, lock, check, notices, failures>>

\* read_at = COALESCE(read_at, at): read for good, and nothing else changes.
MarkRead(n) ==
    /\ ~n.read
    /\ notices' = (notices \ {n}) \cup {[n EXCEPT !.read = TRUE]}
    /\ UNCHANGED <<alertVars, settings, lock, check, failures>>

Move(w, s) ==
    /\ WorkflowMoves(w, s)
    /\ UNCHANGED <<settings, lock, check, notices, failures>>

Sooner(due) == IF due < -OverdueBy THEN due ELSE due - 1

Older(age) == IF age < MaxAge THEN age + 1 ELSE age

Tick ==
    /\ \A p \in Processes : check[p].pc \in Working => check[p].elapsed < MaxDelay
    /\ GracesRunOut
    /\ settings' = [settings EXCEPT
                      !.due = Sooner(settings.due),
                      !.last = IF settings.last < RateLimit THEN settings.last + 1
                               ELSE settings.last]
    /\ check' = [p \in Processes |->
                   IF check[p].pc \in Working
                   THEN [check[p] EXCEPT !.elapsed = check[p].elapsed + 1]
                   ELSE check[p]]
    /\ notices' = {[n EXCEPT !.age = Older(n.age)] : n \in notices}
    /\ UNCHANGED <<acks, lock, failures>>

MonitorNext ==
    \/ \E p \in Processes :
         \/ \E force \in BOOLEAN : Begin(p, force)
         \/ Advance(p)
         \/ Fail(p)
         \/ Crash(p)
    \/ \E e \in BOOLEAN, i \in Intervals, c \in Cooldowns : Configure(e, i, c)
    \/ \E n \in notices : MarkRead(n)
    \/ \E w \in Workflows, s \in RunStatuses : Move(w, s)
    \/ Tick

MonitorSpec == MonitorInit /\ [][MonitorNext]_monitorVars

\* The timers fire, checks go on, and time passes; nothing makes the operator act.
Fairness ==
    /\ \A p \in Processes : WF_monitorVars(Begin(p, FALSE)) /\ WF_monitorVars(Advance(p))
    /\ WF_monitorVars(Tick)

FairMonitorSpec == MonitorSpec /\ Fairness

----------------------------------------------------------------------------
(* Properties *)

\* One type invariant: a check in flight is a record of its steps, and ages stay in range.
MonitorTypeOK ==
    /\ settings \in [enabled : BOOLEAN, interval : Intervals, cooldown : Cooldowns,
                     due : Int, last : Nat, ok : {"none", "ok", "failed"}]
    /\ lock \in Processes \cup {NoProcess}
    /\ check \in [Processes ->
                    [pc : {"idle", "settings", "unlock", "failed", "event"} \cup Working,
                     force : BOOLEAN, cooldown : MinCooldown..MaxCooldown, elapsed : 0..MaxDelay,
                     todo : SUBSET Keys, fresh : SUBSET Keys, ok : BOOLEAN]]
    /\ notices \subseteq [key : Keys, age : 0..MaxAge, read : BOOLEAN]
    /\ failures \in 0..MaxFailures

\* Whatever versions a run goes through, and however many processes check while the
\* operator changes the settings, two notices of the same workflow and status are at
\* least the least cooldown apart.
NoticesApart ==
    [][\A n \in notices' : n.key \notin Published =>
          \A m \in notices' :
             /\ m.key.workflow = n.key.workflow
             /\ m.key.status = n.key.status
             /\ m # n
             => m.age - n.age >= MinCooldown]_monitorVars

\* An alert that stays is notified, be it after a cooldown, a failed check or the death
\* of the process that was about to do it.
PersistentAlertIsNotified ==
    \A k \in Keys :
        k \in Candidates /\ settings.enabled
            ~> k \in Published \/ k \notin Candidates \/ ~settings.enabled

\* An overdue monitor recovers by itself: no lock or schedule is left behind by a check
\* that failed or died.
OverdueRecovers == Health = "overdue" ~> Health # "overdue"
=============================================================================
