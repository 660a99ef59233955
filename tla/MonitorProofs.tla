---------------------------- MODULE MonitorProofs ----------------------------
(***************************************************************************)
(* That two notices of the same workflow and status are a cooldown apart,  *)
(* for any number of processes, workflows and failures.  The insert of a   *)
(* notice asks for earlier ones and then writes: between the two, what it  *)
(* found must stay true.  It does, because a process only checks while it  *)
(* holds the lock, and because ages and the delay of a check grow alike.   *)
(***************************************************************************)
EXTENDS Monitor, TLAPS

\* The runs are well typed, so that alerts are keys.
RunsTypeOK ==
    run \in [Workflows -> [version : 1..MaxVersion, status : RunStatuses, grace : 0..Grace]]

\* A process checks only while its session holds the lock.
LockIsHeld == \A p \in Processes : check[p].pc # "idle" => lock = p

\* What is about to be inserted is at most one notice, and every other of its workflow
\* and status is older than the cooldown, counted from the start of the check.
FreshIsUnsilenced ==
    \A p \in Processes : check[p].pc = "insert" =>
        /\ \A k, l \in check[p].fresh : k = l
        /\ \A k \in check[p].fresh, n \in notices :
              n.key.workflow = k.workflow /\ n.key.status = k.status
                => n.age >= check[p].elapsed + check[p].cooldown

\* The inductive invariant.
ApartInv == RunsTypeOK /\ MonitorTypeOK /\ LockIsHeld /\ FreshIsUnsilenced

----------------------------------------------------------------------------
LEMMA CandidatesType == RunsTypeOK => Candidates \subseteq Keys
<1>1. ASSUME RunsTypeOK, NEW w \in Workflows PROVE KeyOf(w) \in Keys
  BY <1>1 DEF RunsTypeOK, KeyOf, Keys
<1> QED
  BY <1>1 DEF Candidates

LEMMA CooldownsExist == MinCooldown \in MinCooldown..MaxCooldown /\ Cooldowns # {}
<1>1. PICK c \in Cooldowns : c \in MinCooldown..MaxCooldown
  BY MonitorAssumption
<1> QED
  BY <1>1, MonitorAssumption

LEMMA ApartInit == MonitorInit => ApartInv
<1> SUFFICES ASSUME MonitorInit PROVE ApartInv
  OBVIOUS
<1>1. RunsTypeOK
  BY AlertsAssumption DEF MonitorInit, AlertsInit, RunsTypeOK
<1>2. MonitorTypeOK
  <2>1. PICK i \in Intervals, c \in Cooldowns :
          settings = [enabled |-> FALSE, interval |-> i, cooldown |-> c, due |-> 0,
                      last |-> RateLimit, ok |-> "none"]
    BY DEF MonitorInit
  <2>2. check = [p \in Processes |-> Idle] /\ lock = NoProcess /\ notices = {} /\ failures = 0
    BY DEF MonitorInit
  <2> QED
    BY <2>1, <2>2, MonitorAssumption, CooldownsExist DEF MonitorTypeOK, Idle, Working, RateLimit
<1>3. LockIsHeld /\ FreshIsUnsilenced
  BY DEF MonitorInit, LockIsHeld, FreshIsUnsilenced, Idle
<1> QED
  BY <1>1, <1>2, <1>3 DEF ApartInv

----------------------------------------------------------------------------
(* Types *)

LEMMA RunsTypeKept == ApartInv /\ [MonitorNext]_monitorVars => RunsTypeOK'
<1> SUFFICES ASSUME RunsTypeOK, [MonitorNext]_monitorVars PROVE RunsTypeOK'
  BY DEF ApartInv
<1>1. ASSUME NEW w \in Workflows, NEW s \in RunStatuses, Move(w, s) PROVE RunsTypeOK'
  BY <1>1, AlertsAssumption DEF Move, WorkflowMoves, RunsTypeOK
<1>2. CASE Tick
  BY <1>2, AlertsAssumption DEF Tick, GracesRunOut, RunsTypeOK
<1>3. CASE UNCHANGED run
  BY <1>3 DEF RunsTypeOK
<1> QED
  BY <1>1, <1>2, <1>3
     DEF MonitorNext, Begin, Advance, ReadSettings, ReadInbox, Publish, Insert, Complete,
         ReportFailure, RecordEvent, Unlock, Fail, Crash, Configure, MarkRead, monitorVars, alertVars

\* The records of checks, with what replaces one of them, and the rows of the settings.
CheckRecords ==
    [pc : {"idle", "settings", "unlock", "failed", "event"} \cup Working,
     force : BOOLEAN, cooldown : MinCooldown..MaxCooldown, elapsed : 0..MaxDelay,
     todo : SUBSET Keys, fresh : SUBSET Keys, ok : BOOLEAN]

SettingsRows ==
    [enabled : BOOLEAN, interval : Intervals, cooldown : Cooldowns,
     due : Int, last : Nat, ok : {"none", "ok", "failed"}]

LEMMA IdleType == Idle \in CheckRecords
BY MonitorAssumption, CooldownsExist DEF Idle, CheckRecords, Working

LEMMA GoesType ==
    ASSUME MonitorTypeOK, NEW p \in Processes, NEW c \in CheckRecords, Goes(p, c)
    PROVE  check' \in [Processes -> CheckRecords]
BY DEF MonitorTypeOK, Goes, CheckRecords
LEMMA MonitorTypeKept == ApartInv /\ [MonitorNext]_monitorVars => MonitorTypeOK'
<1> SUFFICES ASSUME RunsTypeOK, MonitorTypeOK, [MonitorNext]_monitorVars PROVE MonitorTypeOK'
  BY DEF ApartInv
<1> DEFINE Rest == /\ settings' = settings
                   /\ lock' \in Processes \cup {NoProcess}
                   /\ notices' = notices
                   /\ failures' \in 0..MaxFailures
<1>a. ASSUME check' \in [Processes -> CheckRecords], Rest PROVE MonitorTypeOK'
  BY <1>a DEF MonitorTypeOK, CheckRecords
<1>1. ASSUME NEW p \in Processes,
             \/ \E force \in BOOLEAN : Begin(p, force)
             \/ ReadSettings(p) \/ ReadInbox(p) \/ (\E k \in check[p].todo : Publish(p, k))
             \/ RecordEvent(p) \/ Unlock(p) \/ Fail(p) \/ Crash(p)
      PROVE  MonitorTypeOK'
  <2>1. check[p] \in CheckRecords /\ settings.cooldown \in MinCooldown..MaxCooldown
    BY MonitorAssumption DEF MonitorTypeOK, CheckRecords
  <2>2. LockWithout(p) \in Processes \cup {NoProcess}
    BY DEF LockWithout, MonitorTypeOK
  <2>3. failures + 1 \in 0..MaxFailures \/ ~(failures < MaxFailures)
    BY MonitorAssumption DEF MonitorTypeOK
  <2>4. Rest
    BY <1>1, <2>2, <2>3, MonitorAssumption
       DEF Begin, ReadSettings, ReadInbox, Publish, RecordEvent, Unlock, Fail, Crash, MonitorTypeOK
  <2>5. \E c \in CheckRecords : Goes(p, c)
    <3> USE <2>1, IdleType DEF CheckRecords, Working
    <3>1. ASSUME NEW force \in BOOLEAN, Begin(p, force) PROVE \E c \in CheckRecords : Goes(p, c)
      BY <3>1 DEF Begin
    <3>2. CASE ReadSettings(p)
      BY <3>2 DEF ReadSettings
    <3>3. CASE ReadInbox(p)
      BY <3>3, CandidatesType DEF ReadInbox
    <3>4. ASSUME NEW k \in check[p].todo, Publish(p, k) PROVE \E c \in CheckRecords : Goes(p, c)
      BY <3>4 DEF Publish
    <3>5. CASE RecordEvent(p) \/ Unlock(p) \/ Fail(p) \/ Crash(p)
      BY <3>5 DEF RecordEvent, Unlock, Fail, Crash
    <3> QED
      BY <1>1, <3>1, <3>2, <3>3, <3>4, <3>5
  <2> QED
    BY <1>a, <2>4, <2>5, GoesType
<1>2. ASSUME NEW p \in Processes, Insert(p) PROVE MonitorTypeOK'
  <2>1. check[p] \in CheckRecords
    BY DEF MonitorTypeOK, CheckRecords
  <2>2. check' \in [Processes -> CheckRecords]
    BY <1>2, <2>1, GoesType DEF Insert, CheckRecords, Working
  <2>3. 0..MaxDelay \subseteq 0..MaxAge
    BY MonitorAssumption, CooldownsExist DEF MaxAge
  <2>4. \A k \in check[p].fresh :
          [key |-> k, age |-> check[p].elapsed, read |-> FALSE]
            \in [key : Keys, age : 0..MaxAge, read : BOOLEAN]
    BY <2>1, <2>3 DEF CheckRecords
  <2>5. notices' \subseteq [key : Keys, age : 0..MaxAge, read : BOOLEAN]
    BY <1>2, <2>4 DEF Insert, MonitorTypeOK
  <2> QED
    BY <1>2, <2>2, <2>5 DEF Insert, MonitorTypeOK, CheckRecords
<1>3. ASSUME NEW p \in Processes, Complete(p) \/ ReportFailure(p) PROVE MonitorTypeOK'
  <2>1. check' \in [Processes -> CheckRecords]
    BY <1>3, IdleType, GoesType DEF Complete, ReportFailure, CheckRecords, Working
  <2>2. \A outcome \in {"ok", "failed"} : Completed(outcome) \in SettingsRows
    <3>1. settings \in SettingsRows
      BY DEF MonitorTypeOK, SettingsRows
    <3>2. \A i \in Intervals : i \in Int
      BY MonitorAssumption
    <3>3. settings.interval \in Int
      BY <3>1, <3>2 DEF SettingsRows
    <3> QED
      BY <3>1, <3>3 DEF Completed, SettingsRows
  <2>3. settings' \in SettingsRows
    BY <1>3, <2>2 DEF Complete, ReportFailure
  <2> QED
    BY <1>3, <2>1, <2>3 DEF Complete, ReportFailure, SettingsRows, MonitorTypeOK, CheckRecords
<1>4. ASSUME NEW e \in BOOLEAN, NEW i \in Intervals, NEW c \in Cooldowns, Configure(e, i, c)
      PROVE  MonitorTypeOK'
  <2>1. settings \in SettingsRows
    BY DEF MonitorTypeOK, SettingsRows
  <2>2. \A due \in Int :
          [settings EXCEPT !.enabled = e, !.interval = i, !.cooldown = c, !.due = due]
            \in SettingsRows
    BY <2>1 DEF SettingsRows
  <2> DEFINE next == IF e /\ (~settings.enabled \/ settings.interval # i) THEN 0 ELSE settings.due
  <2>3. next \in Int
    BY <2>1 DEF SettingsRows
  <2>4. Configured(e, i, c) \in SettingsRows
    <3>1. Configured(e, i, c) =
            [settings EXCEPT !.enabled = e, !.interval = i, !.cooldown = c, !.due = next]
      BY DEF Configured
    <3> QED
      BY <2>2, <2>3, <3>1
  <2> QED
    BY <1>4, <2>4 DEF Configure, MonitorTypeOK, SettingsRows
<1>5. ASSUME NEW n \in notices, MarkRead(n) PROVE MonitorTypeOK'
  BY <1>5 DEF MarkRead, MonitorTypeOK
<1>6. ASSUME NEW w \in Workflows, NEW s \in RunStatuses, Move(w, s) PROVE MonitorTypeOK'
  BY <1>6 DEF Move, MonitorTypeOK
<1>7. CASE Tick
  <2>1. settings' \in SettingsRows
    <3>1. settings \in SettingsRows
      BY DEF MonitorTypeOK, SettingsRows
    <3>2. Sooner(settings.due) \in Int
      BY <3>1 DEF Sooner, SettingsRows
    <3>3. (IF settings.last < RateLimit THEN settings.last + 1 ELSE settings.last) \in Nat
      BY <3>1 DEF SettingsRows
    <3> QED
      BY <1>7, <3>1, <3>2, <3>3 DEF Tick, SettingsRows
  <2>2. check' \in [Processes -> CheckRecords]
    BY <1>7, MonitorAssumption DEF Tick, MonitorTypeOK, CheckRecords, Working
  <2>3. \A n \in notices : Older(n.age) \in 0..MaxAge
    BY MonitorAssumption, CooldownsExist DEF MonitorTypeOK, Older, MaxAge
  <2>4. notices' \subseteq [key : Keys, age : 0..MaxAge, read : BOOLEAN]
    BY <1>7, <2>3 DEF Tick, MonitorTypeOK
  <2> QED
    BY <1>7, <2>1, <2>2, <2>4 DEF Tick, MonitorTypeOK, SettingsRows, CheckRecords
<1>8. CASE UNCHANGED monitorVars
  BY <1>8 DEF monitorVars, MonitorTypeOK
<1> QED
  BY <1>1, <1>2, <1>3, <1>4, <1>5, <1>6, <1>7, <1>8 DEF MonitorNext, Advance
----------------------------------------------------------------------------
(* The lock, and what is about to be inserted *)

LEMMA LockKept == ApartInv /\ [MonitorNext]_monitorVars => LockIsHeld'
<1> SUFFICES ASSUME MonitorTypeOK, LockIsHeld, [MonitorNext]_monitorVars PROVE LockIsHeld'
  BY DEF ApartInv
<1> USE MonitorAssumption DEF LockIsHeld, MonitorTypeOK
<1>1. ASSUME NEW p \in Processes, NEW force \in BOOLEAN, Begin(p, force) PROVE LockIsHeld'
  BY <1>1 DEF Begin, LockFree, Goes, Idle
<1>2. ASSUME NEW p \in Processes, Advance(p) \/ Fail(p) \/ Crash(p),
             lock' = lock, \A q \in Processes \ {p} : check'[q] = check[q], check[p].pc # "idle"
      PROVE  LockIsHeld'
  BY <1>2
<1>3. ASSUME NEW p \in Processes, Advance(p) \/ Fail(p), ~Unlock(p) PROVE LockIsHeld'
  BY <1>2, <1>3
     DEF Advance, ReadSettings, ReadInbox, Publish, Insert, Complete, ReportFailure, RecordEvent,
         Fail, Goes, Working
<1>4. ASSUME NEW p \in Processes, Unlock(p) \/ Crash(p) PROVE LockIsHeld'
  BY <1>4 DEF Unlock, Crash, LockWithout, Goes, Idle
<1>5. CASE Tick
  <2>1. \A p \in Processes : check'[p].pc = check[p].pc
    BY <1>5 DEF Tick
  <2> QED
    BY <1>5, <2>1 DEF Tick
<1>6. CASE UNCHANGED <<lock, check>>
  BY <1>6
<1> QED
  BY <1>1, <1>3, <1>4, <1>5, <1>6 DEF MonitorNext, Configure, MarkRead, Move, monitorVars

\* Who inserts holds the lock, so that no notice is added beside it; and a tick of the
\* clock adds to the ages what it adds to the delay of the check.
LEMMA FreshKept == ApartInv /\ [MonitorNext]_monitorVars => FreshIsUnsilenced'
<1> SUFFICES ASSUME ApartInv, [MonitorNext]_monitorVars PROVE FreshIsUnsilenced'
  OBVIOUS
<1> USE DEF ApartInv
<1>1. ASSUME NEW p \in Processes, NEW k \in check[p].todo, Publish(p, k)
      PROVE  FreshIsUnsilenced'
  <2>1. \A q \in Processes \ {p} : check[q].pc = "idle" /\ check'[q] = check[q]
    BY <1>1, MonitorAssumption DEF Publish, Goes, LockIsHeld, MonitorTypeOK
  <2>2. /\ check'[p].fresh = IF Silenced(k, check[p].cooldown, check[p].elapsed) THEN {} ELSE {k}
        /\ check'[p].elapsed = check[p].elapsed /\ check'[p].cooldown = check[p].cooldown
    BY <1>1 DEF Publish, Goes, MonitorTypeOK
  <2>3. \A l \in check'[p].fresh, n \in notices :
          n.key.workflow = l.workflow /\ n.key.status = l.status
            => ~(n.age < check[p].elapsed + check[p].cooldown)
    BY <2>2 DEF Silenced
  <2>4. \A n \in notices : n.age \in Int
    BY MonitorAssumption DEF MonitorTypeOK
  <2>5. check[p].elapsed \in Int /\ check[p].cooldown \in Int
    BY MonitorAssumption DEF MonitorTypeOK
  <2> QED
    BY <1>1, <2>1, <2>2, <2>3, <2>4, <2>5 DEF Publish, FreshIsUnsilenced
<1>2. ASSUME NEW p \in Processes, Insert(p) PROVE FreshIsUnsilenced'
  <2>1. \A q \in Processes \ {p} : check[q].pc = "idle" /\ check'[q] = check[q]
    BY <1>2, MonitorAssumption DEF Insert, Goes, LockIsHeld, MonitorTypeOK
  <2>2. check'[p].pc = "publish"
    BY <1>2 DEF Insert, Goes, MonitorTypeOK
  <2> QED
    BY <2>1, <2>2 DEF FreshIsUnsilenced
<1>3. ASSUME NEW n \in notices, MarkRead(n) PROVE FreshIsUnsilenced'
  <2>1. \A m \in notices' : \E l \in notices : m.key = l.key /\ m.age = l.age
    BY <1>3 DEF MarkRead, MonitorTypeOK
  <2> QED
    BY <1>3, <2>1 DEF MarkRead, FreshIsUnsilenced
<1>4. CASE Tick
  <2>1. ASSUME NEW p \in Processes, check'[p].pc = "insert", NEW k \in check'[p].fresh,
               NEW m \in notices', m.key.workflow = k.workflow, m.key.status = k.status
        PROVE  m.age >= check'[p].elapsed + check'[p].cooldown
    <3>1. /\ check[p].pc = "insert" /\ k \in check[p].fresh
          /\ check'[p].elapsed = check[p].elapsed + 1 /\ check'[p].cooldown = check[p].cooldown
      BY <1>4, <2>1 DEF Tick, MonitorTypeOK, Working
    <3>2. PICK n \in notices : m.key = n.key /\ m.age = Older(n.age)
      BY <1>4 DEF Tick, MonitorTypeOK
    <3>3. n.age >= check[p].elapsed + check[p].cooldown
      BY <2>1, <3>1, <3>2 DEF FreshIsUnsilenced
    <3>4. n.age \in Int /\ check[p].elapsed \in Int /\ check[p].cooldown \in Int
      BY MonitorAssumption DEF MonitorTypeOK
    <3>5. check[p].elapsed + 1 <= MaxDelay /\ check[p].cooldown <= MaxCooldown
      BY <1>4, <3>1, MonitorAssumption DEF Tick, MonitorTypeOK, Working
    <3> QED
      BY <3>1, <3>2, <3>3, <3>4, <3>5, MonitorAssumption DEF Older, MaxAge
  <2>2. \A p \in Processes : check'[p].pc = check[p].pc /\ check'[p].fresh = check[p].fresh
    BY <1>4 DEF Tick, MonitorTypeOK
  <2> QED
    BY <2>1, <2>2 DEF FreshIsUnsilenced
<1>5. ASSUME NEW p \in Processes, check'[p].pc # "insert", notices' = notices,
             \A q \in Processes \ {p} : check'[q] = check[q]
      PROVE  FreshIsUnsilenced'
  BY <1>5 DEF FreshIsUnsilenced
<1>6. ASSUME NEW p \in Processes, NEW force \in BOOLEAN, Begin(p, force)
      PROVE  FreshIsUnsilenced'
  BY <1>5, <1>6 DEF Begin, Goes, Idle, MonitorTypeOK
<1>7. ASSUME NEW p \in Processes,
             \/ ReadSettings(p) \/ ReadInbox(p) \/ Complete(p) \/ ReportFailure(p)
             \/ RecordEvent(p) \/ Unlock(p) \/ Fail(p) \/ Crash(p)
      PROVE  FreshIsUnsilenced'
  <2>1. notices' = notices
    BY <1>7 DEF ReadSettings, ReadInbox, Complete, ReportFailure, RecordEvent, Unlock, Fail, Crash
  <2>2. \A q \in Processes \ {p} : check'[q] = check[q]
    BY <1>7 DEF ReadSettings, ReadInbox, Complete, ReportFailure, RecordEvent, Unlock, Fail, Crash,
                Goes, MonitorTypeOK
  <2>3. CASE ReadSettings(p) \/ ReadInbox(p)
    <3>1. check'[p].pc # "insert"
      BY <2>3 DEF ReadSettings, ReadInbox, Goes, Idle, MonitorTypeOK
    <3> QED
      BY <1>5, <2>1, <2>2, <3>1
  <2>4. CASE Complete(p) \/ ReportFailure(p) \/ RecordEvent(p)
    <3>1. check'[p].pc # "insert"
      BY <2>4 DEF Complete, ReportFailure, RecordEvent, Goes, Idle, MonitorTypeOK
    <3> QED
      BY <1>5, <2>1, <2>2, <3>1
  <2>5. CASE Unlock(p) \/ Crash(p)
    <3>1. check'[p].pc # "insert"
      BY <2>5 DEF Unlock, Crash, Goes, Idle, MonitorTypeOK
    <3> QED
      BY <1>5, <2>1, <2>2, <3>1
  <2>6. CASE Fail(p)
    <3>1. check'[p].pc # "insert"
      BY <2>6 DEF Fail, Goes, Idle, MonitorTypeOK
    <3> QED
      BY <1>5, <2>1, <2>2, <3>1
  <2> QED
    BY <1>7, <2>3, <2>4, <2>5, <2>6
<1>8. CASE UNCHANGED <<check, notices>>
  BY <1>8 DEF FreshIsUnsilenced
<1> QED
  BY <1>1, <1>2, <1>3, <1>4, <1>6, <1>7, <1>8
     DEF MonitorNext, Advance, Configure, Move, monitorVars

LEMMA ApartAlways == MonitorSpec => []ApartInv
<1>1. ApartInv /\ [MonitorNext]_monitorVars => ApartInv'
  BY RunsTypeKept, MonitorTypeKept, LockKept, FreshKept DEF ApartInv
<1> QED
  BY <1>1, ApartInit, PTL DEF MonitorSpec

----------------------------------------------------------------------------
LEMMA OnlyInsertAddsKeys ==
    ASSUME ApartInv, [MonitorNext]_monitorVars, NEW n \in notices', n.key \notin Published
    PROVE  \E p \in Processes : Insert(p)
<1> USE DEF ApartInv, Published
<1>1. notices' # notices
  OBVIOUS
<1>2. ~Tick
  BY DEF Tick, MonitorTypeOK
<1>3. ~\E m \in notices : MarkRead(m)
  BY DEF MarkRead, MonitorTypeOK
<1> QED
  BY <1>1, <1>2, <1>3
     DEF MonitorNext, Advance, Begin, ReadSettings, ReadInbox, Publish, Complete, ReportFailure,
         RecordEvent, Unlock, Fail, Crash, Configure, Move, monitorVars

LEMMA NewNoticesAreApart ==
    ASSUME ApartInv, [MonitorNext]_monitorVars, NEW n \in notices', n.key \notin Published,
           NEW m \in notices', m.key.workflow = n.key.workflow, m.key.status = n.key.status, m # n
    PROVE  m.age - n.age >= MinCooldown
<1> USE DEF ApartInv
<1>1. PICK p \in Processes : Insert(p)
  BY OnlyInsertAddsKeys
<1>2. n.key \in check[p].fresh /\ n.age = check[p].elapsed /\ n.read = FALSE
  BY <1>1 DEF Insert, Published
<1>3. m \in notices
  BY <1>1, <1>2 DEF Insert, Published, FreshIsUnsilenced
<1>4. m.age >= check[p].elapsed + check[p].cooldown
  BY <1>1, <1>2, <1>3 DEF Insert, FreshIsUnsilenced
<1>5. m.age \in Int /\ check[p].elapsed \in Int
  BY <1>3, MonitorAssumption DEF MonitorTypeOK
<1>6. check[p].cooldown \in Int /\ check[p].cooldown >= MinCooldown
  BY MonitorAssumption DEF MonitorTypeOK
<1> QED
  BY <1>2, <1>4, <1>5, <1>6, MonitorAssumption

\* Settings, checks and notices are always well typed; in particular a check never lasts, nor
\* a notice ages, beyond what the model counts.
THEOREM MonitorTypeCorrect == MonitorSpec => []MonitorTypeOK
BY ApartAlways, PTL DEF ApartInv

\* However many processes check, fail and die while the operator changes the settings, two
\* notices of a workflow in the same status are at least the least cooldown apart.
THEOREM NoticesAreApart == MonitorSpec => NoticesApart
<1>1. ApartInv /\ [MonitorNext]_monitorVars =>
        [\A n \in notices' : n.key \notin Published =>
            \A m \in notices' :
               /\ m.key.workflow = n.key.workflow
               /\ m.key.status = n.key.status
               /\ m # n
               => m.age - n.age >= MinCooldown]_monitorVars
  BY NewNoticesAreApart
<1> QED
  BY <1>1, ApartAlways, PTL DEF MonitorSpec, NoticesApart
=============================================================================
