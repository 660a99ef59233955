------------------------ MODULE WorkflowBranchProofs ------------------------
(***************************************************************************)
(* What the loop of evaluateWorkflowBranches computes, for every           *)
(* definition and every run.  Its two recursive functions are shown to     *)
(* satisfy their equations, and everything else follows by induction: on   *)
(* the steps left in a pass, and on the passes left.                       *)
(***************************************************************************)
EXTENDS WorkflowBranches, FiniteSetTheorems, TLAPS

----------------------------------------------------------------------------
(* Induction and recursion *)

\* A non-empty set of naturals has a least element.
LEMMA LeastElement ==
    ASSUME NEW S \in SUBSET Nat, S # {}
    PROVE  \E s \in S : \A t \in S : s <= t
<1>1. \A x, y \in Nat : x < y => <<x, y>> \in OpToRel(<, Nat)
  BY Zenon DEF OpToRel
<1>2. PICK R : IsWellFoundedOn(R, Nat) /\ \A x, y \in Nat : x < y => <<x, y>> \in R
  BY <1>1, NatLessThanWellFounded, Zenon
<1>3. PICK s \in S : \A t \in S : ~(<<t, s>> \in R)
  <2>1. IsWellFoundedOn(R, Nat)
    BY <1>2
  <2>2. ASSUME NEW T, T \subseteq Nat, T # {}
        PROVE  \E x \in T : \A y \in T : ~(<<y, x>> \in R)
    BY <2>1, <2>2, WFMin
  <2> QED
    BY <2>2
<1>4. \A t \in S : s <= t
  <2> SUFFICES ASSUME NEW t \in S PROVE s <= t
    OBVIOUS
  <2>1. s \in Nat /\ t \in Nat
    OBVIOUS
  <2>2. ~(t < s)
    BY <1>2, <1>3, <2>1
  <2> QED
    BY <2>1, <2>2
<1> QED
  BY <1>4

\* Induction, on a set instead of a predicate.
LEMMA Induction ==
    ASSUME NEW T, 0 \in T, \A n \in Nat : n \in T => n + 1 \in T
    PROVE  \A n \in Nat : n \in T
<1> SUFFICES ASSUME NEW n \in Nat, n \notin T PROVE FALSE
  OBVIOUS
<1> DEFINE S == {m \in Nat : m \notin T}
<1>1. PICK m \in S : \A k \in S : m <= k
  BY LeastElement
<1>2. m \in Nat /\ m \notin T /\ m # 0
  OBVIOUS
<1>3. m - 1 \in Nat /\ m - 1 \notin S
  BY <1>1, <1>2
<1> QED
  BY <1>2, <1>3

\* A countdown is a function: after n steps left, either the value of a stop or the
\* value of the next argument with one step less.
CountsDown(f, X, N, stop, value, next) ==
    \A n \in 0..N, x \in X :
        f[n][x] = IF n = 0 THEN x
                  ELSE IF stop[n][x] THEN value[n][x] ELSE f[n - 1][next[n][x]]

Countdown(f, X, N, stop, value, next) ==
    f \in [0..N -> [X -> X]] /\ CountsDown(f, X, N, stop, value, next)

LEMMA CountdownExists ==
    ASSUME NEW X, NEW N \in Nat, NEW stop, NEW value, NEW next,
           \A n \in 1..N, x \in X : value[n][x] \in X /\ next[n][x] \in X
    PROVE  \E f : Countdown(f, X, N, stop, value, next)
<1> DEFINE Solves(f, m) == Countdown(f, X, m, stop, value, next)
           T == {m \in Nat : m <= N => \E f : Solves(f, m)}
<1>1. 0 \in T
  <2> DEFINE f == [n \in 0..0 |-> [x \in X |-> x]]
  <2>1. Solves(f, 0)
    BY DEF Countdown, CountsDown
  <2>2. \E g : Solves(g, 0)
    <3> HIDE DEF f, Solves
    <3> QED
      BY <2>1
  <2> QED
    BY <2>2
<1>2. ASSUME NEW m \in Nat, m \in T PROVE m + 1 \in T
  <2> HIDE DEF Solves
  <2> SUFFICES ASSUME m + 1 <= N PROVE \E f : Solves(f, m + 1)
    OBVIOUS
  <2> USE DEF Solves, Countdown, CountsDown
  <2>1. PICK g : Solves(g, m)
    BY <1>2
  <2> DEFINE row == [x \in X |-> IF stop[m + 1][x] THEN value[m + 1][x]
                                 ELSE g[m][next[m + 1][x]]]
             f == [n \in 0..(m + 1) |-> IF n = m + 1 THEN row ELSE g[n]]
  <2>2. m + 1 \in 1..N /\ m \in 0..m
    OBVIOUS
  <2>3. row \in [X -> X]
    BY <2>1, <2>2
  <2> HIDE DEF row
  <2>4. f \in [0..(m + 1) -> [X -> X]]
    BY <2>1, <2>3
  <2>5. ASSUME NEW n \in 0..(m + 1), NEW x \in X
        PROVE  f[n][x] = IF n = 0 THEN x
                         ELSE IF stop[n][x] THEN value[n][x] ELSE f[n - 1][next[n][x]]
    <3>1. CASE n = m + 1
      <4>1. n # 0 /\ f[n] = row /\ n - 1 = m /\ f[m] = g[m]
        BY <3>1
      <4> QED
        BY <3>1, <4>1 DEF row
    <3>2. CASE n # m + 1
      <4>1. n \in 0..m /\ f[n] = g[n] /\ (n # 0 => f[n - 1] = g[n - 1])
        BY <3>2
      <4> QED
        BY <2>1, <4>1
    <3> QED
      BY <3>1, <3>2
  <2>6. Solves(f, m + 1)
    BY <2>4, <2>5
  <2> HIDE DEF f, Solves, Countdown, CountsDown
  <2> QED
    BY <2>6
<1>3. N \in T
  <2> HIDE DEF T
  <2> QED
    BY <1>1, <1>2, Induction
<1>4. PICK f : Solves(f, N)
  BY <1>3
<1> QED
  BY <1>4

\* Whatever satisfies the equation is a countdown: its values stay in X.
LEMMA CountdownType ==
    ASSUME NEW X, NEW N \in Nat, NEW stop, NEW value, NEW next,
           \A n \in 1..N, x \in X : value[n][x] \in X /\ next[n][x] \in X,
           NEW f, CountsDown(f, X, N, stop, value, next)
    PROVE  \A n \in 0..N, x \in X : f[n][x] \in X
<1> USE DEF CountsDown
<1> DEFINE T == {n \in Nat : n <= N => \A x \in X : f[n][x] \in X}
<1>1. 0 \in T
  <2>1. \A x \in X : f[0][x] = x
    <3>1. 0 \in 0..N
      OBVIOUS
    <3> QED
      BY <3>1
  <2> QED
    BY <2>1
<1>2. ASSUME NEW n \in Nat, n \in T PROVE n + 1 \in T
  <2> SUFFICES ASSUME n + 1 <= N, NEW x \in X PROVE f[n + 1][x] \in X
    OBVIOUS
  <2>1. n + 1 \in 0..N /\ n + 1 \in 1..N /\ (n + 1) - 1 = n /\ n + 1 # 0
    OBVIOUS
  <2>2. \A y \in X : f[n][y] \in X
    BY <1>2
  <2> HIDE DEF T
  <2> QED
    BY <2>1, <2>2
<1> HIDE DEF T
<1>3. \A n \in Nat : n \in T
  BY <1>1, <1>2, Induction
<1> QED
  BY <1>3 DEF T

----------------------------------------------------------------------------
(* The step `advance` acts on *)

\* `find` on a non-empty selection of the step array returns one of its members.
LEMMA FirstStepMember ==
    ASSUME NEW S \in SUBSET Steps, S # {}
    PROVE  FirstStep(S) \in S
<1>1. \E s \in S : \A t \in S : s <= t
  BY LeastElement DEF Steps
<1> QED
  BY <1>1 DEF FirstStep

\* The step `advance` acts on is pending or waiting for approval.
LEMMA NextStepMember ==
    ASSUME NEW d, NEW run, NextSteps(d, run) # {}
    PROVE  /\ NextStep(d, run) \in Steps /\ NextStep(d, run) \in NextSteps(d, run)
           /\ run.status[NextStep(d, run)] \in {"PENDING", "WAITING_APPROVAL"}
           /\ InStatus(run, "WAITING_APPROVAL") # {}
                => run.status[NextStep(d, run)] = "WAITING_APPROVAL"
           /\ InStatus(run, "WAITING_APPROVAL") = {}
                => run.status[NextStep(d, run)] = "PENDING"
<1>1. CASE InStatus(run, "WAITING_APPROVAL") # {}
  <2>1. NextStep(d, run) = FirstStep(InStatus(run, "WAITING_APPROVAL"))
    BY <1>1 DEF NextStep
  <2>2. NextStep(d, run) \in InStatus(run, "WAITING_APPROVAL")
    BY <1>1, <2>1, FirstStepMember DEF InStatus
  <2> QED
    BY <1>1, <2>2 DEF InStatus, NextSteps
<1>2. CASE InStatus(run, "WAITING_APPROVAL") = {}
  <2> DEFINE ready == ReadySteps(d, run)
             handlers == {s \in ready : IsHandler(d, s)}
  <2>1. ready # {} /\ ready \in SUBSET Steps /\ handlers \in SUBSET Steps
    BY <1>2 DEF NextSteps, ReadySteps, InStatus
  <2>2. NextStep(d, run) = FirstStep(IF handlers # {} THEN handlers ELSE ready)
    BY <1>2 DEF NextStep, FirstReadyStep
  <2> HIDE DEF handlers
  <2>3. NextStep(d, run) \in ready
    <3>1. CASE handlers # {}
      BY <2>1, <2>2, <3>1, FirstStepMember DEF handlers
    <3>2. CASE handlers = {}
      BY <2>1, <2>2, <3>2, FirstStepMember
    <3> QED
      BY <3>1, <3>2
  <2>4. NextStep(d, run) \in InStatus(run, "PENDING")
    BY <2>3 DEF ReadySteps
  <2> QED
    BY <1>2, <2>3, <2>4 DEF InStatus, NextSteps
<1> QED
  BY <1>1, <1>2

----------------------------------------------------------------------------
(* The equations of a pass and of the loop *)

\* The runs as deciding sees them.
ProgressRuns ==
    [status : Statuses, output : [Steps -> Outputs], recoveries : [Steps -> Nat]]

At(run, status) == [run EXCEPT !.status = status]

LEMMA StatusesStay ==
    ASSUME NEW status \in Statuses, NEW s \in Steps
    PROVE  /\ [status EXCEPT ![s] = "SKIPPED"] \in Statuses
           /\ [status EXCEPT ![s] = "FAILED"] \in Statuses
  BY DEF Statuses, StepStatuses

\* One visit of a pass, and the decisions that its other visits take.
PassRow(pass, d, run, left, status) ==
    LET s == StepCount + 1 - left
        decision == Decision(d, At(run, status), s)
    IN  IF left = 0 THEN status
        ELSE IF decision = "fail" THEN [status EXCEPT ![s] = "FAILED"]
        ELSE IF decision = "skip" THEN pass[left - 1][[status EXCEPT ![s] = "SKIPPED"]]
        ELSE pass[left - 1][status]

LEMMA PassEquation ==
    ASSUME NEW d, NEW run
    PROVE  /\ Pass(d, run) \in [0..StepCount -> [Statuses -> Statuses]]
           /\ \A left \in 0..StepCount, status \in Statuses :
                Pass(d, run)[left][status] = PassRow(Pass(d, run), d, run, left, status)
<1> DEFINE s(n) == StepCount + 1 - n
           decision(n, x) == Decision(d, At(run, x), s(n))
           stop == [n \in 1..StepCount |-> [x \in Statuses |-> decision(n, x) = "fail"]]
           value == [n \in 1..StepCount |-> [x \in Statuses |-> [x EXCEPT ![s(n)] = "FAILED"]]]
           next == [n \in 1..StepCount |-> [x \in Statuses |->
                      IF decision(n, x) = "skip" THEN [x EXCEPT ![s(n)] = "SKIPPED"] ELSE x]]
           Row(f, n, x) ==
             IF n = 0 THEN x
             ELSE IF decision(n, x) = "fail" THEN [x EXCEPT ![s(n)] = "FAILED"]
             ELSE IF decision(n, x) = "skip" THEN f[n - 1][[x EXCEPT ![s(n)] = "SKIPPED"]]
             ELSE f[n - 1][x]
           Equation(f) == f = [n \in 0..StepCount |-> [x \in Statuses |-> Row(f, n, x)]]
<1>1. StepCount \in Nat /\ \A n \in 1..StepCount : s(n) \in Steps
  BY StepCountAssumption DEF Steps
<1> HIDE DEF decision
<1>2. \A n \in 1..StepCount, x \in Statuses :
        /\ stop[n][x] = (decision(n, x) = "fail")
        /\ value[n][x] = [x EXCEPT ![s(n)] = "FAILED"]
        /\ next[n][x] = IF decision(n, x) = "skip" THEN [x EXCEPT ![s(n)] = "SKIPPED"] ELSE x
        /\ value[n][x] \in Statuses /\ next[n][x] \in Statuses
  BY <1>1, StatusesStay
<1> HIDE DEF stop, value, next
<1>3. PICK f : Countdown(f, Statuses, StepCount, stop, value, next)
  <2>1. \A n \in 1..StepCount, x \in Statuses :
          value[n][x] \in Statuses /\ next[n][x] \in Statuses
    BY <1>2
  <2> QED
    BY <1>1, <2>1, CountdownExists
<1>4. Equation(f) /\ f \in [0..StepCount -> [Statuses -> Statuses]]
  <2>1. ASSUME NEW n \in 0..StepCount, NEW x \in Statuses PROVE f[n][x] = Row(f, n, x)
    <3>1. f[n][x] = IF n = 0 THEN x
                    ELSE IF stop[n][x] THEN value[n][x] ELSE f[n - 1][next[n][x]]
      BY <1>3 DEF Countdown, CountsDown
    <3>2. CASE n = 0
      BY <3>1, <3>2
    <3>3. CASE n # 0
      <4>1. n \in 1..StepCount
        BY <1>1, <3>3
      <4> QED
        BY <1>2, <3>1, <3>3, <4>1
    <3> QED
      BY <3>2, <3>3
  <2>2. f \in [0..StepCount -> [Statuses -> Statuses]]
    BY <1>3 DEF Countdown
  <2> HIDE DEF Row
  <2> QED
    BY <2>1, <2>2
<1>5. Equation(Pass(d, run))
  <2>1. Pass(d, run) = CHOOSE g : Equation(g)
    BY Zenon DEF Pass, At, decision
  <2> HIDE DEF Equation
  <2> QED
    BY <1>4, <2>1
<1> DEFINE g == Pass(d, run)
<1> HIDE DEF g
<1>6. /\ \A n \in 0..StepCount, x \in Statuses : g[n][x] = Row(g, n, x)
      /\ g = [n \in 0..StepCount |-> [x \in Statuses |-> g[n][x]]]
  <2> HIDE DEF Row
  <2>1. g = [n \in 0..StepCount |-> [x \in Statuses |-> Row(g, n, x)]]
    BY <1>5 DEF g
  <2> DEFINE table == [n \in 0..StepCount |-> [x \in Statuses |-> Row(g, n, x)]]
  <2>2. ASSUME NEW n \in 0..StepCount, NEW x \in Statuses PROVE table[n][x] = Row(g, n, x)
    OBVIOUS
  <2> HIDE DEF table
  <2>3. \A n \in 0..StepCount, x \in Statuses : g[n][x] = Row(g, n, x)
    BY <2>1, <2>2, Zenon DEF table
  <2> QED
    BY <2>1, <2>3, Zenon
<1>7. g \in [0..StepCount -> [Statuses -> Statuses]]
  <2>1. \A n \in 1..StepCount, x \in Statuses :
          value[n][x] \in Statuses /\ next[n][x] \in Statuses
    BY <1>2
  <2>2. ASSUME NEW n \in 0..StepCount, NEW x \in Statuses
        PROVE  g[n][x] = IF n = 0 THEN x
                         ELSE IF stop[n][x] THEN value[n][x] ELSE g[n - 1][next[n][x]]
    <3>1. CASE n = 0
      BY <1>6, <3>1
    <3>2. CASE n # 0
      <4>1. n \in 1..StepCount
        BY <1>1, <3>2
      <4>2. g[n][x] = Row(g, n, x)
        BY <1>6
      <4>3. /\ stop[n][x] = (decision(n, x) = "fail")
            /\ value[n][x] = [x EXCEPT ![s(n)] = "FAILED"]
            /\ next[n][x] = IF decision(n, x) = "skip" THEN [x EXCEPT ![s(n)] = "SKIPPED"] ELSE x
        BY <1>2, <4>1
      <4> HIDE DEF s
      <4> QED
        BY <3>2, <4>2, <4>3
    <3> QED
      BY <3>1, <3>2
  <2>3. CountsDown(g, Statuses, StepCount, stop, value, next)
    BY <2>2 DEF CountsDown
  <2>4. \A n \in 0..StepCount, x \in Statuses : g[n][x] \in Statuses
    BY <1>1, <2>1, <2>3, CountdownType
  <2> QED
    BY <1>6, <2>4
<1>8. ASSUME NEW n \in 0..StepCount, NEW x \in Statuses
      PROVE  g[n][x] = PassRow(g, d, run, n, x)
  <2>1. Row(g, n, x) = PassRow(g, d, run, n, x)
    BY Zenon DEF PassRow, decision
  <2> HIDE DEF Row
  <2> QED
    BY <1>6, <2>1
<1> QED
  BY <1>7, <1>8 DEF g

\* One pass of the loop, and what its other passes do; `once` is a whole pass.
LoopRow(loop, once, left, status) ==
    IF left = 0 THEN status
    ELSE IF once[status] = status \/ ConditionFailed(status, once[status]) THEN once[status]
    ELSE loop[left - 1][once[status]]

LEMMA PassesEquation ==
    ASSUME NEW d, NEW run
    PROVE  /\ Passes(d, run) \in [0..MaxPasses -> [Statuses -> Statuses]]
           /\ \A left \in 0..MaxPasses, status \in Statuses :
                Passes(d, run)[left][status] =
                  LoopRow(Passes(d, run), Pass(d, run)[StepCount], left, status)
<1> DEFINE once == Pass(d, run)[StepCount]
           stop == [n \in 1..MaxPasses |-> [x \in Statuses |->
                      once[x] = x \/ ConditionFailed(x, once[x])]]
           rows == [n \in 1..MaxPasses |-> once]
           Row(f, n, x) ==
             IF n = 0 THEN x
             ELSE IF once[x] = x \/ ConditionFailed(x, once[x]) THEN once[x]
             ELSE f[n - 1][once[x]]
           Rule(f, n, x) ==
             IF n = 0 THEN x ELSE IF stop[n][x] THEN rows[n][x] ELSE f[n - 1][rows[n][x]]
           Equation(f) == f = [n \in 0..MaxPasses |-> [x \in Statuses |-> Row(f, n, x)]]
<1>1. MaxPasses \in Nat /\ once \in [Statuses -> Statuses]
  BY StepCountAssumption, PassEquation DEF MaxPasses
<1> HIDE DEF once
<1>2. \A n \in 1..MaxPasses, x \in Statuses :
        /\ stop[n][x] = (once[x] = x \/ ConditionFailed(x, once[x]))
        /\ rows[n][x] = once[x]
  OBVIOUS
<1>3. \A n \in 1..MaxPasses, x \in Statuses : rows[n][x] \in Statuses /\ rows[n][x] \in Statuses
  BY <1>1, <1>2
<1> HIDE DEF stop, rows
<1>4. ASSUME NEW f, NEW n \in 0..MaxPasses, NEW x \in Statuses
      PROVE  Row(f, n, x) = Rule(f, n, x)
  <2>1. CASE n = 0
    BY <2>1
  <2>2. CASE n # 0
    <3>1. n \in 1..MaxPasses
      BY <1>1, <2>2
    <3>2. /\ stop[n][x] = (once[x] = x \/ ConditionFailed(x, once[x]))
          /\ rows[n][x] = once[x]
      BY <1>2, <3>1
    <3> QED
      BY <2>2, <3>2
  <2> QED
    BY <2>1, <2>2
<1> HIDE DEF Row, Rule
<1>5. PICK f : Countdown(f, Statuses, MaxPasses, stop, rows, rows)
  BY <1>1, <1>3, CountdownExists
<1>6. Equation(f)
  <2>1. ASSUME NEW n \in 0..MaxPasses, NEW x \in Statuses PROVE f[n][x] = Row(f, n, x)
    <3>1. f[n][x] = Rule(f, n, x)
      BY <1>5 DEF Countdown, CountsDown, Rule
    <3> QED
      BY <1>4, <3>1, Zenon
  <2>2. f \in [0..MaxPasses -> [Statuses -> Statuses]]
    BY <1>5 DEF Countdown
  <2> QED
    BY <2>1, <2>2
<1> DEFINE g == Passes(d, run)
<1>7. Equation(g)
  <2>1. g = CHOOSE h : Equation(h)
    BY Zenon DEF Passes, Row, once
  <2> HIDE DEF Equation
  <2> QED
    BY <1>6, <2>1
<1> HIDE DEF g
<1>8. /\ \A n \in 0..MaxPasses, x \in Statuses : g[n][x] = Row(g, n, x)
      /\ g = [n \in 0..MaxPasses |-> [x \in Statuses |-> g[n][x]]]
  <2> DEFINE table == [n \in 0..MaxPasses |-> [x \in Statuses |-> Row(g, n, x)]]
  <2>1. \A n \in 0..MaxPasses, x \in Statuses : table[n][x] = Row(g, n, x)
    OBVIOUS
  <2> HIDE DEF table
  <2>2. \A n \in 0..MaxPasses, x \in Statuses : g[n][x] = Row(g, n, x)
    BY <1>7, <2>1, Zenon DEF table
  <2> QED
    BY <1>7, <2>2, Zenon
<1>9. g \in [0..MaxPasses -> [Statuses -> Statuses]]
  <2>1. \A n \in 0..MaxPasses, x \in Statuses : g[n][x] = Rule(g, n, x)
    BY <1>4, <1>8, Zenon
  <2>2. CountsDown(g, Statuses, MaxPasses, stop, rows, rows)
    BY <2>1 DEF CountsDown, Rule
  <2>3. \A n \in 0..MaxPasses, x \in Statuses : g[n][x] \in Statuses
    BY <1>1, <1>3, <2>2, CountdownType
  <2> QED
    BY <1>8, <2>3
<1>10. ASSUME NEW n \in 0..MaxPasses, NEW x \in Statuses
       PROVE  g[n][x] = LoopRow(g, Pass(d, run)[StepCount], n, x)
  <2>1. Row(g, n, x) = LoopRow(g, Pass(d, run)[StepCount], n, x)
    BY Zenon DEF LoopRow, Row, once
  <2> QED
    BY <1>8, <2>1
<1> QED
  BY <1>9, <1>10 DEF g

----------------------------------------------------------------------------
(* A decision stays right while others are taken *)

\* Deciding only skips or fails steps that are pending.
Advances(x, y) ==
    \A s \in Steps : \/ y[s] = x[s]
                     \/ x[s] = "PENDING" /\ y[s] \in {"SKIPPED", "FAILED"}

\* What a run looks like to the rules about one step: its parents and their statuses.
LEMMA DecisionIsLocal ==
    ASSUME NEW d, ValidDefinition(d), NEW run \in ProgressRuns, NEW s \in Steps,
           NEW x \in Statuses, NEW y \in Statuses,
           x[s] = y[s], \A p \in d.dependsOn[s] : x[p] = y[p]
    PROVE  Decision(d, At(run, x), s) = Decision(d, At(run, y), s)
<1> DEFINE parents == d.dependsOn[s]
<1>1. /\ parents \subseteq Steps
      /\ d.when[s] # NoWhen => d.when[s].step \in parents
      /\ IsHandler(d, s) => d.onFailureOf[s] \in parents
  BY DEF ValidDefinition, WorkflowDefinitions, StepIsDeclaredProperly, HandlerIsDeclaredProperly
<1>2. /\ At(run, x).status = x /\ At(run, y).status = y
      /\ At(run, x).output = run.output /\ At(run, y).output = run.output
      /\ At(run, x).recoveries = run.recoveries /\ At(run, y).recoveries = run.recoveries
  BY DEF At, ProgressRuns
<1> HIDE DEF parents
<1>3. \A st : parents \cap InStatus(At(run, x), st) = parents \cap InStatus(At(run, y), st)
  BY <1>1, <1>2 DEF InStatus, parents
<1>4. Unreachable(d, At(run, x), s) = Unreachable(d, At(run, y), s)
  BY <1>1, <1>2, <1>3 DEF Unreachable, parents
<1>5. DependenciesReady(d, At(run, x), s) = DependenciesReady(d, At(run, y), s)
  <2> DEFINE complete(z) == InStatus(At(run, z), "COMPLETED")
             settled(z) == complete(z) \cup InStatus(At(run, z), "SKIPPED")
  <2>1. parents \cap complete(x) = parents \cap complete(y)
    BY <1>3
  <2>2. /\ parents \subseteq complete(x) <=> parents \subseteq complete(y)
        /\ parents \subseteq settled(x) <=> parents \subseteq settled(y)
        /\ \A p : parents \ {p} \subseteq complete(x) <=> parents \ {p} \subseteq complete(y)
    BY <1>1, <1>2 DEF InStatus, parents
  <2>3. /\ RecoveryAuthorized(At(run, x), d.onFailureOf[s])
              <=> RecoveryAuthorized(At(run, y), d.onFailureOf[s])
        /\ IsHandler(d, s) =>
              At(run, x).status[d.onFailureOf[s]] = At(run, y).status[d.onFailureOf[s]]
    BY <1>1, <1>2 DEF RecoveryAuthorized, parents
  <2> HIDE DEF complete, settled
  <2>4. \A z : DependenciesReady(d, At(run, z), s) =
               IF IsHandler(d, s)
               THEN /\ At(run, z).status[d.onFailureOf[s]] = "FAILED"
                    /\ RecoveryAuthorized(At(run, z), d.onFailureOf[s])
                    /\ parents \ {d.onFailureOf[s]} \subseteq complete(z)
               ELSE IF d.dependsMode[s] = "settled"
               THEN parents \subseteq settled(z) /\ parents \cap complete(z) # {}
               ELSE parents \subseteq complete(z)
    BY DEF DependenciesReady, complete, settled, parents
  <2> QED
    BY <2>1, <2>2, <2>3, <2>4
<1> QED
  BY <1>1, <1>2, <1>4, <1>5 DEF Decision, Readable, parents

\* A step that is unreachable stays so.
LEMMA UnreachableStays ==
    ASSUME NEW d, ValidDefinition(d), NEW run \in ProgressRuns, NEW s \in Steps,
           NEW x \in Statuses, NEW y \in Statuses, Advances(x, y),
           Unreachable(d, At(run, x), s)
    PROVE  Unreachable(d, At(run, y), s)
<1> DEFINE parents == d.dependsOn[s]
           failed(z) == parents \cap InStatus(At(run, z), "FAILED")
           skipped(z) == parents \cap InStatus(At(run, z), "SKIPPED")
           source == d.onFailureOf[s]
<1>1. /\ parents \subseteq Steps
      /\ IsHandler(d, s) => source \in parents
  BY DEF ValidDefinition, WorkflowDefinitions, HandlerIsDeclaredProperly
<1>2. At(run, x).status = x /\ At(run, y).status = y
  BY DEF At, ProgressRuns
<1>3. failed(x) \subseteq failed(y) /\ skipped(x) \subseteq skipped(y) /\ skipped(y) \subseteq parents
  BY <1>1, <1>2 DEF InStatus, Advances
<1>4. IsHandler(d, s) => (x[source] \in {"COMPLETED", "SKIPPED"} => y[source] = x[source])
  BY <1>1 DEF Advances
<1> HIDE DEF failed, skipped, parents, source
<1>5. \A z : Unreachable(d, At(run, z), s) <=>
         \/ IsHandler(d, s) /\ At(run, z).status[source] \in {"COMPLETED", "SKIPPED"}
         \/ failed(z) # {} /\ (~IsHandler(d, s) \/ failed(z) # {source})
         \/ skipped(z) # {} /\ (d.dependsMode[s] = "all" \/ IsHandler(d, s))
         \/ d.dependsMode[s] = "settled" /\ parents # {} /\ skipped(z) = parents
  BY DEF Unreachable, failed, skipped, parents, source
<1> QED
  BY <1>2, <1>3, <1>4, <1>5

\* What happens to the steps that are not done leaves those that are alone.
Keeps(x, y) == \A s \in Steps : x[s] \in TerminalStatuses => y[s] = x[s]

\* The parents of a step that is ready are done.
LEMMA ReadyParents ==
    ASSUME NEW d, ValidDefinition(d), NEW run, NEW s \in Steps, DependenciesReady(d, run, s)
    PROVE  \A p \in d.dependsOn[s] : p \in Steps /\ run.status[p] \in TerminalStatuses
<1>1. d.dependsOn[s] \subseteq Steps
  BY DEF ValidDefinition, WorkflowDefinitions
<1> QED
  BY <1>1 DEF DependenciesReady, InStatus, TerminalStatuses

\* So a step that is ready remains ready, whatever happens to the others.
LEMMA ReadyStays ==
    ASSUME NEW d, ValidDefinition(d), NEW before, NEW after, NEW s \in Steps,
           Keeps(before.status, after.status),
           \A t \in Steps : RecoveryAuthorized(before, t) => RecoveryAuthorized(after, t),
           DependenciesReady(d, before, s)
    PROVE  DependenciesReady(d, after, s)
<1> DEFINE parents == d.dependsOn[s]
<1>1. /\ parents \subseteq Steps
      /\ IsHandler(d, s) => d.onFailureOf[s] \in parents
  BY DEF ValidDefinition, WorkflowDefinitions, HandlerIsDeclaredProperly
<1>2. \A p \in parents : after.status[p] = before.status[p]
  BY <1>1, ReadyParents DEF Keeps
<1>3. \A T, st : T \subseteq parents /\ T \subseteq InStatus(before, st) => T \subseteq InStatus(after, st)
  BY <1>1, <1>2 DEF InStatus
<1>4. \A st : parents \cap InStatus(before, st) \subseteq parents \cap InStatus(after, st)
  BY <1>1, <1>2 DEF InStatus
<1>5. parents \subseteq InStatus(before, "COMPLETED") \cup InStatus(before, "SKIPPED") =>
      parents \subseteq InStatus(after, "COMPLETED") \cup InStatus(after, "SKIPPED")
  BY <1>1, <1>2 DEF InStatus
<1>6. parents \ {d.onFailureOf[s]} \subseteq parents
  OBVIOUS
<1>7. CASE IsHandler(d, s)
  BY <1>1, <1>2, <1>3, <1>6, <1>7 DEF DependenciesReady
<1>8. CASE ~IsHandler(d, s)
  BY <1>3, <1>4, <1>5, <1>8 DEF DependenciesReady
<1> QED
  BY <1>7, <1>8

LEMMA AdvancesKeeps ==
    ASSUME NEW x, NEW y, Advances(x, y)
    PROVE  Keeps(x, y)
  BY DEF Advances, Keeps, TerminalStatuses

\* A decision to skip or to fail a step remains the right one.
LEMMA DecisionStays ==
    ASSUME NEW d, ValidDefinition(d), NEW run \in ProgressRuns, NEW s \in Steps,
           NEW x \in Statuses, NEW y \in Statuses, Advances(x, y), x[s] = y[s],
           Decision(d, At(run, x), s) # "none"
    PROVE  Decision(d, At(run, y), s) = Decision(d, At(run, x), s)
<1>1. At(run, x).status = x /\ At(run, y).status = y
  BY DEF At, ProgressRuns
<1>2. CASE Unreachable(d, At(run, x), s)
  BY <1>1, <1>2, UnreachableStays DEF Decision
<1>3. CASE ~Unreachable(d, At(run, x), s)
  <2>1. DependenciesReady(d, At(run, x), s)
    BY <1>3 DEF Decision
  <2>2. \A p \in d.dependsOn[s] : x[p] = y[p]
    BY <1>1, <2>1, ReadyParents, AdvancesKeeps DEF Keeps
  <2> QED
    BY <2>2, DecisionIsLocal
<1> QED
  BY <1>2, <1>3

\* The decisions that lead from x to y: each of them is right in y (where a step's `when`
\* and `onFailureOf` name parents of it), and one at most failed.
Sound(d, run, x, y) ==
    /\ Advances(x, y)
    /\ ValidDefinition(d) => \A s \in Steps : y[s] # x[s] =>
         Decision(d, At(run, [y EXCEPT ![s] = "PENDING"]), s) =
           IF y[s] = "SKIPPED" THEN "skip" ELSE "fail"
    /\ \A s, t \in Steps :
         y[s] = "FAILED" /\ x[s] # "FAILED" /\ y[t] = "FAILED" /\ x[t] # "FAILED" => s = t

LEMMA AdvancesTransitive ==
    ASSUME NEW x, NEW y, NEW z, Advances(x, y), Advances(y, z)
    PROVE  Advances(x, z)
  BY DEF Advances

LEMMA SoundRefl ==
    ASSUME NEW d, NEW run, NEW x
    PROVE  Sound(d, run, x, x)
  BY DEF Sound, Advances

\* One decision is sound.
LEMMA SoundStep ==
    ASSUME NEW d, NEW run \in ProgressRuns, NEW x \in Statuses, NEW s \in Steps
    PROVE  /\ Decision(d, At(run, x), s) \in {"none", "skip", "fail"}
           /\ Decision(d, At(run, x), s) # "none" => x[s] = "PENDING"
           /\ Decision(d, At(run, x), s) = "skip" =>
                /\ Sound(d, run, x, [x EXCEPT ![s] = "SKIPPED"])
                /\ ~ConditionFailed(x, [x EXCEPT ![s] = "SKIPPED"])
           /\ Decision(d, At(run, x), s) = "fail" =>
                Sound(d, run, x, [x EXCEPT ![s] = "FAILED"])
<1>1. At(run, x).status = x
  BY DEF At, ProgressRuns
<1>2. /\ Decision(d, At(run, x), s) \in {"none", "skip", "fail"}
      /\ Decision(d, At(run, x), s) # "none" => x[s] = "PENDING"
  BY <1>1 DEF Decision
<1>3. ASSUME NEW st \in {"SKIPPED", "FAILED"}, x[s] = "PENDING",
             Decision(d, At(run, x), s) = IF st = "SKIPPED" THEN "skip" ELSE "fail"
      PROVE  Sound(d, run, x, [x EXCEPT ![s] = st])
  <2> DEFINE y == [x EXCEPT ![s] = st]
  <2>1. [y EXCEPT ![s] = "PENDING"] = x
    BY <1>3 DEF Statuses
  <2>2. y[s] = st /\ \A t \in Steps \ {s} : y[t] = x[t]
    BY DEF Statuses
  <2> HIDE DEF y
  <2>3. Advances(x, y)
    BY <1>3, <2>2 DEF Advances
  <2>4. Sound(d, run, x, y)
    BY <1>3, <2>1, <2>2, <2>3 DEF Sound
  <2> QED
    BY <2>4 DEF y
<1>4. ~ConditionFailed(x, [x EXCEPT ![s] = "SKIPPED"])
  BY DEF ConditionFailed, Statuses
<1> QED
  BY <1>2, <1>3, <1>4

\* Sound decisions compose, as long as only the last of them may fail.
LEMMA SoundTransitive ==
    ASSUME NEW d, NEW run \in ProgressRuns,
           NEW x \in Statuses, NEW y \in Statuses, NEW z \in Statuses,
           Sound(d, run, x, y), Sound(d, run, y, z), ~ConditionFailed(x, y)
    PROVE  Sound(d, run, x, z)
<1>1. Advances(x, y) /\ Advances(y, z) /\ Advances(x, z)
  BY AdvancesTransitive DEF Sound
<1>2. ASSUME ValidDefinition(d), NEW s \in Steps, z[s] # x[s]
      PROVE  Decision(d, At(run, [z EXCEPT ![s] = "PENDING"]), s) =
               IF z[s] = "SKIPPED" THEN "skip" ELSE "fail"
  <2>1. CASE z[s] # y[s]
    BY <1>2, <2>1 DEF Sound
  <2>2. CASE z[s] = y[s]
    <3> DEFINE yp == [y EXCEPT ![s] = "PENDING"]
               zp == [z EXCEPT ![s] = "PENDING"]
    <3>1. Decision(d, At(run, yp), s) = IF y[s] = "SKIPPED" THEN "skip" ELSE "fail"
      BY <1>2, <2>2 DEF Sound
    <3>2. yp \in Statuses /\ zp \in Statuses /\ yp[s] = zp[s] /\ Advances(yp, zp)
      BY <1>1 DEF Statuses, StepStatuses, Advances
    <3> HIDE DEF yp, zp
    <3>3. Decision(d, At(run, zp), s) = Decision(d, At(run, yp), s)
      BY <1>2, <3>1, <3>2, DecisionStays
    <3> QED
      BY <2>2, <3>1, <3>3 DEF yp, zp
  <2> QED
    BY <2>1, <2>2
<1>3. ASSUME NEW s \in Steps, NEW t \in Steps,
             z[s] = "FAILED", x[s] # "FAILED", z[t] = "FAILED", x[t] # "FAILED"
      PROVE  s = t
  BY <1>3 DEF Sound, ConditionFailed
<1> QED
  BY <1>1, <1>2, <1>3 DEF Sound

----------------------------------------------------------------------------
(* A pass, by induction on the steps it has left to visit *)

LEMMA PassEnd ==
    ASSUME NEW d, NEW run, NEW x \in Statuses
    PROVE  Pass(d, run)[0][x] = x
<1>1. 0 \in 0..StepCount
  BY StepCountAssumption
<1>2. Pass(d, run)[0][x] = PassRow(Pass(d, run), d, run, 0, x)
  BY <1>1, PassEquation
<1> QED
  BY <1>2 DEF PassRow

\* Step s is visited with n more steps to visit after it.
LEMMA PassStep ==
    ASSUME NEW d, NEW run, NEW x \in Statuses, NEW n \in Nat, NEW s \in Steps,
           s + n = StepCount
    PROVE  Pass(d, run)[n + 1][x] =
             IF Decision(d, At(run, x), s) = "fail" THEN [x EXCEPT ![s] = "FAILED"]
             ELSE IF Decision(d, At(run, x), s) = "skip"
             THEN Pass(d, run)[n][[x EXCEPT ![s] = "SKIPPED"]]
             ELSE Pass(d, run)[n][x]
<1>1. /\ n + 1 \in 0..StepCount /\ n + 1 # 0 /\ (n + 1) - 1 = n
      /\ StepCount + 1 - (n + 1) = s
  BY StepCountAssumption DEF Steps
<1> DEFINE pass == Pass(d, run)
<1>2. pass[n + 1][x] = PassRow(pass, d, run, n + 1, x)
  BY <1>1, PassEquation
<1> HIDE DEF pass
<1>3. PassRow(pass, d, run, n + 1, x) =
        IF Decision(d, At(run, x), s) = "fail" THEN [x EXCEPT ![s] = "FAILED"]
        ELSE IF Decision(d, At(run, x), s) = "skip"
        THEN pass[n][[x EXCEPT ![s] = "SKIPPED"]]
        ELSE pass[n][x]
  BY <1>1 DEF PassRow
<1> QED
  BY <1>2, <1>3 DEF pass

LEMMA PassSound ==
    ASSUME NEW d, NEW run \in ProgressRuns
    PROVE  \A n \in 0..StepCount, x \in Statuses :
             Pass(d, run)[n][x] \in Statuses /\ Sound(d, run, x, Pass(d, run)[n][x])
<1> DEFINE pass == Pass(d, run)
           T == {n \in Nat : n <= StepCount =>
                   \A x \in Statuses : Sound(d, run, x, pass[n][x])}
<1>1. StepCount \in Nat /\ \A n \in 0..StepCount, x \in Statuses : pass[n][x] \in Statuses
  BY StepCountAssumption, PassEquation
<1>2. 0 \in T
  <2>1. \A x \in Statuses : pass[0][x] = x
    BY PassEnd
  <2> HIDE DEF pass
  <2> QED
    BY <2>1, SoundRefl
<1>3. ASSUME NEW n \in Nat, n \in T PROVE n + 1 \in T
  <2> SUFFICES ASSUME n + 1 <= StepCount, NEW x \in Statuses
               PROVE  Sound(d, run, x, pass[n + 1][x])
    OBVIOUS
  <2> DEFINE s == StepCount - n
             decision == Decision(d, At(run, x), s)
             skipped == [x EXCEPT ![s] = "SKIPPED"]
  <2>1. n \in 0..StepCount /\ s \in Steps /\ s + n = StepCount
    BY <1>1 DEF Steps
  <2> HIDE DEF s
  <2>2. /\ decision = "fail" => pass[n + 1][x] = [x EXCEPT ![s] = "FAILED"]
        /\ decision = "skip" => pass[n + 1][x] = pass[n][skipped]
        /\ decision \notin {"skip", "fail"} => pass[n + 1][x] = pass[n][x]
    <3>1. pass[n + 1][x] = IF decision = "fail" THEN [x EXCEPT ![s] = "FAILED"]
                           ELSE IF decision = "skip" THEN pass[n][skipped]
                           ELSE pass[n][x]
      BY <2>1, PassStep, Zenon
    <3> HIDE DEF decision, pass
    <3> QED
      BY <3>1
  <2>3. \A y \in Statuses : Sound(d, run, y, pass[n][y]) /\ pass[n][y] \in Statuses
    BY <1>1, <1>3, <2>1
  <2> HIDE DEF pass, T, s
  <2>4. CASE decision = "skip"
    <3>1. skipped \in Statuses /\ pass[n][skipped] \in Statuses
      BY <2>1, <2>3, StatusesStay
    <3>2. Sound(d, run, x, skipped) /\ ~ConditionFailed(x, skipped)
      BY <2>1, <2>4, SoundStep
    <3>3. Sound(d, run, skipped, pass[n][skipped])
      BY <2>3, <3>1
    <3>4. Sound(d, run, x, pass[n][skipped])
      BY <3>1, <3>2, <3>3, SoundTransitive
    <3> QED
      BY <2>2, <2>4, <3>4
  <2>5. CASE decision = "fail"
    <3>1. Sound(d, run, x, [x EXCEPT ![s] = "FAILED"])
      BY <2>1, <2>5, SoundStep
    <3> QED
      BY <2>2, <2>5, <3>1
  <2>6. CASE decision \notin {"skip", "fail"}
    BY <2>2, <2>3, <2>6
  <2> QED
    BY <2>4, <2>5, <2>6
<1> HIDE DEF T
<1>4. \A n \in Nat : n \in T
  BY <1>2, <1>3, Induction
<1> QED
  BY <1>1, <1>4 DEF T

\* Nothing is left to decide.
Settled(d, run, x) == \A s \in Steps : Decision(d, At(run, x), s) = "none"

\* A pass changes nothing exactly when there is nothing to decide.
LEMMA PassSettles ==
    ASSUME NEW d, NEW run \in ProgressRuns, NEW x \in Statuses
    PROVE  Pass(d, run)[StepCount][x] = x <=> Settled(d, run, x)
<1> DEFINE pass == Pass(d, run)
           s(n) == StepCount + 1 - n
           T == {n \in Nat : n <= StepCount =>
                   (pass[n][x] = x
                      <=> \A m \in 1..n : Decision(d, At(run, x), s(m)) = "none")}
<1>1. StepCount \in Nat /\ \A n \in 0..StepCount, y \in Statuses :
        pass[n][y] \in Statuses /\ Sound(d, run, y, pass[n][y])
  BY StepCountAssumption, PassSound
<1>2. 0 \in T
  <2>1. pass[0][x] = x
    BY PassEnd
  <2> QED
    BY <2>1
<1>3. ASSUME NEW n \in Nat, n \in T PROVE n + 1 \in T
  <2> SUFFICES ASSUME n + 1 <= StepCount
               PROVE  pass[n + 1][x] = x <=>
                        \A m \in 1..(n + 1) : Decision(d, At(run, x), s(m)) = "none"
    OBVIOUS
  <2> DEFINE t == s(n + 1)
             decision == Decision(d, At(run, x), t)
             skipped == [x EXCEPT ![t] = "SKIPPED"]
  <2>1. n \in 0..StepCount /\ t \in Steps /\ t + n = StepCount
    BY <1>1 DEF Steps
  <2> HIDE DEF s
  <2>2. /\ decision = "fail" => pass[n + 1][x] = [x EXCEPT ![t] = "FAILED"]
        /\ decision = "skip" => pass[n + 1][x] = pass[n][skipped]
        /\ decision \notin {"skip", "fail"} => pass[n + 1][x] = pass[n][x]
    <3>1. pass[n + 1][x] = IF decision = "fail" THEN [x EXCEPT ![t] = "FAILED"]
                           ELSE IF decision = "skip" THEN pass[n][skipped]
                           ELSE pass[n][x]
      BY <2>1, PassStep, Zenon
    <3> HIDE DEF decision, pass
    <3> QED
      BY <3>1
  <2>3. pass[n][x] = x <=> \A m \in 1..n : Decision(d, At(run, x), s(m)) = "none"
    BY <1>3, <2>1
  <2>4. (\A m \in 1..(n + 1) : Decision(d, At(run, x), s(m)) = "none")
          <=> decision = "none" /\ \A m \in 1..n : Decision(d, At(run, x), s(m)) = "none"
    <3> DEFINE none(m) == Decision(d, At(run, x), s(m)) = "none"
    <3> HIDE DEF none
    <3>1. (\A m \in 1..(n + 1) : none(m)) <=> none(n + 1) /\ \A m \in 1..n : none(m)
      BY <2>1
    <3> QED
      BY <3>1 DEF none
  <2> HIDE DEF T, pass, s
  <2>5. decision \in {"none", "skip", "fail"} /\ (decision # "none" => x[t] = "PENDING")
    BY <2>1, SoundStep
  <2>6. CASE decision = "fail"
    <3>1. pass[n + 1][x][t] = "FAILED"
      BY <2>1, <2>2, <2>6 DEF Statuses
    <3> QED
      BY <2>4, <2>5, <2>6, <3>1
  <2>7. CASE decision = "skip"
    <3>1. skipped \in Statuses /\ skipped[t] = "SKIPPED"
      BY <2>1, StatusesStay DEF Statuses
    <3>2. Advances(skipped, pass[n][skipped])
      BY <1>1, <2>1, <3>1 DEF Sound
    <3>3. pass[n][skipped][t] = "SKIPPED"
      BY <2>1, <3>1, <3>2 DEF Advances
    <3> QED
      BY <2>2, <2>4, <2>5, <2>7, <3>3
  <2>8. CASE decision = "none"
    BY <2>2, <2>3, <2>4, <2>8
  <2> QED
    BY <2>5, <2>6, <2>7, <2>8
<1> HIDE DEF T
<1>4. StepCount \in T
  BY <1>1, <1>2, <1>3, Induction
<1>5. pass[StepCount][x] = x
        <=> \A m \in 1..StepCount : Decision(d, At(run, x), s(m)) = "none"
  BY <1>1, <1>4 DEF T
<1>6. (\A m \in 1..StepCount : Decision(d, At(run, x), s(m)) = "none") <=> Settled(d, run, x)
  <2>1. \A m \in 1..StepCount : s(m) \in Steps
    BY <1>1 DEF Steps
  <2>2. \A t \in Steps : StepCount + 1 - t \in 1..StepCount /\ s(StepCount + 1 - t) = t
    BY <1>1 DEF Steps
  <2> HIDE DEF s
  <2> QED
    BY <2>1, <2>2 DEF Settled
<1> QED
  BY <1>5, <1>6

----------------------------------------------------------------------------
(* The loop, by induction on the passes it has left *)

\* A pass, and what `rest` makes of its result unless the loop ends there.
PassThen(once, rest, x) ==
    IF once[x] = x \/ ConditionFailed(x, once[x]) THEN once[x] ELSE rest[once[x]]

LEMMA LoopStep ==
    ASSUME NEW d, NEW run, NEW x \in Statuses, NEW n \in Nat, n < MaxPasses
    PROVE  Passes(d, run)[n + 1][x] = PassThen(Pass(d, run)[StepCount], Passes(d, run)[n], x)
<1> DEFINE loop == Passes(d, run)
           once == Pass(d, run)[StepCount]
<1>1. n + 1 \in 0..MaxPasses /\ n + 1 # 0 /\ (n + 1) - 1 = n
  BY StepCountAssumption DEF MaxPasses
<1>2. loop[n + 1][x] = LoopRow(loop, once, n + 1, x)
  BY <1>1, PassesEquation
<1> HIDE DEF loop, once
<1>3. loop[n + 1][x] = PassThen(once, loop[n], x)
  BY <1>1, <1>2 DEF LoopRow, PassThen
<1> QED
  BY <1>3 DEF loop, once

LEMMA LoopSound ==
    ASSUME NEW d, NEW run \in ProgressRuns
    PROVE  \A n \in 0..MaxPasses, x \in Statuses :
             /\ Passes(d, run)[n][x] \in Statuses
             /\ Sound(d, run, x, Passes(d, run)[n][x])
<1> DEFINE loop == Passes(d, run)
           once == Pass(d, run)[StepCount]
           T == {n \in Nat : n <= MaxPasses =>
                   \A x \in Statuses : Sound(d, run, x, loop[n][x])}
<1>1. MaxPasses \in Nat /\ StepCount \in 0..StepCount
  BY StepCountAssumption DEF MaxPasses
<1>2. \A n \in 0..MaxPasses, x \in Statuses : loop[n][x] \in Statuses
  <2>1. loop \in [0..MaxPasses -> [Statuses -> Statuses]]
    BY PassesEquation, Zenon
  <2> HIDE DEF loop
  <2> QED
    BY <2>1
<1>3. \A x \in Statuses : once[x] \in Statuses /\ Sound(d, run, x, once[x])
  BY <1>1, PassSound
<1>4. 0 \in T
  <2>1. \A x \in Statuses : loop[0][x] = x
    <3> SUFFICES ASSUME NEW x \in Statuses PROVE loop[0][x] = x
      OBVIOUS
    <3>1. 0 \in 0..MaxPasses
      BY <1>1
    <3>2. loop[0][x] = LoopRow(loop, once, 0, x)
      BY <3>1, PassesEquation
    <3> QED
      BY <3>2 DEF LoopRow
  <2> HIDE DEF loop
  <2> QED
    BY <2>1, SoundRefl
<1>5. ASSUME NEW n \in Nat, n \in T PROVE n + 1 \in T
  <2> SUFFICES ASSUME n + 1 <= MaxPasses, NEW x \in Statuses
               PROVE  Sound(d, run, x, loop[n + 1][x])
    OBVIOUS
  <2>1. n \in 0..MaxPasses /\ n < MaxPasses
    BY <1>1
  <2>2. loop[n + 1][x] = PassThen(once, loop[n], x)
    BY <2>1, LoopStep
  <2>3. \A y \in Statuses : Sound(d, run, y, loop[n][y]) /\ loop[n][y] \in Statuses
    BY <1>2, <1>5, <2>1
  <2> HIDE DEF loop, once, T
  <2>4. CASE once[x] = x \/ ConditionFailed(x, once[x])
    BY <1>3, <2>2, <2>4 DEF PassThen
  <2>5. CASE ~(once[x] = x \/ ConditionFailed(x, once[x]))
    <3>1. Sound(d, run, x, loop[n][once[x]])
      BY <1>3, <2>3, <2>5, SoundTransitive
    <3> QED
      BY <2>2, <2>5, <3>1 DEF PassThen
  <2> QED
    BY <2>4, <2>5
<1> HIDE DEF T
<1>6. \A n \in Nat : n \in T
  BY <1>4, <1>5, Induction
<1> QED
  BY <1>2, <1>6 DEF T

PendingSteps(x) == {s \in Steps : x[s] = "PENDING"}

\* With more passes left than there are pending steps, the loop ends because nothing is
\* left to decide, or because a condition failed.
LEMMA LoopSettles ==
    ASSUME NEW d, NEW run \in ProgressRuns, NEW x \in Statuses
    PROVE  LET after == Passes(d, run)[MaxPasses][x]
           IN  Settled(d, run, after) \/ ConditionFailed(x, after)
<1> DEFINE loop == Passes(d, run)
           once == Pass(d, run)[StepCount]
           Ends(n, y) == Settled(d, run, loop[n][y]) \/ ConditionFailed(y, loop[n][y])
           T == {n \in Nat : n <= MaxPasses =>
                   \A y \in Statuses : Cardinality(PendingSteps(y)) < n => Ends(n, y)}
<1>1. MaxPasses \in Nat /\ StepCount \in Nat /\ StepCount \in 0..StepCount
  BY StepCountAssumption DEF MaxPasses
<1>2. \A y \in Statuses : once[y] \in Statuses /\ Advances(y, once[y])
  BY <1>1, PassSound DEF Sound
<1>3. \A n \in 0..MaxPasses, y \in Statuses :
        loop[n][y] \in Statuses /\ Advances(y, loop[n][y])
  BY LoopSound DEF Sound
<1>4. \A y : /\ IsFiniteSet(PendingSteps(y))
             /\ Cardinality(PendingSteps(y)) \in Nat
             /\ Cardinality(PendingSteps(y)) <= StepCount
  <2> SUFFICES ASSUME NEW y
               PROVE  /\ IsFiniteSet(PendingSteps(y)) /\ Cardinality(PendingSteps(y)) \in Nat
                      /\ Cardinality(PendingSteps(y)) <= StepCount
    OBVIOUS
  <2>1. IsFiniteSet(Steps) /\ Cardinality(Steps) = StepCount
    BY <1>1, FS_Interval DEF Steps
  <2>2. PendingSteps(y) \subseteq Steps
    BY DEF PendingSteps
  <2> QED
    BY <2>1, <2>2, FS_Subset, FS_CardinalityType
<1>5. 0 \in T
  BY <1>4
<1>6. ASSUME NEW n \in Nat, n \in T PROVE n + 1 \in T
  <2> SUFFICES ASSUME n + 1 <= MaxPasses, NEW y \in Statuses, Cardinality(PendingSteps(y)) < n + 1
               PROVE  Ends(n + 1, y)
    OBVIOUS
  <2>1. n \in 0..MaxPasses /\ n < MaxPasses
    BY <1>1
  <2>2. loop[n + 1][y] = PassThen(once, loop[n], y)
    BY <2>1, LoopStep
  <2>3. \A z \in Statuses : Cardinality(PendingSteps(z)) < n => Ends(n, z)
    BY <1>6, <2>1
  <2>4. once[y] = y <=> Settled(d, run, y)
    BY PassSettles
  <2> HIDE DEF loop, once, T
  <2>5. CASE once[y] = y \/ ConditionFailed(y, once[y])
    BY <2>2, <2>4, <2>5 DEF PassThen
  <2>6. CASE ~(once[y] = y \/ ConditionFailed(y, once[y]))
    <3>1. once[y] \in Statuses /\ Advances(y, once[y])
      BY <1>2
    <3>2. PICK s \in Steps : once[y][s] # y[s]
      BY <2>6, <3>1 DEF Statuses
    <3>3. PendingSteps(once[y]) \subseteq PendingSteps(y) /\ s \in PendingSteps(y) /\ s \notin PendingSteps(once[y])
      BY <3>1, <3>2 DEF PendingSteps, Advances
    <3>4. Cardinality(PendingSteps(once[y])) < Cardinality(PendingSteps(y))
      BY <1>4, <3>3, FS_Subset
    <3>5. Ends(n, once[y])
      BY <1>4, <2>3, <3>1, <3>4
    <3>6. ConditionFailed(once[y], loop[n][once[y]]) => ConditionFailed(y, loop[n][once[y]])
      BY <3>1 DEF ConditionFailed, Advances
    <3> QED
      BY <2>2, <2>6, <3>5, <3>6 DEF PassThen
  <2> QED
    BY <2>5, <2>6
<1>7. MaxPasses \in T
  <2> HIDE DEF T
  <2> QED
    BY <1>1, <1>5, <1>6, Induction
<1>8. Cardinality(PendingSteps(x)) < MaxPasses
  BY <1>1, <1>4 DEF MaxPasses
<1> QED
  BY <1>1, <1>7, <1>8

----------------------------------------------------------------------------
(* What a call of evaluateWorkflowBranches decides *)

\* The decided statuses: every decision right, one condition failed at most, and nothing
\* left to decide unless one did.
LEMMA DecidedEffect ==
    ASSUME NEW d, NEW run \in ProgressRuns
    PROVE  /\ Decided(d, run) \in Statuses
           /\ Sound(d, run, run.status, Decided(d, run))
           /\ \/ Settled(d, run, Decided(d, run))
              \/ ConditionFailed(run.status, Decided(d, run))
           /\ Settled(d, run, run.status) => Decided(d, run) = run.status
<1>1. run.status \in Statuses /\ MaxPasses \in 0..MaxPasses
  BY StepCountAssumption DEF ProgressRuns, MaxPasses
<1>2. Settled(d, run, run.status) => Decided(d, run) = run.status
  <2> SUFFICES ASSUME Settled(d, run, run.status) PROVE Decided(d, run) = run.status
    OBVIOUS
  <2>1. Pass(d, run)[StepCount][run.status] = run.status
    BY <1>1, PassSettles
  <2>2. StepCount \in Nat /\ StepCount < MaxPasses /\ StepCount + 1 = MaxPasses
    BY StepCountAssumption DEF MaxPasses
  <2>3. Passes(d, run)[MaxPasses][run.status] =
          PassThen(Pass(d, run)[StepCount], Passes(d, run)[StepCount], run.status)
    BY <1>1, <2>2, LoopStep
  <2> QED
    BY <2>1, <2>3 DEF PassThen, Decided
<1> QED
  BY <1>1, <1>2, LoopSound, LoopSettles DEF Decided

\* What is saved: the run with its decided statuses, or the run as it was.
LEMMA BranchesEffect ==
    ASSUME NEW d, NEW run, Progress(run) \in ProgressRuns
    PROVE  \/ Branches(d, run) = run
           \/ /\ ~BranchesUndecidable(d, run)
              /\ Branches(d, run) = [run EXCEPT !.status = Decided(d, Progress(run))]
              /\ Decided(d, Progress(run)) \in Statuses
              /\ Advances(run.status, Decided(d, Progress(run)))
<1>1. Progress(run).status = run.status
  BY DEF Progress
<1> QED
  BY <1>1, DecidedEffect DEF Branches, Sound

\* The decisions about a run do not depend on the statuses it had when deciding began.
LEMMA DecidingAgain ==
    ASSUME NEW d, NEW run \in ProgressRuns, NEW x \in Statuses, Settled(d, run, x)
    PROVE  Branches(d, At(run, x)) = At(run, x)
<1> DEFINE again == At(run, x)
<1>1. again \in ProgressRuns /\ again.status = x /\ Progress(again) = again
  BY DEF At, ProgressRuns, Progress
<1>2. At(again, x) = again /\ [again EXCEPT !.status = x] = again
  BY DEF At, ProgressRuns
<1> HIDE DEF again
<1>3. Settled(d, again, x)
  BY <1>2 DEF Settled, again
<1>4. Decided(d, again) = x
  BY <1>1, <1>3, DecidedEffect
<1> QED
  BY <1>1, <1>2, <1>4 DEF Branches, again

----------------------------------------------------------------------------
(* How a run moves, whoever moves it: the invariant of its steps *)

InFlight(run) == {s \in Steps : run.status[s] \in {"RUNNING", "WAITING_APPROVAL"}}

\* What holds of the progress of a run that follows definition d.  A step that left
\* PENDING other than by being skipped had its dependencies settled, and they stay
\* settled: no later decision, failure or recovery takes a parent away from it.
Supervised(d, run) ==
    /\ \A s, t \in InFlight(run) : s = t
    /\ \A s \in Steps : run.status[s] \notin {"PENDING", "SKIPPED"} => DependenciesReady(d, run, s)
    /\ \A s \in Steps : RecoveryAuthorized(run, s) => run.status[s] = "FAILED"
    /\ InStatus(run, "RUNNING") # {} => \A s \in Steps : ~HopelessFailure(d, run, s)
    /\ \A s \in InStatus(run, "WAITING_APPROVAL") : d.risk[s] = "HIGH"

\* The moves of a run, from p to q.
Attempts(d, p, q, s, st) ==
    /\ p.status[s] \in {"PENDING", "WAITING_APPROVAL"}
    /\ WorkflowStatus(d, p) \in AdvanceableStatuses /\ s \in NextSteps(d, p)
    /\ st \in {"FAILED", "WAITING_APPROVAL", "RUNNING"}
    /\ st = "WAITING_APPROVAL" => d.risk[s] = "HIGH"
    /\ q = [p EXCEPT !.status[s] = st]

Ends(d, p, q, s, st, outputs) ==
    /\ p.status[s] = "RUNNING" /\ outputs \in [Steps -> Outputs]
    /\ st \in {"COMPLETED", "FAILED", "WAITING_APPROVAL"}
    /\ st = "WAITING_APPROVAL" => d.risk[s] = "HIGH"
    /\ q = [p EXCEPT !.status[s] = st, !.output = outputs]

Recovers(p, q, s) == p.status[s] = "FAILED" /\ q = [p EXCEPT !.recoveries[s] = 1]

Moves(d, p, q) ==
    \/ q = p
    \/ q = Branches(d, p)
    \/ \E s \in Steps, st \in StepStatuses :
         \/ Attempts(d, p, q, s, st)
         \/ \E outputs : Ends(d, p, q, s, st, outputs)
    \/ \E s \in Steps : Recovers(p, q, s)

LEMMA ProgressOfProgress ==
    ASSUME NEW run \in ProgressRuns
    PROVE  run.status \in Statuses /\ Progress(run) = run
  BY DEF ProgressRuns, Progress

\* A condition that fails leaves a failure that waits for the operator; otherwise there
\* is nothing left: so deciding twice in a row is deciding once.
LEMMA BranchesIdempotent ==
    ASSUME NEW d, NEW run \in ProgressRuns,
           \A s \in Steps : RecoveryAuthorized(run, s) => run.status[s] = "FAILED"
    PROVE  Branches(d, Branches(d, run)) = Branches(d, run)
<1>1. CASE Branches(d, run) = run
  BY <1>1
<1>2. CASE Branches(d, run) # run
  <2> DEFINE x == Decided(d, run)
  <2>1. Branches(d, run) = At(run, x)
    BY <1>2, ProgressOfProgress DEF Branches, At
  <2>2. /\ x \in Statuses /\ Sound(d, run, run.status, x)
        /\ Settled(d, run, x) \/ ConditionFailed(run.status, x)
    BY DecidedEffect
  <2> HIDE DEF x
  <2>3. CASE Settled(d, run, x)
    BY <2>1, <2>2, <2>3, DecidingAgain
  <2>4. CASE ConditionFailed(run.status, x)
    <3>1. PICK s \in Steps : x[s] = "FAILED" /\ run.status[s] # "FAILED"
      BY <2>4 DEF ConditionFailed
    <3>2. At(run, x).status = x /\ At(run, x).recoveries = run.recoveries
      BY DEF At, ProgressRuns
    <3>3. s \in InStatus(At(run, x), "FAILED") /\ ~RecoveryAuthorized(At(run, x), s)
      BY <3>1, <3>2 DEF InStatus, RecoveryAuthorized
    <3>4. BranchesUndecidable(d, At(run, x))
      BY <3>3 DEF BranchesUndecidable
    <3> QED
      BY <2>1, <3>4 DEF Branches
  <2> QED
    BY <2>2, <2>3, <2>4
<1> QED
  BY <1>1, <1>2

\* The run after a move keeps what was done, and what it adds was allowed.
LEMMA StatusesMove ==
    ASSUME NEW d, ValidDefinition(d), NEW p, NEW q, Supervised(d, p),
           Keeps(p.status, q.status),
           \A s \in Steps : RecoveryAuthorized(p, s) => RecoveryAuthorized(q, s),
           \A s, t \in InFlight(q) : s = t,
           \A s \in Steps : q.status[s] \notin {"PENDING", "SKIPPED"} =>
             \/ p.status[s] \notin {"PENDING", "SKIPPED"}
             \/ DependenciesReady(d, p, s)
             \/ DependenciesReady(d, q, s),
           \A s \in Steps : RecoveryAuthorized(q, s) =>
             RecoveryAuthorized(p, s) \/ q.status[s] = "FAILED",
           InStatus(q, "RUNNING") # {} => \A s \in Steps : ~HopelessFailure(d, q, s),
           \A s \in InStatus(q, "WAITING_APPROVAL") : d.risk[s] = "HIGH"
    PROVE  Supervised(d, q)
<1>1. ASSUME NEW s \in Steps, q.status[s] \notin {"PENDING", "SKIPPED"}
      PROVE  DependenciesReady(d, q, s)
  <2>1. DependenciesReady(d, p, s) \/ DependenciesReady(d, q, s)
    BY <1>1 DEF Supervised
  <2> QED
    BY <2>1, ReadyStays
<1>2. ASSUME NEW s \in Steps, RecoveryAuthorized(q, s)
      PROVE  q.status[s] = "FAILED"
  <2>1. CASE RecoveryAuthorized(p, s)
    BY <2>1 DEF Supervised, Keeps, TerminalStatuses
  <2>2. CASE ~RecoveryAuthorized(p, s)
    BY <1>2, <2>2
  <2> QED
    BY <2>1, <2>2
<1> QED
  BY <1>1, <1>2, Zenon DEF Supervised

\* A change of one status, and perhaps of outputs.
SetsStatus(p, q, s, st, outputs) ==
    \/ q = [p EXCEPT !.status[s] = st]
    \/ q = [p EXCEPT !.status[s] = st, !.output = outputs]

LEMMA OneStatusMoves ==
    ASSUME NEW p \in ProgressRuns, NEW s \in Steps, NEW st \in StepStatuses,
           NEW q, NEW outputs \in [Steps -> Outputs], SetsStatus(p, q, s, st, outputs)
    PROVE  /\ q \in ProgressRuns /\ q.recoveries = p.recoveries
           /\ \A t \in Steps : q.status[t] = IF t = s THEN st ELSE p.status[t]
           /\ p.status[s] \notin TerminalStatuses => Keeps(p.status, q.status)
<1>1. [p.status EXCEPT ![s] = st] \in Statuses
  BY DEF ProgressRuns, Statuses
<1>2. q \in ProgressRuns /\ q.recoveries = p.recoveries /\ q.status = [p.status EXCEPT ![s] = st]
  <2>1. CASE q = [p EXCEPT !.status[s] = st]
    BY <1>1, <2>1 DEF ProgressRuns
  <2>2. CASE q = [p EXCEPT !.status[s] = st, !.output = outputs]
    BY <1>1, <2>2 DEF ProgressRuns
  <2> QED
    BY <2>1, <2>2 DEF SetsStatus
<1>3. \A t \in Steps : q.status[t] = IF t = s THEN st ELSE p.status[t]
  BY <1>2 DEF ProgressRuns, Statuses
<1> QED
  BY <1>2, <1>3 DEF Keeps

\* A step whose condition fails had its dependencies settled.
LEMMA FailureIsReady ==
    ASSUME NEW d, ValidDefinition(d), NEW p \in ProgressRuns, NEW x \in Statuses,
           Sound(d, p, p.status, x), NEW s \in Steps, x[s] = "FAILED", p.status[s] # "FAILED"
    PROVE  DependenciesReady(d, At(p, x), s)
<1> DEFINE y == [x EXCEPT ![s] = "PENDING"]
           before == At(p, y)
           after == At(p, x)
<1>1. /\ before.status = y /\ after.status = x
      /\ before.recoveries = p.recoveries /\ after.recoveries = p.recoveries
  BY DEF At, ProgressRuns
<1>2. \A t \in Steps : y[t] = IF t = s THEN "PENDING" ELSE x[t]
  BY DEF Statuses
<1>3. Decision(d, before, s) = "fail"
  BY DEF Sound
<1> HIDE DEF before, after
<1>4. DependenciesReady(d, before, s)
  BY <1>3 DEF Decision
<1> HIDE DEF y
<1>5. Keeps(before.status, after.status)
  BY <1>1, <1>2 DEF Keeps, TerminalStatuses
<1>6. \A t \in Steps : RecoveryAuthorized(before, t) => RecoveryAuthorized(after, t)
  BY <1>1 DEF RecoveryAuthorized
<1> QED
  BY <1>4, <1>5, <1>6, ReadyStays DEF after

\* Deciding, seen as a move.
LEMMA DecidingKeepsSupervised ==
    ASSUME NEW d, ValidDefinition(d), NEW p \in ProgressRuns, Supervised(d, p)
    PROVE  Branches(d, p) \in ProgressRuns /\ Supervised(d, Branches(d, p))
<1> DEFINE x == Decided(d, p)
           q == Branches(d, p)
<1>1. CASE Branches(d, p) = p
  BY <1>1
<1>2. CASE Branches(d, p) # p
  <2>1. Progress(p) = p /\ Progress(p) \in ProgressRuns
    BY ProgressOfProgress
  <2>2. ~BranchesUndecidable(d, p) /\ q = At(p, x) /\ x \in Statuses
    BY <1>2, <2>1, BranchesEffect DEF At
  <2>3. Sound(d, p, p.status, x)
    BY DecidedEffect
  <2> HIDE DEF x, q
  <2>4. q \in ProgressRuns /\ q.status = x /\ q.recoveries = p.recoveries
    BY <2>2 DEF At, ProgressRuns
  <2>5. Advances(p.status, x)
    BY <2>3 DEF Sound
  <2>6. Keeps(p.status, q.status)
    BY <2>4, <2>5, AdvancesKeeps
  <2>7. \A s \in Steps : \/ q.status[s] = p.status[s]
                         \/ p.status[s] = "PENDING" /\ q.status[s] \in {"SKIPPED", "FAILED"}
    BY <2>4, <2>5 DEF Advances
  <2>8. \A s, t \in InFlight(q) : s = t
    BY <2>7 DEF Supervised, InFlight
  <2>9. \A s \in Steps : RecoveryAuthorized(q, s) <=> RecoveryAuthorized(p, s)
    BY <2>4 DEF RecoveryAuthorized
  <2>10. ASSUME NEW s \in Steps, q.status[s] \notin {"PENDING", "SKIPPED"}
         PROVE  \/ p.status[s] \notin {"PENDING", "SKIPPED"}
                \/ DependenciesReady(d, q, s)
    <3>1. CASE p.status[s] = q.status[s]
      BY <2>10, <3>1
    <3>2. CASE p.status[s] # q.status[s]
      <4>1. x[s] = "FAILED" /\ p.status[s] # "FAILED"
        BY <2>4, <2>7, <2>10, <3>2
      <4> QED
        BY <2>2, <2>3, <4>1, FailureIsReady
    <3> QED
      BY <3>1, <3>2
  <2>11. InStatus(q, "RUNNING") = {}
    BY <2>2, <2>7 DEF InStatus, BranchesUndecidable
  <2>12. \A s \in InStatus(q, "WAITING_APPROVAL") : d.risk[s] = "HIGH"
    BY <2>7 DEF InStatus, Supervised
  <2>13. Supervised(d, q)
    BY <2>6, <2>8, <2>9, <2>10, <2>11, <2>12, StatusesMove
  <2> QED
    BY <2>4, <2>13 DEF q
<1> QED
  BY <1>1, <1>2

\* The step that may be attempted is ready and alone, and nothing is beyond recovery.
LEMMA AttemptIsAlone ==
    ASSUME NEW d, NEW p, Supervised(d, p), NEW s \in NextSteps(d, p),
           WorkflowStatus(d, p) \in AdvanceableStatuses
    PROVE  /\ s \in Steps /\ DependenciesReady(d, p, s)
           /\ InFlight(p) \subseteq {s}
           /\ InStatus(p, "RUNNING") = {}
           /\ \A t \in Steps : ~HopelessFailure(d, p, t)
<1>1. /\ InStatus(p, "RUNNING") = {}
      /\ \A t \in Steps : ~HopelessFailure(d, p, t)
  BY DEF WorkflowStatus, AdvanceableStatuses, HopelessFailure, InStatus
<1>2. CASE InStatus(p, "WAITING_APPROVAL") # {}
  <2>1. s \in InStatus(p, "WAITING_APPROVAL")
    BY <1>2 DEF NextSteps
  <2> QED
    BY <1>1, <2>1 DEF Supervised, InStatus, InFlight
<1>3. CASE InStatus(p, "WAITING_APPROVAL") = {}
  <2>1. s \in ReadySteps(d, p)
    BY <1>3 DEF NextSteps
  <2>2. InFlight(p) = {}
    BY <1>1, <1>3 DEF InFlight, InStatus
  <2>3. s \in Steps /\ DependenciesReady(d, p, s)
    BY <2>1 DEF ReadySteps, InStatus
  <2> QED
    BY <1>1, <2>2, <2>3
<1> QED
  BY <1>2, <1>3

\* Whatever moves a run, it stays supervised.
LEMMA MovesKeepSupervised ==
    ASSUME NEW d, ValidDefinition(d), NEW p \in ProgressRuns, Supervised(d, p),
           NEW q, Moves(d, p, q)
    PROVE  q \in ProgressRuns /\ Supervised(d, q)
<1>1. CASE q = p
  BY <1>1
<1>2. CASE q = Branches(d, p)
  BY <1>2, DecidingKeepsSupervised
<1>3. ASSUME NEW s \in Steps, NEW st \in StepStatuses, Attempts(d, p, q, s, st)
      PROVE  q \in ProgressRuns /\ Supervised(d, q)
  <2>1. /\ DependenciesReady(d, p, s) /\ InFlight(p) \subseteq {s}
        /\ InStatus(p, "RUNNING") = {}
        /\ \A t \in Steps : ~HopelessFailure(d, p, t)
    BY <1>3, AttemptIsAlone DEF Attempts
  <2>2. p.status[s] \notin TerminalStatuses /\ p.output \in [Steps -> Outputs]
    BY <1>3 DEF Attempts, TerminalStatuses, ProgressRuns
  <2>3. /\ q \in ProgressRuns /\ q.recoveries = p.recoveries
        /\ \A t \in Steps : q.status[t] = IF t = s THEN st ELSE p.status[t]
        /\ Keeps(p.status, q.status)
    <3>1. SetsStatus(p, q, s, st, p.output)
      BY <1>3 DEF Attempts, SetsStatus
    <3> QED
      BY <2>2, <3>1, OneStatusMoves
  <2>4. \A t \in Steps : RecoveryAuthorized(q, t) <=> RecoveryAuthorized(p, t)
    BY <2>3 DEF RecoveryAuthorized
  <2>5. \A t, u \in InFlight(q) : t = u
    BY <2>1, <2>3 DEF InFlight
  <2>6. \A t \in Steps : q.status[t] \notin {"PENDING", "SKIPPED"} =>
          p.status[t] \notin {"PENDING", "SKIPPED"} \/ DependenciesReady(d, p, t)
    BY <2>1, <2>3
  <2>7. InStatus(q, "RUNNING") # {} => \A t \in Steps : ~HopelessFailure(d, q, t)
    <3> SUFFICES ASSUME InStatus(q, "RUNNING") # {}, NEW t \in Steps, HopelessFailure(d, q, t)
                 PROVE  FALSE
      OBVIOUS
    <3>1. st = "RUNNING"
      BY <2>1, <2>3 DEF InStatus
    <3>2. HopelessFailure(d, p, t)
      BY <2>3, <3>1 DEF HopelessFailure, FailedStepHandlers
    <3> QED
      BY <2>1, <3>2
  <2>8. \A t \in InStatus(q, "WAITING_APPROVAL") : d.risk[t] = "HIGH"
    BY <1>3, <2>3 DEF InStatus, Attempts, Supervised
  <2> QED
    BY <2>3, <2>4, <2>5, <2>6, <2>7, <2>8, StatusesMove
<1>4. ASSUME NEW s \in Steps, NEW st \in StepStatuses, NEW outputs, Ends(d, p, q, s, st, outputs)
      PROVE  q \in ProgressRuns /\ Supervised(d, q)
  <2>1. p.status[s] = "RUNNING" /\ p.status[s] \notin TerminalStatuses /\ st # "RUNNING"
    BY <1>4 DEF Ends, TerminalStatuses
  <2>2. InFlight(p) \subseteq {s}
    BY <2>1 DEF Supervised, InFlight
  <2>3. /\ q \in ProgressRuns /\ q.recoveries = p.recoveries
        /\ \A t \in Steps : q.status[t] = IF t = s THEN st ELSE p.status[t]
        /\ Keeps(p.status, q.status)
    <3>1. outputs \in [Steps -> Outputs] /\ SetsStatus(p, q, s, st, outputs)
      BY <1>4 DEF Ends, SetsStatus
    <3> QED
      BY <2>1, <3>1, OneStatusMoves
  <2>4. \A t \in Steps : RecoveryAuthorized(q, t) <=> RecoveryAuthorized(p, t)
    BY <2>3 DEF RecoveryAuthorized
  <2>5. (\A t, u \in InFlight(q) : t = u) /\ InStatus(q, "RUNNING") = {}
    BY <2>1, <2>2, <2>3 DEF InFlight, InStatus
  <2>6. \A t \in Steps : q.status[t] \notin {"PENDING", "SKIPPED"} =>
          p.status[t] \notin {"PENDING", "SKIPPED"}
    BY <2>1, <2>3
  <2>7. \A t \in InStatus(q, "WAITING_APPROVAL") : d.risk[t] = "HIGH"
    BY <1>4, <2>3 DEF InStatus, Ends, Supervised
  <2> QED
    BY <2>3, <2>4, <2>5, <2>6, <2>7, StatusesMove
<1>5. ASSUME NEW s \in Steps, Recovers(p, q, s)
      PROVE  q \in ProgressRuns /\ Supervised(d, q)
  <2>1. /\ q.status = p.status /\ q \in ProgressRuns /\ p.status[s] = "FAILED"
        /\ \A t \in Steps : q.recoveries[t] = IF t = s THEN 1 ELSE p.recoveries[t]
    BY <1>5 DEF Recovers, ProgressRuns
  <2>2. Keeps(p.status, q.status) /\ InFlight(q) = InFlight(p)
    BY <2>1 DEF Keeps, InFlight
  <2>3. \A t \in Steps : RecoveryAuthorized(p, t) => RecoveryAuthorized(q, t)
    BY <2>1 DEF RecoveryAuthorized, ProgressRuns
  <2>4. \A t \in Steps : RecoveryAuthorized(q, t) =>
          RecoveryAuthorized(p, t) \/ q.status[t] = "FAILED"
    BY <2>1 DEF RecoveryAuthorized
  <2>5. InStatus(q, "RUNNING") # {} => \A t \in Steps : ~HopelessFailure(d, q, t)
    BY <2>1 DEF InStatus, HopelessFailure, Supervised
  <2>6. \A t \in InStatus(q, "WAITING_APPROVAL") : d.risk[t] = "HIGH"
    BY <2>1 DEF InStatus, Supervised
  <2>7. \A t, u \in InFlight(q) : t = u
    BY <2>2 DEF Supervised
  <2> QED
    BY <2>1, <2>2, <2>3, <2>4, <2>5, <2>6, <2>7, StatusesMove
<1> QED
  BY <1>1, <1>2, <1>3, <1>4, <1>5 DEF Moves
=============================================================================
