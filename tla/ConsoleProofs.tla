---------------------------- MODULE ConsoleProofs ----------------------------
(***************************************************************************)
(* What the console's panels promise, for any number of runs, reminders,   *)
(* previews, authorizations and requests.  Each panel has an invariant of  *)
(* its own; a step of another panel leaves its variables alone, but for    *)
(* the tab's operation in progress, which no panel then waits for.         *)
(***************************************************************************)
EXTENDS Console, FiniteSetTheorems, SequenceTheorems, TLAPS

(***************************************************************************)
(* The Google panel: what a disconnection erased stays erased.  An         *)
(* authorization is used once: its state is handed out, is then pending,   *)
(* then exchanged, then the credentials, and is never at two of these      *)
(* places.  So what a disconnection erases, in either table, is neither    *)
(* being exchanged nor in the other table, and has no way back.            *)
(***************************************************************************)

\* An authorization that some request has begun and not yet committed is nowhere else.
BegunOnce ==
    \A c \in Calls : call[c].pc = "begin" =>
        /\ call[c].for \in begun
        /\ call[c].for \notin pending
        /\ call[c].for # credentials.refresh
        /\ \A d \in Calls : call[d].pc = "exchange" => call[d].for # call[c].for
        /\ \A d \in Calls : call[d].pc = "begin" /\ d # c => call[d].for # call[c].for

\* Nor is one whose code is being exchanged pending, exchanged twice, or the credentials' one.
UsedOnce ==
    /\ \A c \in Calls : call[c].pc = "exchange" =>
          /\ call[c].for \in begun
          /\ call[c].for \notin pending
          /\ call[c].for # credentials.refresh
          /\ \A d \in Calls : call[d].pc = "exchange" /\ d # c => call[d].for # call[c].for
    /\ credentials.refresh \notin pending
    /\ Connected => credentials.refresh \in begun
    /\ pending \subseteq begun

\* Nothing that was erased is on its way to a table.
NoWayBack ==
    /\ ended \subseteq begun
    /\ \A c \in Calls : call[c].pc \in {"begin", "exchange"} => call[c].for \notin ended

\* The inductive invariant.
KeptInv == GoogleTypeOK /\ BegunOnce /\ UsedOnce /\ NoWayBack /\ ErasedStaysErased

\* Where no row of credentials is, there is no authorization either.
LEMMA ConnectedHasRefresh ==
    ASSUME GoogleTypeOK
    PROVE  /\ Connected <=> credentials.refresh \in Authorizations
           /\ ~Connected => credentials.refresh = NoAuthorization
BY GoogleAssumption DEF GoogleTypeOK, Connected, Credentials, NoCredentials

LEMMA KeptInit == GoogleInit => KeptInv
BY GoogleAssumption DEF GoogleInit, KeptInv, GoogleTypeOK, BegunOnce, UsedOnce, NoWayBack,
   ErasedStaysErased, Connected, Credentials, NoCredentials, Waiting
----------------------------------------------------------------------------
(* One lemma for each conjunct of the invariant that a step may disturb *)

LEMMA TypesKept == KeptInv /\ [GoogleNext]_googleVars => GoogleTypeOK'
<1> SUFFICES ASSUME GoogleTypeOK, [GoogleNext]_googleVars PROVE GoogleTypeOK'
  BY DEF KeptInv
<1> USE GoogleAssumption DEF GoogleTypeOK
<1>1. ASSUME NEW c \in Calls, NEW a \in Authorizations,
             BeginAuthorization(c, a) \/ Callback(c, a)
      PROVE  GoogleTypeOK'
  BY <1>1 DEF BeginAuthorization, Callback, Step
<1>2. ASSUME NEW c \in Calls, CommitAuthorization(c) PROVE GoogleTypeOK'
  BY <1>2 DEF CommitAuthorization, Waiting
<1>3. ASSUME NEW c \in Calls, StoreTokens(c) PROVE GoogleTypeOK'
  BY <1>3 DEF StoreTokens, Credentials, Waiting
<1>4. ASSUME NEW c \in Calls, RequestRefresh(c) PROVE GoogleTypeOK'
  BY <1>4, ConnectedHasRefresh DEF RequestRefresh, Step
<1>5. ASSUME NEW c \in Calls, StoreAccess(c) PROVE GoogleTypeOK'
  BY <1>5 DEF StoreAccess, Renewed, Credentials, Waiting
<1>6. ASSUME NEW c \in Calls, DeleteCredentials(c) PROVE GoogleTypeOK'
  BY <1>6, ConnectedHasRefresh DEF DeleteCredentials, Step
<1>7. ASSUME NEW c \in Calls, DeleteStates(c) \/ GiveUp(c) PROVE GoogleTypeOK'
  BY <1>7 DEF DeleteStates, GiveUp, Waiting
<1>8. ASSUME NEW a \in Authorizations, StateExpires(a) PROVE GoogleTypeOK'
  BY <1>8 DEF StateExpires
<1>9. CASE AccessExpires
  BY <1>9 DEF AccessExpires, Connected, Credentials
<1>10. CASE UNCHANGED googleVars
  BY <1>10 DEF googleVars
<1> QED
  BY <1>1, <1>2, <1>3, <1>4, <1>5, <1>6, <1>7, <1>8, <1>9, <1>10 DEF GoogleNext

\* A step leaves the requests of others alone, and one that only ends a request, or lets
\* time pass, leaves every authorization where it is or takes it away.
LEMMA PlacesKept ==
    ASSUME KeptInv, [GoogleNext]_googleVars
    PROVE  BegunOnce' /\ UsedOnce' /\ NoWayBack'
<1> USE GoogleAssumption DEF KeptInv, GoogleTypeOK
<1> DEFINE Inv == BegunOnce /\ UsedOnce /\ NoWayBack
<1>1. ASSUME NEW c \in Calls, NEW a \in Authorizations, BeginAuthorization(c, a)
      PROVE  Inv'
  <2>1. a \notin pending /\ a # credentials.refresh /\ a \notin ended
    BY <1>1, ConnectedHasRefresh DEF BeginAuthorization, UsedOnce, NoWayBack
  <2>2. \A d \in Calls : call[d].pc \in {"begin", "exchange"} => call[d].for # a
    BY <1>1 DEF BeginAuthorization, UsedOnce, BegunOnce
  <2> QED
    BY <1>1, <2>1, <2>2 DEF BeginAuthorization, Step, BegunOnce, UsedOnce, NoWayBack, Connected
<1>2. ASSUME NEW c \in Calls, CommitAuthorization(c) PROVE Inv'
  BY <1>2 DEF CommitAuthorization, Waiting, BegunOnce, UsedOnce, NoWayBack, Connected
<1>3. ASSUME NEW c \in Calls, NEW a \in Authorizations, Callback(c, a) PROVE Inv'
  BY <1>3, ConnectedHasRefresh
     DEF Callback, Step, BegunOnce, UsedOnce, NoWayBack, ErasedStaysErased, Connected
<1>4. ASSUME NEW c \in Calls, StoreTokens(c) PROVE Inv'
  BY <1>4 DEF StoreTokens, Waiting, BegunOnce, UsedOnce, NoWayBack
<1>5. ASSUME NEW c \in Calls, RequestRefresh(c) PROVE Inv'
  BY <1>5 DEF RequestRefresh, Step, BegunOnce, UsedOnce, NoWayBack, Connected
<1>6. ASSUME NEW c \in Calls, StoreAccess(c) PROVE Inv'
  <2>1. credentials'.refresh = credentials.refresh /\ (Connected' => Connected)
    BY <1>6, ConnectedHasRefresh DEF StoreAccess, Renewed, Connected, Credentials
  <2> QED
    BY <1>6, <2>1 DEF StoreAccess, Waiting, BegunOnce, UsedOnce, NoWayBack
<1>7. ASSUME NEW c \in Calls, DeleteCredentials(c) PROVE Inv'
  <2>1. credentials'.refresh = NoAuthorization /\ ~Connected'
    BY <1>7 DEF DeleteCredentials, Connected, NoCredentials
  <2> QED
    BY <1>7, <2>1 DEF DeleteCredentials, Step, BegunOnce, UsedOnce, NoWayBack
<1>8. ASSUME NEW c \in Calls, DeleteStates(c) PROVE Inv'
  BY <1>8 DEF DeleteStates, Waiting, BegunOnce, UsedOnce, NoWayBack, Connected
<1>9. ASSUME NEW c \in Calls, GiveUp(c) PROVE Inv'
  BY <1>9 DEF GiveUp, Waiting, BegunOnce, UsedOnce, NoWayBack, Connected
<1>10. ASSUME NEW a \in Authorizations, StateExpires(a) PROVE Inv'
  BY <1>10 DEF StateExpires, BegunOnce, UsedOnce, NoWayBack, Connected
<1>11. CASE AccessExpires
  <2>1. credentials'.refresh = credentials.refresh /\ Connected
    BY <1>11 DEF AccessExpires, Connected, Credentials
  <2> QED
    BY <1>11, <2>1 DEF AccessExpires, BegunOnce, UsedOnce, NoWayBack, Connected
<1>12. CASE UNCHANGED googleVars
  BY <1>12 DEF googleVars, BegunOnce, UsedOnce, NoWayBack, Connected
<1> QED
  BY <1>1, <1>2, <1>3, <1>4, <1>5, <1>6, <1>7, <1>8, <1>9, <1>10, <1>11, <1>12 DEF GoogleNext

\* What a step puts in a table was on its way there; what it erases is in no other place.
LEMMA ErasureKept == KeptInv /\ [GoogleNext]_googleVars => ErasedStaysErased'
<1> SUFFICES ASSUME KeptInv, [GoogleNext]_googleVars PROVE ErasedStaysErased'
  OBVIOUS
<1> USE DEF KeptInv, ErasedStaysErased
<1>1. ASSUME NEW c \in Calls, CommitAuthorization(c) PROVE ErasedStaysErased'
  BY <1>1 DEF CommitAuthorization, NoWayBack
<1>2. ASSUME NEW c \in Calls, StoreTokens(c) PROVE ErasedStaysErased'
  BY <1>2 DEF StoreTokens, NoWayBack
<1>3. ASSUME NEW c \in Calls, StoreAccess(c) PROVE ErasedStaysErased'
  <2>1. credentials'.refresh = credentials.refresh
    BY <1>3, ConnectedHasRefresh DEF StoreAccess, Renewed, Connected, Credentials, GoogleTypeOK
  <2> QED
    BY <1>3, <2>1 DEF StoreAccess
<1>4. ASSUME NEW c \in Calls, DeleteCredentials(c) PROVE ErasedStaysErased'
  <2>1. credentials'.refresh = NoAuthorization
    BY <1>4 DEF DeleteCredentials, NoCredentials
  <2>2. NoAuthorization \notin ended' /\ pending \cap ended' = {}
    BY <1>4, ConnectedHasRefresh, GoogleAssumption DEF DeleteCredentials, UsedOnce, GoogleTypeOK
  <2> QED
    BY <1>4, <2>1, <2>2 DEF DeleteCredentials
<1>5. ASSUME NEW c \in Calls, DeleteStates(c) PROVE ErasedStaysErased'
  BY <1>5 DEF DeleteStates, UsedOnce
<1>6. CASE AccessExpires
  <2>1. credentials'.refresh = credentials.refresh
    BY <1>6, ConnectedHasRefresh DEF AccessExpires, Connected, Credentials, GoogleTypeOK
  <2> QED
    BY <1>6, <2>1 DEF AccessExpires
<1> QED
  BY <1>1, <1>2, <1>3, <1>4, <1>5, <1>6
     DEF GoogleNext, googleVars, BeginAuthorization, Callback, RequestRefresh, GiveUp, StateExpires

LEMMA GoogleStep == [ConsoleNext]_consoleVars => [GoogleNext]_googleVars
BY DEF ConsoleNext, Alerting, Reminding, Chatting, Connecting, consoleVars

LEMMA KeptAlways == ConsoleSpec => []KeptInv
<1>1. ConsoleInit => KeptInv
  BY KeptInit DEF ConsoleInit
<1>2. KeptInv /\ [ConsoleNext]_consoleVars => KeptInv'
  BY GoogleStep, TypesKept, PlacesKept, ErasureKept DEF KeptInv
<1> QED
  BY <1>1, <1>2, PTL DEF ConsoleSpec

\* The tables of the connection and its requests are always well typed: in particular, a
\* request that talks to Google works with an authorization.
THEOREM GoogleTypeCorrect == ConsoleSpec => []GoogleTypeOK
BY KeptAlways, PTL DEF KeptInv

\* However callbacks, refreshes and new attempts interleave with disconnections, fail or come
\* late, no authorization whose refresh token or pending state a disconnection erased is in
\* either table again.
THEOREM ErasedCredentialsStayErased == ConsoleSpec => []ErasedStaysErased
BY KeptAlways, PTL DEF KeptInv

----------------------------------------------------------------------------
(***************************************************************************)
(* The alert centre: what is on the screen, and what is being              *)
(* acknowledged, was listed; and the key that is stored is the one that    *)
(* was asked for, since the run must still be there.                       *)
(***************************************************************************)

ShownInv ==
    /\ AcknowledgedWasShown
    /\ acking \subseteq listed
    /\ {a.key : a \in alertList} \subseteq listed

LEMMA ShownKept == ShownInv /\ [ConsoleNext]_consoleVars => ShownInv'
<1> SUFFICES ASSUME ShownInv, [ConsoleNext]_consoleVars PROVE ShownInv'
  OBVIOUS
<1> USE DEF ShownInv, AcknowledgedWasShown
<1>1. ASSUME UNCHANGED <<acks, acking, alertList, listed>> PROVE ShownInv'
  BY <1>1
<1>2. CASE AlertWatchNext
  <2>1. CASE SnapshotArrives
    BY <2>1 DEF SnapshotArrives, inboxVars, alertVars
  <2>2. ASSUME NEW a \in alertList, Acknowledge(a) PROVE ShownInv'
    BY <2>2 DEF Acknowledge, inboxVars, alertVars, watchVars
  <2>3. ASSUME NEW key \in acking, ReadRun(key) PROVE ShownInv'
    BY <2>3 DEF ReadRun, StillCurrent, inboxVars, alertVars, watchVars
  <2>4. ASSUME NEW key \in acking, RecordAcknowledgement(key) PROVE ShownInv'
    BY <2>4 DEF RecordAcknowledgement, Record, watchVars
  <2>5. CASE AcknowledgementFails
    BY <2>5 DEF AcknowledgementFails, inboxVars, alertVars, watchVars
  <2>6. CASE \/ Refresh \/ WatchOn \/ WatchOff \/ BrowserOn \/ BrowserOff \/ Poll
            \/ ListRuns \/ ListAcknowledged \/ RequestFails
    BY <1>1, <2>6
       DEF Refresh, WatchOn, WatchOff, BrowserOn, BrowserOff, Poll, ListRuns, ListAcknowledged,
           RequestFails, inboxVars, alertVars, watchVars
  <2>7. ASSUME NEW w \in Workflows, NEW s \in RunStatuses, RunMoves(w, s) PROVE ShownInv'
    BY <1>1, <2>7 DEF RunMoves, WorkflowMoves, watchVars
  <2> QED
    BY <1>2, <2>1, <2>2, <2>3, <2>4, <2>5, <2>6, <2>7 DEF AlertWatchNext, Quietly
<1>3. CASE UNCHANGED <<ofAlerts>>
  BY <1>1, <1>3 DEF ofAlerts, inboxVars, alertVars, watchVars
<1> QED
  BY <1>2, <1>3
     DEF ConsoleNext, Alerting, Reminding, Chatting, Connecting, consoleVars, alertWatchVars, ofAlerts

\* Nobody acknowledges an alert that was not on the screen, whatever version and status its
\* run moves to between the answer, the click and the writing of the acknowledgement.
THEOREM AcknowledgementsWereShown == ConsoleSpec => []AcknowledgedWasShown
<1>1. ConsoleInit => ShownInv
  BY DEF ConsoleInit, WatchInit, AlertsInit, ShownInv, AcknowledgedWasShown
<1>2. ShownInv => AcknowledgedWasShown
  BY DEF ShownInv
<1> QED
  BY <1>1, <1>2, ShownKept, PTL DEF ConsoleSpec
----------------------------------------------------------------------------
(***************************************************************************)
(* The alert watch: whatever was listed and is not forgotten is known, so  *)
(* that a notice, which is about an unknown key, is about a new one.       *)
(***************************************************************************)

\* Every set of numbers has a least one.
LEMMA LeastElement ==
    ASSUME NEW S \in SUBSET Nat, S # {}
    PROVE  \E s \in S : \A t \in S : s <= t
<1>1. \A x, y \in Nat : x < y => <<x, y>> \in OpToRel(<, Nat)
  BY Zenon DEF OpToRel
<1>2. PICK R : IsWellFoundedOn(R, Nat) /\ \A x, y \in Nat : x < y => <<x, y>> \in R
  BY <1>1, NatLessThanWellFounded, Zenon
<1>3. PICK s \in S : \A t \in S : ~(<<t, s>> \in R)
  <2>1. IsWellFoundedOn(R, Nat)
    BY <1>2
  <2>2. ASSUME NEW T, T \subseteq Nat, T # {}
        PROVE  \E x \in T : \A y \in T : ~(<<y, x>> \in R)
    BY <2>1, <2>2, WFMin
  <2> QED
    BY <2>2
<1>4. \A t \in S : s <= t
  <2> SUFFICES ASSUME NEW t \in S PROVE s <= t
    OBVIOUS
  <2>1. s \in Nat /\ t \in Nat
    OBVIOUS
  <2>2. ~(t < s)
    BY <1>2, <1>3, <2>1
  <2> QED
    BY <2>1, <2>2
<1> QED
  BY <1>4

\* Induction, on a set instead of a predicate.
LEMMA Induction ==
    ASSUME NEW T, 0 \in T, \A n \in Nat : n \in T => n + 1 \in T
    PROVE  \A n \in Nat : n \in T
<1> SUFFICES ASSUME NEW n \in Nat, n \notin T PROVE FALSE
  OBVIOUS
<1> DEFINE S == {m \in Nat : m \notin T}
<1>1. PICK m \in S : \A k \in S : m <= k
  BY LeastElement
<1>2. m \in Nat /\ m \notin T /\ m # 0
  OBVIOUS
<1>3. m - 1 \in Nat /\ m - 1 \notin S
  BY <1>1, <1>2
<1> QED
  BY <1>2, <1>3

LEMMA ElementsOfAppend ==
    ASSUME NEW S, NEW s \in Seq(S), NEW e \in S
    PROVE  Append(s, e) \in Seq(S) /\ ElementsOf(Append(s, e)) = ElementsOf(s) \cup {e}
<1> DEFINE t == Append(s, e)
           n == Len(s)
<1>1. /\ n \in Nat /\ DOMAIN s = 1..n /\ t \in Seq(S) /\ DOMAIN t = 1..(n + 1)
      /\ \A i \in 1..n : t[i] = s[i]
      /\ t[n + 1] = e
  BY AppendProperties, LenProperties
<1> HIDE DEF t, n
<1>2. {t[i] : i \in 1..(n + 1)} = {s[i] : i \in 1..n} \cup {e}
  <2>1. \A i \in 1..(n + 1) : i \in 1..n \/ i = n + 1
    BY <1>1
  <2>2. \A i \in 1..n : i \in 1..(n + 1)
    BY <1>1
  <2>3. n + 1 \in 1..(n + 1)
    BY <1>1
  <2> QED
    BY <1>1, <2>1, <2>2, <2>3
<1> QED
  BY <1>1, <1>2 DEF ElementsOf, t

\* A filter keeps what belongs to the set, and nothing else.
LEMMA AmongCollects ==
    ASSUME NEW S, NEW s \in Seq(S), NEW T
    PROVE  Among(s, T) \in Seq(S) /\ ElementsOf(Among(s, T)) = ElementsOf(s) \cap T
<1> DEFINE Body(f, i) == IF i = 0 THEN << >>
                         ELSE IF s[i] \in T THEN Append(f[i - 1], s[i]) ELSE f[i - 1]
           Solves(f, n) == f = [i \in 0..n |-> Body(f, i)]
           Solved == {n \in Nat : \E f : Solves(f, n)}
<1>1. 0 \in Solved
  <2> DEFINE f == [i \in 0..0 |-> << >>]
  <2>1. Solves(f, 0)
    OBVIOUS
  <2> HIDE DEF f, Solves
  <2> QED
    BY <2>1
<1>2. ASSUME NEW n \in Nat, n \in Solved PROVE n + 1 \in Solved
  <2>1. PICK f : Solves(f, n)
    BY <1>2
  <2> DEFINE g == [i \in 0..(n + 1) |-> IF i = n + 1 THEN Body(f, n + 1) ELSE f[i]]
  <2>2. ASSUME NEW i \in 0..(n + 1) PROVE g[i] = Body(g, i)
    <3>1. CASE i = n + 1
      <4>1. g[n] = f[n]
        OBVIOUS
      <4> QED
        BY <3>1, <4>1
    <3>2. CASE i # n + 1
      <4>1. i \in 0..n /\ g[i] = f[i] /\ (i # 0 => g[i - 1] = f[i - 1])
        BY <3>2
      <4>2. f[i] = Body(f, i)
        BY <2>1, <4>1
      <4> QED
        BY <4>1, <4>2
    <3> QED
      BY <3>1, <3>2
  <2> HIDE DEF Body
  <2>3. Solves(g, n + 1)
    BY <2>2
  <2> HIDE DEF g, Solves
  <2> QED
    BY <2>3
<1>3. Len(s) \in Nat
  OBVIOUS
<1>4. \E f : Solves(f, Len(s))
  <2>1. Len(s) \in Solved
    <3> HIDE DEF Solved
    <3> QED
      BY <1>1, <1>2, <1>3, Induction
  <2> HIDE DEF Solves
  <2> QED
    BY <2>1
<1> DEFINE kept == CHOOSE f : Solves(f, Len(s))
<1>5. Among(s, T) = kept[Len(s)]
  BY DEF Among
<1>6. Solves(kept, Len(s))
  <2> HIDE DEF Solves
  <2> QED
    BY <1>4
<1> HIDE DEF kept
<1>7. /\ kept[0] = << >>
      /\ \A i \in 1..Len(s) :
           kept[i] = IF s[i] \in T THEN Append(kept[i - 1], s[i]) ELSE kept[i - 1]
  <2>1. \A i \in 0..Len(s) : kept[i] = Body(kept, i)
    <3> HIDE DEF Body
    <3> QED
      BY <1>6
  <2>2. 0 \in 0..Len(s) /\ \A i \in 1..Len(s) : i \in 0..Len(s) /\ i # 0
    BY <1>3
  <2> QED
    BY <2>1, <2>2
<1> DEFINE Right == {n \in Nat : n <= Len(s) =>
                       /\ kept[n] \in Seq(S)
                       /\ ElementsOf(kept[n]) = {s[i] : i \in 1..n} \cap T}
<1>8. 0 \in Right
  <2>1. kept[0] \in Seq(S) /\ ElementsOf(kept[0]) = {}
    BY <1>7 DEF ElementsOf
  <2>2. {s[i] : i \in 1..0} = {}
    OBVIOUS
  <2> QED
    BY <2>1, <2>2
<1>9. ASSUME NEW n \in Nat, n \in Right, n + 1 <= Len(s)
      PROVE  /\ kept[n + 1] \in Seq(S)
             /\ ElementsOf(kept[n + 1]) = {s[i] : i \in 1..(n + 1)} \cap T
  <2>1. n + 1 \in 1..Len(s) /\ n <= Len(s) /\ (n + 1) - 1 = n
    BY <1>3, <1>9
  <2>2. /\ kept[n] \in Seq(S) /\ ElementsOf(kept[n]) = {s[i] : i \in 1..n} \cap T
        /\ kept[n + 1] = IF s[n + 1] \in T THEN Append(kept[n], s[n + 1]) ELSE kept[n]
        /\ s[n + 1] \in S
    BY <1>7, <1>9, <2>1
  <2>3. {s[i] : i \in 1..(n + 1)} = {s[i] : i \in 1..n} \cup {s[n + 1]}
    <3>1. 1..(n + 1) = (1..n) \cup {n + 1}
      OBVIOUS
    <3> QED
      BY <3>1
  <2>4. s[n + 1] \in T => /\ kept[n + 1] \in Seq(S)
                          /\ ElementsOf(kept[n + 1]) = ElementsOf(kept[n]) \cup {s[n + 1]}
    BY <2>2, ElementsOfAppend
  <2> QED
    BY <2>2, <2>3, <2>4
<1>10. Len(s) \in Right
  <2>1. ASSUME NEW n \in Nat, n \in Right PROVE n + 1 \in Right
    <3>1. n + 1 \in Nat
      OBVIOUS
    <3>2. CASE n + 1 <= Len(s)
      BY <1>9, <2>1, <3>1, <3>2
    <3>3. CASE ~(n + 1 <= Len(s))
      BY <3>1, <3>3
    <3> QED
      BY <3>2, <3>3
  <2> HIDE DEF Right
  <2> QED
    BY <1>3, <1>8, <2>1, Induction
<1>11. ElementsOf(s) = {s[i] : i \in 1..Len(s)}
  BY DEF ElementsOf
<1> QED
  BY <1>3, <1>5, <1>10, <1>11

\* What one sequence after another holds.
LEMMA ElementsOfConcat ==
    ASSUME NEW S, NEW s \in Seq(S), NEW t \in Seq(S)
    PROVE  s \o t \in Seq(S) /\ ElementsOf(s \o t) = ElementsOf(s) \cup ElementsOf(t)
<1> DEFINE u == s \o t
           m == Len(s)
           n == Len(t)
<1>1. /\ m \in Nat /\ n \in Nat /\ u \in Seq(S)
      /\ DOMAIN s = 1..m /\ DOMAIN t = 1..n /\ DOMAIN u = 1..(m + n)
      /\ \A i \in 1..(m + n) : u[i] = IF i <= m THEN s[i] ELSE t[i - m]
  BY ConcatProperties, LenProperties
<1> HIDE DEF u, m, n
<1>2. \A i \in 1..m : i \in 1..(m + n) /\ u[i] = s[i]
  BY <1>1
<1>3. \A i \in 1..n : i + m \in 1..(m + n) /\ u[i + m] = t[i]
  BY <1>1
<1>4. \A i \in 1..(m + n) : (i \in 1..m /\ u[i] = s[i]) \/ (i - m \in 1..n /\ u[i] = t[i - m])
  BY <1>1
<1>5. {u[i] : i \in 1..(m + n)} = {s[i] : i \in 1..m} \cup {t[i] : i \in 1..n}
  BY <1>2, <1>3, <1>4
<1> QED
  BY <1>1, <1>5 DEF ElementsOf, u

LEMMA EndsOfSequences ==
    ASSUME NEW S, NEW s \in Seq(S), NEW n \in Nat
    PROVE  /\ ElementsOf(FirstOf(s, n)) \subseteq ElementsOf(s)
           /\ LastOf(s, n) \in Seq(S)
<1>1. Len(s) \in Nat /\ DOMAIN s = 1..Len(s) /\ \A i \in 1..Len(s) : s[i] \in S
  BY LenProperties
<1> DEFINE m == IF Len(s) < n THEN Len(s) ELSE n
           t == SubSeq(s, 1, m)
<1>2. m \in Nat /\ m <= Len(s)
  BY <1>1
<1>3. DOMAIN t = 1..m /\ \A i \in 1..m : t[i] = s[i] /\ i \in 1..Len(s)
  <2> HIDE DEF m
  <2>1. \A i \in 1..m : s[i] \in S /\ i \in 1..Len(s)
    BY <1>1, <1>2
  <2>2. /\ t \in Seq(S) /\ Len(t) = IF 1 <= m THEN m - 1 + 1 ELSE 0
        /\ \A i \in 1..(m - 1 + 1) : t[i] = s[1 + i - 1]
    BY <1>2, <2>1, SubSeqProperties
  <2> HIDE DEF t
  <2>3. m - 1 + 1 = m /\ \A i \in 1..m : 1 + i - 1 = i
    BY <1>2
  <2>4. Len(t) = m
    BY <1>2, <2>2
  <2> QED
    BY <2>1, <2>2, <2>3, <2>4, LenProperties
<1>4. FirstOf(s, n) = t
  BY DEF FirstOf
<1>5. LastOf(s, n) \in Seq(S)
  <2>1. CASE Len(s) <= n
    BY <2>1 DEF LastOf
  <2>2. CASE ~(Len(s) <= n)
    <3>1. \A i \in (Len(s) - n + 1)..Len(s) : s[i] \in S
      BY <1>1, <2>2
    <3>2. SubSeq(s, Len(s) - n + 1, Len(s)) \in Seq(S)
      <4>1. Len(s) - n + 1 \in Int /\ Len(s) \in Int
        BY <1>1
      <4> QED
        BY <3>1, <4>1, SubSeqProperties
    <3> QED
      BY <2>2, <3>2 DEF LastOf
  <2> QED
    BY <2>1, <2>2
<1> HIDE DEF t
<1> QED
  BY <1>1, <1>3, <1>4, <1>5 DEF ElementsOf

\* An answer lists every alert of its set.
LEMMA OrdersListAll ==
    ASSUME NEW S, IsFiniteSet(S), NEW s \in Orders(S)
    PROVE  s \in Seq(S) /\ ElementsOf(s) = S
<1> DEFINE n == Cardinality(S)
<1>1. n \in Nat
  BY FS_CardinalityType
<1>2. s \in [1..n -> S] /\ \A i, j \in 1..n : s[i] = s[j] => i = j
  BY DEF Orders
<1>3. s \in Injection(1..n, S)
  <2> HIDE DEF n
  <2> QED
    BY <1>2 DEF Injection, IsInjective
<1>4. IsFiniteSet(1..n) /\ Cardinality(1..n) = n
  <2>1. Cardinality(1..n) = IF 1 > n THEN 0 ELSE n - 1 + 1
    BY <1>1, FS_Interval
  <2> QED
    BY <1>1, <2>1, FS_Interval
<1>5. s \in Surjection(1..n, S)
  BY <1>3, <1>4, FS_Injection
<1>6. \A x \in S : \E i \in 1..n : s[i] = x
  BY <1>5 DEF Surjection
<1> HIDE DEF n
<1> QED
  BY <1>1, <1>2, <1>6 DEF ElementsOf

\* What is known was listed, and only what was forgotten is not known any more.
ListedIsKnown == known \in Seq(listed) /\ listed \ forgotten \subseteq KnownKeys

\* A request has five fields, and is about finitely many alerts.
AnswersAreFinite ==
    /\ alertRequest = [pc |-> alertRequest.pc, view |-> alertRequest.view,
                       limit |-> alertRequest.limit,
                       keys |-> alertRequest.keys, alerts |-> alertRequest.alerts]
    /\ IsFiniteSet(alertRequest.keys) /\ IsFiniteSet(alertRequest.alerts)

\* The inductive invariant; in the other panels no notice is raised.
NoticeInv ==
    /\ ListedIsKnown
    /\ AnswersAreFinite
    /\ panel # "alerts" => notice = {}

LEMMA NoticeInit == ConsoleInit => NoticeInv
BY FS_EmptySet
   DEF ConsoleInit, WatchInit, NoRequest, NoticeInv, ListedIsKnown, AnswersAreFinite, KnownKeys,
       ElementsOf

LEMMA InboxesAreFinite ==
    ASSUME NEW view
    PROVE  /\ \A limit : IsFiniteSet(Newest(limit))
           /\ \A keys : IsFiniteSet(keys) => IsFiniteSet(Inbox(keys, view))
<1>1. ASSUME NEW S, IsFiniteSet(S), NEW f PROVE IsFiniteSet({f[x] : x \in S})
  <2> DEFINE g == [x \in S |-> f[x]]
             T == {f[x] : x \in S}
  <2>1. g \in Surjection(S, T)
    BY DEF Surjection
  <2> HIDE DEF g, T
  <2>2. IsFiniteSet(T)
    BY <1>1, <2>1, FS_Surjection
  <2> QED
    BY <2>2 DEF T
<1>2. IsFiniteSet(Candidates)
  <2> DEFINE V == {v \in Workflows : Tracked(v)}
             f == [v \in V |-> KeyOf(v)]
  <2>1. IsFiniteSet(V)
    BY WatchAssumption, FS_Subset
  <2>2. Candidates = {f[v] : v \in V}
    BY DEF Candidates
  <2> HIDE DEF V, f
  <2> QED
    BY <1>1, <2>1, <2>2
<1>3. ASSUME NEW keys, IsFiniteSet(keys) PROVE IsFiniteSet(Inbox(keys, view))
  <2> DEFINE f == [k \in keys |-> [key |-> k, acknowledged |-> k \in acks]]
             alerts == {f[k] : k \in keys}
  <2>1. IsFiniteSet(alerts)
    BY <1>1, <1>3
  <2>2. Inbox(keys, view) \in SUBSET alerts
    BY DEF Inbox
  <2> HIDE DEF alerts
  <2> QED
    BY <2>1, <2>2, FS_Subset
<1>4. ASSUME NEW limit PROVE IsFiniteSet(Newest(limit))
  BY <1>2, FS_Subset DEF Newest
<1> QED
  BY <1>3, <1>4

\* What an answer adds to the known keys, and what it raises notices for.
LEMMA AnswerIsCompared ==
    ASSUME ListedIsKnown, NEW A, NEW alerts \in Seq(A), ElementsOf(alerts) = A
    PROVE  /\ WithKeys(alerts) \in Seq(listed \cup {a.key : a \in A})
           /\ KnownKeys \cup {a.key : a \in A} \subseteq ElementsOf(WithKeys(alerts))
           /\ \A k \in Notified(alerts) : k \notin KnownKeys
<1> DEFINE L == listed \cup {a.key : a \in A}
           new == Among(alerts, Unknown(alerts))
           keys == [i \in DOMAIN new |-> new[i].key]
<1>1. new \in Seq(A) /\ ElementsOf(new) = {a \in A : a.key \notin KnownKeys}
  <2>1. Unknown(alerts) = {a \in A : a.key \notin KnownKeys}
    BY DEF Unknown
  <2> QED
    BY <2>1, AmongCollects
<1>2. Len(new) \in Nat /\ DOMAIN new = 1..Len(new) /\ \A i \in 1..Len(new) : new[i] \in A
  BY <1>1, LenProperties
<1>3. keys \in Seq(L)
  <2>1. keys \in [1..Len(new) -> L]
    BY <1>2
  <2> HIDE DEF keys, L
  <2> QED
    BY <1>2, <2>1
<1>4. ElementsOf(keys) = {a.key : a \in ElementsOf(new)}
  <2>1. DOMAIN keys = DOMAIN new /\ \A i \in DOMAIN new : keys[i] = new[i].key
    OBVIOUS
  <2> HIDE DEF keys, new
  <2> QED
    BY <2>1 DEF ElementsOf
<1>5. known \in Seq(L)
  <2>1. known \in Seq(listed) /\ listed \subseteq L
    BY DEF ListedIsKnown
  <2> HIDE DEF L
  <2> QED
    BY <2>1, SeqMonotonic
<1>6. WithKeys(alerts) = known \o keys
  BY DEF WithKeys
<1>7. WithKeys(alerts) \in Seq(L) /\ ElementsOf(WithKeys(alerts)) = KnownKeys \cup ElementsOf(keys)
  <2> HIDE DEF keys, L
  <2> QED
    BY <1>3, <1>5, <1>6, ElementsOfConcat DEF KnownKeys
<1>8. ASSUME NEW k \in Notified(alerts) PROVE k \notin KnownKeys
  <2> DEFINE T == {a \in Unknown(alerts) : ~a.acknowledged}
  <2>1. PICK a \in ElementsOf(Fresh(alerts)) : k = a.key
    BY <1>8 DEF Notified
  <2>2. a \in ElementsOf(FirstOf(Among(alerts, T), MaxShown))
    <3>1. ElementsOf(<< >>) = {}
      BY DEF ElementsOf
    <3>2. Fresh(alerts) = IF baseline THEN FirstOf(Among(alerts, T), MaxShown) ELSE << >>
      BY DEF Fresh
    <3> HIDE DEF T
    <3> QED
      BY <2>1, <3>1, <3>2
  <2>3. Among(alerts, T) \in Seq(A) /\ ElementsOf(Among(alerts, T)) \subseteq T
    <3> HIDE DEF T
    <3> QED
      BY AmongCollects
  <2>4. a \in T
    <3> HIDE DEF T
    <3> QED
      BY <2>2, <2>3, EndsOfSequences, WatchAssumption
  <2> QED
    BY <2>1, <2>4 DEF Unknown
<1> HIDE DEF keys, new, L
<1>9. {a.key : a \in A} \subseteq KnownKeys \cup {a.key : a \in ElementsOf(new)}
  BY <1>1
<1> QED
  BY <1>4, <1>7, <1>8, <1>9 DEF L

LEMMA SnapshotIsKnown ==
    ASSUME NoticeInv, SnapshotArrives
    PROVE  /\ ListedIsKnown' /\ AnswersAreFinite'
           /\ \A k \in notice' : k \notin listed \ forgotten
<1> DEFINE A == alertRequest.alerts
           L == listed \cup {a.key : a \in A}
<1>1. PICK alerts \in Orders(A) :
        /\ known' = LastOf(WithKeys(alerts), MaxKnown)
        /\ notice' = Notified(alerts)
        /\ forgotten' = forgotten \cup (ElementsOf(WithKeys(alerts)) \ ElementsOf(known'))
  BY DEF SnapshotArrives
<1>2. alerts \in Seq(A) /\ ElementsOf(alerts) = A
  BY OrdersListAll DEF NoticeInv, AnswersAreFinite
<1>3. /\ WithKeys(alerts) \in Seq(L)
      /\ KnownKeys \cup {a.key : a \in A} \subseteq ElementsOf(WithKeys(alerts))
      /\ \A k \in Notified(alerts) : k \notin KnownKeys
  BY <1>2, AnswerIsCompared DEF NoticeInv
<1>4. listed' = L
  BY DEF SnapshotArrives
<1>5. known' \in Seq(listed')
  <2> HIDE DEF L
  <2> QED
    BY <1>1, <1>3, <1>4, EndsOfSequences, WatchAssumption
<1>6. listed \ forgotten \subseteq KnownKeys
  BY DEF NoticeInv, ListedIsKnown
<1>7. ListedIsKnown'
  <2>1. listed' \ forgotten' \subseteq ElementsOf(known')
    BY <1>1, <1>3, <1>4, <1>6
  <2> QED
    BY <1>5, <2>1 DEF ListedIsKnown, KnownKeys
<1>8. AnswersAreFinite'
  BY FS_EmptySet DEF SnapshotArrives, NoRequest, AnswersAreFinite
<1> QED
  BY <1>1, <1>3, <1>6, <1>7, <1>8

\* The other steps of the panel know what they knew.
LEMMA QuietlyKept ==
    ASSUME NoticeInv, Quietly
    PROVE  ListedIsKnown' /\ AnswersAreFinite'
<1> USE DEF NoticeInv
<1>1. UNCHANGED <<known, listed, forgotten>>
  BY DEF Quietly, Refresh, WatchOn, WatchOff, BrowserOn, BrowserOff, Poll, ListRuns,
         ListAcknowledged, RequestFails, Acknowledge, ReadRun, RecordAcknowledgement,
         AcknowledgementFails, RunMoves, watchVars
<1>2. ListedIsKnown'
  BY <1>1 DEF ListedIsKnown, KnownKeys
<1>3. ASSUME LoadAlerts PROVE AnswersAreFinite'
  BY <1>3, FS_EmptySet DEF LoadAlerts, NoRequest, AnswersAreFinite
<1>4. CASE UNCHANGED alertRequest
  BY <1>2, <1>4 DEF AnswersAreFinite
<1>5. CASE ListRuns
  <2>1. IsFiniteSet(Newest(alertRequest.limit))
    BY InboxesAreFinite
  <2> QED
    BY <1>2, <1>5, <2>1 DEF ListRuns, AnswersAreFinite
<1>6. CASE ListAcknowledged
  <2>1. IsFiniteSet(Inbox(alertRequest.keys, alertRequest.view))
    BY InboxesAreFinite DEF AnswersAreFinite
  <2> QED
    BY <1>2, <1>6, <2>1, FS_EmptySet DEF ListAcknowledged, AnswersAreFinite
<1>7. CASE RequestFails
  BY <1>2, <1>7, FS_EmptySet DEF RequestFails, NoRequest, AnswersAreFinite
<1>8. CASE ~(ListRuns \/ ListAcknowledged \/ RequestFails)
  <2>1. LoadAlerts \/ UNCHANGED alertRequest
    BY <1>8
       DEF Quietly, Refresh, WatchOn, WatchOff, BrowserOn, BrowserOff, Poll, Acknowledge, ReadRun,
           RecordAcknowledgement, AcknowledgementFails, RunMoves
  <2> QED
    BY <1>2, <1>3, <1>4, <2>1
<1> QED
  BY <1>5, <1>6, <1>7, <1>8

LEMMA NoticeKept ==
    ASSUME NoticeInv, [ConsoleNext]_consoleVars
    PROVE  /\ NoticeInv'
           /\ UNCHANGED alertWatchVars \/ \A k \in notice' : k \notin listed \ forgotten
<1>1. CASE panel = "alerts" /\ panel' = panel /\ AlertWatchNext
  BY <1>1, SnapshotIsKnown, QuietlyKept DEF AlertWatchNext, NoticeInv
<1>2. CASE UNCHANGED <<panel, ofAlerts>> /\ (panel # "alerts" \/ UNCHANGED alertWatchVars)
  <2>1. UNCHANGED <<known, listed, forgotten, alertRequest, notice, panel>>
    BY <1>2 DEF ofAlerts, watchVars
  <2>2. NoticeInv'
    BY <2>1 DEF NoticeInv, ListedIsKnown, KnownKeys, AnswersAreFinite
  <2> QED
    BY <1>2, <2>1, <2>2 DEF NoticeInv
<1> QED
  BY <1>1, <1>2
     DEF ConsoleNext, Alerting, Reminding, Chatting, Connecting, consoleVars, alertWatchVars, ofAlerts

\* A browser notice is about an alert this tab had not listed before, whatever request its
\* answer came from, for whatever view and number of runs; only a key that was driven out of
\* the tab's memory may come again.
THEOREM NoticesAreNewAlways == ConsoleSpec => NoticesAreNew
<1>1. NoticeInv /\ [ConsoleNext]_consoleVars => NoticeInv'
  BY NoticeKept
<1>2. NoticeInv /\ [ConsoleNext]_consoleVars =>
        [\A k \in notice' : k \notin listed \ forgotten]_alertWatchVars
  BY NoticeKept
<1> QED
  BY <1>1, <1>2, NoticeInit, PTL DEF ConsoleSpec, NoticesAreNew

----------------------------------------------------------------------------
(***************************************************************************)
(* The reminder watch.  A reminder keeps the date it was triggered at, so  *)
(* while the watch is on, whatever was announced, or was due before, is    *)
(* either known to the tab or older than the activation.                   *)
(***************************************************************************)

ReminderTypeOK ==
    /\ moment \in Int
    /\ startedAt \in Int
    /\ reading.at \in Int
    /\ row \in [Notes -> [status : {"PENDING", "DUE", "CLOSED"}, at : Int]]
    /\ announced \subseteq Notes
    /\ base \subseteq Notes

\* Triggered, and never pending again.
Triggered(n) == row[n].status # "PENDING"

\* So what the tab is told of a reminder stays true.
AnswersAreTrue ==
    /\ \A n \in Notes : row[n].at <= moment
    /\ \A n \in announced \cup base : Triggered(n)
    /\ \A answer \in {inFlight, reading} : answer.pc = "listed" =>
          \A r \in answer.rows : r.id \in Notes /\ Triggered(r.id) /\ row[r.id].at = r.at

\* The request for the baseline belongs to the tab's operation, and the watch is off.
BaselineIsAwaited ==
    /\ reading.pc # "none" => panel = "reminders" /\ doing = "baseline" /\ ~reminderWatch
    /\ reading.pc = "listed" =>
          \A n \in announced \cup base : row[n].at <= reading.at
    /\ panel # "reminders" => notices = {}

ToldIsKnown ==
    reminderWatch => \A n \in announced \cup base : n \in seen \/ row[n].at < startedAt

QuietInv == ReminderTypeOK /\ AnswersAreTrue /\ BaselineIsAwaited /\ ToldIsKnown

LEMMA QuietInit == ConsoleInit => QuietInv
BY ReminderWatchAssumption
   DEF ConsoleInit, ReminderWatchInit, Nothing, QuietInv, ReminderTypeOK, AnswersAreTrue,
       BaselineIsAwaited, ToldIsKnown, Triggered

\* A pass changes pending rows only, and triggers them no later than now.
LEMMA PassTriggers ==
    ASSUME ReminderTypeOK, NEW at \in Int, at <= moment, NEW batch \in Batches(at),
           row' = MarkedDue(batch, at)
    PROVE  /\ row' \in [Notes -> [status : {"PENDING", "DUE", "CLOSED"}, at : Int]]
           /\ \A n \in Notes : row[n].status # "PENDING" => row'[n] = row[n]
           /\ (\A n \in Notes : row[n].at <= moment) => \A n \in Notes : row'[n].at <= moment
BY DEF ReminderTypeOK, MarkedDue, Batches, Earliest

LEMMA ListedIsTrue ==
    ASSUME ReminderTypeOK, NEW chosen \in Listings
    PROVE  /\ Listed(chosen).pc = "listed" /\ Listed(chosen).at = moment
           /\ \A r \in Listed(chosen).rows :
                 r.id \in Notes /\ Triggered(r.id) /\ row[r.id].at = r.at
BY DEF Listings, Earliest, Listed, DueNotes, Triggered, ReminderTypeOK

\* A step that triggers rows, and changes nothing that the tab knows.
LEMMA TriggeringIsQuiet ==
    ASSUME QuietInv, ReminderTypeOK', \A n \in Notes : row'[n].at <= moment',
           \A n \in Notes : Triggered(n) => row'[n].status # "PENDING" /\ row'[n].at = row[n].at,
           UNCHANGED <<reminderWatch, seen, startedAt, announced, base>>,
           inFlight' = inFlight \/ inFlight'.pc # "listed",
           reading' = reading \/ reading'.pc # "listed",
           reading'.pc # "none" => panel' = "reminders" /\ doing' = "baseline" /\ ~reminderWatch',
           panel' # "reminders" => notices' = {}
    PROVE  QuietInv'
<1> USE DEF QuietInv, ReminderTypeOK
<1>1. AnswersAreTrue'
  BY DEF AnswersAreTrue, Triggered
<1>2. BaselineIsAwaited'
  BY DEF AnswersAreTrue, BaselineIsAwaited, Triggered
<1>3. ToldIsKnown'
  BY DEF AnswersAreTrue, ToldIsKnown, Triggered
<1> QED
  BY <1>1, <1>2, <1>3

LEMMA WatchKept ==
    ASSUME QuietInv, ReminderWatchNext, panel = "reminders", panel' = panel
    PROVE  QuietInv'
<1> USE DEF QuietInv
<1> DEFINE Known == <<reminderWatch, seen, startedAt, announced, base>>
<1>1. CASE Later
  <2>1. ReminderTypeOK' /\ \A n \in Notes : row'[n].at <= moment'
    BY <1>1 DEF Later, ReminderTypeOK, AnswersAreTrue, tabState, history
  <2>2. \A n \in Notes : Triggered(n) => row'[n].status # "PENDING" /\ row'[n].at = row[n].at
    BY <1>1 DEF Later, Triggered
  <2>3. UNCHANGED <<doing, inFlight, reading, reminderWatch, seen, startedAt, announced, base>>
    BY <1>1 DEF Later, tabState, history
  <2> QED
    BY <2>1, <2>2, <2>3, TriggeringIsQuiet DEF BaselineIsAwaited
<1>2. ASSUME NEW at \in 0..LastMoment, CheckDue(at) PROVE QuietInv'
  <2>1. at \in Int /\ at <= moment
    BY <1>2, ReminderWatchAssumption DEF CheckDue, ReminderTypeOK
  <2>2. PICK batch \in Batches(at) : row' = MarkedDue(batch, at)
    BY <1>2 DEF CheckDue
  <2>3. reading' \in Checked(reading) /\ inFlight' \in Checked(inFlight)
    BY <1>2 DEF CheckDue
  <2>4. UNCHANGED <<doing, moment, Known>>
    BY <1>2 DEF CheckDue, tabState, history
  <2>5. /\ inFlight' = inFlight \/ inFlight'.pc # "listed"
        /\ reading' = reading \/ reading'.pc # "listed"
        /\ reading'.pc # "none" => reading.pc # "none"
        /\ reading'.at \in Int
    BY <2>3 DEF Checked, Nothing, ReminderTypeOK
  <2>6. ReminderTypeOK'
    BY <2>1, <2>2, <2>4, <2>5, PassTriggers DEF ReminderTypeOK
  <2>7. \A n \in Notes : row'[n].at <= moment'
    BY <2>1, <2>2, <2>4, PassTriggers DEF AnswersAreTrue
  <2>8. \A n \in Notes : Triggered(n) => row'[n].status # "PENDING" /\ row'[n].at = row[n].at
    BY <2>1, <2>2, PassTriggers DEF Triggered
  <2> QED
    BY <2>4, <2>5, <2>6, <2>7, <2>8, TriggeringIsQuiet DEF BaselineIsAwaited
<1>3. ASSUME NEW n \in Notes, CloseNote(n) PROVE QuietInv'
  <2>1. ReminderTypeOK' /\ \A m \in Notes : row'[m].at = row[m].at
    BY <1>3 DEF CloseNote, ReminderTypeOK, tabState, history
  <2>2. \A m \in Notes : Triggered(m) => row'[m].status # "PENDING"
    BY <1>3 DEF CloseNote, ReminderTypeOK, Triggered
  <2> QED
    BY <1>3, <2>1, <2>2, TriggeringIsQuiet
       DEF CloseNote, BaselineIsAwaited, AnswersAreTrue, tabState, history
\* What remains leaves the rows and the clock alone.
<1>4. ASSUME UNCHANGED <<moment, row, seen, startedAt, announced, base>>,
             reminderWatch' = reminderWatch \/ ~reminderWatch',
             inFlight' = inFlight \/ inFlight'.pc # "listed",
             reading' = reading \/ reading'.pc # "listed",
             reading'.at \in Int,
             reading'.pc # "none" => doing' = "baseline" /\ ~reminderWatch'
      PROVE  QuietInv'
  <2>1. ReminderTypeOK'
    BY <1>4 DEF ReminderTypeOK
  <2>2. AnswersAreTrue'
    BY <1>4 DEF AnswersAreTrue, Triggered
  <2>3. BaselineIsAwaited' /\ ToldIsKnown'
    BY <1>4 DEF BaselineIsAwaited, ToldIsKnown
  <2> QED
    BY <2>1, <2>2, <2>3
<1>5. CASE \/ Activate \/ BaselineFails \/ BrowserAllows \/ SilenceBrowser
          \/ PollReminders \/ PollFails
  <2>1. reading'.at \in Int /\ (reading' = reading \/ reading'.pc # "listed")
    BY <1>5
       DEF Activate, BaselineFails, BrowserAllows, SilenceBrowser, PollReminders, PollFails,
           Nothing, ReminderTypeOK
  <2>2. reading'.pc # "none" => doing' = "baseline" /\ ~reminderWatch'
    BY <1>5
       DEF Activate, BaselineFails, BrowserAllows, SilenceBrowser, PollReminders, PollFails,
           Nothing, Starts, AtOnce, Busy, BaselineIsAwaited, tabState
  <2>3. inFlight' = inFlight \/ inFlight'.pc # "listed"
    BY <1>5
       DEF Activate, BaselineFails, BrowserAllows, SilenceBrowser, PollReminders, PollFails, Nothing
  <2> QED
    BY <1>4, <1>5, <2>1, <2>2, <2>3
       DEF Activate, BaselineFails, BrowserAllows, SilenceBrowser, PollReminders, PollFails,
           tabState, history
<1>6. CASE Deactivate
  <2>1. reading.pc = "none"
    BY <1>6 DEF Deactivate, BaselineIsAwaited
  <2> QED
    BY <1>6, <2>1
       DEF Deactivate, ReminderTypeOK, AnswersAreTrue, Triggered, BaselineIsAwaited, ToldIsKnown,
           history
<1>7. CASE PollListed
  <2>1. PICK chosen \in Listings : inFlight' = Listed(chosen)
    BY <1>7 DEF PollListed
  <2>2. AnswersAreTrue'
    BY <1>7, <2>1, ListedIsTrue DEF PollListed, AnswersAreTrue, Triggered, history
  <2> QED
    BY <1>7, <2>2
       DEF PollListed, ReminderTypeOK, BaselineIsAwaited, ToldIsKnown, tabState, history
<1>8. CASE BaselineListed
  <2>1. PICK chosen \in Listings : reading' = Listed(chosen)
    BY <1>8 DEF BaselineListed
  <2>2. base' \subseteq Notes /\ \A n \in base' : Triggered(n)
    BY <1>8 DEF BaselineListed, DueNotes, Triggered
  <2>3. ReminderTypeOK'
    BY <1>8, <2>1, <2>2, ListedIsTrue DEF BaselineListed, ReminderTypeOK, tabState
  <2>4. AnswersAreTrue'
    BY <1>8, <2>1, <2>2, ListedIsTrue DEF BaselineListed, AnswersAreTrue, Triggered
  <2>5. BaselineIsAwaited'
    BY <1>8, <2>1, <2>2, ListedIsTrue
       DEF BaselineListed, BaselineIsAwaited, AnswersAreTrue, ReminderTypeOK, tabState
  <2>6. ToldIsKnown'
    BY <1>8 DEF BaselineListed, BaselineIsAwaited, ToldIsKnown, tabState
  <2> QED
    BY <2>3, <2>4, <2>5, <2>6
<1>9. CASE BaselineArrives
  <2>1. ReminderTypeOK' /\ AnswersAreTrue' /\ BaselineIsAwaited'
    BY <1>9
       DEF BaselineArrives, Nothing, ReminderTypeOK, AnswersAreTrue, Triggered, BaselineIsAwaited,
           history
  <2>2. \A n \in announced \cup base : row[n].at <= reading.at /\ reading.at < moment
    BY <1>9 DEF BaselineArrives, BaselineIsAwaited, ReminderTypeOK
  <2>3. ToldIsKnown'
    BY <1>9, <2>2 DEF BaselineArrives, ToldIsKnown, ReminderTypeOK, history
  <2> QED
    BY <2>1, <2>3
<1>10. CASE PollArrives
  <2>1. notices' \subseteq {r.id : r \in inFlight.rows} /\ announced' = announced \cup notices'
    BY <1>10 DEF PollArrives, NewlyDue
  <2>2. \A n \in notices' : n \in Notes /\ Triggered(n)
    BY <1>10, <2>1 DEF PollArrives, AnswersAreTrue
  <2>3. ReminderTypeOK' /\ AnswersAreTrue'
    BY <1>10, <2>1, <2>2
       DEF PollArrives, Nothing, ReminderTypeOK, AnswersAreTrue, Triggered
  <2>4. BaselineIsAwaited'
    BY <1>10, <2>1 DEF PollArrives, BaselineIsAwaited
  <2>5. ToldIsKnown'
    BY <1>10, <2>1 DEF PollArrives, ToldIsKnown
  <2> QED
    BY <2>3, <2>4, <2>5
<1> QED
  BY <1>1, <1>2, <1>3, <1>5, <1>6, <1>7, <1>8, <1>9, <1>10
     DEF ReminderWatchNext, Unannounced

\* A step of another panel changes nothing here but the operation in progress.
LEMMA QuietKept == QuietInv /\ [ConsoleNext]_consoleVars => QuietInv'
<1> SUFFICES ASSUME QuietInv, [ConsoleNext]_consoleVars PROVE QuietInv'
  OBVIOUS
<1>1. CASE panel = "reminders" /\ panel' = panel /\ ReminderWatchNext
  BY <1>1, WatchKept
<1>2. CASE UNCHANGED <<panel, ofReminders>> /\ (panel # "reminders" \/ doing' = doing)
  BY <1>2
     DEF QuietInv, ReminderTypeOK, AnswersAreTrue, Triggered, BaselineIsAwaited, ToldIsKnown,
         ofReminders, tabState, history
<1> QED
  BY <1>1, <1>2
     DEF ConsoleNext, Alerting, Reminding, Chatting, Connecting, consoleVars, reminderWatchVars,
         ofReminders, tabState, history

\* A reminder is announced at most once by a tab, and never when it was marked due before the
\* baseline was read, however late polls are answered, whatever batches the passes mark and
\* however often the watch is switched.
THEOREM WatchesAreQuiet == ConsoleSpec => WatchIsQuiet
<1>1. QuietInv /\ [ConsoleNext]_consoleVars =>
        [\A n \in notices' : n \notin announced \cup base]_reminderWatchVars
  <2> SUFFICES ASSUME QuietInv, [ConsoleNext]_consoleVars, ~UNCHANGED reminderWatchVars,
                      NEW n \in notices'
               PROVE  n \notin announced \cup base
    OBVIOUS
  <2>1. PollArrives
    BY DEF QuietInv, BaselineIsAwaited, ConsoleNext, Alerting, Reminding, Chatting, Connecting,
           consoleVars, ofReminders, ReminderWatchNext
  <2>2. PICK r \in inFlight.rows : n = r.id /\ r.id \notin seen /\ r.at >= startedAt /\ reminderWatch
    BY <2>1 DEF PollArrives, NewlyDue
  <2>3. n \in Notes /\ row[n].at = r.at
    BY <2>1, <2>2 DEF PollArrives, QuietInv, AnswersAreTrue
  <2> QED
    BY <2>2, <2>3 DEF QuietInv, ToldIsKnown, ReminderTypeOK
<1> QED
  BY <1>1, QuietInit, QuietKept, PTL DEF ConsoleSpec, WatchIsQuiet

(***************************************************************************)
(* The chat: a preview is saved once.  A saved preview is either the one   *)
(* whose confirmation still waits for its answer, or it has left the panel *)
(* for good: only the last reply can be confirmed, and a reply that was    *)
(* asked for does not come back.                                           *)
(***************************************************************************)

ChatTypeOK ==
    /\ panel \in Panels
    /\ asked \subseteq Previews \cup {NoPreview}
    /\ chatting \subseteq Previews \cup {NoPreview}
    /\ lastChat \in Previews \cup {NoPreview}
    /\ confirming \in Previews \cup {NoPreview}
    /\ saved \in [Previews -> Nat]
    /\ lost \subseteq Previews

\* What is on its way was asked for, and has not been shown, let alone saved.
RepliesAreNew ==
    \A m \in Previews :
        /\ m \in chatting \/ lastChat = m \/ confirming = m \/ saved[m] > 0 => m \in asked
        /\ m \in chatting => lastChat # m /\ confirming # m /\ saved[m] = 0

\* Of the previews without a lost answer, which have been saved, and where they are now.
SavedIsDone ==
    \A m \in Previews \ lost : saved[m] > 0 =>
        /\ saved[m] = 1
        /\ \/ doing = "saved" /\ confirming = m
           \/ lastChat # m /\ confirming # m

\* In the other panels no operation is a confirmation.
OnlyChatSaves == panel # "chat" => \A m \in Previews : saved[m] = 0

\* The inductive invariant.
OnceInv == ChatTypeOK /\ RepliesAreNew /\ SavedIsDone /\ OnlyChatSaves

LEMMA OnceInit == ConsoleInit => OnceInv
BY ChatAssumption
   DEF ConsoleInit, ChatInit, OnceInv, ChatTypeOK, RepliesAreNew, SavedIsDone, OnlyChatSaves

LEMMA ChatKept ==
    ASSUME OnceInv, ChatNext, panel = "chat", panel' = panel
    PROVE  OnceInv'
<1> USE ChatAssumption
    DEF OnceInv, ChatTypeOK, RepliesAreNew, SavedIsDone, OnlyChatSaves
<1>1. ASSUME NEW m \in Previews \cup {NoPreview}, Send(m) PROVE OnceInv'
  BY <1>1 DEF Send
<1>2. ASSUME NEW m \in chatting, ReplyArrives(m) PROVE OnceInv'
  BY <1>2 DEF ReplyArrives
<1>3. CASE ReplyFails \/ ResumeTask
  BY <1>3 DEF ReplyFails, ResumeTask, AtOnce
<1>4. ASSUME NEW m \in Previews, Confirm(m) PROVE OnceInv'
  BY <1>4 DEF Confirm, Starts, Busy
<1>5. CASE Save(confirming)
  BY <1>5 DEF Save, GoesOn
<1>6. CASE SaveAnswered(confirming)
  BY <1>6 DEF SaveAnswered, AfterConfirmation, Ends
<1>7. CASE ConfirmationFails(confirming)
  BY <1>7 DEF ConfirmationFails, Ends
<1> QED
  BY <1>1, <1>2, <1>3, <1>4, <1>5, <1>6, <1>7 DEF ChatNext

\* A step of another panel leaves the chat alone.
LEMMA OnceKept == OnceInv /\ [ConsoleNext]_consoleVars => OnceInv'
<1> SUFFICES ASSUME OnceInv, [ConsoleNext]_consoleVars PROVE OnceInv'
  OBVIOUS
<1>1. CASE panel = "chat" /\ panel' = panel /\ ChatNext
  BY <1>1, ChatKept
<1>2. CASE UNCHANGED <<panel, ofChat>> /\ (panel # "chat" \/ doing' = doing)
  BY <1>2
     DEF OnceInv, ChatTypeOK, RepliesAreNew, SavedIsDone, OnlyChatSaves, ofChat
<1> QED
  BY <1>1, <1>2
     DEF ConsoleNext, Alerting, Reminding, Chatting, Connecting, consoleVars, chatVars, ofChat

\* A preview is saved once, whatever replies arrive between the click and the answer: a second
\* row needs an answer that was lost on its way.
THEOREM PreviewsAreSavedOnce == ConsoleSpec => []PreviewSavedOnce
<1>1. OnceInv => PreviewSavedOnce
  BY DEF OnceInv, ChatTypeOK, SavedIsDone, PreviewSavedOnce
<1> QED
  BY <1>1, OnceInit, OnceKept, PTL DEF ConsoleSpec
=============================================================================
