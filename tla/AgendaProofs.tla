--------------------------- MODULE AgendaProofs -----------------------------
(***************************************************************************)
(* Proofs about Reminders and Agenda: what recurring schedules promise,    *)
(* and what plans that move reminders leave of it, for any number of       *)
(* processes, schedules, requests and plans.                               *)
(*                                                                         *)
(* The lemmas about a step of Reminders let a transaction hold any rows,   *)
(* so that they serve the reminders alone (no row is held) and the         *)
(* reminders of Agenda, whose plans hold the rows they move.               *)
(***************************************************************************)
EXTENDS Agenda, FiniteSetTheorems, SequenceTheorems, TLAPS

----------------------------------------------------------------------------
(* Dates and insertions *)

LEMMA NextAfterIsLater ==
    ASSUME NEW t \in Nat, NEW every \in Nat \ {0}, NEW phase \in Nat
    PROVE  NextAfter(t, every, phase) \in Nat /\ NextAfter(t, every, phase) > t
<1>1. (phase - t - 1) % every \in 0..(every - 1)
  OBVIOUS
<1> QED
  BY <1>1 DEF NextAfter

LEMMA RecurrencesAreLater ==
    ASSUME NEW s \in Schedules, NEW t \in Nat
    PROVE  NextRecurrenceAfter(t, s) \in Nat /\ NextRecurrenceAfter(t, s) > t
<1>1. Every[s] \in Nat \ {0} /\ Phase[s] \in Nat
  BY ScheduleAssumption
<1> QED
  BY <1>1, NextAfterIsLater DEF NextRecurrenceAfter

\* An order of a set of schedules lists them without repetition.
LEMMA OrdersList ==
    ASSUME NEW S \in SUBSET Schedules, NEW order \in Orders(S)
    PROVE  /\ Cardinality(S) \in Nat
           /\ order \in [1..Cardinality(S) -> S]
           /\ \A i, j \in 1..Cardinality(S) : order[i] = order[j] => i = j
<1>1. IsFiniteSet(S)
  BY FS_Subset, ScheduleAssumption
<1>2. Cardinality(S) \in Nat
  BY <1>1, FS_CardinalityType
<1> QED
  BY <1>2 DEF Orders

LEMMA RowsOfType ==
    ASSUME NEW due \in Nat, NEW at \in Nat, NEW s \in Schedules \cup {NoSchedule}
    PROVE  NewRow(due, at, s) \in Rows
BY DEF NewRow, Rows, RowStatuses

\* What GenerateDue inserts: one row for each schedule of the batch that has none for its date.
Inserted(w) == {s \in passes[w].batch : ~Conflicts(s, schedules[s].next)}

LEMMA GeneratedRows ==
    ASSUME ReminderTypeOK, NEW w \in Workers, GenerateDue(w)
    PROVE  /\ rows' \in Seq(Rows)
           /\ DOMAIN rows \subseteq DOMAIN rows'
           /\ \A i, j \in DOMAIN rows' : i \in DOMAIN rows /\ j \notin DOMAIN rows => i < j
           /\ \A i \in DOMAIN rows : rows'[i] = rows[i]
           /\ \A i \in DOMAIN rows' \ DOMAIN rows :
                /\ rows'[i].schedule \in Inserted(w)
                /\ rows'[i] = NewRow(schedules[rows'[i].schedule].next, passes[w].at,
                                     rows'[i].schedule)
           /\ \A i, j \in DOMAIN rows' \ DOMAIN rows :
                rows'[i].schedule = rows'[j].schedule => i = j
<1> DEFINE at == passes[w].at
           n == Cardinality(Inserted(w))
<1>1. at \in Nat /\ Inserted(w) \in SUBSET Schedules
  BY DEF ReminderTypeOK, Passes, Inserted
<1>2. PICK order \in Orders(Inserted(w)) :
        rows' = rows \o [k \in DOMAIN order |-> NewRow(schedules[order[k]].next, at, order[k])]
  BY DEF GenerateDue, Inserted
<1>3. /\ n \in Nat
      /\ order \in [1..n -> Inserted(w)]
      /\ \A i, j \in 1..n : order[i] = order[j] => i = j
  BY <1>1, OrdersList
<1> DEFINE new == [k \in 1..n |-> NewRow(schedules[order[k]].next, at, order[k])]
<1>4. new \in [1..n -> Rows]
  <2>1. \A s \in Inserted(w) : schedules[s].next \in Nat /\ s \in Schedules
    BY <1>1 DEF ReminderTypeOK
  <2> QED
    BY <1>1, <1>3, <2>1, RowsOfType
<1>5. rows' = rows \o new
  BY <1>2, <1>3
<1>6. rows \in Seq(Rows)
  BY DEF ReminderTypeOK
<1> HIDE DEF new
<1>7. /\ rows' \in Seq(Rows)
      /\ DOMAIN rows' = 1..(Len(rows) + n)
      /\ DOMAIN rows = 1..Len(rows)
      /\ \A i \in DOMAIN rows : rows'[i] = rows[i]
      /\ \A i \in DOMAIN rows' \ DOMAIN rows :
           i - Len(rows) \in 1..n /\ rows'[i] = new[i - Len(rows)]
  <2>1. new \in Seq(Rows) /\ Len(new) = n
    BY <1>3, <1>4
  <2>2. /\ rows' \in Seq(Rows)
        /\ Len(rows') = Len(rows) + n
        /\ \A i \in 1..(Len(rows) + n) :
             rows'[i] = IF i <= Len(rows) THEN rows[i] ELSE new[i - Len(rows)]
    BY <1>5, <1>6, <2>1, ConcatProperties
  <2>3. Len(rows) \in Nat /\ DOMAIN rows = 1..Len(rows) /\ DOMAIN rows' = 1..Len(rows')
    BY <1>6, <2>2, LenProperties
  <2> QED
    BY <1>3, <2>2, <2>3
<1>8. Len(rows) \in Nat
  BY <1>6
<1>9. \A i \in DOMAIN rows' \ DOMAIN rows :
        /\ rows'[i].schedule = order[i - Len(rows)]
        /\ rows'[i] = NewRow(schedules[rows'[i].schedule].next, at, rows'[i].schedule)
  <2>1. \A k \in 1..n : /\ new[k].schedule = order[k]
                        /\ new[k] = NewRow(schedules[new[k].schedule].next, at, new[k].schedule)
    BY DEF new, NewRow
  <2> QED
    BY <1>7, <2>1
<1>10. \A i \in DOMAIN rows' \ DOMAIN rows : rows'[i].schedule \in Inserted(w)
  BY <1>3, <1>7, <1>9
<1>11. \A i, j \in DOMAIN rows' \ DOMAIN rows :
         rows'[i].schedule = rows'[j].schedule => i = j
  BY <1>3, <1>7, <1>8, <1>9
<1>12. \A i, j \in DOMAIN rows' : i \in DOMAIN rows /\ j \notin DOMAIN rows => i < j
  BY <1>3, <1>7, <1>8
<1> QED
  BY <1>3, <1>7, <1>8, <1>9, <1>10, <1>11, <1>12

----------------------------------------------------------------------------
(* Types *)

LEMMA TypePreserved ==
    ASSUME NEW held, ReminderTypeOK, [ReminderStep(held)]_reminderVars
    PROVE  ReminderTypeOK'
<1> USE ReminderBoundsAssumption
<1>0. NoPass \in Passes /\ NoEdit \in Edits
  BY DEF NoPass, Passes, NoEdit, Edits
<1>1. CASE Tick
  BY <1>1 DEF Tick, tables, ReminderTypeOK
<1>2. ASSUME NEW due \in Times, Create(due)
      PROVE  ReminderTypeOK'
  <2>1. NewRow(due, 0, NoSchedule) \in Rows
    BY RowsOfType
  <2>2. rows' \in Seq(Rows)
    BY <1>2, <2>1 DEF Create, ReminderTypeOK
  <2> QED
    BY <1>2, <2>2 DEF Create, ReminderTypeOK
<1>3. ASSUME NEW i \in DOMAIN rows, Close(i, held)
      PROVE  ReminderTypeOK'
  <2>1. rows[i] \in Rows /\ rows \in Seq(Rows)
    BY DEF ReminderTypeOK
  <2>2. [rows[i] EXCEPT !.status = "CLOSED"] \in Rows
    BY <2>1 DEF Rows, RowStatuses
  <2>3. rows' = [rows EXCEPT ![i] = [rows[i] EXCEPT !.status = "CLOSED"]]
    BY <1>3 DEF Close
  <2>4. rows' \in Seq(Rows)
    BY <2>1, <2>2, <2>3
  <2> QED
    BY <1>3, <2>4 DEF Close, ReminderTypeOK
<1>4. ASSUME NEW s \in Schedules, CreateSchedule(s)
      PROVE  ReminderTypeOK'
  <2>1. NextRecurrenceAfter(clock + Margin, s) \in Nat
    BY RecurrencesAreLater DEF ReminderTypeOK
  <2> QED
    BY <1>4, <2>1 DEF CreateSchedule, ReminderTypeOK, ScheduleStatuses
<1>5. ASSUME NEW e \in Editors, NEW s \in Schedules, NEW action \in {"pause", "resume", "cancel"},
             AskEdit(e, s, action)
      PROVE  ReminderTypeOK'
  BY <1>5 DEF AskEdit, tables, ReminderTypeOK, Edits
<1>6. ASSUME NEW e \in Editors, TransitionSchedule(e)
      PROVE  ReminderTypeOK'
  <2> DEFINE s == edits[e].schedule
             action == edits[e].action
             at == edits[e].at
  <2>1. edits[e] \in Edits
    BY DEF ReminderTypeOK
  <2>2. edits' \in [Editors -> Edits]
    BY <1>0, <1>6 DEF TransitionSchedule, ReminderTypeOK
  <2>3. /\ schedules' \in [Schedules -> [status : ScheduleStatuses, next : Nat]]
        /\ resumed' \in [Schedules -> Nat]
        /\ overtaken' \subseteq Schedules
    <3>1. CASE Allowed(action, schedules[s].status)
      <4>1. s \in Schedules /\ at \in Nat /\ at + Margin \in Nat
        BY <1>6, <2>1 DEF TransitionSchedule, Edits
      <4>2. NextRecurrenceAfter(at + Margin, s) \in Nat /\ schedules[s].next \in Nat
        BY <4>1, RecurrencesAreLater DEF ReminderTypeOK
      <4>3. StatusAfter(action) \in ScheduleStatuses
        BY DEF StatusAfter, ScheduleStatuses
      <4>4. Edited(action, at, s) \in [status : ScheduleStatuses, next : Nat]
        BY <4>2, <4>3 DEF Edited
      <4>5. /\ schedules' = [schedules EXCEPT ![s] = Edited(action, at, s)]
            /\ resumed' \in {resumed, [resumed EXCEPT ![s] = at]}
            /\ overtaken' \in {overtaken, overtaken \cup {s}}
        BY <1>6, <3>1 DEF TransitionSchedule
      <4> QED
        BY <4>1, <4>4, <4>5 DEF ReminderTypeOK
    <3>2. CASE ~Allowed(action, schedules[s].status)
      BY <1>6, <3>2 DEF TransitionSchedule, ReminderTypeOK
    <3> QED
      BY <3>1, <3>2
  <2> QED
    BY <1>6, <2>2, <2>3 DEF TransitionSchedule, ReminderTypeOK
<1>7. ASSUME NEW w \in Workers, CheckDue(w)
      PROVE  ReminderTypeOK'
  <2>1. [pc |-> "generate", at |-> clock, batch |-> {}] \in Passes
    BY DEF Passes, ReminderTypeOK
  <2> QED
    BY <1>7, <2>1 DEF CheckDue, tables, ReminderTypeOK
<1>8. ASSUME NEW w \in Workers, LockDue(w)
      PROVE  ReminderTypeOK'
  <2>1. PICK batch \in SUBSET Schedules :
          passes' = [passes EXCEPT ![w].pc = IF batch = {} THEN "mark" ELSE "insert",
                                   ![w].batch = batch]
    BY <1>8 DEF LockDue, Earliest, DueSchedules
  <2>2. passes' \in [Workers -> Passes]
    BY <2>1 DEF ReminderTypeOK, Passes
  <2> QED
    BY <1>8, <2>2 DEF LockDue, tables, ReminderTypeOK
<1>9. ASSUME NEW w \in Workers, GenerateDue(w)
      PROVE  ReminderTypeOK'
  <2>1. \A s \in Schedules : Following(passes[w].at, s) \in Nat
    BY RecurrencesAreLater DEF Following, ReminderTypeOK, Passes
  <2>2. schedules' \in [Schedules -> [status : ScheduleStatuses, next : Nat]]
    BY <1>9, <2>1 DEF GenerateDue, ReminderTypeOK
  <2>3. passes' \in [Workers -> Passes]
    BY <1>9 DEF GenerateDue, ReminderTypeOK, Passes
  <2> QED
    BY <1>9, <2>2, <2>3, GeneratedRows DEF GenerateDue, ReminderTypeOK
<1>10. ASSUME NEW w \in Workers, MarkDue(w, held)
       PROVE  ReminderTypeOK'
  <2>1. PICK batch : rows' = [i \in DOMAIN rows |->
          IF i \in batch THEN [rows[i] EXCEPT !.status = "DUE"] ELSE rows[i]]
    BY <1>10 DEF MarkDue
  <2>2. rows \in Seq(Rows) /\ DOMAIN rows = 1..Len(rows) /\ Len(rows) \in Nat
    BY DEF ReminderTypeOK
  <2>3. \A i \in DOMAIN rows : rows'[i] \in Rows
    <3>1. \A i \in DOMAIN rows : rows[i] \in Rows
      BY <2>2
    <3>2. \A row \in Rows : [row EXCEPT !.status = "DUE"] \in Rows
      BY DEF Rows, RowStatuses
    <3> QED
      BY <2>1, <3>1, <3>2
  <2>4. rows' \in Seq(Rows)
    BY <2>1, <2>2, <2>3
  <2> QED
    BY <1>0, <1>10, <2>4 DEF MarkDue, ReminderTypeOK
<1>11. ASSUME NEW w \in Workers, FailPass(w)
       PROVE  ReminderTypeOK'
  BY <1>0, <1>11 DEF FailPass, tables, ReminderTypeOK
<1>12. CASE UNCHANGED reminderVars
  BY <1>12 DEF reminderVars, ReminderTypeOK
<1> QED
  BY <1>1, <1>2, <1>3, <1>4, <1>5, <1>6, <1>7, <1>8, <1>9, <1>10, <1>11, <1>12
     DEF ReminderStep, Owner, Pass

\* The fields of reminders, schedules, passes and requests keep their types
\* (reminders/store.ts, reminders/recurrence-store.ts).
THEOREM TypeCorrect == ReminderSpec => []ReminderTypeOK
<1>1. ReminderInit => ReminderTypeOK
  <2>1. NoPass \in Passes /\ [NoEdit EXCEPT !.pc = "new"] \in Edits
    BY DEF NoPass, Passes, NoEdit, Edits
  <2> QED
    BY <2>1, ReminderBoundsAssumption DEF ReminderInit, ReminderTypeOK, ScheduleStatuses
<1>2. ReminderTypeOK /\ [ReminderNext]_reminderVars => ReminderTypeOK'
  BY TypePreserved DEF ReminderNext
<1> QED
  BY <1>1, <1>2, PTL DEF ReminderSpec

----------------------------------------------------------------------------
(* The inductive invariant *)

Recurring(i) == rows[i].schedule # NoSchedule

\* A pass holds schedules that are due at its date, and no two passes hold the same one.
BatchesAreDue ==
    \A w \in Workers : \A s \in passes[w].batch :
        schedules[s].status = "ACTIVE" /\ schedules[s].next <= passes[w].at

BatchesAreDisjoint ==
    \A v, w \in Workers : v # w => passes[v].batch \cap passes[w].batch = {}

\* The next date of a schedule is later than its creation or last resumption ...
NextIsAhead ==
    \A s \in Schedules : schedules[s].status # "NONE" => schedules[s].next > resumed[s]

\* ... and later than the passes that inserted its reminders.
NextIsNew ==
    \A i \in DOMAIN rows :
        Recurring(i) /\ rows[i].schedule \notin overtaken =>
            schedules[rows[i].schedule].next > rows[i].created

OccurrencesHaveSchedules ==
    \A i \in DOMAIN rows : Recurring(i) => schedules[rows[i].schedule].status # "NONE"

DatesStay == \A i \in DOMAIN rows : Recurring(i) => rows[i].due = rows[i].first

\* A request edits a schedule that exists.
EditsHaveSchedules ==
    \A e \in Editors :
        edits[e].pc = "asked" => schedules[edits[e].schedule].status # "NONE"

PassInv == BatchesAreDue /\ BatchesAreDisjoint /\ EditsHaveSchedules

RowInv == NextIsNew /\ OccurrencesHaveSchedules /\ DatesStay /\ OccurrenceOnce /\ NoFlood

ScheduleInv == ReminderTypeOK /\ PassInv /\ NextIsAhead /\ RowInv

LEMMA RowsTyped ==
    ASSUME ReminderTypeOK, NEW i \in DOMAIN rows
    PROVE  /\ rows[i] \in Rows
           /\ rows[i].first \in Nat /\ rows[i].created \in Nat
           /\ Recurring(i) => rows[i].schedule \in Schedules
<1>1. rows[i] \in Rows
  BY ElementOfSeq, LenProperties DEF ReminderTypeOK
<1> QED
  BY <1>1 DEF Rows, Recurring

\* What steps that insert no occurrence and touch no schedule do to the rows.
SameOccurrences ==
    /\ DOMAIN rows \subseteq DOMAIN rows'
    /\ \A i \in DOMAIN rows :
         /\ rows'[i].schedule = rows[i].schedule /\ rows'[i].created = rows[i].created
         /\ rows'[i].first = rows[i].first /\ rows'[i].due = rows[i].due
    /\ \A i \in DOMAIN rows' \ DOMAIN rows :
         rows'[i].schedule = NoSchedule /\ rows'[i].due = rows'[i].first

LEMMA RowInvKept ==
    ASSUME RowInv, SameOccurrences, UNCHANGED <<schedules, overtaken>>
    PROVE  RowInv'
<1>1. \A i \in DOMAIN rows' : Recurring(i)' => i \in DOMAIN rows /\ Recurring(i)
  BY DEF SameOccurrences, Recurring
<1>2. NextIsNew' /\ OccurrencesHaveSchedules'
  BY <1>1 DEF RowInv, NextIsNew, OccurrencesHaveSchedules, SameOccurrences
<1>3. DatesStay'
  BY <1>1 DEF RowInv, DatesStay, SameOccurrences
<1>4. OccurrenceOnce'
  BY <1>1 DEF RowInv, OccurrenceOnce, SameOccurrences, Recurring
<1>5. NoFlood'
  BY <1>1 DEF RowInv, NoFlood, SameOccurrences, Recurring
<1> QED
  BY <1>2, <1>3, <1>4, <1>5 DEF RowInv

LEMMA OwnerKeepsRows ==
    ASSUME NEW held, ReminderTypeOK,
           \/ \E due \in Times : Create(due)
           \/ \E i \in DOMAIN rows : Close(i, held)
           \/ \E w \in Workers : MarkDue(w, held)
    PROVE  SameOccurrences
<1>0. rows \in Seq(Rows) /\ DOMAIN rows = 1..Len(rows) /\ Len(rows) \in Nat
  BY LenProperties DEF ReminderTypeOK
<1>1. ASSUME NEW due \in Times, Create(due)
      PROVE  SameOccurrences
  <2>1. NewRow(due, 0, NoSchedule) \in Rows
    BY RowsOfType, ReminderBoundsAssumption
  <2>2. rows' = Append(rows, NewRow(due, 0, NoSchedule))
    BY <1>1 DEF Create
  <2>3. /\ DOMAIN rows' = 1..(Len(rows) + 1)
        /\ \A i \in 1..Len(rows) : rows'[i] = rows[i]
        /\ rows'[Len(rows) + 1] = NewRow(due, 0, NoSchedule)
    BY <1>0, <2>1, <2>2, AppendProperties, LenProperties
  <2> QED
    BY <1>0, <2>3 DEF SameOccurrences, NewRow
<1>2. ASSUME NEW i \in DOMAIN rows, Close(i, held)
      PROVE  SameOccurrences
  <2>1. /\ DOMAIN rows' = DOMAIN rows
        /\ \A j \in DOMAIN rows :
             rows'[j] = IF j = i THEN [rows[i] EXCEPT !.status = "CLOSED"] ELSE rows[j]
    BY <1>2 DEF Close
  <2>2. rows[i] \in Rows
    BY RowsTyped
  <2> QED
    BY <2>1, <2>2 DEF SameOccurrences, Rows
<1>3. ASSUME NEW w \in Workers, MarkDue(w, held)
      PROVE  SameOccurrences
  <2>1. PICK batch : rows' = [i \in DOMAIN rows |->
          IF i \in batch THEN [rows[i] EXCEPT !.status = "DUE"] ELSE rows[i]]
    BY <1>3 DEF MarkDue
  <2>2. \A i \in DOMAIN rows : rows[i] \in Rows
    BY RowsTyped
  <2> QED
    BY <2>1, <2>2 DEF SameOccurrences, Rows
<1> QED
  BY <1>1, <1>2, <1>3

----------------------------------------------------------------------------
(* Its preservation *)

\* A schedule that is created or edited is in no batch; its new date is later than the one
\* the handler took.
LEMMA CreateScheduleKeepsInv ==
    ASSUME ScheduleInv, NEW s \in Schedules, CreateSchedule(s)
    PROVE  PassInv' /\ NextIsAhead' /\ RowInv'
<1> USE ReminderBoundsAssumption
<1>1. clock \in Nat /\ clock + Margin \in Nat
  BY DEF ScheduleInv, ReminderTypeOK
<1>2. /\ NextRecurrenceAfter(clock + Margin, s) \in Nat
      /\ NextRecurrenceAfter(clock + Margin, s) > clock
  BY <1>1, RecurrencesAreLater
<1>3. /\ schedules'[s] = [status |-> "ACTIVE", next |-> NextRecurrenceAfter(clock + Margin, s)]
      /\ resumed'[s] = clock
      /\ \A x \in Schedules \ {s} : schedules'[x] = schedules[x] /\ resumed'[x] = resumed[x]
      /\ schedules[s].status = "NONE"
      /\ rows' = rows /\ passes' = passes /\ overtaken' = overtaken /\ edits' = edits
  BY DEF CreateSchedule, ScheduleInv, ReminderTypeOK
<1>4. \A w \in Workers : s \notin passes[w].batch /\ passes[w].batch \subseteq Schedules
  BY <1>3 DEF ScheduleInv, PassInv, BatchesAreDue, ReminderTypeOK, Passes
<1>5. PassInv'
  <2>1. BatchesAreDue' /\ BatchesAreDisjoint'
    BY <1>3, <1>4 DEF ScheduleInv, PassInv, BatchesAreDue, BatchesAreDisjoint
  <2>2. \A e \in Editors : edits[e].pc = "asked" => edits[e].schedule \in Schedules
    BY DEF ScheduleInv, ReminderTypeOK, Edits
  <2>3. EditsHaveSchedules'
    BY <1>3, <2>2 DEF ScheduleInv, PassInv, EditsHaveSchedules
  <2> QED
    BY <2>1, <2>3 DEF PassInv
<1>6. NextIsAhead'
  BY <1>2, <1>3 DEF ScheduleInv, NextIsAhead
<1>7. \A i \in DOMAIN rows : Recurring(i) => rows[i].schedule \in Schedules \ {s}
  BY <1>3, RowsTyped DEF ScheduleInv, RowInv, OccurrencesHaveSchedules
<1>8. NextIsNew' /\ OccurrencesHaveSchedules'
  BY <1>3, <1>7 DEF ScheduleInv, RowInv, NextIsNew, OccurrencesHaveSchedules, Recurring
<1>9. DatesStay' /\ OccurrenceOnce' /\ NoFlood'
  BY <1>3 DEF ScheduleInv, RowInv, DatesStay, OccurrenceOnce, NoFlood, Recurring
<1> QED
  BY <1>5, <1>6, <1>8, <1>9 DEF RowInv

LEMMA TransitionKeepsInv ==
    ASSUME ScheduleInv, NEW e \in Editors, TransitionSchedule(e)
    PROVE  PassInv' /\ NextIsAhead' /\ RowInv'
<1> DEFINE s == edits[e].schedule
           action == edits[e].action
           at == edits[e].at
<1> USE ReminderBoundsAssumption
<1>1. s \in Schedules /\ at \in Nat /\ action \in {"pause", "resume", "cancel"}
  BY DEF TransitionSchedule, ScheduleInv, ReminderTypeOK, Edits
<1>2. rows' = rows /\ passes' = passes
  BY DEF TransitionSchedule
<1> DEFINE done == [edits EXCEPT ![e] = NoEdit]
<1>0. /\ edits' = done /\ edits[e].pc = "asked"
      /\ \A x \in Editors : done[x].pc = "asked" =>
           edits[x].pc = "asked" /\ done[x] = edits[x] /\ edits[x].schedule \in Schedules
  BY DEF TransitionSchedule, ScheduleInv, ReminderTypeOK, NoEdit, Edits
<1>3. CASE ~Allowed(action, schedules[s].status)
  <2>1. UNCHANGED <<rows, passes, schedules, resumed, overtaken>>
    BY <1>2, <1>3 DEF TransitionSchedule
  <2>2. PassInv'
    BY <1>0, <2>1 DEF ScheduleInv, PassInv, BatchesAreDue, BatchesAreDisjoint, EditsHaveSchedules
  <2> QED
    BY <2>1, <2>2 DEF ScheduleInv, NextIsAhead, RowInv, NextIsNew, 
                     OccurrencesHaveSchedules, DatesStay, OccurrenceOnce, NoFlood, Recurring
<1>4. CASE Allowed(action, schedules[s].status)
  <2>1. /\ schedules' = [schedules EXCEPT ![s] = Edited(action, at, s)]
        /\ resumed' = IF action = "resume" THEN [resumed EXCEPT ![s] = at] ELSE resumed
        /\ overtaken' = IF /\ action = "resume"
                           /\ \E i \in DOMAIN rows :
                                rows[i].schedule = s /\ rows[i].created > at
                        THEN overtaken \cup {s} ELSE overtaken
    BY <1>4 DEF TransitionSchedule
  <2>2. /\ NextRecurrenceAfter(at + Margin, s) \in Nat
        /\ NextRecurrenceAfter(at + Margin, s) > at
    BY <1>1, RecurrencesAreLater
  <2>3. /\ schedules \in [Schedules -> [status : ScheduleStatuses, next : Nat]]
        /\ resumed \in [Schedules -> Nat]
    BY DEF ScheduleInv, ReminderTypeOK
  <2>4. /\ schedules'[s].status # "NONE"
        /\ action = "resume" => schedules'[s].next > at
        /\ action # "resume" => schedules'[s].next = schedules[s].next
        /\ \A x \in Schedules \ {s} : schedules'[x] = schedules[x]
    BY <1>1, <2>1, <2>2, <2>3 DEF Edited, StatusAfter
  <2>5. /\ action = "resume" => resumed'[s] = at
        /\ action # "resume" => resumed'[s] = resumed[s]
        /\ \A x \in Schedules \ {s} : resumed'[x] = resumed[x]
    BY <1>1, <2>1, <2>3
  <2>6. \A w \in Workers : s \notin passes[w].batch /\ passes[w].batch \subseteq Schedules
    BY DEF TransitionSchedule, LockedBy, ScheduleInv, ReminderTypeOK, Passes
  <2>7. PassInv'
    <3>1. BatchesAreDue' /\ BatchesAreDisjoint'
      BY <1>2, <2>4, <2>6 DEF ScheduleInv, PassInv, BatchesAreDue, BatchesAreDisjoint
    <3>2. EditsHaveSchedules'
      BY <1>0, <2>4 DEF ScheduleInv, PassInv, EditsHaveSchedules
    <3> QED
      BY <3>1, <3>2 DEF PassInv
  <2>8. schedules[s].status # "NONE"
    BY <1>0 DEF ScheduleInv, PassInv, EditsHaveSchedules
  <2>9. NextIsAhead'
    BY <2>4, <2>5, <2>8 DEF ScheduleInv, NextIsAhead
  <2>10. OccurrencesHaveSchedules'
    BY <1>2, <2>4, RowsTyped DEF ScheduleInv, RowInv, OccurrencesHaveSchedules, Recurring
  <2>11. NextIsNew'
    <3> SUFFICES ASSUME NEW i \in DOMAIN rows, Recurring(i), rows[i].schedule \notin overtaken'
                 PROVE  schedules'[rows[i].schedule].next > rows[i].created
      BY <1>2 DEF NextIsNew, Recurring
    <3>1. rows[i].schedule \notin overtaken
      BY <2>1
    <3>2. schedules[rows[i].schedule].next > rows[i].created
      BY <3>1 DEF ScheduleInv, RowInv, NextIsNew
    <3>3. rows[i].created \in Nat /\ rows[i].schedule \in Schedules
      BY RowsTyped DEF ScheduleInv
    <3>4. CASE rows[i].schedule = s /\ action = "resume"
      <4>1. ~(rows[i].created > at)
        BY <2>1, <3>4
      <4> QED
        BY <1>1, <2>1, <2>2, <2>3, <3>3, <3>4, <4>1 DEF Edited
    <3> QED
      BY <2>4, <3>2, <3>3, <3>4
  <2>12. DatesStay' /\ OccurrenceOnce' /\ NoFlood'
    BY <1>2, <2>1 DEF ScheduleInv, RowInv, DatesStay, OccurrenceOnce, NoFlood, Recurring
  <2> QED
    BY <2>7, <2>9, <2>10, <2>11, <2>12 DEF RowInv
<1> QED
  BY <1>3, <1>4

\* A pass locks schedules that are due and that no other pass has locked.
LEMMA LockKeepsInv ==
    ASSUME ScheduleInv, NEW w \in Workers, LockDue(w)
    PROVE  PassInv'
<1>1. PICK batch \in SUBSET (DueSchedules(passes[w].at) \ LockedBy(Workers)) :
        passes' = [passes EXCEPT ![w].pc = IF batch = {} THEN "mark" ELSE "insert",
                                 ![w].batch = batch]
  BY DEF LockDue, Earliest
<1>2. passes \in [Workers -> Passes] /\ schedules' = schedules
  BY DEF LockDue, tables, ScheduleInv, ReminderTypeOK
<1>0. edits' = edits
  BY DEF LockDue
<1>3. /\ passes'[w].batch = batch /\ passes'[w].at = passes[w].at
      /\ \A v \in Workers \ {w} : passes'[v] = passes[v]
  BY <1>1, <1>2 DEF Passes
<1>4. \A s \in batch : schedules[s].status = "ACTIVE" /\ schedules[s].next <= passes[w].at
  BY DEF DueSchedules
<1>5. BatchesAreDue'
  BY <1>2, <1>3, <1>4 DEF ScheduleInv, PassInv, BatchesAreDue
<1>6. \A v \in Workers : batch \cap passes[v].batch = {}
  BY DEF LockedBy
<1>7. BatchesAreDisjoint'
  BY <1>3, <1>6 DEF ScheduleInv, PassInv, BatchesAreDisjoint
<1>8. EditsHaveSchedules'
  BY <1>2, <1>0 DEF ScheduleInv, PassInv, EditsHaveSchedules
<1> QED
  BY <1>5, <1>7, <1>8 DEF PassInv

\* The batch moves on beyond the date of the pass; its rows are new.
LEMMA GenerateKeepsInv ==
    ASSUME ScheduleInv, NEW w \in Workers, GenerateDue(w)
    PROVE  PassInv' /\ NextIsAhead' /\ RowInv'
<1> DEFINE at == passes[w].at
           batch == passes[w].batch
<1>1. /\ ReminderTypeOK
      /\ at \in Nat /\ batch \subseteq Schedules
      /\ schedules \in [Schedules -> [status : ScheduleStatuses, next : Nat]]
      /\ passes \in [Workers -> Passes]
      /\ resumed \in [Schedules -> Nat]
  BY DEF ScheduleInv, ReminderTypeOK, Passes
<1>2. /\ resumed' = resumed /\ overtaken' = overtaken /\ edits' = edits
      /\ passes'[w].batch = {}
      /\ \A v \in Workers \ {w} : passes'[v] = passes[v]
  BY <1>1 DEF GenerateDue, Passes
<1>3. /\ \A s \in Schedules : schedules'[s].status = schedules[s].status
      /\ \A s \in batch : schedules'[s].next \in Nat /\ schedules'[s].next > at
      /\ \A s \in Schedules \ batch : schedules'[s] = schedules[s]
  <2>1. \A s \in Schedules : Following(at, s) \in Nat /\ Following(at, s) > at
    BY <1>1, RecurrencesAreLater DEF Following
  <2> QED
    BY <1>1, <2>1 DEF GenerateDue
<1>4. \A s \in batch : /\ schedules[s].status = "ACTIVE"
                       /\ schedules[s].next <= at
                       /\ schedules[s].next \in Nat
  BY <1>1 DEF ScheduleInv, PassInv, BatchesAreDue
<1>5. \A s \in Schedules : schedules'[s].next >= schedules[s].next /\ schedules'[s].next \in Nat
  BY <1>1, <1>3, <1>4
<1>6. PassInv'
  <2>1. \A v \in Workers \ {w} : \A s \in passes[v].batch : s \in Schedules \ batch
    BY <1>1 DEF ScheduleInv, PassInv, BatchesAreDisjoint, Passes
  <2>2. BatchesAreDue' /\ BatchesAreDisjoint'
    BY <1>2, <1>3, <2>1 DEF ScheduleInv, PassInv, BatchesAreDue, BatchesAreDisjoint
  <2>3. \A e \in Editors : edits[e].pc = "asked" => edits[e].schedule \in Schedules
    BY <1>1 DEF ReminderTypeOK, Edits
  <2>4. EditsHaveSchedules'
    BY <1>2, <1>3, <2>3 DEF ScheduleInv, PassInv, EditsHaveSchedules
  <2> QED
    BY <2>2, <2>4 DEF PassInv
<1>7. NextIsAhead'
  BY <1>1, <1>2, <1>3, <1>5 DEF ScheduleInv, NextIsAhead
<1>8. /\ DOMAIN rows \subseteq DOMAIN rows'
      /\ \A i, j \in DOMAIN rows' : i \in DOMAIN rows /\ j \notin DOMAIN rows => i < j
      /\ \A i \in DOMAIN rows : rows'[i] = rows[i]
      /\ \A i, j \in DOMAIN rows' \ DOMAIN rows :
           rows'[i].schedule = rows'[j].schedule => i = j
  BY <1>1, GeneratedRows
<1>9. \A i \in DOMAIN rows' \ DOMAIN rows :
        /\ rows'[i].schedule \in batch
        /\ ~Conflicts(rows'[i].schedule, schedules[rows'[i].schedule].next)
        /\ rows'[i].first = schedules[rows'[i].schedule].next
        /\ rows'[i].due = rows'[i].first
        /\ rows'[i].created = at
  BY <1>1, GeneratedRows DEF Inserted, NewRow
<1>10. DatesStay' /\ OccurrencesHaveSchedules'
  <2>1. DatesStay'
    BY <1>8, <1>9 DEF ScheduleInv, RowInv, DatesStay, Recurring
  <2>2. \A i \in DOMAIN rows : Recurring(i) => rows[i].schedule \in Schedules
    BY <1>1, RowsTyped
  <2>3. OccurrencesHaveSchedules'
    BY <1>1, <1>3, <1>4, <1>8, <1>9, <2>2
       DEF ScheduleInv, RowInv, OccurrencesHaveSchedules, Recurring
  <2> QED
    BY <2>1, <2>3
<1>11. NextIsNew'
  <2> SUFFICES ASSUME NEW i \in DOMAIN rows', rows'[i].schedule # NoSchedule,
                      rows'[i].schedule \notin overtaken
               PROVE  schedules'[rows'[i].schedule].next > rows'[i].created
    BY <1>2 DEF NextIsNew, Recurring
  <2>1. CASE i \in DOMAIN rows
    <3>1. rows'[i] = rows[i] /\ rows[i].schedule \in Schedules /\ rows[i].created \in Nat
      BY <1>1, <1>8, <2>1, RowsTyped DEF Recurring
    <3>2. schedules[rows[i].schedule].next > rows[i].created
      BY <2>1, <3>1 DEF ScheduleInv, RowInv, NextIsNew, Recurring
    <3> QED
      BY <1>1, <1>5, <3>1, <3>2
  <2>2. CASE i \notin DOMAIN rows
    BY <1>3, <1>9, <2>2
  <2> QED
    BY <2>1, <2>2
<1>12. OccurrenceOnce'
  <2> SUFFICES ASSUME NEW i \in DOMAIN rows', NEW j \in DOMAIN rows',
                      rows'[i].schedule # NoSchedule,
                      rows'[i].schedule = rows'[j].schedule,
                      rows'[i].first = rows'[j].first
               PROVE  i = j
    BY DEF OccurrenceOnce
  <2>1. CASE i \in DOMAIN rows /\ j \in DOMAIN rows
    BY <1>8, <2>1 DEF ScheduleInv, RowInv, OccurrenceOnce
  <2>2. CASE i \notin DOMAIN rows /\ j \notin DOMAIN rows
    BY <1>8, <2>2
  <2>3. ASSUME NEW x \in DOMAIN rows, NEW y \in DOMAIN rows' \ DOMAIN rows,
               rows'[x].schedule # NoSchedule,
               rows'[x].schedule = rows'[y].schedule, rows'[x].first = rows'[y].first
        PROVE  FALSE
    <3>1. rows[x].schedule = rows'[y].schedule /\ rows[x].due = rows'[y].first
      BY <1>8, <2>3 DEF ScheduleInv, RowInv, DatesStay, Recurring
    <3> QED
      BY <1>9, <3>1 DEF Conflicts
  <2> QED
    BY <2>1, <2>2, <2>3
<1>13. NoFlood'
  <2> SUFFICES ASSUME NEW i \in DOMAIN rows', NEW j \in DOMAIN rows', i < j,
                      rows'[i].schedule # NoSchedule,
                      rows'[i].schedule = rows'[j].schedule,
                      rows'[i].schedule \notin overtaken
               PROVE  rows'[j].first > rows'[i].created
    BY <1>2 DEF NoFlood
  <2>1. CASE i \in DOMAIN rows /\ j \in DOMAIN rows
    BY <1>8, <2>1 DEF ScheduleInv, RowInv, NoFlood
  <2>2. CASE i \in DOMAIN rows /\ j \notin DOMAIN rows
    <3>1. schedules[rows[i].schedule].next > rows[i].created
      BY <1>8, <2>2 DEF ScheduleInv, RowInv, NextIsNew, Recurring
    <3> QED
      BY <1>8, <1>9, <2>2, <3>1
  <2>3. CASE i \notin DOMAIN rows
    <3>1. i = j \/ j \in DOMAIN rows
      BY <1>8, <2>3
    <3>2. i \in Nat /\ j \in Nat
      BY <1>1, GeneratedRows, LenProperties
    <3> QED
      BY <1>8, <2>3, <3>1, <3>2
  <2> QED
    BY <2>1, <2>2, <2>3
<1> QED
  BY <1>6, <1>7, <1>10, <1>11, <1>12, <1>13 DEF RowInv

\* The other steps: at most the passes, a request or the status of reminders change.
LEMMA PassInvKept ==
    ASSUME ScheduleInv, UNCHANGED schedules,
           \A w \in Workers : passes'[w].batch = {} \/ passes'[w] = passes[w],
           \A e \in Editors : edits'[e].pc = "asked" =>
               edits'[e] = edits[e] \/ schedules[edits'[e].schedule].status # "NONE"
    PROVE  PassInv'
BY DEF ScheduleInv, PassInv, BatchesAreDue, BatchesAreDisjoint, EditsHaveSchedules

LEMMA ScheduleInvPreserved ==
    ASSUME NEW held, ScheduleInv, [ReminderStep(held)]_reminderVars
    PROVE  ScheduleInv'
<1>1. ReminderTypeOK /\ ReminderTypeOK' /\ RowInv
  BY TypePreserved DEF ScheduleInv
<1>2. SUFFICES PassInv' /\ NextIsAhead' /\ RowInv'
  BY <1>1 DEF ScheduleInv
<1>3. passes \in [Workers -> Passes] /\ edits \in [Editors -> Edits]
  BY <1>1 DEF ReminderTypeOK
<1>4. ASSUME UNCHANGED <<schedules, resumed>>
      PROVE  NextIsAhead'
  BY <1>4 DEF ScheduleInv, NextIsAhead
<1>5. ASSUME UNCHANGED <<rows, schedules, overtaken>>
      PROVE  RowInv'
  <2>1. SameOccurrences
    BY <1>5, RowsTyped DEF SameOccurrences
  <2> QED
    BY <1>1, <1>5, <2>1, RowInvKept
<1>6. CASE Tick \/ UNCHANGED reminderVars
  <2>1. UNCHANGED <<rows, schedules, passes, edits, resumed, overtaken>>
    BY <1>6 DEF Tick, tables, reminderVars
  <2> QED
    BY <1>4, <1>5, <2>1, PassInvKept
<1>7. ASSUME NEW due \in Times, Create(due)
      PROVE  PassInv' /\ NextIsAhead' /\ RowInv'
  <2>1. UNCHANGED <<schedules, passes, edits, resumed, overtaken>>
    BY <1>7 DEF Create
  <2>2. SameOccurrences
    BY <1>1, <1>7, OwnerKeepsRows
  <2> QED
    BY <1>1, <1>4, <2>1, <2>2, PassInvKept, RowInvKept
<1>8. ASSUME NEW i \in DOMAIN rows, Close(i, held)
      PROVE  PassInv' /\ NextIsAhead' /\ RowInv'
  <2>1. UNCHANGED <<schedules, passes, edits, resumed, overtaken>>
    BY <1>8 DEF Close
  <2>2. SameOccurrences
    BY <1>1, <1>8, OwnerKeepsRows
  <2> QED
    BY <1>1, <1>4, <2>1, <2>2, PassInvKept, RowInvKept
<1>9. ASSUME NEW e \in Editors, NEW s \in Schedules, NEW action \in {"pause", "resume", "cancel"},
             AskEdit(e, s, action)
      PROVE  PassInv' /\ NextIsAhead' /\ RowInv'
  <2>1. UNCHANGED <<rows, schedules, passes, resumed, overtaken>>
    BY <1>9 DEF AskEdit, tables
  <2>2. \A x \in Editors : edits'[x].pc = "asked" =>
          edits'[x] = edits[x] \/ schedules[edits'[x].schedule].status # "NONE"
    BY <1>3, <1>9 DEF AskEdit
  <2> QED
    BY <1>4, <1>5, <2>1, <2>2, PassInvKept
<1>10. ASSUME NEW w \in Workers, CheckDue(w) \/ FailPass(w)
       PROVE  PassInv' /\ NextIsAhead' /\ RowInv'
  <2>1. UNCHANGED <<rows, schedules, edits, resumed, overtaken>>
    BY <1>10 DEF CheckDue, FailPass, tables
  <2>2. \A v \in Workers : passes'[v].batch = {} \/ passes'[v] = passes[v]
    BY <1>3, <1>10 DEF CheckDue, FailPass, NoPass
  <2> QED
    BY <1>4, <1>5, <2>1, <2>2, PassInvKept
<1>11. ASSUME NEW w \in Workers, LockDue(w)
       PROVE  PassInv' /\ NextIsAhead' /\ RowInv'
  <2>1. UNCHANGED <<rows, schedules, resumed, overtaken>>
    BY <1>11 DEF LockDue, tables
  <2> QED
    BY <1>4, <1>5, <1>11, <2>1, LockKeepsInv
<1>12. ASSUME NEW w \in Workers, MarkDue(w, held)
       PROVE  PassInv' /\ NextIsAhead' /\ RowInv'
  <2>1. UNCHANGED <<schedules, edits, resumed, overtaken>>
    BY <1>12 DEF MarkDue
  <2>2. \A v \in Workers : passes'[v].batch = {} \/ passes'[v] = passes[v]
    BY <1>3, <1>12 DEF MarkDue, NoPass
  <2>3. SameOccurrences
    BY <1>1, <1>12, OwnerKeepsRows
  <2> QED
    BY <1>1, <1>4, <2>1, <2>2, <2>3, PassInvKept, RowInvKept
<1> QED
  BY <1>6, <1>7, <1>8, <1>9, <1>10, <1>11, <1>12,
     CreateScheduleKeepsInv, TransitionKeepsInv, GenerateKeepsInv
     DEF ReminderStep, Owner, Pass

LEMMA ScheduleInvStarts == ReminderInit => ScheduleInv
<1> SUFFICES ASSUME ReminderInit
             PROVE  ScheduleInv
  OBVIOUS
<1>1. ReminderTypeOK
  BY ReminderBoundsAssumption DEF ReminderInit, ReminderTypeOK, ScheduleStatuses,
                                  NoPass, Passes, NoEdit, Edits
<1>2. rows = << >> /\ DOMAIN rows = {}
  BY DEF ReminderInit
<1>3. RowInv
  BY <1>2 DEF RowInv, NextIsNew, OccurrencesHaveSchedules, DatesStay, OccurrenceOnce, NoFlood
<1>4. PassInv /\ NextIsAhead
  BY DEF ReminderInit, PassInv, BatchesAreDue, BatchesAreDisjoint, EditsHaveSchedules,
         NextIsAhead, NoPass, NoEdit
<1> QED
  BY <1>1, <1>3, <1>4 DEF ScheduleInv

LEMMA ScheduleInvHolds == ReminderSpec => []ScheduleInv
<1>1. ScheduleInv /\ [ReminderNext]_reminderVars => ScheduleInv'
  BY ScheduleInvPreserved DEF ReminderNext
<1> QED
  BY <1>1, ScheduleInvStarts, PTL DEF ReminderSpec

----------------------------------------------------------------------------
(* The theorems *)

\* No interleaving of any number of processes, failures and edits inserts an occurrence
\* twice (PostgresRecurrenceRepository.generateDue).
THEOREM OccurrencesAreUnique == ReminderSpec => []OccurrenceOnce
<1>1. ScheduleInv => OccurrenceOnce
  BY DEF ScheduleInv, RowInv
<1> QED
  BY <1>1, ScheduleInvHolds, PTL

\* Whatever dates were missed and whoever caught up, the next reminder of a schedule is for
\* a date after the pass that inserted the one before (PostgresRecurrenceRepository.generateDue).
THEOREM OutagesDoNotFlood == ReminderSpec => []NoFlood
<1>1. ScheduleInv => NoFlood
  BY DEF ScheduleInv, RowInv
<1> QED
  BY <1>1, ScheduleInvHolds, PTL

\* A reminder is inserted only for a date after the last resumption of its schedule
\* (PostgresRecurrenceRepository.transition).
THEOREM PausesAreSkipped == ReminderSpec => SkipsPausedTimes
<1> DEFINE Step == \A i \in DOMAIN rows' \ DOMAIN rows :
                     LET s == rows'[i].schedule
                     IN  s # NoSchedule => rows'[i].first > resumed[s]
<1>1. ScheduleInv /\ [ReminderNext]_reminderVars => [Step]_reminderVars
  <2> SUFFICES ASSUME ScheduleInv, ReminderNext, NEW i \in DOMAIN rows' \ DOMAIN rows,
                      rows'[i].schedule # NoSchedule
               PROVE  rows'[i].first > resumed[rows'[i].schedule]
    OBVIOUS
  <2>1. ReminderTypeOK
    BY DEF ScheduleInv
  <2>2. CASE \E w \in Workers : GenerateDue(w)
    <3>1. PICK w \in Workers : GenerateDue(w)
      BY <2>2
    <3> DEFINE s == rows'[i].schedule
    <3>2. s \in passes[w].batch /\ rows'[i].first = schedules[s].next
      BY <2>1, <3>1, GeneratedRows DEF Inserted, NewRow
    <3>3. s \in Schedules /\ schedules[s].status # "NONE"
      BY <2>1, <3>2 DEF ScheduleInv, PassInv, BatchesAreDue, ReminderTypeOK, Passes
    <3> QED
      BY <3>2, <3>3 DEF ScheduleInv, NextIsAhead
  <2>3. CASE \/ \E due \in Times : Create(due)
             \/ \E x \in DOMAIN rows : Close(x, {})
             \/ \E w \in Workers : MarkDue(w, {})
    BY <2>1, <2>3, OwnerKeepsRows DEF SameOccurrences
  <2>4. CASE rows' = rows
    BY <2>4
  <2> QED
    BY <2>2, <2>3, <2>4 DEF ReminderNext, ReminderStep, Owner, Pass, Tick, tables, AskEdit,
       CreateSchedule, TransitionSchedule, CheckDue, LockDue, FailPass
<1> QED
  BY <1>1, ScheduleInvHolds, PTL DEF ReminderSpec, SkipsPausedTimes

----------------------------------------------------------------------------
(* Agenda: what a step of Reminders leaves of a reminder *)

RowsKept ==
    /\ clock' >= clock
    /\ DOMAIN rows \subseteq DOMAIN rows'
    /\ \A i \in DOMAIN rows :
         /\ rows'[i].schedule = rows[i].schedule /\ rows'[i].first = rows[i].first
         /\ rows'[i].due = rows[i].due
         /\ rows'[i].status \in Open => rows[i].status \in Open
    /\ \A i \in DOMAIN rows' \ DOMAIN rows : rows'[i].due = rows'[i].first

LEMMA RowsMove ==
    ASSUME NEW held, ReminderTypeOK, [ReminderStep(held)]_reminderVars
    PROVE  RowsKept
<1>0. /\ rows \in Seq(Rows) /\ DOMAIN rows = 1..Len(rows) /\ Len(rows) \in Nat
      /\ clock \in Nat
  BY ReminderBoundsAssumption, LenProperties DEF ReminderTypeOK
<1>1. CASE UNCHANGED <<clock, rows>>
  BY <1>0, <1>1 DEF RowsKept
<1>2. CASE Tick
  BY <1>0, <1>2 DEF Tick, tables, RowsKept
<1>3. ASSUME NEW due \in Times, Create(due)
      PROVE  RowsKept
  <2>1. SameOccurrences /\ clock' = clock
    BY <1>3, OwnerKeepsRows DEF Create
  <2>2. NewRow(due, 0, NoSchedule) \in Rows
    BY RowsOfType, ReminderBoundsAssumption
  <2>3. rows' = Append(rows, NewRow(due, 0, NoSchedule))
    BY <1>3 DEF Create
  <2>4. \A i \in DOMAIN rows : rows'[i] = rows[i]
    BY <1>0, <2>2, <2>3, AppendProperties
  <2> QED
    BY <1>0, <2>1, <2>4 DEF SameOccurrences, RowsKept
<1>4. ASSUME NEW i \in DOMAIN rows, Close(i, held)
      PROVE  RowsKept
  <2>1. SameOccurrences /\ clock' = clock
    BY <1>4, OwnerKeepsRows DEF Close
  <2>2. \A j \in DOMAIN rows : rows'[j].status \in Open => rows[j].status \in Open
    BY <1>4 DEF Close
  <2> QED
    BY <1>0, <2>1, <2>2 DEF SameOccurrences, RowsKept
<1>5. ASSUME NEW w \in Workers, GenerateDue(w)
      PROVE  RowsKept
  <2>1. clock' = clock
    BY <1>5 DEF GenerateDue
  <2> QED
    BY <1>0, <1>5, <2>1, GeneratedRows DEF RowsKept, NewRow
<1>6. ASSUME NEW w \in Workers, MarkDue(w, held)
      PROVE  RowsKept
  <2>1. SameOccurrences /\ clock' = clock
    BY <1>6, OwnerKeepsRows DEF MarkDue
  <2>2. PICK batch \in SUBSET DueRows(passes[w].at) :
          rows' = [i \in DOMAIN rows |->
            IF i \in batch THEN [rows[i] EXCEPT !.status = "DUE"] ELSE rows[i]]
    BY <1>6 DEF MarkDue, Earliest
  <2>3. \A j \in DOMAIN rows : rows'[j].status \in Open => rows[j].status \in Open
    BY <2>2 DEF DueRows, Open
  <2> QED
    BY <1>0, <2>1, <2>3 DEF SameOccurrences, RowsKept
<1> QED
  BY <1>1, <1>2, <1>3, <1>4, <1>5, <1>6 DEF ReminderStep, Owner, Pass, tables, AskEdit,
     CreateSchedule, TransitionSchedule, CheckDue, LockDue, FailPass, reminderVars

\* A pass began in the past, and what it inserted was due then.
OverdueInv ==
    /\ \A w \in Workers : passes[w].at <= clock
    /\ \A i \in DOMAIN rows : Recurring(i) => rows[i].first <= clock

LEMMA OverdueNext ==
    ASSUME NEW held, ScheduleInv, OverdueInv, [ReminderStep(held)]_reminderVars
    PROVE  OverdueInv'
<1>0. /\ ReminderTypeOK /\ ReminderTypeOK'
      /\ clock \in Nat /\ clock' \in Nat
      /\ passes \in [Workers -> Passes]
      /\ RowsKept
  <2>1. ReminderTypeOK
    BY DEF ScheduleInv
  <2>2. ReminderTypeOK' /\ RowsKept
    BY <2>1, TypePreserved, RowsMove
  <2> QED
    BY <2>1, <2>2, ReminderBoundsAssumption DEF ReminderTypeOK
<1>1. \A i \in DOMAIN rows : Recurring(i)' => rows'[i].first <= clock'
  BY <1>0, RowsTyped DEF OverdueInv, RowsKept, Recurring
<1>2. CASE \E w \in Workers : GenerateDue(w)
  <2>1. PICK w \in Workers : GenerateDue(w)
    BY <1>2
  <2>2. \A v \in Workers : passes'[v].at = passes[v].at
    BY <1>0, <2>1 DEF GenerateDue
  <2>3. \A i \in DOMAIN rows' \ DOMAIN rows :
          /\ rows'[i].schedule \in passes[w].batch
          /\ rows'[i].first = schedules[rows'[i].schedule].next
    BY <1>0, <2>1, GeneratedRows DEF Inserted, NewRow
  <2>4. \A s \in passes[w].batch : schedules[s].next \in Nat /\ schedules[s].next <= passes[w].at
    BY <1>0 DEF ScheduleInv, PassInv, BatchesAreDue, ReminderTypeOK, Passes
  <2>5. passes[w].at \in Nat /\ passes[w].at <= clock /\ clock' = clock
    BY <1>0, <2>1 DEF OverdueInv, Passes, GenerateDue
  <2>6. \A i \in DOMAIN rows' \ DOMAIN rows : rows'[i].first <= clock'
    BY <1>0, <2>3, <2>4, <2>5
  <2> QED
    BY <1>0, <1>1, <2>2, <2>5, <2>6 DEF OverdueInv
<1>3. CASE ~ \E w \in Workers : GenerateDue(w)
  <2>1. \A i \in DOMAIN rows' : Recurring(i)' => i \in DOMAIN rows
    <3>1. CASE \/ \E due \in Times : Create(due)
               \/ \E i \in DOMAIN rows : Close(i, held)
               \/ \E w \in Workers : MarkDue(w, held)
      BY <1>0, <3>1, OwnerKeepsRows DEF SameOccurrences, Recurring
    <3>2. CASE rows' = rows
      BY <3>2
    <3> QED
      BY <1>3, <3>1, <3>2 DEF ReminderStep, Owner, Pass, Tick, tables, AskEdit,
         CreateSchedule, TransitionSchedule, CheckDue, LockDue, FailPass, reminderVars
  <2>2. \A v \in Workers : passes'[v].at <= clock'
    <3>1. CASE passes' = passes
      BY <1>0, <3>1 DEF OverdueInv, RowsKept, Passes
    <3>2. ASSUME NEW w \in Workers, CheckDue(w) \/ LockDue(w) \/ MarkDue(w, held) \/ FailPass(w)
          PROVE  \A v \in Workers : passes'[v].at <= clock'
      <4>1. clock' = clock /\ \A v \in Workers : passes[v].at <= clock
        BY <3>2 DEF CheckDue, LockDue, MarkDue, FailPass, OverdueInv
      <4>2. \A v \in Workers \ {w} : passes'[v] = passes[v]
        BY <1>0, <3>2 DEF CheckDue, LockDue, MarkDue, FailPass
      <4>3. CASE LockDue(w)
        <5>1. PICK batch :
                passes' = [passes EXCEPT ![w].pc = IF batch = {} THEN "mark" ELSE "insert",
                                         ![w].batch = batch]
          BY <4>3 DEF LockDue
        <5>2. passes'[w].at = passes[w].at
          BY <1>0, <5>1 DEF Passes
        <5> QED
          BY <4>1, <4>2, <5>2
      <4>4. CASE ~LockDue(w)
        <5>1. passes'[w].at \in {clock, 0}
          BY <1>0, <3>2, <4>4 DEF CheckDue, MarkDue, FailPass, NoPass
        <5> QED
          BY <1>0, <4>1, <4>2, <5>1
      <4> QED
        BY <4>3, <4>4
    <3> QED
      BY <1>3, <3>1, <3>2 DEF ReminderStep, Owner, Pass, Tick, Create, Close, AskEdit,
         CreateSchedule, TransitionSchedule, reminderVars
  <2> QED
    BY <1>1, <2>1, <2>2 DEF OverdueInv
<1> QED
  BY <1>2, <1>3

----------------------------------------------------------------------------
(* Agenda: the inductive invariant of plans and requests *)

PlanStatuses == {"PENDING_REVIEW", "APPROVED", "REJECTED", "APPLIED", "REVERTED"}

PlanRecords ==
    [ target : Nat, conflict : Events, from : Nat, to : Nat,
      status : PlanStatuses, expires : Nat, applied : Nat ]

RequestRecords ==
    [ pc : {"idle", "fetched", "begun", "checked"}, kind : {"none", "create", "apply", "undo"},
      plan : Nat, drafts : SUBSET Drafts, now : Nat, began : Nat ]

AgendaTypeOK ==
    /\ ReminderTypeOK
    /\ plans \in Seq(PlanRecords)
    /\ requests \in [Requests -> RequestRecords]

\* A plan that has moved its reminder is not about an occurrence of a schedule.
Settled == {"APPLIED", "REVERTED"}

PlanIsSound(k) ==
    /\ plans[k].target \in DOMAIN rows
    /\ plans[k].status \in Settled => ~Recurring(plans[k].target)

\* A plan about an occurrence gets no further than the first steps of a request to apply
\* it: the occurrence was overdue at the date the request took.
RequestIsSound(h) ==
    /\ h.kind = "create" => \A d \in h.drafts : d.target \in DOMAIN rows
    /\ h.kind \in {"apply", "undo"} => h.plan \in DOMAIN plans
    /\ h.kind = "apply" /\ Recurring(plans[h.plan].target) =>
         h.pc = "fetched" /\ rows[plans[h.plan].target].due <= h.now
    /\ h.kind = "undo" => plans[h.plan].status \in Settled

PlanInv ==
    /\ ScheduleInv /\ OverdueInv /\ AgendaTypeOK
    /\ \A k \in DOMAIN plans : PlanIsSound(k)
    /\ \A q \in Requests : RequestIsSound(requests[q])

LEMMA PlansTyped ==
    ASSUME AgendaTypeOK, NEW k \in DOMAIN plans
    PROVE  /\ plans[k] \in PlanRecords
           /\ plans[k].target \in Nat /\ plans[k].from \in Nat /\ plans[k].to \in Nat
           /\ plans[k].expires \in Nat /\ plans[k].applied \in Nat
           /\ plans[k].status \in PlanStatuses /\ plans[k].conflict \in Events
<1>1. plans[k] \in PlanRecords
  BY ElementOfSeq, LenProperties DEF AgendaTypeOK
<1> QED
  BY <1>1 DEF PlanRecords

LEMMA RequestsTyped ==
    ASSUME AgendaTypeOK, NEW q \in Requests
    PROVE  /\ requests[q] \in RequestRecords
           /\ requests[q].plan \in Nat /\ requests[q].now \in Nat /\ requests[q].began \in Nat
           /\ requests[q].drafts \subseteq Drafts
BY DEF AgendaTypeOK, RequestRecords

\* A draft moves a reminder that is due later than the date it is made with, within its day.
LEMMA DraftsAreSound ==
    ASSUME ReminderTypeOK, NEW i, NEW e \in Events, NEW google, NEW now \in Nat,
           NEW d \in DraftAgendaPlan(i, e, google, now)
    PROVE  /\ i \in DOMAIN rows /\ rows[i].due > now
           /\ d = [target |-> i, conflict |-> e, from |-> rows[i].due, to |-> d.to]
           /\ d \in Drafts
<1> DEFINE free == Candidates(i, google, now)
<1>1. /\ google.complete /\ ~google.unsure /\ InConflict(i, e, google) /\ ~(rows[i].due <= now)
      /\ \E t \in free : d = [target |-> i, conflict |-> e, from |-> rows[i].due, to |-> t]
  BY DEF DraftAgendaPlan
<1>2. i \in DOMAIN rows
  BY <1>1 DEF InConflict
<1>3. i \in Nat /\ rows[i].due \in Nat
  <2>1. rows[i] \in Rows /\ DOMAIN rows = 1..Len(rows) /\ Len(rows) \in Nat
    BY <1>2, RowsTyped, LenProperties DEF ReminderTypeOK
  <2> QED
    BY <1>2, <2>1 DEF Rows
<1>4. free \subseteq Nat
  <2>1. rows[i].due \div DayLength \in Nat
    BY <1>3, AgendaAssumption
  <2>2. \A slot \in Slots : (rows[i].due \div DayLength) * DayLength + slot \in Nat
    BY <2>1, AgendaAssumption
  <2> QED
    BY <2>2 DEF Candidates
<1> HIDE DEF free
<1>5. PICK t \in free : d = [target |-> i, conflict |-> e, from |-> rows[i].due, to |-> t]
  BY <1>1
<1> QED
  BY <1>1, <1>2, <1>3, <1>4, <1>5 DEF Drafts

\* What moving a reminder that no schedule inserted changes.
LEMMA MoveKeepsSchedules ==
    ASSUME ScheduleInv, OverdueInv, NEW i \in DOMAIN rows, ~Recurring(i), NEW to \in Nat,
           Move(i, to)
    PROVE  /\ ScheduleInv' /\ OverdueInv'
           /\ DOMAIN rows' = DOMAIN rows /\ clock' = clock
           /\ \A j \in DOMAIN rows : /\ Recurring(j)' <=> Recurring(j)
                                     /\ rows'[j].status = rows[j].status
           /\ \A j \in DOMAIN rows \ {i} : rows'[j] = rows[j]
           /\ rows'[i].due = to
<1>0. /\ ReminderTypeOK
      /\ UNCHANGED <<clock, schedules, passes, edits, failures, resumed, overtaken>>
  BY DEF ScheduleInv, Move
<1>1. rows[i] \in Rows /\ rows \in Seq(Rows)
  BY <1>0, RowsTyped DEF ReminderTypeOK
<1>2. [rows[i] EXCEPT !.due = to] \in Rows
  BY <1>1 DEF Rows
<1>3. rows' = [rows EXCEPT ![i] = [rows[i] EXCEPT !.due = to]]
  BY DEF Move
<1>4. /\ DOMAIN rows' = DOMAIN rows
      /\ \A j \in DOMAIN rows \ {i} : rows'[j] = rows[j]
      /\ rows'[i] = [rows[i] EXCEPT !.due = to]
  BY <1>3
<1>5. /\ rows'[i].due = to /\ rows'[i].status = rows[i].status
      /\ rows'[i].schedule = rows[i].schedule /\ rows'[i].first = rows[i].first
      /\ rows'[i].created = rows[i].created
  BY <1>1, <1>4 DEF Rows
<1>6. \A j \in DOMAIN rows :
        /\ rows'[j].status = rows[j].status /\ rows'[j].schedule = rows[j].schedule
        /\ rows'[j].first = rows[j].first /\ rows'[j].created = rows[j].created
  BY <1>4, <1>5
<1>7. ReminderTypeOK'
  <2>1. rows' \in Seq(Rows)
    BY <1>1, <1>2, <1>3
  <2> QED
    BY <1>0, <2>1 DEF ReminderTypeOK
<1>8. PassInv' /\ NextIsAhead'
  BY <1>0 DEF ScheduleInv, PassInv, BatchesAreDue, BatchesAreDisjoint, EditsHaveSchedules,
              NextIsAhead
<1>9. NextIsNew' /\ OccurrencesHaveSchedules' /\ OccurrenceOnce' /\ NoFlood'
  BY <1>0, <1>4, <1>6 DEF ScheduleInv, RowInv, NextIsNew, OccurrencesHaveSchedules,
                          OccurrenceOnce, NoFlood, Recurring
<1>10. DatesStay'
  BY <1>4, <1>5 DEF ScheduleInv, RowInv, DatesStay, Recurring
<1>11. OverdueInv'
  BY <1>0, <1>4, <1>6 DEF OverdueInv, Recurring
<1> QED
  BY <1>0, <1>4, <1>5, <1>6, <1>7, <1>8, <1>9, <1>10, <1>11 DEF ScheduleInv, RowInv, Recurring

----------------------------------------------------------------------------
(* Its preservation, by what a step writes *)

NoRequestIsSound == NoRequest \in RequestRecords /\ RequestIsSound(NoRequest)

LEMMA EndIsSound == NoRequestIsSound
BY DEF NoRequestIsSound, NoRequest, RequestRecords, RequestIsSound, NoPlan

\* A pass, the owner or time: reminders are neither moved nor lost.
LEMMA RemindersKeepPlans ==
    ASSUME PlanInv, [ReminderStep(Held)]_reminderVars, UNCHANGED agendaVars
    PROVE  PlanInv' /\ RowsKept
<1>1. ReminderTypeOK /\ ScheduleInv /\ OverdueInv /\ plans' = plans /\ requests' = requests
  BY DEF PlanInv, ScheduleInv, agendaVars
<1>2. ScheduleInv' /\ OverdueInv' /\ ReminderTypeOK'
  <2>1. ScheduleInv' /\ OverdueInv'
    BY <1>1, ScheduleInvPreserved, OverdueNext
  <2> QED
    BY <2>1 DEF ScheduleInv
<1>3. RowsKept
  BY <1>1, RowsMove
<1>4. AgendaTypeOK'
  BY <1>1, <1>2 DEF PlanInv, AgendaTypeOK
<1>5. \A k \in DOMAIN plans : PlanIsSound(k)'
  BY <1>1, <1>3 DEF PlanInv, PlanIsSound, RowsKept, Recurring
<1>6. \A q \in Requests : RequestIsSound(requests[q])'
  <2> SUFFICES ASSUME NEW q \in Requests
               PROVE  RequestIsSound(requests[q])'
    OBVIOUS
  <2>1. RequestIsSound(requests[q])
    BY DEF PlanInv
  <2>2. requests[q].kind \in {"apply", "undo"} => plans[requests[q].plan].target \in DOMAIN rows
    BY <2>1 DEF RequestIsSound, PlanInv, PlanIsSound
  <2> QED
    BY <1>1, <1>3, <2>1, <2>2 DEF RequestIsSound, RowsKept, Recurring
<1> QED
  BY <1>1, <1>2, <1>3, <1>4, <1>5, <1>6 DEF PlanInv

\* A request moves on: no plan and no reminder is written.
LEMMA RequestKeepsPlans ==
    ASSUME PlanInv, NEW q \in Requests, NEW h \in RequestRecords, RequestIsSound(h),
           requests' = [requests EXCEPT ![q] = h], UNCHANGED <<reminderVars, plans>>
    PROVE  PlanInv'
<1>1. UNCHANGED <<clock, rows, schedules, passes, edits, failures, resumed, overtaken, plans>>
  BY DEF reminderVars
<1>2. ReminderTypeOK' /\ ScheduleInv' /\ OverdueInv'
  BY <1>1 DEF PlanInv, ReminderTypeOK, ScheduleInv, PassInv, BatchesAreDue, BatchesAreDisjoint,
     EditsHaveSchedules, NextIsAhead, RowInv, NextIsNew, OccurrencesHaveSchedules, DatesStay,
     OccurrenceOnce, NoFlood, OverdueInv, Recurring
<1>3. requests \in [Requests -> RequestRecords]
  BY DEF PlanInv, AgendaTypeOK
<1>4. AgendaTypeOK'
  BY <1>1, <1>2, <1>3 DEF PlanInv, AgendaTypeOK
<1>5. \A k \in DOMAIN plans : PlanIsSound(k)'
  BY <1>1 DEF PlanInv, PlanIsSound, Recurring
<1>6. \A p \in Requests : RequestIsSound(requests[p])'
  <2> SUFFICES ASSUME NEW p \in Requests
               PROVE  RequestIsSound(requests[p])'
    OBVIOUS
  <2>1. requests'[p] = h \/ requests'[p] = requests[p]
    BY <1>3
  <2>2. RequestIsSound(requests[p])
    BY DEF PlanInv
  <2> QED
    BY <1>1, <2>1, <2>2 DEF RequestIsSound, Recurring
<1> QED
  BY <1>1, <1>2, <1>4, <1>5, <1>6 DEF PlanInv

\* Where an application or an undo takes its reminder from and to, and what it makes of the plan.
Origin(h) == IF h.kind = "apply" THEN plans[h.plan].from ELSE plans[h.plan].to

Destination(h) == IF h.kind = "apply" THEN plans[h.plan].to ELSE plans[h.plan].from

Outcome(h) ==
    IF h.kind = "apply"
    THEN [plans[h.plan] EXCEPT !.status = "APPLIED", !.applied = h.now]
    ELSE [plans[h.plan] EXCEPT !.status = "REVERTED"]

\* The end of a transaction that moves its reminder and marks its plan.
Settles(q) ==
    LET h == requests[q]
    IN  /\ h.pc = "checked" /\ h.kind \in {"apply", "undo"}
        /\ plans[h.plan].status = IF h.kind = "apply" THEN "APPROVED" ELSE "APPLIED"
        /\ Untouched(plans[h.plan].target, Origin(h))
        /\ Move(plans[h.plan].target, Destination(h))
        /\ plans' = [plans EXCEPT ![h.plan] = Outcome(h)]
        /\ End(q)

LEMMA OutcomesTyped ==
    ASSUME AgendaTypeOK, NEW h \in RequestRecords, h.plan \in DOMAIN plans
    PROVE  /\ Destination(h) \in Nat /\ Origin(h) \in Nat
           /\ Outcome(h) \in PlanRecords
           /\ Outcome(h).target = plans[h.plan].target
           /\ Outcome(h).from = plans[h.plan].from /\ Outcome(h).to = plans[h.plan].to
           /\ Outcome(h).status = IF h.kind = "apply" THEN "APPLIED" ELSE "REVERTED"
           /\ Outcome(h).expires = plans[h.plan].expires
<1>1. plans[h.plan] \in PlanRecords /\ h.now \in Nat
  BY PlansTyped DEF RequestRecords
<1>2. Destination(h) \in Nat /\ Origin(h) \in Nat
  BY <1>1 DEF Destination, Origin, PlanRecords
<1>3. CASE h.kind = "apply"
  BY <1>1, <1>2, <1>3 DEF Outcome, PlanRecords, PlanStatuses
<1>4. CASE h.kind # "apply"
  BY <1>1, <1>2, <1>4 DEF Outcome, PlanRecords, PlanStatuses
<1> QED
  BY <1>3, <1>4

LEMMA SettlesKeepsPlans ==
    ASSUME PlanInv, NEW q \in Requests, Settles(q)
    PROVE  /\ PlanInv'
           /\ requests[q].plan \in DOMAIN plans
           /\ plans[requests[q].plan].target \in DOMAIN rows
           /\ ~Recurring(plans[requests[q].plan].target)
<1> DEFINE k == requests[q].plan
           i == plans[k].target
           plan == Outcome(requests[q])
           to == Destination(requests[q])
<1>1. /\ ScheduleInv /\ OverdueInv /\ AgendaTypeOK
      /\ plans \in Seq(PlanRecords) /\ requests \in [Requests -> RequestRecords]
      /\ RequestIsSound(requests[q])
  BY DEF PlanInv, AgendaTypeOK
<1>2. k \in DOMAIN plans
  BY <1>1 DEF Settles, RequestIsSound
<1>3. i \in DOMAIN rows /\ ~Recurring(i)
  BY <1>1, <1>2 DEF Settles, RequestIsSound, PlanInv, PlanIsSound
<1>4. /\ plans' = [plans EXCEPT ![k] = plan]
      /\ requests' = [requests EXCEPT ![q] = NoRequest]
      /\ plan \in PlanRecords /\ to \in Nat
      /\ plan.target = i /\ plan.status \in Settled
      /\ Move(i, to)
  <2>1. requests[q] \in RequestRecords
    BY <1>1
  <2>2. /\ plan \in PlanRecords /\ to \in Nat /\ plan.target = i
        /\ plan.status = IF requests[q].kind = "apply" THEN "APPLIED" ELSE "REVERTED"
    BY <1>1, <1>2, <2>1, OutcomesTyped
  <2> QED
    BY <2>2 DEF Settles, End, Settled
<1> HIDE DEF plan, to
<1> HIDE DEF k, i
<1>5. /\ ScheduleInv' /\ OverdueInv' /\ ReminderTypeOK'
      /\ DOMAIN rows' = DOMAIN rows
      /\ \A j \in DOMAIN rows : Recurring(j)' <=> Recurring(j)
      /\ \A j \in DOMAIN rows \ {i} : rows'[j] = rows[j]
  <2>1. /\ ScheduleInv' /\ OverdueInv' /\ DOMAIN rows' = DOMAIN rows
        /\ \A j \in DOMAIN rows : Recurring(j)' <=> Recurring(j)
        /\ \A j \in DOMAIN rows \ {i} : rows'[j] = rows[j]
    BY <1>1, <1>3, <1>4, MoveKeepsSchedules
  <2> QED
    BY <2>1 DEF ScheduleInv
<1>6. plans' \in Seq(PlanRecords) /\ DOMAIN plans' = DOMAIN plans
  BY <1>1, <1>2, <1>4
<1>7. /\ plans'[k] = plan
      /\ \A m \in DOMAIN plans \ {k} : plans'[m] = plans[m]
  BY <1>2, <1>4
<1>8. AgendaTypeOK'
  <2>1. requests' \in [Requests -> RequestRecords]
    BY <1>1, <1>4, EndIsSound DEF NoRequestIsSound
  <2> QED
    BY <1>5, <1>6, <2>1 DEF AgendaTypeOK
<1>9. \A m \in DOMAIN plans : PlanIsSound(m)'
  BY <1>3, <1>4, <1>5, <1>7 DEF PlanInv, PlanIsSound
<1>10. \A p \in Requests : RequestIsSound(requests[p])'
  <2> SUFFICES ASSUME NEW p \in Requests
               PROVE  RequestIsSound(requests[p])'
    OBVIOUS
  <2>1. requests'[p] = NoRequest \/ requests'[p] = requests[p]
    BY <1>1, <1>4
  <2>2. CASE requests'[p] = NoRequest
    BY <2>2 DEF RequestIsSound, NoRequest
  <2>3. CASE requests'[p] = requests[p]
    <3> DEFINE h == requests[p]
    <3>1. RequestIsSound(h)
      BY DEF PlanInv
    <3>2. h.kind = "create" => \A d \in h.drafts : d.target \in DOMAIN rows'
      BY <1>5, <3>1 DEF RequestIsSound
    <3>3. ASSUME h.kind \in {"apply", "undo"}
          PROVE  /\ h.plan \in DOMAIN plans'
                 /\ plans'[h.plan].target = plans[h.plan].target
                 /\ plans[h.plan].target \in DOMAIN rows
                 /\ plans[h.plan].status \in Settled => plans'[h.plan].status \in Settled
      <4>1. h.plan \in DOMAIN plans
        BY <3>1, <3>3 DEF RequestIsSound
      <4>2. CASE h.plan = k
        BY <1>3, <1>4, <1>6, <1>7, <4>1, <4>2 DEF i
      <4>3. CASE h.plan # k
        BY <1>6, <1>7, <4>1, <4>3 DEF PlanInv, PlanIsSound
      <4> QED
        BY <4>2, <4>3
    <3>4. ASSUME h.kind = "apply", rows'[plans'[h.plan].target].schedule # NoSchedule
          PROVE  h.pc = "fetched" /\ rows'[plans'[h.plan].target].due <= h.now
      <4>1. Recurring(plans[h.plan].target) /\ plans[h.plan].target \in DOMAIN rows
        BY <1>5, <3>3, <3>4 DEF Recurring
      <4>2. plans[h.plan].target # i
        BY <1>3, <4>1
      <4> QED
        BY <1>5, <3>1, <3>3, <3>4, <4>1, <4>2 DEF RequestIsSound
    <3>5. h.kind = "undo" => plans'[h.plan].status \in Settled
      BY <3>1, <3>3 DEF RequestIsSound
    <3> QED
      BY <2>3, <3>2, <3>3, <3>4, <3>5 DEF RequestIsSound, Recurring
  <2> QED
    BY <2>1, <2>2, <2>3
<1>11. PlanInv'
  BY <1>5, <1>6, <1>8, <1>9, <1>10 DEF PlanInv
<1> QED
  BY <1>2, <1>3, <1>11 DEF k, i

\* A request reads and decides, or ends without having written anything.
Waits(q) ==
    /\ \E h \in RequestRecords :
         /\ h.pc # "checked" /\ RequestIsSound(h)
         /\ requests' = [requests EXCEPT ![q] = h]
    /\ UNCHANGED <<reminderVars, plans>>

\* A transaction takes its lock and finds that it may write.
Permits(h, began) ==
    \/ h.kind = "create" /\ QuotaLockFree /\ Cardinality(Pending(began)) < Quota
    \/ h.kind = "apply" /\ MoveLockFree /\ Applicable(plans[h.plan], h.now)
    \/ h.kind = "undo" /\ MoveLockFree /\ Undoable(plans[h.plan], h.now)

Locks(q) ==
    /\ requests[q].pc = "begun"
    /\ \E began \in BeginDates(q) : Permits(requests[q], began) /\ Locked(q, began)
    /\ UNCHANGED <<reminderVars, plans>>

LEMMA EndWaits ==
    ASSUME NEW q \in Requests, End(q), UNCHANGED <<reminderVars, plans>>
    PROVE  Waits(q)
BY EndIsSound DEF End, Waits, NoRequestIsSound, NoRequest

LEMMA CreateStepKinds ==
    ASSUME PlanInv, NEW q \in Requests, CreateStep(q)
    PROVE  Waits(q) \/ Locks(q) \/ InsertProposal(q)
<1>1. AgendaTypeOK /\ ReminderTypeOK /\ clock \in Nat
  BY ReminderBoundsAssumption DEF PlanInv, AgendaTypeOK, ReminderTypeOK
<1>2. CASE CreateProposal(q)
  <2> DEFINE h == [NoRequest EXCEPT !.pc = "fetched", !.kind = "create", !.now = clock]
  <2>1. h \in RequestRecords /\ RequestIsSound(h) /\ h.pc # "checked"
    BY <1>1 DEF NoRequest, NoPlan, RequestRecords, RequestIsSound
  <2> QED
    BY <1>2, <2>1 DEF CreateProposal, Waits
<1>3. ASSUME NEW i \in DOMAIN rows, NEW google \in Answers, DraftProposal(q, i, google)
      PROVE  Waits(q)
  <2>1. PICK e \in google.events : \E d \in DraftAgendaPlan(i, e, google, requests[q].now) :
          requests' = [requests EXCEPT ![q].pc = "begun", ![q].drafts = {d}, ![q].began = clock]
    BY <1>3 DEF DraftProposal
  <2>2. PICK d \in DraftAgendaPlan(i, e, google, requests[q].now) :
          requests' = [requests EXCEPT ![q].pc = "begun", ![q].drafts = {d}, ![q].began = clock]
    BY <2>1
  <2>3. e \in Events /\ requests[q].now \in Nat /\ requests[q] \in RequestRecords
    BY <1>1, RequestsTyped DEF Answers
  <2>4. d \in Drafts /\ d.target \in DOMAIN rows
    BY <1>1, <2>3, DraftsAreSound
  <2> DEFINE h == [requests[q] EXCEPT !.pc = "begun", !.drafts = {d}, !.began = clock]
  <2>5. requests' = [requests EXCEPT ![q] = h]
    BY <1>1, <2>2, <2>3 DEF AgendaTypeOK
  <2>6. requests[q].kind = "create"
    BY <1>3 DEF DraftProposal
  <2>7. h \in RequestRecords /\ RequestIsSound(h) /\ h.pc # "checked"
    BY <1>1, <2>3, <2>4, <2>6 DEF RequestRecords, RequestIsSound
  <2> QED
    BY <1>3, <2>5, <2>7 DEF DraftProposal, Waits
<1>4. CASE CheckQuota(q)
  <2>1. \A began \in BeginDates(q) : Cardinality(Pending(began)) \in Nat
    <3>1. plans \in Seq(PlanRecords) /\ DOMAIN plans = 1..Len(plans) /\ Len(plans) \in Nat
      BY <1>1, LenProperties DEF AgendaTypeOK
    <3>2. IsFiniteSet(DOMAIN plans)
      BY <3>1, FS_Interval
    <3>3. \A began : IsFiniteSet(Pending(began))
      BY <3>2, FS_Subset DEF Pending
    <3> QED
      BY <3>3, FS_CardinalityType
  <2>2. PICK began \in BeginDates(q) :
          IF Cardinality(Pending(began)) >= Quota THEN End(q) ELSE Locked(q, began)
    BY <1>4 DEF CheckQuota
  <2>3. End(q) \/ (Locked(q, began) /\ Cardinality(Pending(began)) < Quota)
    BY <2>1, <2>2, AgendaAssumption
  <2> QED
    BY <1>4, <2>3, EndWaits DEF CheckQuota, Locks, Permits
<1> QED
  BY <1>2, <1>3, <1>4 DEF CreateStep

\* A draft about an occurrence is refused when it is to be applied: the occurrence was due.
LEMMA ApplyStepKinds ==
    ASSUME PlanInv, NEW q \in Requests, ApplyStep(q)
    PROVE  Waits(q) \/ Locks(q) \/ Settles(q)
<1>1. /\ AgendaTypeOK /\ ReminderTypeOK /\ clock \in Nat /\ ScheduleInv
      /\ requests[q] \in RequestRecords /\ requests[q].now \in Nat
      /\ RequestIsSound(requests[q])
  <2>1. AgendaTypeOK /\ ReminderTypeOK /\ ScheduleInv /\ RequestIsSound(requests[q])
    BY DEF PlanInv, AgendaTypeOK
  <2> QED
    BY <2>1, RequestsTyped, ReminderBoundsAssumption DEF ReminderTypeOK
<1>2. ASSUME NEW k \in DOMAIN plans, FetchToApply(q, k)
      PROVE  Waits(q)
  <2> DEFINE h == [NoRequest EXCEPT !.pc = "fetched", !.kind = "apply", !.plan = k, !.now = clock]
             i == plans[k].target
  <2>1. k \in Nat
    BY <1>1, LenProperties DEF AgendaTypeOK
  <2>2. h \in RequestRecords /\ h.pc = "fetched" /\ h.kind = "apply" /\ h.plan = k /\ h.now = clock
    BY <1>1, <2>1 DEF NoRequest, NoPlan, RequestRecords
  <2>3. i \in DOMAIN rows
    BY DEF PlanInv, PlanIsSound
  <2>4. Recurring(i) => rows[i].due <= clock
    BY <2>3 DEF PlanInv, OverdueInv, ScheduleInv, RowInv, DatesStay
  <2> HIDE DEF h
  <2>5. RequestIsSound(h)
    BY <2>2, <2>4 DEF RequestIsSound
  <2>6. requests' = [requests EXCEPT ![q] = h] /\ UNCHANGED <<reminderVars, plans>>
    BY <1>2 DEF FetchToApply, h
  <2> QED
    BY <2>2, <2>5, <2>6 DEF Waits
<1>3. ASSUME NEW google \in Answers, ValidateInternalApplication(q, google)
      PROVE  Waits(q)
  <2> DEFINE k == requests[q].plan
             i == plans[k].target
             now == requests[q].now
             h == [requests[q] EXCEPT !.pc = "begun", !.began = clock]
  <2>1. requests[q].kind = "apply" /\ UNCHANGED <<reminderVars, plans>>
    BY <1>3 DEF ValidateInternalApplication
  <2>2. CASE End(q)
    BY <2>1, <2>2, EndWaits
  <2>3. CASE ~End(q)
    <3>1. /\ requests' = [requests EXCEPT ![q].pc = "begun", ![q].began = clock]
          /\ DraftAgendaPlan(i, plans[k].conflict, google, now) # {}
      BY <1>3, <2>3 DEF ValidateInternalApplication
    <3>2. k \in DOMAIN plans /\ plans[k].conflict \in Events
      BY <1>1, <2>1, PlansTyped DEF RequestIsSound
    <3>3. i \in DOMAIN rows /\ rows[i].due > now
      BY <1>1, <3>1, <3>2, DraftsAreSound
    <3>4. rows[i].due \in Nat
      BY <1>1, <3>3, RowsTyped DEF Rows
    <3>5. ~Recurring(i)
      BY <1>1, <2>1, <3>3, <3>4 DEF RequestIsSound
    <3>6. /\ h \in RequestRecords /\ h.pc = "begun" /\ h.kind = "apply" /\ h.plan = k
          /\ requests' = [requests EXCEPT ![q] = h]
      BY <1>1, <2>1, <3>1 DEF RequestRecords, AgendaTypeOK
    <3> HIDE DEF h
    <3>7. RequestIsSound(h)
      BY <3>2, <3>5, <3>6 DEF RequestIsSound
    <3> QED
      BY <2>1, <3>6, <3>7 DEF Waits
  <2> QED
    BY <2>2, <2>3
<1>4. CASE CheckApplication(q)
  BY <1>4, EndWaits DEF CheckApplication, Locks, Permits
<1>5. CASE ApplyInternalReminder(q)
  BY <1>5, EndWaits DEF ApplyInternalReminder, Settles, Origin, Destination, Outcome, Waits
<1> QED
  BY <1>2, <1>3, <1>4, <1>5 DEF ApplyStep

LEMMA UndoStepKinds ==
    ASSUME PlanInv, NEW q \in Requests, UndoStep(q)
    PROVE  Waits(q) \/ Locks(q) \/ Settles(q)
<1>1. /\ AgendaTypeOK /\ clock \in Nat
      /\ requests[q] \in RequestRecords
      /\ RequestIsSound(requests[q])
  <2>1. AgendaTypeOK /\ ReminderTypeOK /\ RequestIsSound(requests[q])
    BY DEF PlanInv, AgendaTypeOK
  <2> QED
    BY <2>1, RequestsTyped, ReminderBoundsAssumption DEF ReminderTypeOK
<1>2. ASSUME NEW k \in DOMAIN plans, FetchToUndo(q, k)
      PROVE  Waits(q)
  <2> DEFINE h == [NoRequest EXCEPT !.pc = "fetched", !.kind = "undo", !.plan = k, !.now = clock]
  <2>1. k \in Nat
    BY <1>1, LenProperties DEF AgendaTypeOK
  <2>2. h \in RequestRecords /\ h.pc = "fetched" /\ h.kind = "undo" /\ h.plan = k
    BY <1>1, <2>1 DEF NoRequest, NoPlan, RequestRecords
  <2> HIDE DEF h
  <2>3. RequestIsSound(h)
    BY <1>2, <2>2 DEF FetchToUndo, RequestIsSound, Settled
  <2>4. requests' = [requests EXCEPT ![q] = h] /\ UNCHANGED <<reminderVars, plans>>
    BY <1>2 DEF FetchToUndo, h
  <2> QED
    BY <2>2, <2>3, <2>4 DEF Waits
<1>3. ASSUME NEW google \in Answers, PreviewReminderUndo(q, google)
      PROVE  Waits(q)
  <2> DEFINE h == [requests[q] EXCEPT !.pc = "begun", !.began = clock]
  <2>1. requests[q].kind = "undo" /\ UNCHANGED <<reminderVars, plans>>
    BY <1>3 DEF PreviewReminderUndo
  <2>2. End(q) \/ requests' = [requests EXCEPT ![q].pc = "begun", ![q].began = clock]
    BY <1>3 DEF PreviewReminderUndo
  <2>3. CASE End(q)
    BY <2>1, <2>3, EndWaits
  <2>4. CASE requests' = [requests EXCEPT ![q].pc = "begun", ![q].began = clock]
    <3>1. /\ h \in RequestRecords /\ h.pc = "begun" /\ h.kind = "undo"
          /\ h.plan = requests[q].plan
          /\ requests' = [requests EXCEPT ![q] = h]
      BY <1>1, <2>1, <2>4 DEF RequestRecords, AgendaTypeOK
    <3> HIDE DEF h
    <3>2. RequestIsSound(h)
      BY <1>1, <2>1, <3>1 DEF RequestIsSound
    <3> QED
      BY <2>1, <3>1, <3>2 DEF Waits
  <2> QED
    BY <2>2, <2>3, <2>4
<1>4. CASE CheckUndo(q)
  BY <1>4, EndWaits DEF CheckUndo, Locks, Permits
<1>5. CASE UndoInternalReminder(q)
  BY <1>5, EndWaits DEF UndoInternalReminder, Settles, Origin, Destination, Outcome, Waits
<1> QED
  BY <1>2, <1>3, <1>4, <1>5 DEF UndoStep

\* Every step is one of six kinds.
StepKinds ==
    \/ [ReminderStep(Held)]_reminderVars /\ UNCHANGED agendaVars
    \/ \E q \in Requests : Waits(q) \/ Locks(q) \/ InsertProposal(q) \/ Settles(q)
    \/ \E k \in DOMAIN plans, status \in {"APPROVED", "REJECTED"} : Review(k, status)

LEMMA StepsAreOfKinds ==
    ASSUME PlanInv, [AgendaNext]_vars
    PROVE  StepKinds
<1>1. CASE UNCHANGED vars
  BY <1>1 DEF vars, StepKinds
<1>2. ASSUME NEW q \in Requests, AbandonRequest(q)
      PROVE  Waits(q)
  BY <1>2, EndWaits DEF AbandonRequest
<1> QED
  BY <1>1, <1>2, CreateStepKinds, ApplyStepKinds, UndoStepKinds DEF AgendaNext, StepKinds

LEMMA LocksKeepPlans ==
    ASSUME PlanInv, NEW q \in Requests, Locks(q)
    PROVE  PlanInv'
<1>1. /\ AgendaTypeOK /\ clock \in Nat
      /\ requests[q] \in RequestRecords /\ requests[q].began \in Nat
      /\ RequestIsSound(requests[q])
  <2>1. AgendaTypeOK /\ ReminderTypeOK /\ RequestIsSound(requests[q])
    BY DEF PlanInv, AgendaTypeOK
  <2> QED
    BY <2>1, RequestsTyped, ReminderBoundsAssumption DEF ReminderTypeOK
<1>2. PICK began \in BeginDates(q) : Locked(q, began)
  BY DEF Locks
<1>3. began \in Nat
  BY <1>1 DEF BeginDates
<1> DEFINE h == [requests[q] EXCEPT !.pc = "checked", !.began = began]
<1>4. /\ requests' = [requests EXCEPT ![q] = h]
      /\ h \in RequestRecords /\ h.kind = requests[q].kind /\ h.plan = requests[q].plan
      /\ h.drafts = requests[q].drafts
  BY <1>1, <1>2, <1>3 DEF Locked, RequestRecords, AgendaTypeOK
<1> HIDE DEF h
<1>5. RequestIsSound(h)
  BY <1>1, <1>4 DEF Locks, RequestIsSound
<1> QED
  BY <1>4, <1>5, RequestKeepsPlans DEF Locks

LEMMA InsertKeepsPlans ==
    ASSUME PlanInv, NEW q \in Requests, InsertProposal(q)
    PROVE  /\ PlanInv' /\ UNCHANGED reminderVars
           /\ requests[q].pc = "checked" /\ requests[q].kind = "create" /\ End(q)
           /\ DOMAIN plans' = DOMAIN plans \cup {Len(plans) + 1}
           /\ Len(plans) + 1 \notin DOMAIN plans
           /\ \A k \in DOMAIN plans : plans'[k] = plans[k]
           /\ plans'[Len(plans) + 1].status = "PENDING_REVIEW"
<1>1. /\ AgendaTypeOK /\ ReminderTypeOK
      /\ plans \in Seq(PlanRecords) /\ requests \in [Requests -> RequestRecords]
      /\ requests[q] \in RequestRecords
      /\ RequestIsSound(requests[q])
      /\ UNCHANGED <<clock, rows, schedules, passes, edits, failures, resumed, overtaken>>
  BY DEF PlanInv, AgendaTypeOK, InsertProposal, reminderVars
<1>2. PICK d \in requests[q].drafts :
        plans' = Append(plans,
           [ target |-> d.target, conflict |-> d.conflict, from |-> d.from, to |-> d.to,
             status |-> "PENDING_REVIEW", expires |-> requests[q].now + ReviewWindow,
             applied |-> 0 ])
  BY DEF InsertProposal
<1>3. /\ requests[q].pc = "checked" /\ requests[q].kind = "create"
      /\ requests' = [requests EXCEPT ![q] = NoRequest]
  BY DEF InsertProposal, End
<1> DEFINE plan == [ target |-> d.target, conflict |-> d.conflict, from |-> d.from, to |-> d.to,
                     status |-> "PENDING_REVIEW", expires |-> requests[q].now + ReviewWindow,
                     applied |-> 0 ]
           n == Len(plans) + 1
<1>4. /\ plan \in PlanRecords /\ plan.status = "PENDING_REVIEW"
      /\ plan.target \in DOMAIN rows
  BY <1>1, <1>3, AgendaAssumption
     DEF RequestRecords, Drafts, PlanRecords, PlanStatuses, RequestIsSound
<1>5. plans' = Append(plans, plan)
  BY <1>2
<1> HIDE DEF plan
<1>6. /\ plans' \in Seq(PlanRecords)
      /\ DOMAIN plans' = DOMAIN plans \cup {n} /\ n \notin DOMAIN plans
      /\ \A k \in DOMAIN plans : plans'[k] = plans[k]
      /\ plans'[n] = plan
  <2>1. /\ plans' \in Seq(PlanRecords) /\ Len(plans') = n
        /\ \A k \in 1..Len(plans) : plans'[k] = plans[k]
        /\ plans'[n] = plan
    BY <1>1, <1>4, <1>5, AppendProperties
  <2>2. DOMAIN plans = 1..Len(plans) /\ DOMAIN plans' = 1..Len(plans') /\ Len(plans) \in Nat
    BY <1>1, <2>1, LenProperties
  <2> QED
    BY <2>1, <2>2
<1> HIDE DEF n
<1>7. ReminderTypeOK' /\ ScheduleInv' /\ OverdueInv'
  BY <1>1 DEF PlanInv, ReminderTypeOK, ScheduleInv, PassInv, BatchesAreDue, BatchesAreDisjoint,
     EditsHaveSchedules, NextIsAhead, RowInv, NextIsNew, OccurrencesHaveSchedules, DatesStay,
     OccurrenceOnce, NoFlood, OverdueInv, Recurring
<1>8. AgendaTypeOK'
  BY <1>1, <1>3, <1>6, <1>7, EndIsSound DEF AgendaTypeOK, NoRequestIsSound
<1>9. \A k \in DOMAIN plans' : PlanIsSound(k)'
  BY <1>1, <1>4, <1>6 DEF PlanInv, PlanIsSound, Settled, Recurring
<1>10. \A p \in Requests : RequestIsSound(requests[p])'
  <2> SUFFICES ASSUME NEW p \in Requests
               PROVE  RequestIsSound(requests[p])'
    OBVIOUS
  <2>1. requests'[p] = NoRequest \/ requests'[p] = requests[p]
    BY <1>1, <1>3
  <2>2. RequestIsSound(requests[p])
    BY DEF PlanInv
  <2>3. CASE requests'[p] = NoRequest
    BY <2>3 DEF RequestIsSound, NoRequest
  <2>4. CASE requests'[p] = requests[p]
    BY <1>1, <1>6, <2>2, <2>4 DEF RequestIsSound, Recurring
  <2> QED
    BY <2>1, <2>3, <2>4
<1>11. PlanInv'
  BY <1>7, <1>8, <1>9, <1>10 DEF PlanInv
<1> QED
  BY <1>3, <1>4, <1>6, <1>11 DEF InsertProposal, n

LEMMA ReviewKeepsPlans ==
    ASSUME PlanInv, NEW k \in DOMAIN plans, NEW status \in {"APPROVED", "REJECTED"},
           Review(k, status)
    PROVE  /\ PlanInv' /\ UNCHANGED <<reminderVars, requests>>
           /\ DOMAIN plans' = DOMAIN plans
           /\ \A m \in DOMAIN plans \ {k} : plans'[m] = plans[m]
           /\ plans[k].status = "PENDING_REVIEW"
           /\ plans'[k] = [plans[k] EXCEPT !.status = status]
           /\ plans'[k].status = status /\ plans'[k].target = plans[k].target
<1>1. /\ AgendaTypeOK /\ ReminderTypeOK
      /\ plans \in Seq(PlanRecords) /\ plans[k] \in PlanRecords
      /\ UNCHANGED <<clock, rows, schedules, passes, edits, failures, resumed, overtaken>>
      /\ requests' = requests
      /\ plans[k].status = "PENDING_REVIEW"
  BY PlansTyped DEF PlanInv, AgendaTypeOK, Review, reminderVars
<1> DEFINE plan == [plans[k] EXCEPT !.status = status]
<1>2. plan \in PlanRecords /\ plan.status = status /\ plan.target = plans[k].target
  BY <1>1 DEF PlanRecords, PlanStatuses
<1>3. plans' = [plans EXCEPT ![k] = plan]
  BY DEF Review
<1> HIDE DEF plan
<1>4. /\ plans' \in Seq(PlanRecords) /\ DOMAIN plans' = DOMAIN plans
      /\ \A m \in DOMAIN plans \ {k} : plans'[m] = plans[m]
      /\ plans'[k] = plan
  BY <1>1, <1>2, <1>3
<1>5. ReminderTypeOK' /\ ScheduleInv' /\ OverdueInv'
  BY <1>1 DEF PlanInv, ReminderTypeOK, ScheduleInv, PassInv, BatchesAreDue, BatchesAreDisjoint,
     EditsHaveSchedules, NextIsAhead, RowInv, NextIsNew, OccurrencesHaveSchedules, DatesStay,
     OccurrenceOnce, NoFlood, OverdueInv, Recurring
<1>6. AgendaTypeOK'
  BY <1>1, <1>4, <1>5 DEF AgendaTypeOK
<1>7. \A m \in DOMAIN plans : PlanIsSound(m)'
  BY <1>1, <1>2, <1>4 DEF PlanInv, PlanIsSound, Settled, Recurring
<1>8. \A m \in DOMAIN plans :
        /\ plans'[m].target = plans[m].target
        /\ plans[m].status \in Settled => plans'[m].status \in Settled
  BY <1>1, <1>2, <1>4 DEF Settled
<1>9. \A p \in Requests : RequestIsSound(requests[p])'
  <2> SUFFICES ASSUME NEW p \in Requests
               PROVE  RequestIsSound(requests[p])'
    OBVIOUS
  <2>1. RequestIsSound(requests[p])
    BY DEF PlanInv
  <2> QED
    BY <1>1, <1>4, <1>8, <2>1 DEF RequestIsSound, Recurring
<1>10. PlanInv'
  BY <1>4, <1>5, <1>6, <1>7, <1>9 DEF PlanInv
<1> QED
  BY <1>1, <1>2, <1>4, <1>10 DEF Review, plan

LEMMA PlanInvPreserved ==
    ASSUME PlanInv, [AgendaNext]_vars
    PROVE  PlanInv'
<1>1. ASSUME NEW q \in Requests, Waits(q)
      PROVE  PlanInv'
  BY <1>1, RequestKeepsPlans DEF Waits
<1> QED
  BY <1>1, StepsAreOfKinds, RemindersKeepPlans, LocksKeepPlans, InsertKeepsPlans,
     SettlesKeepsPlans, ReviewKeepsPlans DEF StepKinds

LEMMA PlanInvStarts == AgendaInit => PlanInv
<1> SUFFICES ASSUME AgendaInit
             PROVE  PlanInv
  OBVIOUS
<1>1. ScheduleInv
  BY ScheduleInvStarts DEF AgendaInit
<1>2. rows = << >> /\ clock = 0 /\ plans = << >> /\ requests = [q \in Requests |-> NoRequest]
  BY DEF AgendaInit, ReminderInit
<1>3. DOMAIN rows = {} /\ DOMAIN plans = {} /\ plans \in Seq(PlanRecords)
  BY <1>2
<1>4. OverdueInv
  BY <1>2, <1>3 DEF OverdueInv, AgendaInit, ReminderInit, NoPass
<1>5. AgendaTypeOK
  BY <1>1, <1>2, <1>3, EndIsSound DEF AgendaTypeOK, ScheduleInv, NoRequestIsSound
<1>6. \A q \in Requests : RequestIsSound(requests[q])
  BY <1>2, EndIsSound DEF NoRequestIsSound
<1> QED
  BY <1>1, <1>3, <1>4, <1>5, <1>6 DEF PlanInv

LEMMA PlanInvHolds == AgendaSpec => []PlanInv
BY PlanInvStarts, PlanInvPreserved, PTL DEF AgendaSpec

----------------------------------------------------------------------------
(* The theorems about plans *)

\* The fields of plans and of the requests about them keep their types
\* (integrations/agenda-planning.ts, the routes of agenda proposals).
THEOREM AgendaTypeCorrect == AgendaSpec => []AgendaTypeOK
<1>1. PlanInv => AgendaTypeOK
  BY DEF PlanInv
<1> QED
  BY <1>1, PlanInvHolds, PTL

\* No plan moves an occurrence of a schedule, whatever was drafted when and applied later
\* (draftAgendaPlan, validateInternalApplication).
THEOREM OccurrencesAreNotMoved == AgendaSpec => []OccurrencesStay
<1>1. PlanInv => OccurrencesStay
  BY DEF PlanInv, ScheduleInv, RowInv, DatesStay, OccurrencesStay, Recurring
<1> QED
  BY <1>1, PlanInvHolds, PTL

\* What recurring schedules promise holds while plans move reminders: no occurrence twice,
\* and none for the dates an outage missed (PostgresRecurrenceRepository.generateDue).
THEOREM SchedulesKeepTheirPromise == AgendaSpec => [](OccurrenceOnce /\ NoFlood)
<1>1. PlanInv => OccurrenceOnce /\ NoFlood
  BY DEF PlanInv, ScheduleInv, RowInv
<1> QED
  BY <1>1, PlanInvHolds, PTL

\* A transaction moves a reminder only if it is still pending, and leaves it so
\* (applyInternalReminder, undoInternalReminder).
THEOREM MovedRowsArePending == AgendaSpec => OnlyPendingRowsMove
<1> DEFINE Step == \A i \in DOMAIN rows :
                     rows'[i].due # rows[i].due =>
                       rows[i].status = "PENDING" /\ rows'[i].status = "PENDING"
<1>1. PlanInv /\ [AgendaNext]_vars => [Step]_vars
  <2> SUFFICES ASSUME PlanInv, [AgendaNext]_vars
               PROVE  Step
    OBVIOUS
  <2>1. CASE [ReminderStep(Held)]_reminderVars /\ UNCHANGED agendaVars
    BY <2>1, RemindersKeepPlans DEF RowsKept
  <2>2. CASE rows' = rows
    BY <2>2
  <2>3. ASSUME NEW q \in Requests, Settles(q)
        PROVE  Step
    <3> DEFINE i == plans[requests[q].plan].target
    <3>1. /\ i \in DOMAIN rows /\ ~Recurring(i) /\ ScheduleInv /\ OverdueInv
          /\ requests[q].plan \in DOMAIN plans
      BY <2>3, SettlesKeepsPlans DEF PlanInv
    <3>2. Destination(requests[q]) \in Nat
      BY <3>1, OutcomesTyped, RequestsTyped DEF PlanInv
    <3>3. rows[i].status = "PENDING" /\ Move(i, Destination(requests[q]))
      BY <2>3 DEF Settles, Untouched
    <3>4. /\ \A j \in DOMAIN rows : rows'[j].status = rows[j].status
          /\ \A j \in DOMAIN rows \ {i} : rows'[j] = rows[j]
      BY <3>1, <3>2, <3>3, MoveKeepsSchedules
    <3> QED
      BY <3>1, <3>3, <3>4
  <2> QED
    BY <2>1, <2>2, <2>3, StepsAreOfKinds
       DEF StepKinds, Waits, Locks, InsertProposal, Review, reminderVars
<1> QED
  BY <1>1, PlanInvHolds, PTL DEF AgendaSpec, OnlyPendingRowsMove

----------------------------------------------------------------------------
(* The quota *)

Creating == InTransaction({"create"})

Waiting == Pending(clock)

\* One request at most is about to insert a plan, and there is room for it.
QuotaInv ==
    /\ PlanInv
    /\ \A p, q \in Creating : p = q
    /\ Creating # {} => Cardinality(Waiting) < Quota
    /\ QuotaHolds

LEMMA PlansAreFinite ==
    ASSUME AgendaTypeOK, NEW S \in SUBSET DOMAIN plans
    PROVE  IsFiniteSet(S) /\ Cardinality(S) \in Nat
<1>1. DOMAIN plans = 1..Len(plans) /\ Len(plans) \in Nat
  BY LenProperties DEF AgendaTypeOK
<1>2. IsFiniteSet(DOMAIN plans)
  BY <1>1, FS_Interval
<1> QED
  BY <1>2, FS_Subset, FS_CardinalityType

LEMMA PendingTyped ==
    ASSUME AgendaTypeOK, NEW at
    PROVE  Pending(at) \in SUBSET DOMAIN plans
BY DEF Pending

\* Steps that insert no plan and let no request go on to insert one.
LEMMA QuotaKept ==
    ASSUME QuotaInv, PlanInv', Waiting' \subseteq Waiting, Creating' \subseteq Creating
    PROVE  QuotaInv'
<1>1. IsFiniteSet(Waiting) /\ Cardinality(Waiting) \in Nat
  BY PlansAreFinite, PendingTyped DEF QuotaInv, PlanInv, Waiting
<1>2. Cardinality(Waiting') \in Nat /\ Cardinality(Waiting') <= Cardinality(Waiting)
  BY <1>1, FS_Subset, FS_CardinalityType
<1>3. Cardinality(Waiting') <= Quota
  BY <1>1, <1>2, AgendaAssumption DEF QuotaInv, QuotaHolds, Waiting
<1>4. Creating' # {} => Cardinality(Waiting') < Quota
  BY <1>1, <1>2, AgendaAssumption DEF QuotaInv
<1>5. \A p, q \in Creating' : p = q
  BY DEF QuotaInv
<1> QED
  BY <1>3, <1>4, <1>5 DEF QuotaInv, QuotaHolds, Waiting

LEMMA QuotaInvPreserved ==
    ASSUME QuotaInv, [AgendaNext]_vars
    PROVE  QuotaInv'
<1>0. /\ PlanInv /\ PlanInv' /\ AgendaTypeOK
      /\ clock \in Nat
      /\ requests \in [Requests -> RequestRecords]
      /\ Quota \in Nat
  <2>1. PlanInv /\ PlanInv' /\ AgendaTypeOK /\ ReminderTypeOK
    BY PlanInvPreserved DEF QuotaInv, PlanInv, AgendaTypeOK
  <2> QED
    BY <2>1, ReminderBoundsAssumption, AgendaAssumption DEF AgendaTypeOK, ReminderTypeOK
<1>1. CASE [ReminderStep(Held)]_reminderVars /\ UNCHANGED agendaVars
  <2>1. plans' = plans /\ requests' = requests /\ clock' >= clock /\ clock' \in Nat
    BY <1>0, <1>1, RemindersKeepPlans, ReminderBoundsAssumption
       DEF agendaVars, RowsKept, PlanInv, AgendaTypeOK, ReminderTypeOK
  <2>2. \A k \in DOMAIN plans : plans[k].expires \in Nat
    BY <1>0, PlansTyped
  <2>3. Waiting' \subseteq Waiting
    BY <1>0, <2>1, <2>2 DEF Waiting, Pending
  <2>4. Creating' = Creating
    BY <2>1 DEF Creating, InTransaction
  <2> QED
    BY <1>0, <2>3, <2>4, QuotaKept
<1>2. ASSUME NEW q \in Requests, Waits(q)
      PROVE  QuotaInv'
  <2>1. Waiting' = Waiting
    BY <1>2 DEF Waits, reminderVars, Waiting, Pending
  <2>2. Creating' \subseteq Creating
    BY <1>0, <1>2 DEF Waits, Creating, InTransaction
  <2> QED
    BY <1>0, <2>1, <2>2, QuotaKept
<1>3. ASSUME NEW q \in Requests, Locks(q)
      PROVE  QuotaInv'
  <2>1. Waiting' = Waiting
    BY <1>3 DEF Locks, reminderVars, Waiting, Pending
  <2>2. PICK began \in BeginDates(q) : Permits(requests[q], began) /\ Locked(q, began)
    BY <1>3 DEF Locks
  <2>3. /\ \A p \in Requests \ {q} : requests'[p] = requests[p]
        /\ requests'[q].kind = requests[q].kind
    BY <1>0, <2>2 DEF Locked, RequestRecords
  <2>4. CASE requests[q].kind = "create"
    <3>1. Creating = {} /\ Cardinality(Pending(began)) < Quota
      BY <2>2, <2>4 DEF Permits, QuotaLockFree, Creating
    <3>2. Creating' \subseteq {q}
      BY <2>3, <3>1 DEF Creating, InTransaction
    <3>3. began \in Nat /\ began <= clock
      <4>1. requests[q].began \in Nat
        BY <1>0, RequestsTyped
      <4> QED
        BY <1>0, <2>2, <4>1 DEF BeginDates
    <3>4. Waiting \subseteq Pending(began)
      <4>1. \A k \in DOMAIN plans : plans[k].expires \in Nat
        BY <1>0, PlansTyped
      <4> QED
        BY <1>0, <3>3, <4>1 DEF Waiting, Pending
    <3>5. /\ IsFiniteSet(Pending(began)) /\ Cardinality(Pending(began)) \in Nat
          /\ Cardinality(Waiting) \in Nat
      BY <1>0, PlansAreFinite, PendingTyped DEF Waiting
    <3>6. Cardinality(Waiting) <= Cardinality(Pending(began))
      BY <3>4, <3>5, FS_Subset
    <3>7. Cardinality(Waiting') < Quota /\ Cardinality(Waiting') <= Quota
      BY <1>0, <2>1, <3>1, <3>5, <3>6
    <3> QED
      BY <1>0, <3>2, <3>7 DEF QuotaInv, QuotaHolds, Waiting
  <2>5. CASE requests[q].kind # "create"
    <3>1. Creating' \subseteq Creating
      BY <2>3, <2>5 DEF Creating, InTransaction
    <3> QED
      BY <1>0, <2>1, <3>1, QuotaKept
  <2> QED
    BY <2>4, <2>5
<1>4. ASSUME NEW q \in Requests, InsertProposal(q)
      PROVE  QuotaInv'
  <2> DEFINE n == Len(plans) + 1
  <2>1. /\ clock' = clock
        /\ requests[q].pc = "checked" /\ requests[q].kind = "create"
        /\ requests' = [requests EXCEPT ![q] = NoRequest]
        /\ DOMAIN plans' = DOMAIN plans \cup {n}
        /\ \A k \in DOMAIN plans : plans'[k] = plans[k]
    BY <1>0, <1>4, InsertKeepsPlans DEF reminderVars, End
  <2> HIDE DEF n
  <2>2. q \in Creating /\ Cardinality(Waiting) < Quota
    BY <2>1 DEF QuotaInv, Creating, InTransaction
  <2>3. Creating' = {}
    <3>1. requests'[q].pc = "idle" /\ \A p \in Requests \ {q} : requests'[p] = requests[p]
      BY <1>0, <2>1 DEF NoRequest
    <3>2. \A p \in Creating' : p \in Creating /\ p # q
      BY <3>1 DEF Creating, InTransaction
    <3> QED
      BY <2>2, <3>2 DEF QuotaInv
  <2>4. Waiting' \subseteq Waiting \cup {n}
    BY <2>1 DEF Waiting, Pending
  <2>5. IsFiniteSet(Waiting) /\ Cardinality(Waiting) \in Nat
    BY <1>0, PlansAreFinite, PendingTyped DEF Waiting
  <2>6. /\ IsFiniteSet(Waiting \cup {n})
        /\ Cardinality(Waiting \cup {n}) \in Nat
        /\ Cardinality(Waiting \cup {n}) <= Cardinality(Waiting) + 1
    BY <2>5, FS_AddElement, FS_CardinalityType
  <2>7. /\ Cardinality(Waiting') \in Nat
        /\ Cardinality(Waiting') <= Cardinality(Waiting \cup {n})
    BY <2>4, <2>6, FS_Subset, FS_CardinalityType
  <2>8. Cardinality(Waiting') <= Quota
    BY <1>0, <2>2, <2>5, <2>6, <2>7
  <2> QED
    BY <1>0, <2>3, <2>8 DEF QuotaInv, QuotaHolds, Waiting
<1>5. ASSUME NEW q \in Requests, Settles(q)
      PROVE  QuotaInv'
  <2> DEFINE k == requests[q].plan
  <2>1. /\ k \in DOMAIN plans /\ plans' = [plans EXCEPT ![k] = Outcome(requests[q])]
        /\ requests' = [requests EXCEPT ![q] = NoRequest]
        /\ clock' = clock
    BY <1>0, <1>5, SettlesKeepsPlans DEF Settles, Move, End
  <2>2. Outcome(requests[q]).status \in Settled
    BY <1>0, <2>1, OutcomesTyped DEF Settled
  <2>3. Waiting' \subseteq Waiting
    BY <2>1, <2>2 DEF Waiting, Pending, Settled
  <2>4. Creating' \subseteq Creating
    BY <1>0, <2>1 DEF Creating, InTransaction, NoRequest
  <2> QED
    BY <1>0, <2>3, <2>4, QuotaKept
<1>6. ASSUME NEW k \in DOMAIN plans, NEW status \in {"APPROVED", "REJECTED"}, Review(k, status)
      PROVE  QuotaInv'
  <2>1. /\ clock' = clock /\ requests' = requests /\ DOMAIN plans' = DOMAIN plans
        /\ \A m \in DOMAIN plans \ {k} : plans'[m] = plans[m]
        /\ plans'[k].status = status
    BY <1>0, <1>6, ReviewKeepsPlans DEF reminderVars
  <2>2. Waiting' \subseteq Waiting /\ Creating' = Creating
    BY <2>1 DEF Waiting, Pending, Creating, InTransaction
  <2> QED
    BY <1>0, <2>2, QuotaKept
<1> QED
  BY <1>0, <1>1, <1>2, <1>3, <1>4, <1>5, <1>6, StepsAreOfKinds DEF StepKinds

\* However many requests create proposals at once, those that wait for review are no more
\* than the quota (PostgresAgendaProposalStore.create).
THEOREM QuotaIsKept == AgendaSpec => []QuotaHolds
<1>1. AgendaInit => QuotaInv
  <2> SUFFICES ASSUME AgendaInit
               PROVE  QuotaInv
    OBVIOUS
  <2>1. PlanInv
    BY PlanInvStarts
  <2>2. Creating = {}
    BY DEF AgendaInit, Creating, InTransaction, NoRequest
  <2>3. Waiting = {}
    BY DEF AgendaInit, Waiting, Pending
  <2>4. Cardinality(Waiting) = 0
    BY <2>3, FS_EmptySet
  <2> QED
    BY <2>1, <2>2, <2>4, AgendaAssumption DEF QuotaInv, QuotaHolds, Waiting
<1>2. QuotaInv => QuotaHolds
  BY DEF QuotaInv
<1> QED
  BY <1>1, <1>2, QuotaInvPreserved, PTL DEF AgendaSpec

----------------------------------------------------------------------------
(* Reminders that plans move stay apart *)

Moving == InTransaction({"apply", "undo"})

\* The reminders that plans have moved, and the move a request is about to make.
MovedRows == {plans[k].target : k \in {p \in DOMAIN plans : plans[p].status \in Settled}}

Aim(q) == [target |-> plans[requests[q].plan].target, to |-> Destination(requests[q])]

\* No other reminder that was moved, and is open, falls on the instant of the move.
Clear(aim) ==
    \A j \in MovedRows : j # aim.target /\ rows[j].status \in Open => rows[j].due # aim.to

Apart ==
    \A i, j \in MovedRows :
        i # j /\ rows[i].status \in Open /\ rows[j].status \in Open => rows[i].due # rows[j].due

\* One request at most is about to move a reminder, and where it moves it to is clear.
ApartInv ==
    /\ PlanInv
    /\ \A p, q \in Moving : p = q
    /\ \A q \in Moving : Clear(Aim(q))
    /\ Apart

\* Steps that move no reminder and let no request go on to move one.
LEMMA ApartKept ==
    ASSUME ApartInv, PlanInv', MovedRows' = MovedRows,
           \A j \in MovedRows : /\ rows'[j].due = rows[j].due
                                /\ rows'[j].status \in Open => rows[j].status \in Open,
           \A p \in Moving' : p \in Moving /\ Aim(p)' = Aim(p)
    PROVE  ApartInv'
<1>1. Apart'
  BY DEF ApartInv, Apart
<1>2. \A p, q \in Moving' : p = q
  BY DEF ApartInv
<1>3. \A q \in Moving' : Clear(Aim(q))'
  BY DEF ApartInv, Clear
<1> QED
  BY <1>1, <1>2, <1>3 DEF ApartInv

LEMMA ApartInvPreserved ==
    ASSUME ApartInv, [AgendaNext]_vars
    PROVE  ApartInv'
<1>0. /\ PlanInv /\ PlanInv' /\ AgendaTypeOK
      /\ requests \in [Requests -> RequestRecords]
      /\ \A p \in Moving : requests[p].plan \in DOMAIN plans
      /\ MovedRows \subseteq DOMAIN rows
  <2>1. PlanInv /\ PlanInv' /\ AgendaTypeOK
    BY PlanInvPreserved DEF ApartInv, PlanInv
  <2>2. \A p \in Moving : requests[p].plan \in DOMAIN plans
    BY <2>1 DEF PlanInv, RequestIsSound, Moving, InTransaction
  <2> QED
    BY <2>1, <2>2 DEF AgendaTypeOK, PlanInv, PlanIsSound, MovedRows
<1>1. CASE [ReminderStep(Held)]_reminderVars /\ UNCHANGED agendaVars
  <2>1. plans' = plans /\ requests' = requests /\ RowsKept
    BY <1>0, <1>1, RemindersKeepPlans DEF agendaVars
  <2>2. MovedRows' = MovedRows /\ Moving' = Moving /\ \A p \in Moving : Aim(p)' = Aim(p)
    BY <2>1 DEF MovedRows, Moving, InTransaction, Aim, Destination
  <2> QED
    BY <1>0, <2>1, <2>2, ApartKept DEF RowsKept
<1>2. ASSUME NEW q \in Requests, Waits(q)
      PROVE  ApartInv'
  <2>1. rows' = rows /\ plans' = plans
    BY <1>2 DEF Waits, reminderVars
  <2>2. \A p \in Moving' : p \in Moving /\ requests'[p] = requests[p]
    BY <1>0, <1>2 DEF Waits, Moving, InTransaction
  <2>3. \A p \in Moving' : Aim(p)' = Aim(p)
    BY <2>1, <2>2 DEF Aim, Destination
  <2>4. MovedRows' = MovedRows
    BY <2>1 DEF MovedRows
  <2> QED
    BY <1>0, <2>1, <2>2, <2>3, <2>4, ApartKept
<1>3. ASSUME NEW q \in Requests, Locks(q)
      PROVE  ApartInv'
  <2>1. rows' = rows /\ plans' = plans /\ MovedRows' = MovedRows
    BY <1>3 DEF Locks, reminderVars, MovedRows
  <2>2. PICK began \in BeginDates(q) : Permits(requests[q], began) /\ Locked(q, began)
    BY <1>3 DEF Locks
  <2>3. /\ \A p \in Requests \ {q} : requests'[p] = requests[p]
        /\ requests'[q].kind = requests[q].kind /\ requests'[q].plan = requests[q].plan
    BY <1>0, <2>2 DEF Locked, RequestRecords
  <2>4. \A p \in Requests : Aim(p)' = Aim(p)
    BY <2>1, <2>3 DEF Aim, Destination
  <2>5. CASE requests[q].kind = "create"
    <3>1. \A p \in Moving' : p \in Moving
      BY <2>3, <2>5 DEF Moving, InTransaction
    <3>2. \A p \in Moving' : Aim(p)' = Aim(p)
      BY <2>4 DEF Moving, InTransaction
    <3> QED
      BY <1>0, <2>1, <3>1, <3>2, ApartKept
  <2>6. CASE requests[q].kind # "create"
    <3> DEFINE plan == plans[requests[q].plan]
    <3>1. /\ Moving = {}
          /\ ~OccupiedByRow(plan.target, Destination(requests[q]))
      BY <2>2, <2>6 DEF Permits, MoveLockFree, Moving, Applicable, Undoable, Movable, Destination
    <3>2. Moving' \subseteq {q}
      BY <2>3, <3>1 DEF Moving, InTransaction
    <3>3. requests[q].plan \in DOMAIN plans
      BY <1>0, <2>2, <2>6 DEF PlanInv, RequestIsSound, Permits
    <3>4. Destination(requests[q]) \in Nat
      BY <1>0, <3>3, OutcomesTyped
    <3>5. Clear(Aim(q))
      <4>1. Within(Destination(requests[q]), Destination(requests[q]), SlotLength)
        BY <3>4, AgendaAssumption DEF Within
      <4> QED
        BY <1>0, <3>1, <4>1 DEF Clear, Aim, OccupiedByRow
    <3>6. \A p \in Moving' : Clear(Aim(p))'
      BY <2>1, <2>4, <3>2, <3>5 DEF Clear
    <3>7. Apart'
      BY <2>1 DEF ApartInv, Apart
    <3> QED
      BY <1>0, <3>2, <3>6, <3>7 DEF ApartInv
  <2> QED
    BY <2>5, <2>6
<1>4. ASSUME NEW q \in Requests, InsertProposal(q)
      PROVE  ApartInv'
  <2> DEFINE n == Len(plans) + 1
  <2>1. /\ rows' = rows
        /\ requests[q].kind = "create"
        /\ requests' = [requests EXCEPT ![q] = NoRequest]
        /\ DOMAIN plans' = DOMAIN plans \cup {n} /\ n \notin DOMAIN plans
        /\ \A k \in DOMAIN plans : plans'[k] = plans[k]
        /\ plans'[n].status = "PENDING_REVIEW"
    BY <1>0, <1>4, InsertKeepsPlans DEF reminderVars, End
  <2> HIDE DEF n
  <2>2. MovedRows' = MovedRows
    <3>1. {p \in DOMAIN plans' : plans'[p].status \in Settled}
            = {p \in DOMAIN plans : plans[p].status \in Settled}
      BY <2>1 DEF Settled
    <3> QED
      BY <2>1, <3>1 DEF MovedRows
  <2>3. \A p \in Moving' : p \in Moving /\ requests'[p] = requests[p]
    BY <1>0, <2>1 DEF Moving, InTransaction, NoRequest
  <2>4. \A p \in Moving' : Aim(p)' = Aim(p)
    BY <1>0, <2>1, <2>3 DEF Aim, Destination
  <2> QED
    BY <1>0, <2>1, <2>2, <2>3, <2>4, ApartKept
<1>5. ASSUME NEW q \in Requests, Settles(q)
      PROVE  ApartInv'
  <2> DEFINE k == requests[q].plan
             i == plans[k].target
             to == Destination(requests[q])
  <2>1. /\ k \in DOMAIN plans /\ i \in DOMAIN rows /\ ~Recurring(i)
        /\ plans' = [plans EXCEPT ![k] = Outcome(requests[q])]
        /\ requests' = [requests EXCEPT ![q] = NoRequest]
        /\ Move(i, to) /\ q \in Moving
    BY <1>0, <1>5, SettlesKeepsPlans DEF Settles, End, Moving, InTransaction
  <2>2. /\ Outcome(requests[q]).status \in Settled /\ Outcome(requests[q]).target = i
        /\ to \in Nat
    BY <1>0, <2>1, OutcomesTyped DEF Settled
  <2>3. /\ rows'[i].due = to
        /\ \A j \in DOMAIN rows \ {i} : rows'[j] = rows[j]
    BY <1>0, <2>1, <2>2, MoveKeepsSchedules DEF PlanInv
  <2>4. \A j \in MovedRows : j # i /\ rows[j].status \in Open => rows[j].due # to
    BY <2>1 DEF ApartInv, Clear, Aim
  <2> HIDE DEF i, to
  <2>5. MovedRows' \subseteq MovedRows \cup {i}
    BY <2>1, <2>2 DEF MovedRows, i
  <2>6. \A a, b \in MovedRows' :
          a # b /\ rows'[a].status \in Open /\ rows'[b].status \in Open
            => rows'[a].due # rows'[b].due
    <3>1. \A j \in MovedRows : j # i => rows'[j] = rows[j]
      BY <1>0, <2>3
    <3> QED
      BY <2>3, <2>4, <2>5, <3>1 DEF ApartInv, Apart
  <2>7. Apart'
    BY <2>6 DEF Apart
  <2>8. Moving' = {}
    <3>1. \A p \in Moving' : p \in Moving /\ p # q
      BY <1>0, <2>1 DEF Moving, InTransaction, NoRequest
    <3> QED
      BY <2>1, <3>1 DEF ApartInv
  <2> QED
    BY <1>0, <2>7, <2>8 DEF ApartInv
<1>6. ASSUME NEW k \in DOMAIN plans, NEW status \in {"APPROVED", "REJECTED"}, Review(k, status)
      PROVE  ApartInv'
  <2>1. /\ rows' = rows /\ requests' = requests /\ DOMAIN plans' = DOMAIN plans
        /\ \A m \in DOMAIN plans \ {k} : plans'[m] = plans[m]
        /\ plans[k].status \notin Settled /\ plans'[k].status \notin Settled
        /\ plans'[k] = [plans[k] EXCEPT !.status = status]
        /\ plans[k] \in PlanRecords
    BY <1>0, <1>6, ReviewKeepsPlans, PlansTyped DEF reminderVars, Settled
  <2>2. \A m \in DOMAIN plans : /\ plans'[m].target = plans[m].target
                                /\ plans'[m].to = plans[m].to /\ plans'[m].from = plans[m].from
    BY <2>1 DEF PlanRecords
  <2>3. Moving' = Moving
    BY <2>1 DEF Moving, InTransaction
  <2>4. \A p \in Moving : Aim(p)' = Aim(p)
    BY <1>0, <2>1, <2>2 DEF Aim, Destination
  <2>5. MovedRows' = MovedRows
    <3>1. {p \in DOMAIN plans' : plans'[p].status \in Settled}
            = {p \in DOMAIN plans : plans[p].status \in Settled}
      BY <2>1
    <3> QED
      BY <2>1, <2>2, <3>1 DEF MovedRows
  <2> QED
    BY <1>0, <2>1, <2>3, <2>4, <2>5, ApartKept
<1> QED
  BY <1>0, <1>1, <1>2, <1>3, <1>4, <1>5, <1>6, StepsAreOfKinds DEF StepKinds

\* Two open reminders that plans have moved, or moved back, never fall on the same instant,
\* whatever requests apply and undo plans together (applyInternalReminder,
\* undoInternalReminder).
THEOREM MovedRowsStayApart == AgendaSpec => []PlacedApart
<1>1. AgendaInit => ApartInv
  <2> SUFFICES ASSUME AgendaInit
               PROVE  ApartInv
    OBVIOUS
  <2>1. PlanInv
    BY PlanInvStarts
  <2>2. Moving = {} /\ MovedRows = {}
    BY DEF AgendaInit, Moving, InTransaction, NoRequest, MovedRows
  <2> QED
    BY <2>1, <2>2 DEF ApartInv, Apart
<1>2. ApartInv => PlacedApart
  BY DEF ApartInv, Apart, MovedRows, Settled, PlacedApart
<1> QED
  BY <1>1, <1>2, ApartInvPreserved, PTL DEF AgendaSpec

----------------------------------------------------------------------------
(* Sums over finite sets *)

\* Induction over the subsets of a finite set: a family of them has a minimal member.
LEMMA MinimalMember ==
    ASSUME NEW S, IsFiniteSet(S), NEW F \in SUBSET SUBSET S, F # {}
    PROVE  \E T \in F : \A U \in F : U \subseteq T => U = T
<1> DEFINE R == StrictSubsetOrdering(S)
<1>1. IsWellFoundedOn(R, SUBSET S)
  BY FS_StrictSubsetOrderingWellFounded, FS_FiniteSubsetsOfFinite
<1>2. \E T \in F : \A U \in F : ~(<<U, T>> \in R)
  <2> HIDE DEF R
  <2> QED
    BY <1>1, WFMin
<1>3. PICK T \in F : \A U \in F : ~(<<U, T>> \in R)
  BY <1>2
<1> QED
  BY <1>3 DEF StrictSubsetOrdering

\* g gives the sum of f over every subset of S, in whatever order the terms are added.
Adds(g, f, S) ==
    /\ g \in [SUBSET S -> Int]
    /\ g[{}] = 0
    /\ \A T \in SUBSET S : \A x \in T : g[T] = f[x] + g[T \ {x}]

LEMMA AdditionExists ==
    ASSUME NEW S, IsFiniteSet(S), NEW f, \A x \in S : f[x] \in Int
    PROVE  \E g : Adds(g, f, S)
<1> DEFINE F == {T \in SUBSET S : ~ \E g : Adds(g, f, T)}
<1> SUFFICES ASSUME F # {}
             PROVE  FALSE
  OBVIOUS
<1>1. PICK T \in F : \A U \in F : U \subseteq T => U = T
  <2>1. F \in SUBSET SUBSET S
    OBVIOUS
  <2> HIDE DEF F
  <2> QED
    BY <2>1, MinimalMember
<1>2. CASE T = {}
  <2> DEFINE g == [U \in SUBSET T |-> 0]
  <2>1. Adds(g, f, T)
    BY <1>2 DEF Adds
  <2> HIDE DEF g
  <2> QED
    BY <1>1, <2>1
<1>3. CASE T # {}
  <2>1. PICK x \in T : TRUE
    BY <1>3
  <2> DEFINE V == T \ {x}
  <2>2. V \notin F /\ V \in SUBSET S
    BY <1>1, <2>1
  <2>3. PICK g : Adds(g, f, V)
    BY <2>2
  <2>4. f[x] \in Int
    BY <2>1
  <2> DEFINE h == [U \in SUBSET T |-> IF x \in U THEN f[x] + g[U \ {x}] ELSE g[U]]
  <2>5. \A U \in SUBSET T : /\ U \ {x} \in SUBSET V
                            /\ x \notin U => U \in SUBSET V
    OBVIOUS
  <2>6. h \in [SUBSET T -> Int]
    BY <2>3, <2>4, <2>5 DEF Adds
  <2>7. h[{}] = 0
    BY <2>3 DEF Adds
  <2>8. ASSUME NEW U \in SUBSET T, NEW y \in U
        PROVE  h[U] = f[y] + h[U \ {y}]
    <3>1. U \ {y} \in SUBSET T
      OBVIOUS
    <3>2. CASE y = x
      BY <3>1, <3>2
    <3>3. CASE y # x /\ x \notin U
      <4>1. g[U] = f[y] + g[U \ {y}]
        BY <2>3, <2>5, <3>3 DEF Adds
      <4> QED
        BY <3>1, <3>3, <4>1
    <3>4. CASE y # x /\ x \in U
      <4>1. U \ {x} \in SUBSET V /\ y \in U \ {x} /\ (U \ {x}) \ {y} \in SUBSET V
        BY <3>4
      <4>2. /\ g[U \ {x}] = f[y] + g[(U \ {x}) \ {y}]
            /\ g[(U \ {x}) \ {y}] \in Int
        BY <2>3, <4>1 DEF Adds
      <4>3. (U \ {x}) \ {y} = (U \ {y}) \ {x}
        OBVIOUS
      <4>4. f[y] \in Int
        BY <1>1
      <4>5. h[U] = f[x] + g[U \ {x}] /\ h[U \ {y}] = f[x] + g[(U \ {y}) \ {x}]
        BY <3>1, <3>4
      <4> DEFINE rest == g[(U \ {x}) \ {y}]
      <4>6. /\ rest \in Int
            /\ h[U] = f[x] + (f[y] + rest) /\ h[U \ {y}] = f[x] + rest
        BY <4>2, <4>3, <4>5
      <4> HIDE DEF h, rest
      <4> QED
        BY <2>4, <4>4, <4>6
    <3> QED
      BY <3>2, <3>3, <3>4
  <2>9. Adds(h, f, T)
    <3> HIDE DEF h
    <3> QED
      BY <2>6, <2>7, <2>8 DEF Adds
  <2> HIDE DEF h
  <2> QED
    BY <1>1, <2>9
<1> QED
  BY <1>2, <1>3

\* The function that SumFunctionOnSet computes with.
Picks(g, f, S) ==
    g = [T \in SUBSET S |->
           IF T = {} THEN 0
           ELSE f[CHOOSE x \in T : TRUE] + g[T \ {CHOOSE x \in T : TRUE}]]

LEMMA SumIsAddition ==
    ASSUME NEW S, IsFiniteSet(S), NEW f, NEW g, Adds(g, f, S)
    PROVE  SumFunctionOnSet(f, S) = g[S] /\ g[S] \in Int
<1> DEFINE h == CHOOSE p : Picks(p, f, S)
<1>1. SumFunctionOnSet(f, S) = h[S]
  BY DEF SumFunctionOnSet, FoldFunctionOnSet, MapThenFoldSet, Picks
<1>2. \A T \in SUBSET S : T # {} => (CHOOSE x \in T : TRUE) \in T
  OBVIOUS
<1>3. Picks(g, f, S)
  BY <1>2 DEF Adds, Picks
<1>4. Picks(h, f, S)
  BY <1>3
<1> HIDE DEF h
<1> DEFINE F == {T \in SUBSET S : h[T] # g[T]}
<1>5. F = {}
  <2> SUFFICES ASSUME F # {}
               PROVE  FALSE
    OBVIOUS
  <2>1. PICK T \in F : \A U \in F : U \subseteq T => U = T
    <3>1. F \in SUBSET SUBSET S
      OBVIOUS
    <3> HIDE DEF F
    <3> QED
      BY <3>1, MinimalMember
  <2>2. T # {}
    BY <1>3, <1>4, <2>1 DEF Picks
  <2> DEFINE x == CHOOSE y \in T : TRUE
  <2>3. x \in T
    BY <2>2
  <2>4. h[T] = f[x] + h[T \ {x}] /\ g[T] = f[x] + g[T \ {x}]
    BY <1>3, <1>4, <2>1, <2>2 DEF Picks
  <2> HIDE DEF x
  <2>5. h[T \ {x}] = g[T \ {x}]
    BY <2>1, <2>3
  <2> QED
    BY <2>1, <2>4, <2>5
<1> QED
  BY <1>1, <1>5 DEF Adds

\* The three facts about sums that a ledger needs.
LEMMA SumOfNothing ==
    ASSUME NEW f
    PROVE  SumFunctionOnSet(f, {}) = 0
<1>1. IsFiniteSet({})
  BY FS_EmptySet
<1>2. PICK g : Adds(g, f, {})
  BY <1>1, AdditionExists
<1> QED
  BY <1>1, <1>2, SumIsAddition DEF Adds

LEMMA SumWithOneMore ==
    ASSUME NEW S, IsFiniteSet(S), NEW f, NEW x, x \notin S, f[x] \in Int,
           \A y \in S : f[y] \in Int
    PROVE  /\ SumFunctionOnSet(f, S) \in Int
           /\ SumFunctionOnSet(f, S \cup {x}) = f[x] + SumFunctionOnSet(f, S)
<1> DEFINE T == S \cup {x}
<1>1. IsFiniteSet(T)
  BY FS_AddElement
<1>2. PICK g : Adds(g, f, T)
  BY <1>1, AdditionExists
<1> DEFINE h == [U \in SUBSET S |-> g[U]]
<1>3. Adds(h, f, S)
  <2>1. \A U \in SUBSET S : U \in SUBSET T /\ g[U] \in Int
    BY <1>2 DEF Adds
  <2>2. \A U \in SUBSET S : \A y \in U : h[U] = f[y] + h[U \ {y}]
    BY <1>2, <2>1 DEF Adds
  <2> QED
    BY <1>2, <2>1, <2>2 DEF Adds
<1>4. h[S] = g[S]
  OBVIOUS
<1>5. T \ {x} = S
  OBVIOUS
<1> HIDE DEF h, T
<1>6. SumFunctionOnSet(f, T) = g[T]
  BY <1>1, <1>2, SumIsAddition
<1>7. SumFunctionOnSet(f, S) = g[S] /\ g[S] \in Int
  BY <1>3, <1>4, SumIsAddition
<1>8. g[T] = f[x] + g[T \ {x}]
  BY <1>2 DEF Adds, T
<1> QED
  BY <1>5, <1>6, <1>7, <1>8 DEF T

LEMMA SumOfTheSame ==
    ASSUME NEW S, IsFiniteSet(S), NEW e, NEW f, \A x \in S : e[x] = f[x] /\ f[x] \in Int
    PROVE  SumFunctionOnSet(e, S) = SumFunctionOnSet(f, S)
<1>1. PICK g : Adds(g, f, S)
  BY AdditionExists
<1>2. Adds(g, e, S)
  BY <1>1 DEF Adds
<1> QED
  BY <1>1, <1>2, SumIsAddition

----------------------------------------------------------------------------
(* The history of moves accounts for the dates of reminders *)

Displacement == [k \in DOMAIN plans |-> plans[k].to - plans[k].from]

Standing(i) == {k \in DOMAIN plans : plans[k].target = i /\ plans[k].status = "APPLIED"}

Balances(i) == rows[i].due = rows[i].first + SumFunctionOnSet(Displacement, Standing(i))

LedgerInv == PlanInv /\ \A i \in DOMAIN rows : Balances(i)

LEMMA StandingTyped ==
    ASSUME AgendaTypeOK, NEW i
    PROVE  /\ IsFiniteSet(Standing(i)) /\ Standing(i) \subseteq DOMAIN plans
           /\ \A k \in DOMAIN plans : Displacement[k] \in Int
<1>1. Standing(i) \in SUBSET DOMAIN plans
  BY DEF Standing
<1>2. \A k \in DOMAIN plans : Displacement[k] \in Int
  BY PlansTyped DEF Displacement
<1> QED
  BY <1>1, <1>2, PlansAreFinite

\* The balance of a reminder stays while its dates and the plans that stand for it do.
LEMMA BalanceKept ==
    ASSUME LedgerInv, NEW i \in DOMAIN rows,
           rows'[i].due = rows[i].due, rows'[i].first = rows[i].first,
           Standing(i)' = Standing(i),
           \A k \in Standing(i) : k \in DOMAIN plans' /\ Displacement'[k] = Displacement[k]
    PROVE  Balances(i)'
<1>1. /\ IsFiniteSet(Standing(i))
      /\ \A k \in Standing(i) : Displacement[k] \in Int
  BY StandingTyped DEF LedgerInv, PlanInv
<1>2. SumFunctionOnSet(Displacement', Standing(i)) = SumFunctionOnSet(Displacement, Standing(i))
  BY <1>1, SumOfTheSame
<1> QED
  BY <1>2 DEF LedgerInv, Balances

LEMMA LedgerInvPreserved ==
    ASSUME LedgerInv, [AgendaNext]_vars
    PROVE  LedgerInv'
<1>0. /\ PlanInv /\ PlanInv' /\ AgendaTypeOK /\ ReminderTypeOK
      /\ \A k \in DOMAIN plans : plans[k].target \in DOMAIN rows
  BY PlanInvPreserved DEF LedgerInv, PlanInv, AgendaTypeOK, PlanIsSound
<1> SUFFICES \A i \in DOMAIN rows' : Balances(i)'
  BY <1>0 DEF LedgerInv
<1>1. CASE [ReminderStep(Held)]_reminderVars /\ UNCHANGED agendaVars
  <2>1. plans' = plans /\ RowsKept
    BY <1>0, <1>1, RemindersKeepPlans DEF agendaVars
  <2>2. Displacement' = Displacement /\ \A i : Standing(i)' = Standing(i)
    BY <2>1 DEF Displacement, Standing
  <2>3. \A k \in DOMAIN plans : k \in DOMAIN plans'
    BY <2>1
  <2>4. ASSUME NEW i \in DOMAIN rows
        PROVE  Balances(i)'
    <3>1. rows'[i].due = rows[i].due /\ rows'[i].first = rows[i].first
      BY <2>1 DEF RowsKept
    <3>2. Standing(i) \subseteq DOMAIN plans
      BY DEF Standing
    <3> QED
      BY <2>2, <2>3, <3>1, <3>2, BalanceKept
  <2>5. ASSUME NEW i \in DOMAIN rows' \ DOMAIN rows
        PROVE  Balances(i)'
    <3>1. Standing(i)' = {}
      BY <1>0, <2>1, <2>5 DEF Standing
    <3>2. SumFunctionOnSet(Displacement', Standing(i)') = 0
      BY <3>1, SumOfNothing
    <3>3. rows'[i].due = rows'[i].first
      BY <2>1 DEF RowsKept
    <3>4. rows'[i].first \in Nat
      <4>1. rows' \in Seq(Rows)
        BY <1>0 DEF PlanInv, AgendaTypeOK, ReminderTypeOK
      <4>2. rows'[i] \in Rows
        BY <4>1, ElementOfSeq, LenProperties
      <4> QED
        BY <4>2 DEF Rows
    <3> QED
      BY <3>2, <3>3, <3>4 DEF Balances
  <2> QED
    BY <2>4, <2>5
<1>2. ASSUME UNCHANGED <<rows, plans>>
      PROVE  \A i \in DOMAIN rows' : Balances(i)'
  BY <1>2 DEF LedgerInv, Balances, Displacement, Standing
<1>3. ASSUME NEW q \in Requests, InsertProposal(q)
      PROVE  \A i \in DOMAIN rows' : Balances(i)'
  <2> DEFINE n == Len(plans) + 1
  <2>1. /\ rows' = rows
        /\ DOMAIN plans' = DOMAIN plans \cup {n} /\ n \notin DOMAIN plans
        /\ \A k \in DOMAIN plans : plans'[k] = plans[k]
        /\ plans'[n].status = "PENDING_REVIEW"
    BY <1>0, <1>3, InsertKeepsPlans DEF reminderVars
  <2> HIDE DEF n
  <2>2. \A i \in DOMAIN rows : Standing(i)' = Standing(i) /\ Standing(i) \subseteq DOMAIN plans
    BY <2>1 DEF Standing
  <2>3. \A k \in DOMAIN plans : k \in DOMAIN plans' /\ Displacement'[k] = Displacement[k]
    BY <2>1 DEF Displacement
  <2>4. ASSUME NEW i \in DOMAIN rows
        PROVE  Balances(i)'
    BY <2>1, <2>2, <2>3, BalanceKept
  <2> QED
    BY <2>1, <2>4
<1>4. ASSUME NEW k \in DOMAIN plans, NEW status \in {"APPROVED", "REJECTED"}, Review(k, status)
      PROVE  \A i \in DOMAIN rows' : Balances(i)'
  <2>1. /\ rows' = rows /\ DOMAIN plans' = DOMAIN plans
        /\ \A m \in DOMAIN plans \ {k} : plans'[m] = plans[m]
        /\ plans[k].status # "APPLIED" /\ plans'[k].status # "APPLIED"
    BY <1>0, <1>4, ReviewKeepsPlans DEF reminderVars
  <2>2. \A i \in DOMAIN rows : Standing(i)' = Standing(i) /\ Standing(i) \subseteq DOMAIN plans \ {k}
    BY <2>1 DEF Standing
  <2>3. \A m \in DOMAIN plans \ {k} : m \in DOMAIN plans' /\ Displacement'[m] = Displacement[m]
    BY <2>1 DEF Displacement
  <2>4. ASSUME NEW i \in DOMAIN rows
        PROVE  Balances(i)'
    BY <2>1, <2>2, <2>3, BalanceKept
  <2> QED
    BY <2>1, <2>4
<1>5. ASSUME NEW q \in Requests, Settles(q)
      PROVE  \A i \in DOMAIN rows' : Balances(i)'
  <2>1. PICK h \in RequestRecords, k \in DOMAIN plans, i \in DOMAIN rows :
          /\ h.plan = k /\ plans[k].target = i /\ ~Recurring(i)
          /\ plans' = [plans EXCEPT ![k] = Outcome(h)]
          /\ Move(i, Destination(h))
          /\ rows[i].due = Origin(h)
          /\ plans[k].status = IF h.kind = "apply" THEN "APPROVED" ELSE "APPLIED"
    BY <1>0, <1>5, SettlesKeepsPlans, RequestsTyped DEF Settles, Untouched
  <2>2. /\ Destination(h) \in Nat /\ Origin(h) \in Nat
        /\ Outcome(h).target = i
        /\ Outcome(h).from = plans[k].from /\ Outcome(h).to = plans[k].to
        /\ Outcome(h).status = IF h.kind = "apply" THEN "APPLIED" ELSE "REVERTED"
        /\ plans[k].from \in Nat /\ plans[k].to \in Nat
    BY <1>0, <2>1, OutcomesTyped, PlansTyped
  <2>3. /\ DOMAIN rows' = DOMAIN rows
        /\ \A j \in DOMAIN rows \ {i} : rows'[j] = rows[j]
        /\ rows'[i].due = Destination(h)
    BY <1>0, <2>1, <2>2, MoveKeepsSchedules DEF PlanInv
  <2>4. rows'[i].first = rows[i].first /\ rows[i].first \in Nat
    <3>1. rows[i] \in Rows
      BY <1>0, <2>1, RowsTyped
    <3> QED
      BY <2>1, <3>1 DEF Move, Rows
  <2>5. DOMAIN plans' = DOMAIN plans /\ Displacement' = Displacement
    BY <2>1, <2>2 DEF Displacement
  <2>6. ASSUME NEW j \in DOMAIN rows \ {i}
        PROVE  Balances(j)'
    <3>1. Standing(j)' = Standing(j) /\ Standing(j) \subseteq DOMAIN plans
      BY <2>1, <2>2 DEF Standing
    <3> QED
      BY <2>3, <2>5, <3>1, BalanceKept
  <2>7. Balances(i)'
    <3> DEFINE others == Standing(i) \ {k}
               total == SumFunctionOnSet(Displacement, others)
               d == plans[k].to - plans[k].from
    <3>1. /\ IsFiniteSet(others) /\ k \notin others
          /\ Displacement[k] = d /\ d \in Int
          /\ \A m \in others : Displacement[m] \in Int
      <4>1. /\ IsFiniteSet(Standing(i)) /\ Standing(i) \subseteq DOMAIN plans
            /\ \A m \in DOMAIN plans : Displacement[m] \in Int
        BY <1>0, StandingTyped
      <4>2. IsFiniteSet(others)
        BY <4>1, FS_Subset
      <4> QED
        BY <2>1, <2>2, <4>1, <4>2 DEF Displacement
    <3>2. total \in Int /\ SumFunctionOnSet(Displacement, others \cup {k}) = d + total
      BY <3>1, SumWithOneMore
    <3>3. rows[i].due = rows[i].first + SumFunctionOnSet(Displacement, Standing(i))
      BY <2>1 DEF LedgerInv, Balances
    <3>4. CASE h.kind = "apply"
      <4>1. Standing(i) = others
        BY <2>1, <3>4 DEF Standing
      <4>2. Standing(i)' = others \cup {k}
        BY <2>1, <2>2, <3>4 DEF Standing
      <4>3. Origin(h) = plans[k].from /\ Destination(h) = plans[k].to
        BY <2>1, <3>4 DEF Origin, Destination
      <4>4. rows'[i].due = rows'[i].first + SumFunctionOnSet(Displacement', Standing(i)')
        <5>1. SumFunctionOnSet(Displacement', Standing(i)') = d + total
          BY <2>5, <3>2, <4>2
        <5>2. plans[k].from = rows[i].first + total
          BY <2>1, <3>3, <4>1, <4>3
        <5> HIDE DEF total, others
        <5> QED
          BY <2>2, <2>3, <2>4, <3>2, <4>3, <5>1, <5>2
      <4> QED
        BY <4>4 DEF Balances
    <3>5. CASE h.kind # "apply"
      <4>1. Standing(i) = others \cup {k}
        BY <2>1, <3>5 DEF Standing
      <4>2. Standing(i)' = others
        BY <2>1, <2>2, <3>5 DEF Standing
      <4>3. Origin(h) = plans[k].to /\ Destination(h) = plans[k].from
        BY <2>1, <3>5 DEF Origin, Destination
      <4>4. rows'[i].due = rows'[i].first + SumFunctionOnSet(Displacement', Standing(i)')
        <5>1. SumFunctionOnSet(Displacement', Standing(i)') = total
          BY <2>5, <4>2
        <5>2. plans[k].to = rows[i].first + (d + total)
          BY <2>1, <3>2, <3>3, <4>1, <4>3
        <5> HIDE DEF total, others
        <5> QED
          BY <2>2, <2>3, <2>4, <3>2, <4>3, <5>1, <5>2
      <4> QED
        BY <4>4 DEF Balances
    <3> QED
      BY <3>4, <3>5
  <2> QED
    BY <2>3, <2>6, <2>7
<1> QED
  BY <1>0, <1>1, <1>2, <1>3, <1>4, <1>5, StepsAreOfKinds
     DEF StepKinds, Waits, Locks, reminderVars

\* The date of every reminder is the one it was given at first plus the displacements of the
\* plans that stand as applied, however many requests apply and undo plans and wherever they
\* fail (applyInternalReminder, undoInternalReminder).
THEOREM LedgerIsKept == AgendaSpec => []LedgerBalances
<1>1. AgendaInit => LedgerInv
  BY PlanInvStarts DEF AgendaInit, ReminderInit, LedgerInv
<1>2. LedgerInv => LedgerBalances
  BY DEF LedgerInv, Balances, Displacement, Standing, LedgerBalances
<1> QED
  BY <1>1, <1>2, LedgerInvPreserved, PTL DEF AgendaSpec
=============================================================================
