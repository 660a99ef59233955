------------------------------ MODULE MCAgenda ------------------------------
(* Two reminders by hand and one occurrence of a schedule, all within an event Google *)
(* may report; two requests at a time; one process marks what is due. *)
EXTENDS Agenda, TLC

CONSTANTS w1, s1, q1, q2

MCWorkers == {w1}
MCSchedules == {s1}
MCEvery == [s \in MCSchedules |-> 8]
MCPhase == [s \in MCSchedules |-> 2]
MCRequests == {q1, q2}
MCEvents == {[start |-> 2, end |-> 4]}
MCTimes == {2}
MCSlots == {4, 6}
Symmetry == Permutations(MCRequests)
=============================================================================
