---------------------------- MODULE MCReminders ----------------------------
(* Two processes, one schedule with an occurrence in every unit (a day, say) and one *)
(* reminder by hand; two requests pause, resume or cancel the schedule. *)
EXTENDS Reminders

CONSTANTS w1, w2, s1, e1, e2

MCWorkers == {w1, w2}
MCSchedules == {s1}
MCEvery == [s \in MCSchedules |-> 1]
MCPhase == [s \in MCSchedules |-> 1]
MCEditors == {e1, e2}
MCTimes == {0}
=============================================================================
