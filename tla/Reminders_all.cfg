SPECIFICATION FairReminderSpec
CONSTANTS
  w1 = w1
  w2 = w2
  s1 = s1
  e1 = e1
  e2 = e2
  Workers <- MCWorkers
  Schedules <- MCSchedules
  Every <- MCEvery
  Phase <- MCPhase
  Editors <- MCEditors
  Margin = 0
  PassLimit = 1
  Times <- MCTimes
  MaxOneOff = 1
  MaxFailures = 1
  MaxTime = 2
INVARIANTS
  OccurrenceOnce
  NoFlood
PROPERTIES
  SkipsPausedTimes
  BacklogIsCleared
  SchedulesMoveOn
