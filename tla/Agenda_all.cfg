SPECIFICATION AgendaSpec
CONSTANTS
  w1 = w1
  s1 = s1
  q1 = q1
  q2 = q2
  Workers <- MCWorkers
  Schedules <- MCSchedules
  Every <- MCEvery
  Phase <- MCPhase
  Editors = {}
  Margin = 0
  PassLimit = 2
  Times <- MCTimes
  MaxOneOff = 2
  MaxFailures = 0
  MaxTime = 2
  Requests <- MCRequests
  Events <- MCEvents
  DayLength = 8
  Slots <- MCSlots
  SlotLength = 2
  ReviewWindow = 1
  UndoWindow = 2
  Quota = 1
  MaxPlans = 2
SYMMETRY Symmetry
INVARIANTS
  PlacedApart
  LedgerBalances
  OccurrencesStay
  QuotaHolds
PROPERTIES
  OnlyPendingRowsMove
