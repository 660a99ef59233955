SPECIFICATION Spec
CONSTANTS
  r1 = r1
  r2 = r2
  r3 = r3
  search = search
  pay = pay
  Actions <- MCActions
  HighRisk <- MCHighRisk
  Requests <- MCRequests
  MaxRounds = 2
  MaxReadable = 3
  MaxSteps = 2
  PatientOperators = FALSE
SYMMETRY Symmetry
CHECK_DEADLOCK FALSE
INVARIANTS
  CallsAreApproved
  BlockedTaskIsReconcilable
  CompletedTaskIsDone
PROPERTIES
  NoBlindReplayAlone
  FinalTaskIsFrozen
  CompletedIsNotRepeated
