SPECIFICATION Spec
CONSTANTS
  r1 = r1
  r2 = r2
  r3 = r3
  search = search
  pay = pay
  Actions <- MCActions
  HighRisk <- MCHighRisk
  Requests <- MCRequests
  MaxRounds = 2
  MaxReadable = 2
  MaxSteps = 3
  PatientOperators = FALSE
SYMMETRY Symmetry
CHECK_DEADLOCK FALSE
INVARIANTS
  SavedTaskIsReadable
