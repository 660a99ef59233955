SPECIFICATION FairSpec
CONSTANTS
  StepCount = 3
  Permissions = {}
  Definitions <- AllDefinitions
CHECK_DEADLOCK FALSE
INVARIANTS
  OneStepInFlight
  BranchesSettle
  RecoveryIsSupervised
PROPERTIES
  RunFinishes
