SPECIFICATION FairSpec
CONSTANTS
  r1 = r1
  r2 = r2
  StepCount = 3
  Permissions = {}
  Definitions <- RecoveryWorkflows
  Requests <- MCRequests
  MaxVersion = 40
  MaxApprovals = 4
  MaxCrashes = 1
  PromptExecution = TRUE
  DiligentClients = TRUE
  RefusalsHappen = FALSE
CHECK_DEADLOCK FALSE
PROPERTIES
  RunFinishes
