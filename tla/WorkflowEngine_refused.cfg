SPECIFICATION FairSpec
CONSTANTS
  r1 = r1
  r2 = r2
  StepCount = 2
  Permissions <- MCPermissions
  Definitions <- RiskyWorkflows
  Requests <- MCRequests
  MaxVersion = 40
  MaxApprovals = 4
  MaxCrashes = 0
  PromptExecution = TRUE
  DiligentClients = TRUE
  RefusalsHappen = TRUE
CHECK_DEADLOCK FALSE
PROPERTIES
  WaitingStepIsResolved
