SPECIFICATION Spec
CONSTANTS
  r1 = r1
  r2 = r2
  StepCount = 2
  Permissions <- MCPermissions
  Definitions <- RiskyWorkflows
  Requests <- MCRequests
  MaxVersion = 7
  MaxApprovals = 2
  MaxCrashes = 1
  PromptExecution = TRUE
  DiligentClients = FALSE
  RefusalsHappen = TRUE
SYMMETRY Symmetry
CHECK_DEADLOCK FALSE
INVARIANTS
  AtMostOneInvocation
  InvocationIsRecorded
  HighRiskNeedsConsumedApproval
  ConsumptionClaimsStep
  CallsAreAudited
PROPERTIES
  DecidedStepsAreFinal
  ImplementsSupervisedRun
