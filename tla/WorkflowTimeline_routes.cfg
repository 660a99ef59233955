SPECIFICATION TimelineSpec
CONSTANTS
  r1 = r1
  r2 = r2
  StepCount = 4
  Permissions = {}
  Definitions <- RoutedWorkflows
  Requests <- MCRequests
  MaxVersion = 10
  MaxApprovals = 1
  MaxCrashes = 1
  PromptExecution = FALSE
  DiligentClients = FALSE
  RefusalsHappen = TRUE
  MaxStoredEvents = 4
SYMMETRY Symmetry
CHECK_DEADLOCK FALSE
INVARIANTS
  TimelineIsNumbered
  TimelineExplainsRun
  AdviceCanBeFollowed
PROPERTIES
  DependenciesFirst
