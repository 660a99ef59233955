SPECIFICATION FairMonitorSpec
CONSTANTS
  p1 = p1
  p2 = p2
  w1 = w1
  NoProcess = NoProcess
  Processes <- MCProcesses
  Workflows <- MCWorkflows
  RunStatuses <- MCStatuses
  MaxVersion = 3
  Grace = 1
  Intervals <- MCIntervals
  Cooldowns <- MCCooldowns
  MinCooldown = 2
  MaxCooldown = 2
  MaxDelay = 1
  MaxFailures = 1
PROPERTIES
  NoticesApart
  PersistentAlertIsNotified
  OverdueRecovers
