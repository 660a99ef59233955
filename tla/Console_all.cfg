SPECIFICATION ConsoleSpec
CONSTANTS
  w1 = w1
  w2 = w2
  n1 = n1
  n2 = n2
  n3 = n3
  m1 = m1
  m2 = m2
  a1 = a1
  a2 = a2
  a3 = a3
  c1 = c1
  c2 = c2
  NoPreview = NoPreview
  NoAuthorization = NoAuthorization
  Workflows <- MCWorkflows
  RunStatuses <- MCStatuses
  MaxVersion = 3
  Grace = 0
  MaxKnown = 2
  MaxShown = 1
  Limits = {1, 2}
  Notes <- MCNotes
  DueAt <- MCDueAt
  ListLimit = 2
  PassLimit = 2
  LastMoment = 3
  Previews <- MCPreviews
  MaxAttempts = 3
  Authorizations <- MCAuthorizations
  Calls <- MCCalls
SYMMETRY Symmetry
INVARIANTS
  AcknowledgedWasShown
  PreviewSavedOnce
  ErasedStaysErased
PROPERTIES
  NoticesAreNew
  WatchIsQuiet
