CONSTANTS
  a = a
  w = w
  v = v
  x = x
  Root = a
  Child = {w, v}
  PurposeOf <- Workers
  MaxAgents = 2
  Limit <- Narrow
  Reserve <- Single
  Share <- Shares
  RootFloor = 1
  Graphs <- SingleGraph
  Request <- Defaults
  DependsOn <- Independent
  Concurrent <- AllTogether
  Negotiators = {}
  Killable = {}
  Askers = {}
  Deadlines = FALSE
  MaxRevision = 5
  MaxCrashes = 1
SPECIFICATION Spec
INVARIANTS Restartable
CHECK_DEADLOCK FALSE
