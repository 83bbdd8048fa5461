CONSTANTS
  a = a
  w = w
  v = v
  x = x
  Root = a
  Child = {w, v}
  PurposeOf <- Workers
  MaxAgents = 2
  Limit <- Narrow
  Reserve <- Single
  Share <- Shares
  RootFloor = 1
  Graphs <- SingleGraph
  Request <- Defaults
  DependsOn <- Chain
  Concurrent <- AllTogether
  Negotiators = {v}
  Killable = {a, w}
  Askers = {w}
  Deadlines = TRUE
  MaxRevision = 5
  MaxCrashes = 1
SPECIFICATION Spec
INVARIANTS TypeOK NoResurrection AgentsCounted
CHECK_DEADLOCK FALSE
