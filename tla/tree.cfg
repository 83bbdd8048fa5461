CONSTANTS
  a = a
  w = w
  v = v
  x = x
  Root = a
  Child = {w, v, x}
  PurposeOf <- WorkersAndReviewer
  MaxAgents = 3
  Limit <- Wide
  Reserve <- Single
  Share <- Shares
  RootFloor = 1
  Graphs <- PairGraph
  Request <- TwoCallsForOne
  DependsOn <- ChainAndReviewer
  Concurrent <- NotWBesideX
  Negotiators = {v, x}
  Killable = {w}
  Askers = {w}
  Deadlines = TRUE
  MaxRevision = 6
  MaxCrashes = 0
SPECIFICATION FairSpec
INVARIANTS EscrowHonoured EscrowSpendable PreflightHolds
PROPERTIES BudgetWaitEnds
CHECK_DEADLOCK FALSE
