CONSTANTS
  p1 = p1
  p2 = p2
  main = main
  backup = backup
  broken = broken
  FailureThreshold = 2
  SuccessThreshold = 2
  MinRequests = 3
  RatePercent = 60
  WindowSize = 3
  Caller = {p1, p2}
  Roots = {p1}
  Provider = {main, backup, broken}
  Order <- Mixed
  Unusable = {broken}
  Allowance <- Uneven
SPECIFICATION FairSpec
INVARIANTS TypeOK OneProbe
PROPERTIES HealedByProbe ProbeReturns
CHECK_DEADLOCK FALSE
