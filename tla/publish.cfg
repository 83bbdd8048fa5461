SPECIFICATION FairSpec
CONSTANTS
  c1 = c1
  c2 = c2
  h1 = h1
  h2 = h2
  None = None
  Client <- TwoClients
  Host <- TwoHosts
  HostOf <- OwnHosts
  MaxCommands = 3
  MaxFaults = 1
INVARIANTS TypeOK IntegrationEarned OutcomesTrue TesterContained
PROPERTIES PauseHolds RunSettles
CHECK_DEADLOCK FALSE
