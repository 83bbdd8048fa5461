CONSTANTS
  u1 = u1
  u2 = u2
  h1 = h1
  h2 = h2
  Updater <- TwoUpdaters
  Host <- TwoHosts
  MaxVersion = 3
  Schema <- Formats
  MaxTxn = 1
  MaxResource = 2
  MaxWork = 1
  MaxFaults = 2
  Seeded = {1}
SPECIFICATION FairSpec
INVARIANTS RunsWhatIsInstalled
PROPERTIES PendingEnds
CHECK_DEADLOCK FALSE
