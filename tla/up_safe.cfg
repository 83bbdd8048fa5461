CONSTANTS
  u1 = u1
  u2 = u2
  h1 = h1
  h2 = h2
  Updater <- OneUpdater
  Host <- OneHost
  MaxVersion = 3
  Schema <- Formats
  MaxTxn = 2
  MaxResource = 2
  MaxWork = 1
  MaxFaults = 2
  Seeded = {1}
SPECIFICATION Spec
INVARIANTS TypeOK Recoverable ReportsAreTrue
PROPERTIES ImplementsAtomicUpdate
CHECK_DEADLOCK FALSE
