SPECIFICATION FairSpec
CONSTANTS
  b = b
  c = c
  Source = b
  Affected <- OneDependent
  Version = {"v0", "v1", "v2"}
  Frozen = "v0"
  MaxProposals = 2
  MaxDecisions = 2
  MaxWrites = 3
INVARIANTS TypeOK StartsDecided SealedAgreed
PROPERTIES DecisionReaches
CHECK_DEADLOCK FALSE
