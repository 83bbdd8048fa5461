CONSTANTS
  root = root
  w1 = w1
  w2 = w2
  w3 = w3
  Root <- root
  Child <- TwoChildren
  DependsOn <- ChainOfTwo
  SessionOf <- OwnSessions
  Resource <- Files
  Claims <- SameFile
  Mode <- AllExclusive
  Overlap <- FileOverlap
  MaxConcurrency = 1
  Killers = {"supervisor", "daemon"}
  SaveOutcomes = {"ok","unknown"}
  UserActs = {"answer"}
  MaxQuestions <- OneQuestionEach
SPECIFICATION FairSpec
INVARIANTS NobodyStranded
PROPERTIES CancelledNeverCompletes FinalOutcomeStable CancelledRunnersStop OrphansStop
CHECK_DEADLOCK FALSE
