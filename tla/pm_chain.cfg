CONSTANTS
  root = root
  w1 = w1
  w2 = w2
  w3 = w3
  Root <- root
  Child <- TwoChildren
  DependsOn <- ChainOfTwo
  SessionOf <- OwnSessions
  Resource <- Files
  Claims <- SameFile
  Mode <- AllExclusive
  Overlap <- FileOverlap
  MaxConcurrency = 1
  Killers = {"daemon"}
  SaveOutcomes = {"ok","unknown"}
  UserActs = {"kill", "answer"}
  MaxQuestions <- NoQuestions
SPECIFICATION Spec
INVARIANTS DependenciesDone NothingLeaked
PROPERTIES ImplementsGraph
CHECK_DEADLOCK FALSE
