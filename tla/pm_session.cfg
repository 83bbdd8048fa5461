CONSTANTS
  root = root
  w1 = w1
  w2 = w2
  w3 = w3
  Root <- root
  Child <- TwoChildren
  DependsOn <- NoEdges
  SessionOf <- OneSession
  Resource <- Files
  Claims <- OwnFiles
  Mode <- AllExclusive
  Overlap <- FileOverlap
  MaxConcurrency = 2
  Killers = {"deadline"}
  SaveOutcomes = {"ok", "error"}
  UserActs = {"kill", "answer"}
  MaxQuestions <- OneQuestion
SPECIFICATION Spec
INVARIANTS OneTargetPerSession
CHECK_DEADLOCK FALSE
