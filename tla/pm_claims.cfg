CONSTANTS
  root = root
  w1 = w1
  w2 = w2
  w3 = w3
  Root <- root
  Child <- ThreeChildren
  DependsOn <- NoEdgesOfThree
  SessionOf <- OwnSessionsOfThree
  Resource <- Files
  Claims <- Wildcards
  Mode <- WildcardReader
  Overlap <- FileOverlap
  MaxConcurrency = 2
  Killers = {}
  SaveOutcomes = {"ok"}
  UserActs = {"answer"}
  MaxQuestions <- NoQuestionsOfThree
SPECIFICATION Spec
INVARIANTS TypeOK TargetsExclusive
CHECK_DEADLOCK FALSE
