SPECIFICATION Spec
CONSTANTS
  Drivers = {d1, d2}
  MaxSteps = 13
  MaxTokens = 2
  AnswerTokens = 1
  MaxRepair = 1
PROPERTY AnswerIsForThisPhase
CHECK_DEADLOCK FALSE
