SPECIFICATION Spec
CONSTANTS
  Drivers = {d1}
  MaxSteps = 13
  MaxTokens = 2
  AnswerTokens = 1
  MaxRepair = 1
INVARIANT NoImplementationBeforeApproval
CHECK_DEADLOCK FALSE
