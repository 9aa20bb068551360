SPECIFICATION FairSpec
CONSTANTS
  Drivers = {d1}
  MaxSteps = 13
  MaxTokens = 2
  AnswerTokens = 1
  MaxRepair = 1
INVARIANTS
  TypeOK
  ShippedCodeWasReleased
  BudgetOvershootIsOneStep
PROPERTIES
  TerminalIsFinal
  GateNeedsAPerson
  EveryChangeIsCheckpointed
  DrivingComesToAnEnd
CHECK_DEADLOCK FALSE
