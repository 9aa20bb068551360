SPECIFICATION PartsSpec
CONSTANTS
  k1 = k1
  k2 = k2
  j1 = j1
  j2 = j2
  q1 = q1
  q2 = q2
  r1 = r1
  r2 = r2
  w1 = w1
  Nothing = Nothing
  Keys = {k1}
  DisableAfter = 3
  Providers = {p1, p2, p3}
  MinProviders = 2
  Enough <- Half
  EntryGrace = 1
  ExitGrace = 2
  Panel = 2
  MaxSlotAttempts = 2
  MaxJudgeAttempts = 2
INVARIANTS
  PartsTypeOK
  OnlyOneModelActs
  StreamedTextStands
PROPERTIES
  DisabledByRefusals
  HealthFollowsProvider
  GraceIsWaitedOut
  ModeFollows
  FusionsEnd
  EveryRequestEnds
  EveryJobEnds
CHECK_DEADLOCK FALSE
