SPECIFICATION GatewaySpec
CONSTANTS
  r1 = r1
  r2 = r2
  r3 = r3
  k1 = k1
  k2 = k2
  minute = minute
  daily = daily
  None = None
  Requests = {q1, q2}
  Routes = {r1, r2, r3}
  Keys = {k1, k2}
  KeyOf <- Key
  ModelOf <- Model
  PlatformOf <- Platform
  Meters = {minute, daily}
  Scope <- Scopes
  Limit <- OneEach
  Width <- Widths
  Daily = {daily}
  Concurrency <- OneOnK1
  MonthlyCap <- OneOnK2
  LeaseAge = 0
  Horizon = 2
  MaxRetries = 3
  BudgetOf <- Budgets
  BreakerLimit = 2
  MaxElapsed = 2
  Users = {u1, u2}
  Addresses = {a1, a2}
  Invites = {i1, i2}
  Founder = u1
  FirstAddress = a1
  Nothing = Nothing
  Tables = {t1, t2}
  Emptied = {t2}
  Values = {v1}
  RootKeys = {k1, k2}
  Dumps = {d1, d2}
  Live = FALSE
  Prompts = {p1, p2, p3}
  Streams = {p3}
  Answers = {w1, w2}
  MaxEntries = 1
  Lifetime = 1
  MaxHits = 1
  MaxPending = 2
INVARIANTS
  GatewayTypeOK
  MeterHolds
  MonthlyCapHolds
  NothingLeaks
  KeyConcurrency
  OneAnswer
  SilenceIsBounded
  OwnersWereMadeByOwners
  SecretsSurvive
  FlushIsFinal
  TableFollowsMemory
PROPERTIES
  OnlyInvitesUnseatTheLastOwner
SYMMETRY RequestSymmetry
CHECK_DEADLOCK FALSE
