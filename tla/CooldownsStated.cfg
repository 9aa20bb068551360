SPECIFICATION Spec
CONSTANTS
  r1 = r1
  r2 = r2
  r3 = r3
  k1 = k1
  k2 = k2
  m1 = m1
  m2 = m2
  Routes = {r1, r2}
  Keys = {k1, k2}
  Models = {m1, m2}
  Attempts = {a1, a2}
  None = None
  KeyOf <- KeyOfRoute
  ModelOf <- ModelOfRoute
  Unlimited = {r2}
  Longest = 4
  Day = 4
  Ceiling = 3
  Transient = 1
  Ladder = {1, 3, 4}
  GuessCap = 2
  AuthBench = 2
  TruncationBench = 2
  ModelBench = 2
  ModelThreshold = 2
  MinRemaining = 1
  ProbeBase = 1
  ProbeMax = 1
  Stagger = 0
  MaxProbes = 1
PROPERTIES
  ProviderTimesAreKept
