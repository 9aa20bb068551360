SPECIFICATION SecretsSpec
CONSTANTS
  Tables = {t1, t2}
  Emptied = {t2}
  Values = {v1, v2}
  RootKeys = {k1, k2}
  Dumps = {d1}
  Nothing = Nothing
  Live = TRUE
INVARIANT
  RotatedSecretsOpen
CHECK_DEADLOCK FALSE
