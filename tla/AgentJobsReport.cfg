SPECIFICATION Spec
CONSTANTS
  j1 = j1
  j2 = j2
  j3 = j3
  k1 = k1
  k2 = k2
  q1 = q1
  Jobs = {j1}
  Keys = {k1, k2}
  Queues = {q1}
  Workers = {w1}
  None = None
  KeyOf <- SharedKey
  QueueOf <- OneQueue
  Priority <- SecondFirst
  Concurrency <- OneSlot
  MaxAttempts = 2
  LeaseTicks = 1
  BaseBackoff = 1
  MaxBackoff = 1
  MaxDelay = 1
PROPERTIES
  CompletedByItsHolder
CHECK_DEADLOCK FALSE
