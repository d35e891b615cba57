SPECIFICATION FairSpec
CHECK_DEADLOCK FALSE
CONSTANTS
  c1 = c1
  c2 = c2
  c3 = c3
  a = a
  b = b
  none = none
  Clients = {c1, c2}
  Ids = {a, b}
  IdOf <- MCIdOf
  Retries <- MCRetries
  MaxTasks = 1
  Ttl = 1
  NoRow = none
  MaxTime = 1
  MaxFaults = 2
INVARIANTS
  TypeOK
  CounterCountsWorkers
  WorkingHasWorker
  StoreBounded
  ResultStands
PROPERTIES
  EventuallyFinal
