CONSTANTS
  Workers = {w1, w2}
  Owner = owner
  Threads = {w1, w2, owner, client}
  Tasks = {a, b, c}
  Capacity = 2
  None = None
SPECIFICATION FairPoolSpec
CHECK_DEADLOCK FALSE
INVARIANTS
  PoolTypeOK
  DestroyedClean
PROPERTIES
  ImplementsService
  ExitEndsWorkers
  AcceptedTaskBegins
