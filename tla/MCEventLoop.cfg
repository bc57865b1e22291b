CONSTANTS
  Callers = {p, q}
  Loop = loop
  Chans = {c1}
  Wake = wake
  Tasks = {a, b}
  TaskCap = 2
  PipeCap = 1
  ReadMax = 1
  MaxTimers = 1
SPECIFICATION FairSpec
CHECK_DEADLOCK FALSE
INVARIANTS
  TypeOK
  NoLostWakeup
  ActiveAreLive
PROPERTIES
  QueuedTaskRuns
  ExitEndsLoop
  CallReturns
