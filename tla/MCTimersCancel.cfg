CONSTANTS
  Delays = {1, 2}
  Intervals = {0, 1}
  MaxNow = 3
  MaxCalls = 2
  MaxWait = 2
  HalfInt = 4
  Forever = 3
SPECIFICATION Spec
CHECK_DEADLOCK FALSE
INVARIANTS
  CancelIgnoresRemoved
