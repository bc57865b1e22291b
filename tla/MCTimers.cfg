CONSTANTS
  Delays = {1, 2, 9}
  Intervals = {0, 1}
  MaxNow = 3
  MaxCalls = 2
  MaxWait = 2
  HalfInt = 2
  Forever = 4
SPECIFICATION FairSpec
CHECK_DEADLOCK FALSE
INVARIANTS
  TypeOK
  RepsConsistent
  CancelIsFinal
  OnSchedule
  NeverOversleeps
PROPERTIES
  TimerFires
