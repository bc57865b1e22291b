CONSTANTS
  Bytes <- UserBytes
  Modes <- ResetModes
  MaxBody = 2
  Suggest = 2
  WireCap = 4
  CanReset = TRUE
  MaxLoops = 3
SPECIFICATION Spec
CHECK_DEADLOCK FALSE
INVARIANT
  DeliveredOnce
