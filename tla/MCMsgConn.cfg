CONSTANTS
  Bytes <- UserBytes
  Modes <- AllModes
  MaxBody = 2
  Suggest = 2
  WireCap = 4
  CanReset = TRUE
  MaxLoops = 2
SPECIFICATION Spec
CHECK_DEADLOCK FALSE
INVARIANTS
  StreamIntact
  FramedExactly
  NothingStranded
