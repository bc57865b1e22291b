CONSTANTS
  ReadOps = {"consume"}
  WritableOps = {"send"}
  StateOps = {"send"}
  TaskOps = {"send"}
  SendStates = {"Connected"}
  Reconnects = {FALSE}
  Timeout = TRUE
  MaxSends = 3
  MaxAttempts = 2
  MaxStack = 6
SPECIFICATION Spec
CHECK_DEADLOCK FALSE
INVARIANTS
  NoCrash
