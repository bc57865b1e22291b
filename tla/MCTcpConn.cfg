CONSTANTS
  ReadOps = {"consume", "close"}
  WritableOps = {}
  StateOps = {"send"}
  TaskOps = {"send", "sendBuffer", "sendMsg", "closeNow", "close"}
  SendStates = {"Connected"}
  Reconnects = {TRUE, FALSE}
  Timeout = TRUE
  MaxSends = 3
  MaxAttempts = 2
  MaxStack = 6
SPECIFICATION FairSpec
CHECK_DEADLOCK FALSE
INVARIANTS
  TypeOK
  NoCrash
  EndsOnce
  FirstOutputArmed
  WireInOrder
PROPERTIES
  HandshakeEnds
  OutputDrains
  ExitCleansUp
  CloseEnds
