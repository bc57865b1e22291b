CONSTANTS
  Conns = {c1, c2}
  Idles = {1, 2}
  Reconnecting = {c2}
  MaxNow = 5
SPECIFICATION Spec
CHECK_DEADLOCK FALSE
INVARIANTS
  IdleAreCalled
  OnlyIdleAreCalled
