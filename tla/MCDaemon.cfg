CONSTANTS
  Pids = {p1, p2, p3, s1}
  Strangers = {s1}
  NoPid = nopid
  Tries = 1
SYMMETRY Symmetry
SPECIFICATION Spec
CHECK_DEADLOCK FALSE
INVARIANTS
  FileNamesDaemon
  StopMeansGone
