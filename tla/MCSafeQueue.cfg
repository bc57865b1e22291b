CONSTANTS
  Threads = {t1, t2, t3}
  Tasks = {a, b, c}
  Capacity = 2
  None = None
SPECIFICATION QueueSpec
SYMMETRY Symmetry
INVARIANTS
  TypeOK
  ExactlyOnceInOrder
  NoLostWakeup
  ExitReleasesAll
