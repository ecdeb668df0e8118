SPECIFICATION FairSpec
CONSTANTS
  NbWorkers = 3
  WorkQueue = 4
  Rounds = 3
  Tiles = 3
  Any = Any
  Cpus = {Any, 0}
INVARIANTS NbTaskCounts NoLostWakeup FreedWhenStopped
PROPERTIES WorkerIsFIFO ImplementsPool Terminates
CHECK_DEADLOCK FALSE
