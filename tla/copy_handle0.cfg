SPECIFICATION Spec
CONSTANTS
  CommandLines <- UnzeroableLines
  MAX_REQUEST_SIZE = 4
  THREAD_WORK_SIZE = 4
  Cores = 2
  NullSize = 100
  Workers <- MCWorkers
  Disks <- MCDisks
CHECK_DEADLOCK FALSE
INVARIANT QueueExact
