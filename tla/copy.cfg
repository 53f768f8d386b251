SPECIFICATION FairSpec
CONSTANTS
  CommandLines <- MCLines
  MAX_REQUEST_SIZE = 4
  THREAD_WORK_SIZE = 4
  Cores = 2
  NullSize = 100
  Workers <- MCWorkers
  Disks <- MCDisks
INVARIANTS QueueExact RefsExact EachBlockOnce CopyAsserts ExtentsRight
PROPERTIES ImplementsDiskCopy CopyEnds
