\* A Unix signal interrupts the sleep on block_queue.
SPECIFICATION FairSpec
CONSTANTS
  Procs = {p1, p2}
  None = None
  Intr <- QueueSite
  InitCounters = {0}
  SemMax = 2
  CountBound = 2
PROPERTY
  OneProceeds
CHECK_DEADLOCK FALSE
