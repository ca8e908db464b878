\* Every blocking semop of svcond.c may be interrupted.
SPECIFICATION Spec
CONSTANTS
  Procs = {p1, p2}
  None = None
  Intr <- IntrSites
  InitCounters = {0}
  SemMax = 2
  CountBound = 1
SYMMETRY Sym
INVARIANT
  MutexesHold
CHECK_DEADLOCK FALSE
