\* Four processes; a semop may be interrupted where svcond.c backs out cleanly.
SPECIFICATION Spec
CONSTANTS
  Procs = {p1, p2, p3, p4}
  None = None
  Intr <- SafeSites
  InitCounters = {0}
  SemMax = 8
  CountBound = 8
SYMMETRY Sym
INVARIANTS
  BlockedWritesExclusive
  GateClosed
  BooksBalance
PROPERTY CVSpec
