\* Everybody gets where he must; no interrupts.
SPECIFICATION FairSpec
CONSTANTS
  Procs = {p1, p2, p3}
  None = None
  Intr <- NoSites
  InitCounters = {0}
  SemMax = 8
  CountBound = 8
PROPERTIES
  OneWakes
  OneProceeds
