\* More keys than the largest table holds come, go and are enumerated.
SPECIFICATION Spec
CONSTANTS
  Keys = {2, 3, 4, 5, 6, 7}
  Data = {x}
  NULL = NULL
  Hash <- HashCoarse
  TableSizes <- TinyTables
  LoadHigh = 100
  PutsAgain = FALSE
  EnumMax = 1
VIEW Unasked
INVARIANT
  TableRight
PROPERTIES
  StepsRight
  MapSpec
