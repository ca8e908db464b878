\* A key is put again after another one was removed.
SPECIFICATION Spec
CONSTANTS
  Keys = {2, 3, 6}
  Data = {x}
  NULL = NULL
  Hash <- HashCoarse
  TableSizes <- TinyTables
  LoadHigh = 100
  PutsAgain = TRUE
  EnumMax = 0
VIEW Unasked
PROPERTIES
  PutRefusesDuplicates
