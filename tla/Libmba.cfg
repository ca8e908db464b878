\* suba, the parts of libmba with little state or none, and the sound server.
SPECIFICATION MCSpec
CONSTANTS
  Hdr = 16
  End = 198
  MinCell = 8
  WordMod = 512
  Requests = {0, 9, 30, 50}
  NULL = NULL
  m1 = m1
  m2 = m2
  m3 = m3
  m4 = m4
  p1 = p1
  p2 = p2
  p3 = p3
  Memory = {TRUE, FALSE}
  Failing = {TRUE, FALSE}
  MaxSize = 8
  StackInit = 1
  PoolFailing = {"new", "rst", "del", "memory"}
  Bins = 4
  InitSize = 0
  Lists = {m1, m2, m3, m4}
  Tables = 4
  Given <- FourTables
  Bytes = {"p", "s", "n"}
  Patterns <- PromptAndAnswer
  RingRoom = 3
  MaxOut = 6
  Procs = {p1, p2, p3}
  LockPaths <- FilePairs
  Rules <- ThreeRules
  Packets <- FourPackets
  CHAN_MAX = 2
  Dlen = 2
  MaxTime = 5
  TimeSteps = {"short", "long"}
VIEW View
INVARIANTS
  Tiled
  FreeListRight
  TotalsRight
  VarrayRight
  NumbersSay
  
  OneDaemon
  FilesRight
  EvalRight
  DiffRight
  ConversionsRight
PROPERTIES
  FailsOnlyWhenFull
  WalksEnd
  HeapSpec
  PoolRight
  PlaysRight
CHECK_DEADLOCK FALSE
