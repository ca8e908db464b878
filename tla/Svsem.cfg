\* Semaphores by path, by svsem_create and in pools; processes are killed.
SPECIFICATION Spec
CONSTANTS
  Procs = {p1, p2, p3}
  NULL = NULL
  Ids = {s1, s2}
  PathInode = f0
  TmpInodes = {f1}
  ftok <- OneKey
  Values = {1}
  SemMax = 2
  MaxTries = 2
  PoolReuse = FALSE
SYMMETRY Sym
VIEW Unread
INVARIANTS
  SetsRight
  NeverTooEarly
  NothingLeftBehind
PROPERTY
  ExclIsNew
