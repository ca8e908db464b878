\* An inode is used again while the set of a pool has its key.
SPECIFICATION Spec
CONSTANTS
  Procs = {p1, p2}
  NULL = NULL
  Ids = {s1, s2}
  PathInode = f0
  TmpInodes = {f1, f2}
  ftok <- OwnKey
  Values = {1}
  SemMax = 2
  MaxTries = 2
  PoolReuse = TRUE
SYMMETRY Sym
INVARIANT
  PoolsApart
