\* Every function on lists of up to four elements; node addresses are reused.
SPECIFICATION Spec
CONSTANTS
  Nodes = {a, b, c, d, e}
  Data = {1, 2, 3}
  Key <- Ties
  MaxSize = 4
  Ops <- AllOps
  FirstByData = FALSE
  DelFails = FALSE
  NULL = NULL
SYMMETRY Sym
VIEW Live
INVARIANT
  ListRight
PROPERTIES
  StepsRight
  ListSpec
