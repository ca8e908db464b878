\* The first element is removed by its data, then an index is looked up.
SPECIFICATION Spec
CONSTANTS
  Nodes = {a, b, c, d}
  Data = {1, 2, 3, 4}
  Key <- Ties
  MaxSize = 4
  Ops <- Appending
  FirstByData = TRUE
  DelFails = FALSE
  NULL = NULL
SYMMETRY Sym
PROPERTY GetIsRight
