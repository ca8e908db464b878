\* Trees, events, attributes, text, and loading and storing documents.
SPECIFICATION MCSpec
CONSTANTS
  NULL = NULL
  e1 = e1
  e2 = e2
  doc = doc
  com = com
  doctype = doctype
  fragment = fragment
  root = root
  leaf = leaf
  x = x
  y = y
  f = f
  g = g
  type = type
  a1 = a1
  a2 = a2
  a3 = a3
  n1 = n1
  n2 = n2
  v1 = v1
  v2 = v2
  t1 = t1
  t2 = t2
  t3 = t3
  element = element
  plain = plain
  acute = acute
  wide = wide
  Memory = {TRUE, FALSE}
  Doc = doc
  Elements = {e1, e2}
  Comments = {com}
  Doctypes = {doctype}
  Fragments = {fragment}
  FillFactor = 1
  Moves = FALSE
  ReplaceUnmapped = FALSE
  Attrs = {a1, a2, a3}
  Names = {n1, n2}
  Values = {v1, v2}
  AttrFillFactor = 0
  ReplacesMapped = FALSE
  Targets = {root, leaf}
  Parents <- RootAndLeaf
  Listeners <- FourListeners
  Evts = {e1, e2}
  Types = {type}
  First = {type}
  MaxDepth = 2
  MaxOps = 6
  Width <- Widths
  Texts = {t1, t2, t3}
  Others = {element}
  Strings <- Edits
  Counts <- Offsets
  MaxData = 3
  Chars = {"plain", "lt"}
  Pieces = {"doctype", "entity", "notation", "comment", "pi", "cdata"}
  MaxStack = 3
  MaxCalls = 5
SYMMETRY Sym
VIEW View
INVARIANTS
  LinksRight
  OneDocumentElement
  LoadRight
PROPERTIES
  TreeSpec
  EventsRight
  
  AttributesRight
CHECK_DEADLOCK FALSE
