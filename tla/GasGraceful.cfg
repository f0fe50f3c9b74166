SPECIFICATION Spec
CONSTANTS
  p1 = p1
  p2 = p2
  n1 = n1
  n2 = n2
  c1 = c1
  c2 = c2
  b1 = b1
  b2 = b2
  Pods = {p1, p2}
  Nodes = {n1}
  Cards = {c1, c2}
  Tiles = {0}
  Binders = {b1, b2}
  Resources <- MCResources
  I915 = "i915"
  TileRes = "tiles"
  Requests <- SingleAndPair
  Capacity <- OneTile
  MaxInt = 7
  BadNuma = {}
  NoNode = NoNode
  NoBinder = NoBinder
  NoAnnotation = NoAnnotation
  Faults = {}
  MaxUid = 1
  MaxBinds = 3
  MaxRestarts = 0
  MaxBacklog = 3
INVARIANTS TypeOK NoOvercommit NoUndercount TileExclusive BooksBalanced AckedMeansBound
SYMMETRY Symmetry
CHECK_DEADLOCK FALSE
