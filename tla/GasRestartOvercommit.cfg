SPECIFICATION Spec
CONSTANTS
  p1 = p1
  p2 = p2
  n1 = n1
  n2 = n2
  c1 = c1
  c2 = c2
  b1 = b1
  b2 = b2
  Pods = {p1, p2}
  Nodes = {n1}
  Cards = {c1}
  Tiles = {0}
  Binders = {b1, b2}
  Resources <- MCResources
  I915 = "i915"
  TileRes = "tiles"
  Requests <- TwoSingles
  Capacity <- OneTile
  MaxInt = 7
  BadNuma = {}
  NoNode = NoNode
  NoBinder = NoBinder
  NoAnnotation = NoAnnotation
  Faults = {"restart"}
  MaxUid = 1
  MaxBinds = 2
  MaxRestarts = 1
  MaxBacklog = 3
INVARIANTS NoOvercommit
SYMMETRY Symmetry
CHECK_DEADLOCK FALSE
