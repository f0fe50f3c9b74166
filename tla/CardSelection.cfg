SPECIFICATION Spec
CONSTANTS
  p1 = p1
  p2 = p2
  p3 = p3
  p4 = p4
  p5 = p5
  n1 = n1
  n2 = n2
  Pods = {p1, p2, p3, p4, p5}
  Requests <- FivePods
  Nodes = {n1, n2}
  Cards = {1, 2, 3}
  Tiles = {0, 1}
  Resources <- MCResources
  I915 = "i915"
  TileRes = "tiles"
  MaxInt = 7
  Asks <- MCAsks
  Clusters <- MCClusters
  NodeLists <- MCNodeLists
  Balanced = {None, "i915"}
  None = None
  Malformed = Malformed
INVARIANTS SelectionFits SelectionAllowed TilesGranted PreferredTilesFirst XeLinkGranted PreferredTruthful RefusedOnlyIfFull OfferedFits
CHECK_DEADLOCK FALSE
