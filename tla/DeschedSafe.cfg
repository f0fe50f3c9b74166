SPECIFICATION Spec
CONSTANTS
  p1 = p1
  p2 = p2
  c0 = c0
  c1 = c1
  t0 = t0
  Pods = {p1, p2}
  NameOf <- OwnNames
  Cards = {c0, c1}
  Tiles = {t0}
  PciGroup <- MCPciGroup
  UseSets <- MCUseSets
  LabelSets <- FewLabelSets
  InitUse <- OneRuns
  NoTile = NoTile
  None = None
  Faults = {"restart", "start", "apiError", "return"}
  MaxStarts = 1
  MaxChanges = 2
  MaxFaults = 2
  MaxBacklog = 2
INVARIANTS StatusTruthful PassComplete
CHECK_DEADLOCK FALSE
