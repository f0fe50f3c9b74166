SPECIFICATION FairSpec
CONSTANTS
  n1 = n1
  n2 = n2
  m1 = m1
  m2 = m2
  pd = pd
  pl = pl
  pm = pm
  Nodes = {n1}
  Metrics = {m1, m2}
  Values = {0, 1, 2}
  Strategies <- Contested
  None = None
  Malformed = Malformed
  Free = Free
  Faults = {"apiError", "edit"}
  MaxChanges = 5
  MaxFaults = 2
PROPERTIES HonoursWinner LabelsConverge
CHECK_DEADLOCK FALSE
