SPECIFICATION Spec
CONSTANTS
  n1 = n1
  n2 = n2
  m1 = m1
  m2 = m2
  pd = pd
  pl = pl
  pm = pm
  Nodes = {n1, n2}
  Metrics = {m1, m2}
  Values = {0, 1}
  Strategies <- Plain
  None = None
  Malformed = Malformed
  Free = Free
  Faults = {"edit"}
  MaxChanges = 6
  MaxFaults = 1
INVARIANT NoOrphanLabels
PROPERTY ViolationKeepsLabel
CHECK_DEADLOCK FALSE
