SPECIFICATION FairSpec
CONSTANTS
  k1 = k1
  k2 = k2
  m1 = m1
  m2 = m2
  r1 = r1
  r2 = r2
  d1 = d1
  Keys = {k1, k2}
  NameOf <- OwnNames
  StrategyTypes = {"scheduleonmetric", "deschedule"}
  Enforceable = {"deschedule"}
  Rules = {r1, r2}
  Metrics = {m1, m2}
  MetricOf <- MCRuleMetric
  Specs <- SteadySpecs
  Data = {d1}
  None = None
  Nil = Nil
  Free = Free
  MaxChanges = 4
INVARIANTS TypeOK UsedMetricKept RegistrationsExact NoResurrection
PROPERTIES DataKept PoliciesConverge
CHECK_DEADLOCK FALSE
