SPECIFICATION LiveSpec
CONSTANTS
  k1 = k1
  m1 = m1
  m2 = m2
  n1 = n1
  n2 = n2
  n3 = n3
  hot = hot
  cold = cold
  odd = odd
  Keys = {k1}
  NameOf <- OwnName
  StrategyTypes = {"scheduleonmetric", "dontschedule"}
  Enforceable = {}
  Rules = {hot, cold, odd}
  Metrics = {m1, m2}
  MetricOf <- MCRuleMetric
  OperatorOf <- MCOperator
  TargetOf <- MCTarget
  Specs <- MCSpecs
  AllOf <- MCAllOf
  Data <- MCData
  Nodes = {n1, n2, n3}
  MaxScore = 0
  MaxOverlap = 1
  Requests <- MCRequests
  None = None
  Nil = Nil
  Free = Free
  NoRequest = NoRequest
  NoLabel = NoLabel
  NoPod = NoPod
  MaxChanges = 2
INVARIANTS VerdictExplained RankingExplained
PROPERTY RulesTakeEffect
CHECK_DEADLOCK FALSE
