------------------------- MODULE TasScheduler_proofs -------------------------
(***************************************************************************)
(* Theorems about TasScheduler, for every number of nodes, policies, rules *)
(* and metrics, and every interleaving of a request with the handlers of   *)
(* the controller and the updater.                                         *)
(***************************************************************************)
EXTENDS TasScheduler, TasController_proofs

-----------------------------------------------------------------------------
(* The inductive invariant. *)

Held == Data \cup {Nil, None}

\* The handler and the history are in one of their stages.
Stages ==
    /\ pc \in {"idle", "policy", "violated", "rank", "answered"}
    /\ pc = "idle" <=> req = NoRequest
    /\ pc # "idle" => req \in Requests
    /\ pc # "answered" => answer = NoAnswer
    /\ seen \in [policies : SUBSET SpecOrNone, data : [Metrics -> SUBSET Held]]

\* Until the policy is read the request has judged nothing, and the history has the
\* policy that is in the cache.
BeforePolicy ==
    /\ pc \in {"idle", "policy"} =>
          rule = 1 /\ nodeMetricViol = [n \in Nodes |-> 0] /\ violating = {}
    /\ pc = "policy" /\ req.key \in Keys => cached[req.key] \in seen.policies

\* The history has the data of each metric that the handler will read.
Known == \A m \in Metrics : metrics[m] \in Relevant(m, spec) => metrics[m] \in seen.data[m]

\* What the rules that were evaluated say of node n: the counter of violations
\* tells all from not all, the set of nodes some from none.
Judged(n) ==
    /\ nodeMetricViol[n] \in 0..(rule - 1)
    /\ nodeMetricViol[n] = rule - 1 => \A i \in 1..(rule - 1) : MayBreak(n, DontSchedule[i])
    /\ nodeMetricViol[n] # rule - 1 => \E i \in 1..(rule - 1) : MayKeep(n, DontSchedule[i])
    /\ IF spec \in AllOf
       THEN n \in violating <=> nodeMetricViol[n] = Len(DontSchedule)
       ELSE IF n \in violating
            THEN \E i \in 1..(rule - 1) : MayBreak(n, DontSchedule[i])
            ELSE \A i \in 1..(rule - 1) : MayKeep(n, DontSchedule[i])

\* A filter has one of the policies seen, with rules, and has evaluated the first
\* of them.
AtRules ==
    pc = "violated" =>
        /\ req.path = "filter" /\ spec \in seen.policies \cap Specs
        /\ DontSchedule = StrategyOf(spec, "dontschedule")
        /\ DontSchedule \in Seq(Rules) /\ DontSchedule # <<>>
        /\ rule \in 1..(Len(DontSchedule) + 1)
        /\ DOMAIN nodeMetricViol = Nodes
        /\ Known
        /\ \A n \in Nodes : Judged(n)

\* A prioritize request has one of the policies seen, with a preference.
AtRank ==
    pc = "rank" =>
        /\ req.path = "prioritize" /\ spec \in seen.policies \cap Specs
        /\ spec["scheduleonmetric"] = StrategyOf(spec, "scheduleonmetric")
        /\ spec["scheduleonmetric"] \in Seq(Rules) /\ spec["scheduleonmetric"] # <<>>
        /\ Known

SInv ==
    /\ CacheInv /\ Stages /\ BeforePolicy /\ AtRules /\ AtRank
    /\ VerdictExplained /\ RankingExplained

-----------------------------------------------------------------------------
\* The evaluation of a rule is what the properties call breaking it.
LEMMA Evaluated ==
    ASSUME NEW d \in Data, NEW n \in DOMAIN d, NEW r
    PROVE  EvaluateRule(d[n], r) <=> Breaks(d, n, r)
BY DEF EvaluateRule, Breaks

\* What explains a verdict explains it when more is seen.
LEMMA MoreSeen ==
    ASSUME \A m \in Metrics : seen.data[m] \subseteq seen'.data[m], NEW n, NEW r \in Rules
    PROVE  /\ MayBreak(n, r) => MayBreak(n, r)'
           /\ MayKeep(n, r) => MayKeep(n, r)'
<1>1. MetricOf[r] \in Metrics
  BY TasAssumption
<1>2. seen.data[MetricOf[r]] \subseteq seen'.data[MetricOf[r]]
  BY <1>1
<1>3. QED BY <1>2 DEF MayBreak, MayKeep, Breaks

\* An answer without verdict and ranking needs no explanation.
LEMMA NothingSaid ==
    ASSUME answer'.body # "nodes", answer'.ranking = <<>>
    PROVE  VerdictExplained' /\ RankingExplained'
BY DEF VerdictExplained, RankingExplained

\* No request is served before the first.
LEMMA InitSInv == SchedInit => SInv
<1> SUFFICES ASSUME SchedInit PROVE SInv
  OBVIOUS
<1>1. CacheInv
  BY InitCacheInv DEF SchedInit
<1>2. Stages /\ BeforePolicy
  BY DEF SchedInit, IdleRequest, Stages, BeforePolicy, Unseen
<1>3. AtRules /\ AtRank
  BY DEF SchedInit, IdleRequest, AtRules, AtRank
<1>4. VerdictExplained /\ RankingExplained
  BY DEF SchedInit, IdleRequest, VerdictExplained, RankingExplained, NoAnswer
<1>5. QED BY <1>1, <1>2, <1>3, <1>4 DEF SInv

\* A request arrives.
LEMMA ArriveStep ==
    ASSUME SInv, CacheInv', NEW q \in Requests, Arrive(q)
    PROVE  SInv'
<1>1. /\ req = NoRequest /\ req' = q /\ pc = "idle" /\ q # NoRequest /\ answer = NoAnswer
      /\ pc' \in {"policy", "answered"} /\ UNCHANGED <<vars, spec, rule, nodeMetricViol, violating>>
  BY SchedulerAssumption DEF SInv, Stages, Arrive, Answer
<1>2. cached \in [Keys -> SpecOrNone] /\ cached' = cached
  BY <1>1 DEF SInv, CacheInv, Shapes, vars
<1>3. /\ seen' \in [policies : SUBSET SpecOrNone, data : [Metrics -> SUBSET Held]]
      /\ q.key \in Keys => cached[q.key] \in seen'.policies
  BY <1>2 DEF Arrive, Unseen
<1>4. /\ answer'.body # "nodes" /\ answer'.ranking = <<>>
      /\ pc' # "answered" => answer' = NoAnswer
  BY <1>1 DEF Arrive, NoAnswer
<1>5. Stages'
  BY <1>1, <1>3, <1>4 DEF Stages
<1>6. BeforePolicy'
  BY <1>1, <1>2, <1>3 DEF BeforePolicy, SInv
<1>7. AtRules' /\ AtRank'
  BY <1>1 DEF AtRules, AtRank
<1>8. QED BY <1>4, <1>5, <1>6, <1>7, NothingSaid DEF SInv

\* The request is forgotten.
LEMMA ReplyStep ==
    ASSUME SInv, CacheInv', Reply
    PROVE  SInv'
<1>1. pc' = "idle" /\ answer' = NoAnswer /\ seen' = Unseen /\ req' = NoRequest
  BY DEF Reply
<1>2. Stages'
  BY <1>1 DEF Stages, Unseen
<1>3. BeforePolicy' /\ AtRules' /\ AtRank'
  BY <1>1 DEF Reply, BeforePolicy, AtRules, AtRank
<1>4. QED BY <1>1, <1>2, <1>3, NothingSaid DEF SInv, NoAnswer

\* The policy that is read is one of those seen.
LEMMA PolicyRead ==
    ASSUME SInv, pc = "policy"
    PROVE  /\ Policy # None => Policy \in seen.policies \cap Specs
           /\ req \in Requests /\ answer = NoAnswer
           /\ \A t : StrategyOf(Policy, t) \in Seq(Rules)
           /\ \A t : StrategyOf(Policy, t) # <<>> =>
                 Policy # None /\ Policy[t] = StrategyOf(Policy, t)
<1>1. Policy \in SpecOrNone
  BY DEF SInv, CacheInv, Shapes, Policy, SpecOrNone
<1>2. Policy # None => Policy \in seen.policies \cap Specs
  BY <1>1 DEF SInv, BeforePolicy, Policy, SpecOrNone
<1>3. req \in Requests /\ answer = NoAnswer
  BY DEF SInv, Stages
<1>4. \A t : StrategyOf(Policy, t) \in Seq(Rules)
  BY <1>1, StrategyTyped
<1>5. \A t : StrategyOf(Policy, t) # <<>> => Policy # None /\ Policy[t] = StrategyOf(Policy, t)
  BY DEF StrategyOf
<1>6. QED BY <1>2, <1>3, <1>4, <1>5

\* From the read of the policy on the history has what the metrics hold.
LEMMA DataSeen ==
    ASSUME SInv, UNCHANGED <<vars, req>>, spec' = Policy,
           seen' = [seen EXCEPT !.data = [m \in Metrics |-> {metrics[m]} \cap Relevant(m, Policy)]]
    PROVE  /\ seen' \in [policies : SUBSET SpecOrNone, data : [Metrics -> SUBSET Held]]
           /\ seen'.policies = seen.policies
           /\ Known'
<1>1. seen \in [policies : SUBSET SpecOrNone, data : [Metrics -> SUBSET Held]]
  BY DEF SInv, Stages
<1>2. metrics \in [Metrics -> Held] /\ metrics' = metrics
  BY DEF SInv, CacheInv, Shapes, Held, vars
<1>3. PICK f : f = [m \in Metrics |-> {metrics[m]} \cap Relevant(m, Policy)]
  OBVIOUS
<1>4. f \in [Metrics -> SUBSET Held] /\ seen' = [seen EXCEPT !.data = f]
  BY <1>2, <1>3
<1>5. seen'.data = f /\ seen'.policies = seen.policies
  BY <1>1, <1>4
<1>6. ASSUME NEW m \in Metrics, metrics'[m] \in Relevant(m, spec)'
      PROVE  metrics'[m] \in seen'.data[m]
  <2>1. Relevant(m, spec)' = Relevant(m, Policy)
    BY DEF Relevant
  <2>2. QED BY <1>2, <1>3, <1>5, <1>6, <2>1
<1>7. QED BY <1>1, <1>4, <1>5, <1>6 DEF Known

\* The fields of the answers.
LEMMA AnswerFields ==
    ASSUME NEW st, NEW b
    PROVE  /\ [NoAnswer EXCEPT !.status = st, !.body = b].body = b
           /\ [NoAnswer EXCEPT !.status = st, !.body = b].failed = {}
           /\ [NoAnswer EXCEPT !.status = st, !.body = b].ranking = <<>>
           /\ NoAnswer.body = "none" /\ NoAnswer.failed = {} /\ NoAnswer.ranking = <<>>
BY DEF NoAnswer

\* A request without a pod gets no answer.
LEMMA NoPodStep ==
    ASSUME SInv, CacheInv', PodIsNil
    PROVE  SInv'
<1>1. /\ pc = "policy" /\ pc' = "answered" /\ answer' = NoAnswer
      /\ UNCHANGED <<vars, req, spec, rule, nodeMetricViol, violating, seen>>
  BY DEF PodIsNil, Answer
<1>2. Stages' /\ BeforePolicy' /\ AtRules' /\ AtRank'
  BY <1>1, SchedulerAssumption DEF SInv, Stages, BeforePolicy, AtRules, AtRank
<1>3. QED BY <1>1, <1>2, AnswerFields, NothingSaid DEF SInv

\* A filter has read its policy.
LEMMA FilterPolicyStep ==
    ASSUME SInv, CacheInv', FilterReadsPolicy
    PROVE  SInv'
<1>1. pc = "policy" /\ UNCHANGED <<vars, req, rule, nodeMetricViol, violating>> /\ spec' = Policy
  BY DEF FilterReadsPolicy
<1>2. /\ Policy # None => Policy \in seen.policies \cap Specs
      /\ req \in Requests /\ answer = NoAnswer /\ req # NoRequest
      /\ StrategyOf(Policy, "dontschedule") \in Seq(Rules)
      /\ StrategyOf(Policy, "dontschedule") # <<>> =>
            Policy # None /\ Policy["dontschedule"] = StrategyOf(Policy, "dontschedule")
  BY <1>1, PolicyRead, SchedulerAssumption
<1>3. /\ seen' \in [policies : SUBSET SpecOrNone, data : [Metrics -> SUBSET Held]]
      /\ seen'.policies = seen.policies /\ Known'
  BY <1>1, DataSeen DEF FilterReadsPolicy
<1>4. /\ pc' \in {"violated", "answered"} /\ req' = req
      /\ pc' # "answered" => answer' = NoAnswer
  BY <1>1, <1>2 DEF FilterReadsPolicy, Answer
<1>5. Stages' /\ BeforePolicy' /\ AtRank'
  BY <1>2, <1>3, <1>4 DEF Stages, BeforePolicy, AtRank
<1>6. AtRules'
  <2> SUFFICES ASSUME pc' = "violated" PROVE AtRules'
    BY DEF AtRules
  <2>1. Policy # None /\ StrategyOf(Policy, "dontschedule") # <<>> /\ req.path = "filter"
    BY DEF FilterReadsPolicy, Answer
  <2>2. PICK s : s = StrategyOf(Policy, "dontschedule")
    OBVIOUS
  <2>3. s \in Seq(Rules) /\ s # <<>> /\ DontSchedule' = s /\ s = StrategyOf(spec, "dontschedule")'
    BY <1>1, <1>2, <2>1, <2>2 DEF DontSchedule, StrategyOf
  <2>4. rule' = 1 /\ nodeMetricViol' = [n \in Nodes |-> 0] /\ violating' = {}
    BY <1>1 DEF SInv, BeforePolicy
  <2>5. Len(s) \in Nat /\ Len(s) > 0
    BY <2>3
  <2>6. ASSUME NEW n \in Nodes PROVE Judged(n)'
    BY <2>3, <2>4, <2>5 DEF Judged
  <2>7. rule' \in 1..(Len(s) + 1) /\ DOMAIN nodeMetricViol' = Nodes
    BY <2>4, <2>5
  <2>8. spec' \in seen'.policies \cap Specs /\ req'.path = "filter"
    BY <1>1, <1>2, <1>3, <2>1
  <2>9. QED BY <1>3, <2>3, <2>6, <2>7, <2>8 DEF AtRules
<1>7. VerdictExplained' /\ RankingExplained'
  <2>1. CASE Policy = None
    <3>1. answer' = [NoAnswer EXCEPT !.status = 404, !.body = "null"]
      BY <2>1 DEF FilterReadsPolicy, Answer
    <3>2. QED BY <3>1, AnswerFields, NothingSaid
  <2>2. CASE Policy # None /\ StrategyOf(Policy, "dontschedule") = <<>>
    <3>1. answer' = [NoAnswer EXCEPT !.status = 200, !.body = "nodes"]
      BY <2>2 DEF FilterReadsPolicy, Answer
    <3>2. answer'.failed = {} /\ answer'.ranking = <<>>
      BY <3>1, AnswerFields
    <3>3. ToSet(StrategyOf(Policy, "dontschedule")) = {}
      BY <2>2 DEF ToSet
    <3>4. Policy \in seen'.policies \ {None}
      BY <1>2, <1>3, <2>2
    <3>5. QED BY <3>2, <3>3, <3>4 DEF VerdictExplained, RankingExplained, StrategyOf
  <2>3. CASE Policy # None /\ StrategyOf(Policy, "dontschedule") # <<>>
    <3>1. answer' = NoAnswer
      BY <1>2, <2>3 DEF FilterReadsPolicy
    <3>2. QED BY <3>1, AnswerFields, NothingSaid
  <2>4. QED BY <2>1, <2>2, <2>3
<1>9. QED BY <1>5, <1>6, <1>7 DEF SInv

\* A prioritize request has read its policy.
LEMMA PrioritizePolicyStep ==
    ASSUME SInv, CacheInv', PrioritizeReadsPolicy
    PROVE  SInv'
<1>1. pc = "policy" /\ UNCHANGED <<vars, req, rule, nodeMetricViol, violating>> /\ spec' = Policy
  BY DEF PrioritizeReadsPolicy
<1>2. /\ Policy # None => Policy \in seen.policies \cap Specs
      /\ req \in Requests /\ answer = NoAnswer /\ req # NoRequest
      /\ StrategyOf(Policy, "scheduleonmetric") \in Seq(Rules)
      /\ StrategyOf(Policy, "scheduleonmetric") # <<>> =>
            Policy # None /\ Policy["scheduleonmetric"] = StrategyOf(Policy, "scheduleonmetric")
  BY <1>1, PolicyRead, SchedulerAssumption
<1>3. /\ seen' \in [policies : SUBSET SpecOrNone, data : [Metrics -> SUBSET Held]]
      /\ seen'.policies = seen.policies /\ Known'
  BY <1>1, DataSeen DEF PrioritizeReadsPolicy
<1>4. /\ pc' \in {"rank", "answered"} /\ req' = req
      /\ pc' # "answered" => answer' = NoAnswer
      /\ answer'.body # "nodes" /\ answer'.ranking = <<>>
  <2>1. CASE StrategyOf(Policy, "scheduleonmetric") = <<>>
    <3>1. PICK st : st = IF req.key = NoLabel THEN 400 ELSE 200
      OBVIOUS
    <3>2. pc' = "answered" /\ answer' = [NoAnswer EXCEPT !.status = st, !.body = "ranking"]
      BY <2>1, <3>1 DEF PrioritizeReadsPolicy, Answer
    <3>3. QED BY <1>1, <3>2, AnswerFields
  <2>2. CASE StrategyOf(Policy, "scheduleonmetric") # <<>>
    <3>1. pc' = "rank" /\ answer' = NoAnswer
      BY <1>2, <2>2 DEF PrioritizeReadsPolicy
    <3>2. QED BY <1>1, <3>1, AnswerFields
  <2>3. QED BY <2>1, <2>2
<1>5. Stages' /\ BeforePolicy' /\ AtRules'
  BY <1>2, <1>3, <1>4 DEF Stages, BeforePolicy, AtRules
<1>6. AtRank'
  <2> SUFFICES ASSUME pc' = "rank" PROVE AtRank'
    BY DEF AtRank
  <2>1. StrategyOf(Policy, "scheduleonmetric") # <<>> /\ req.path = "prioritize"
    BY DEF PrioritizeReadsPolicy, Answer
  <2>2. StrategyOf(spec, "scheduleonmetric")' = StrategyOf(Policy, "scheduleonmetric")
    BY <1>1 DEF StrategyOf
  <2>3. QED BY <1>1, <1>2, <1>3, <2>1, <2>2 DEF AtRank
<1>7. QED BY <1>4, <1>5, <1>6, NothingSaid DEF SInv

\* A rule is evaluated with data that is in the history.
LEMMA RuleStep ==
    ASSUME SInv, CacheInv', ViolatedRule
    PROVE  SInv'
<1>1. /\ pc = "violated" /\ rule <= Len(DontSchedule) /\ rule' = rule + 1
      /\ UNCHANGED <<vars, req, pc, spec, answer, seen>>
  BY DEF ViolatedRule
<1>2. /\ req.path = "filter" /\ spec \in seen.policies \cap Specs
      /\ DontSchedule = StrategyOf(spec, "dontschedule")
      /\ DontSchedule \in Seq(Rules) /\ DontSchedule # <<>>
      /\ rule \in 1..(Len(DontSchedule) + 1) /\ DOMAIN nodeMetricViol = Nodes /\ Known
      /\ \A n \in Nodes : Judged(n)
  BY <1>1 DEF SInv, AtRules
<1>3. PICK S : S = DontSchedule
  OBVIOUS
<1>4. Len(S) \in Nat /\ rule \in 1..Len(S) /\ S[rule] \in Rules /\ rule \in Nat
  BY <1>1, <1>2, <1>3
<1>5. PICK r, data : r = S[rule] /\ data = metrics[MetricOf[r]]
  OBVIOUS
<1>6. MetricOf[r] \in Metrics /\ data \in Held
  BY <1>4, <1>5, TasAssumption DEF SInv, CacheInv, Shapes, Held
<1>7. data \in seen.data[MetricOf[r]]
  <2>1. r \in ToSet(S)
    BY <1>2, <1>3, <1>4, <1>5 DEF ToSet
  <2>2. Relevant(MetricOf[r], spec) = Held
    BY <1>2, <1>3, <2>1 DEF Relevant, Held
  <2>3. QED BY <1>2, <1>5, <1>6, <2>2 DEF Known
<1>8. PICK bad : bad = IF data \in Data THEN {n \in DOMAIN data : EvaluateRule(data[n], r)} ELSE {}
  OBVIOUS
<1>9. \A n : n \in bad <=> Breaks(data, n, r)
  BY <1>8, Evaluated DEF Breaks
<1>10. /\ nodeMetricViol' = [n \in Nodes |-> nodeMetricViol[n] + IF n \in bad THEN 1 ELSE 0]
       /\ violating' = violating \cup
             IF spec \in AllOf THEN {n \in bad : nodeMetricViol'[n] = Len(S)} ELSE bad
  <2>1. bad \subseteq Nodes
    BY <1>8, SchedulerAssumption
  <2>2. QED BY <1>3, <1>5, <1>8, <2>1 DEF ViolatedRule
<1>11. ASSUME NEW n \in Nodes
       PROVE  /\ n \in bad => MayBreak(n, r)
              /\ n \notin bad => MayKeep(n, r)
  BY <1>7, <1>9 DEF MayBreak, MayKeep
<1>12. DontSchedule' = S
  BY <1>1, <1>3 DEF DontSchedule
<1>13. \A n, x : (MayBreak(n, x)' <=> MayBreak(n, x)) /\ (MayKeep(n, x)' <=> MayKeep(n, x))
  BY <1>1 DEF MayBreak, MayKeep, Breaks
<1>14. ASSUME NEW n \in Nodes PROVE Judged(n)'
  <2>1. PICK v : v = nodeMetricViol[n]
    OBVIOUS
  <2>2. /\ v \in 0..(rule - 1)
        /\ v = rule - 1 => \A i \in 1..(rule - 1) : MayBreak(n, S[i])
        /\ v # rule - 1 => \E i \in 1..(rule - 1) : MayKeep(n, S[i])
        /\ IF spec \in AllOf THEN n \in violating <=> v = Len(S)
           ELSE IF n \in violating
                THEN \E i \in 1..(rule - 1) : MayBreak(n, S[i])
                ELSE \A i \in 1..(rule - 1) : MayKeep(n, S[i])
    BY <1>2, <1>3, <2>1 DEF Judged
  <2>3. nodeMetricViol'[n] = v + IF n \in bad THEN 1 ELSE 0
    BY <1>10, <2>1
  <2>4. n \in violating' <=> \/ n \in violating
                             \/ n \in bad /\ (spec \in AllOf => nodeMetricViol'[n] = Len(S))
    BY <1>10
  <2>5. nodeMetricViol'[n] \in 0..rule
    BY <1>4, <2>2, <2>3
  <2>6. ASSUME nodeMetricViol'[n] = rule, NEW i \in 1..rule PROVE MayBreak(n, S[i])
    <3>1. n \in bad /\ v = rule - 1
      BY <1>4, <2>2, <2>3, <2>6
    <3>2. i \in 1..(rule - 1) \/ i = rule
      BY <1>4
    <3>3. QED BY <1>5, <1>11, <2>2, <3>1, <3>2
  <2>7. ASSUME nodeMetricViol'[n] # rule PROVE \E i \in 1..rule : MayKeep(n, S[i])
    <3>1. CASE n \in bad
      <4>1. v # rule - 1
        BY <1>4, <2>2, <2>3, <2>7, <3>1
      <4>2. PICK i \in 1..(rule - 1) : MayKeep(n, S[i])
        BY <2>2, <4>1
      <4>3. QED BY <1>4, <4>2
    <3>2. CASE n \notin bad
      BY <1>4, <1>5, <1>11, <3>2
    <3>3. QED BY <3>1, <3>2
  <2>8. ASSUME spec \in AllOf PROVE n \in violating' <=> nodeMetricViol'[n] = Len(S)
    <3>1. n \notin violating
      BY <1>4, <2>2, <2>8
    <3>2. n \notin bad => nodeMetricViol'[n] # Len(S)
      BY <1>4, <2>2, <2>3
    <3>3. QED BY <2>4, <2>8, <3>1, <3>2
  <2>9. ASSUME spec \notin AllOf, n \in violating' PROVE \E i \in 1..rule : MayBreak(n, S[i])
    <3>1. CASE n \in bad
      BY <1>4, <1>5, <1>11, <3>1
    <3>2. CASE n \in violating
      <4>1. PICK i \in 1..(rule - 1) : MayBreak(n, S[i])
        BY <2>2, <2>9, <3>2
      <4>2. QED BY <1>4, <4>1
    <3>3. QED BY <2>4, <2>9, <3>1, <3>2
  <2>10. ASSUME spec \notin AllOf, n \notin violating', NEW i \in 1..rule PROVE MayKeep(n, S[i])
    <3>1. n \notin bad /\ n \notin violating
      BY <2>4, <2>10
    <3>2. i \in 1..(rule - 1) \/ i = rule
      BY <1>4
    <3>3. QED BY <1>5, <1>11, <2>2, <2>10, <3>1, <3>2
  <2>11. rule' - 1 = rule /\ spec' = spec
    BY <1>1, <1>4
  <2>12. QED BY <1>12, <1>13, <2>5, <2>6, <2>7, <2>8, <2>9, <2>10, <2>11 DEF Judged
<1>15. AtRules'
  <2>1. rule' \in 1..(Len(S) + 1) /\ DOMAIN nodeMetricViol' = Nodes
    BY <1>1, <1>4, <1>10
  <2>2. Known'
    BY <1>1, <1>2 DEF Known, Relevant, vars
  <2>3. StrategyOf(spec, "dontschedule")' = S
    BY <1>1, <1>2, <1>3 DEF StrategyOf
  <2>4. QED BY <1>1, <1>2, <1>3, <1>12, <1>14, <2>1, <2>2, <2>3 DEF AtRules
<1>16. Stages' /\ BeforePolicy' /\ AtRank'
  BY <1>1 DEF SInv, Stages, BeforePolicy, AtRank
<1>17. VerdictExplained' /\ RankingExplained'
  <2>1. answer' = NoAnswer
    BY <1>1 DEF SInv, Stages
  <2>2. QED BY <2>1, NothingSaid DEF NoAnswer
<1>18. QED BY <1>15, <1>16, <1>17 DEF SInv

\* The verdict: every rule has been evaluated.
LEMMA FilterStep ==
    ASSUME SInv, CacheInv', FilterAnswers
    PROVE  SInv'
<1>1. /\ pc = "violated" /\ rule > Len(DontSchedule) /\ pc' = "answered"
      /\ UNCHANGED <<vars, req, spec, rule, nodeMetricViol, violating, seen>>
  BY DEF FilterAnswers, Answer
<1>2. /\ spec \in seen.policies \cap Specs /\ DontSchedule = StrategyOf(spec, "dontschedule")
      /\ DontSchedule \in Seq(Rules) /\ DontSchedule # <<>>
      /\ rule \in 1..(Len(DontSchedule) + 1) /\ \A n \in Nodes : Judged(n)
  BY <1>1 DEF SInv, AtRules
<1>3. PICK S : S = DontSchedule
  OBVIOUS
<1>4. Len(S) \in Nat /\ Len(S) > 0 /\ DOMAIN S = 1..Len(S) /\ rule - 1 = Len(S)
  BY <1>1, <1>2, <1>3
<1>5. req \in Requests /\ req # NoRequest /\ req.nodes \subseteq Nodes
  BY <1>1, SchedulerAssumption DEF SInv, Stages
<1>6. \/ answer' = [NoAnswer EXCEPT !.status = 404, !.body = "null"]
      \/ answer' = [NoAnswer EXCEPT !.status = 200, !.body = "nodes",
                                    !.failed = req.nodes \cap violating]
  BY DEF FilterAnswers, Answer
<1>7. Stages' /\ BeforePolicy' /\ AtRules' /\ AtRank'
  BY <1>1 DEF SInv, Stages, BeforePolicy, AtRules, AtRank
<1>8. RankingExplained'
  BY <1>6 DEF RankingExplained, NoAnswer
<1>9. VerdictExplained'
  <2> SUFFICES ASSUME answer'.body = "nodes" PROVE VerdictExplained'
    BY DEF VerdictExplained
  <2>1. answer'.failed = req.nodes \cap violating
    BY <1>6 DEF NoAnswer
  <2>2. spec \in seen'.policies \ {None}
    BY <1>1, <1>2, TasAssumption
  <2>3. \A n, x : (MayBreak(n, x)' <=> MayBreak(n, x)) /\ (MayKeep(n, x)' <=> MayKeep(n, x))
    BY <1>1 DEF MayBreak, MayKeep, Breaks
  <2>4. ASSUME NEW n \in req.nodes
        PROVE  IF n \in answer'.failed
               THEN IF spec \in AllOf THEN \A r \in ToSet(S) : MayBreak(n, r)
                                      ELSE \E r \in ToSet(S) : MayBreak(n, r)
               ELSE IF spec \in AllOf /\ ToSet(S) # {} THEN \E r \in ToSet(S) : MayKeep(n, r)
                                                      ELSE \A r \in ToSet(S) : MayKeep(n, r)
    <3>1. /\ nodeMetricViol[n] = Len(S) => \A i \in 1..Len(S) : MayBreak(n, S[i])
          /\ nodeMetricViol[n] # Len(S) => \E i \in 1..Len(S) : MayKeep(n, S[i])
          /\ IF spec \in AllOf THEN n \in violating <=> nodeMetricViol[n] = Len(S)
             ELSE IF n \in violating
                  THEN \E i \in 1..Len(S) : MayBreak(n, S[i])
                  ELSE \A i \in 1..Len(S) : MayKeep(n, S[i])
      BY <1>2, <1>3, <1>4, <1>5 DEF Judged
    <3>2. n \in answer'.failed <=> n \in violating
      BY <2>1
    <3>3. \A i \in 1..Len(S) : S[i] \in ToSet(S)
      BY <1>4 DEF ToSet
    <3>4. \A r \in ToSet(S) : \E i \in 1..Len(S) : r = S[i]
      BY <1>4 DEF ToSet
    <3>5. ToSet(S) # {}
      BY <1>4, <3>3
    <3>6. QED BY <1>4, <3>1, <3>2, <3>3, <3>4, <3>5
  <2>5. req' = req /\ StrategyOf(spec, "dontschedule") = S
    BY <1>1, <1>2, <1>3
  <2>6. QED BY <2>2, <2>3, <2>4, <2>5 DEF VerdictExplained, StrategyOf
<1>10. QED BY <1>7, <1>8, <1>9 DEF SInv

\* An order of a finite set has each of its members once.
LEMMA OrderOfSet ==
    ASSUME NEW S, IsFiniteSet(S), NEW s \in SetToSeqs(S)
    PROVE  /\ DOMAIN s = 1..Cardinality(S) /\ Cardinality(S) \in Nat
           /\ {s[x] : x \in DOMAIN s} = S
           /\ \A x, y \in DOMAIN s : x # y => s[x] # s[y]
<1>1. Cardinality(S) \in Nat
  BY FS_CardinalityType
<1>2. PICK D : D = 1..Cardinality(S)
  OBVIOUS
<1>3. s \in [D -> S] /\ \A x, y \in D : x # y => s[x] # s[y]
  BY <1>2 DEF SetToSeqs
<1>4. IsFiniteSet(D) /\ Cardinality(D) = Cardinality(S)
  BY <1>1, <1>2, FS_Interval
<1>5. s \in Injection(D, S)
  BY <1>3 DEF Injection, IsInjective
<1>6. s \in Surjection(D, S)
  BY <1>4, <1>5, FS_Injection
<1>7. {s[x] : x \in D} = S
  BY <1>3, <1>6 DEF Surjection
<1>8. QED BY <1>1, <1>2, <1>3, <1>7

\* The ranking follows the data that was read.
LEMMA RankStep ==
    ASSUME SInv, CacheInv', PrioritizeAnswers
    PROVE  SInv'
<1>1. /\ pc = "rank" /\ pc' = "answered"
      /\ UNCHANGED <<vars, req, spec, rule, nodeMetricViol, violating, seen>>
  BY DEF PrioritizeAnswers, Answer
<1>2. /\ req.path = "prioritize" /\ spec \in seen.policies \cap Specs
      /\ spec["scheduleonmetric"] = StrategyOf(spec, "scheduleonmetric")
      /\ spec["scheduleonmetric"] \in Seq(Rules) /\ spec["scheduleonmetric"] # <<>>
      /\ Known
  BY <1>1 DEF SInv, AtRank
<1>3. req \in Requests /\ req # NoRequest /\ req.nodes \subseteq Nodes
  BY <1>1, SchedulerAssumption DEF SInv, Stages
<1>4. PICK r, d : r = spec["scheduleonmetric"][1] /\ d = metrics[MetricOf[r]]
  OBVIOUS
<1>5. r \in Rules /\ r \in ToSet(StrategyOf(spec, "scheduleonmetric")) /\ MetricOf[r] \in Metrics
  BY <1>2, <1>4, TasAssumption DEF ToSet
<1>6. d \in seen.data[MetricOf[r]]
  <2>1. Relevant(MetricOf[r], spec) = Held
    BY <1>2, <1>5 DEF Relevant, Held
  <2>2. d \in Held
    BY <1>4, <1>5 DEF SInv, CacheInv, Shapes, Held
  <2>3. QED BY <1>2, <1>4, <1>5, <2>1, <2>2 DEF Known
<1>7. Stages' /\ BeforePolicy' /\ AtRules' /\ AtRank'
  BY <1>1 DEF SInv, Stages, BeforePolicy, AtRules, AtRank
<1>8. \/ answer' = [NoAnswer EXCEPT !.status = 200, !.body = "ranking"]
      \/ /\ d \in Data
         /\ \E s \in OrderedLists(Filtered(d), OperatorOf[r]) :
               answer' = [NoAnswer EXCEPT !.status = 200, !.body = "ranking",
                                          !.ranking = Scores(s)]
  BY <1>4 DEF PrioritizeAnswers, Answer
<1>9. VerdictExplained'
  BY <1>8 DEF VerdictExplained, NoAnswer
<1>10. RankingExplained'
  <2> SUFFICES ASSUME answer'.ranking # <<>> PROVE RankingExplained'
    BY DEF RankingExplained
  <2>1. d \in Data
    BY <1>8 DEF NoAnswer
  <2>2. PICK f, s : /\ f = Filtered(d) /\ s \in OrderedLists(f, OperatorOf[r])
                    /\ answer' = [NoAnswer EXCEPT !.status = 200, !.body = "ranking",
                                                  !.ranking = Scores(s)]
    BY <1>8 DEF NoAnswer
  <2>3. /\ DOMAIN f = req.nodes \cap DOMAIN d
        /\ \A n \in DOMAIN f : f[n] = d[n] /\ d[n] \in Int
    BY <2>1, <2>2, SchedulerAssumption DEF Filtered
  <2>4. IsFiniteSet(DOMAIN f)
    BY <1>3, <2>3, SchedulerAssumption, FS_Subset
  <2>5. /\ s \in SetToSeqs(DOMAIN f)
        /\ \A x, y \in DOMAIN s : x < y => ~Before(OperatorOf[r], f[s[y]], f[s[x]])
    BY <2>2 DEF OrderedLists
  <2>6. /\ DOMAIN s = 1..Cardinality(DOMAIN f) /\ Cardinality(DOMAIN f) \in Nat
        /\ {s[x] : x \in DOMAIN s} = DOMAIN f
        /\ \A x, y \in DOMAIN s : x # y => s[x] # s[y]
    BY <2>4, <2>5, OrderOfSet
  <2>7. PICK R : R = answer'.ranking
    OBVIOUS
  <2>8. R = Scores(s)
    BY <2>2, <2>7 DEF NoAnswer
  <2>9. /\ DOMAIN R = DOMAIN s
        /\ \A x \in DOMAIN s : R[x].host = s[x] /\ R[x].score = MaxScore - (x - 1)
    BY <2>8 DEF Scores
  <2>10. {R[x].host : x \in DOMAIN R} = req.nodes \cap DOMAIN d
    <3>1. {R[x].host : x \in DOMAIN R} = {s[x] : x \in DOMAIN s}
      BY <2>9
    <3>2. QED BY <2>3, <2>6, <3>1
  <2>11. \A x, y \in DOMAIN R : x # y => R[x].host # R[y].host
    BY <2>6, <2>9
  <2>12. ASSUME NEW x \in DOMAIN R, NEW y \in DOMAIN R, Better(r, d[R[x].host], d[R[y].host])
         PROVE  R[x].score > R[y].score
    <3>1. /\ x \in DOMAIN s /\ y \in DOMAIN s /\ x \in Nat /\ y \in Nat
          /\ s[x] \in DOMAIN f /\ s[y] \in DOMAIN f
      BY <2>6, <2>9
    <3>2. PICK a, b : a = d[s[x]] /\ b = d[s[y]]
      OBVIOUS
    <3>3. a \in Int /\ b \in Int /\ f[s[x]] = a /\ f[s[y]] = b
      BY <2>3, <3>1, <3>2
    <3>4. Better(r, a, b)
      BY <2>9, <2>12, <3>1, <3>2
    <3>5. Before(OperatorOf[r], a, b) /\ a # b
      BY <3>3, <3>4 DEF Better, Before
    <3>6. x # y
      BY <3>2, <3>5
    <3>7. ~(y < x)
      BY <2>5, <3>1, <3>3, <3>5
    <3>8. x < y
      BY <3>1, <3>6, <3>7
    <3>9. QED BY <2>9, <3>1, <3>8, SchedulerAssumption
  <2>13. spec \in {x \in seen'.policies : StrategyOf(x, "scheduleonmetric") # <<>>}
    BY <1>1, <1>2
  <2>14. d \in seen'.data[MetricOf[r]] \cap Data
    BY <1>1, <1>6, <2>1
  <2>15. req' = req
    BY <1>1
  <2>16. QED
    <3>1. PICK p : p = spec
      OBVIOUS
    <3>2. p \in {x \in seen'.policies : StrategyOf(x, "scheduleonmetric") # <<>>}
          /\ r = p["scheduleonmetric"][1]
      BY <1>4, <2>13, <3>1
    <3>3. QED BY <2>7, <2>10, <2>11, <2>12, <2>14, <2>15, <3>2 DEF RankingExplained, StrategyOf,
                 Better
<1>11. QED BY <1>7, <1>9, <1>10 DEF SInv

\* A step of the controller or the updater: what it leaves is seen.
LEMMA CacheChange ==
    ASSUME SInv, CacheInv', CacheStep
    PROVE  SInv'
<1>1. UNCHANGED <<req, pc, spec, rule, nodeMetricViol, violating, answer>>
  BY DEF CacheStep, reqVars
<1>2. pc \in {"idle", "policy", "violated", "rank"}
  BY DEF CacheStep, AtRead, SInv, Stages
<1>3. answer' = NoAnswer
  BY <1>1, <1>2 DEF SInv, Stages
<1>4. VerdictExplained' /\ RankingExplained'
  BY <1>3, NothingSaid DEF NoAnswer
<1>5. seen \in [policies : SUBSET SpecOrNone, data : [Metrics -> SUBSET Held]]
  BY DEF SInv, Stages
<1>6. /\ cached' \in [Keys -> SpecOrNone] /\ metrics' \in [Metrics -> Held]
  BY DEF CacheInv, Shapes, Held
<1>7. CASE pc = "policy" /\ req.key \in Keys
  <2>1. seen' = [seen EXCEPT !.policies = @ \cup {cached'[req.key]}]
    BY <1>7 DEF CacheStep
  <2>2. /\ seen' \in [policies : SUBSET SpecOrNone, data : [Metrics -> SUBSET Held]]
        /\ cached'[req.key] \in seen'.policies
    BY <1>5, <1>6, <1>7, <2>1
  <2>3. Stages'
    BY <1>1, <2>2 DEF SInv, Stages
  <2>4. BeforePolicy'
    BY <1>1, <2>2 DEF SInv, BeforePolicy
  <2>5. AtRules' /\ AtRank'
    BY <1>1, <1>7 DEF AtRules, AtRank
  <2>6. QED BY <1>4, <2>3, <2>4, <2>5 DEF SInv
<1>8. CASE pc = "idle"
  <2>1. seen' = seen
    BY <1>8 DEF CacheStep
  <2>2. Stages' /\ BeforePolicy' /\ AtRules' /\ AtRank'
    BY <1>1, <1>8, <2>1 DEF SInv, Stages, BeforePolicy, AtRules, AtRank
  <2>3. QED BY <1>4, <2>2 DEF SInv
<1>9. CASE pc # "idle" /\ ~(pc = "policy" /\ req.key \in Keys)
  <2>1. PICK f : f = [m \in Metrics |-> seen.data[m] \cup ({metrics'[m]} \cap Relevant(m, spec))]
    OBVIOUS
  <2>2. seen' = [seen EXCEPT !.data = f]
    BY <1>9, <2>1 DEF CacheStep
  <2>3. f \in [Metrics -> SUBSET Held]
    BY <1>5, <1>6, <2>1
  <2>4. /\ seen' \in [policies : SUBSET SpecOrNone, data : [Metrics -> SUBSET Held]]
        /\ seen'.policies = seen.policies /\ seen'.data = f
    BY <1>5, <2>2, <2>3
  <2>5. \A m \in Metrics : seen.data[m] \subseteq seen'.data[m]
    BY <2>1, <2>4
  <2>6. Known'
    <3>1. ASSUME NEW m \in Metrics, metrics'[m] \in Relevant(m, spec)'
          PROVE  metrics'[m] \in seen'.data[m]
      <4>1. Relevant(m, spec)' = Relevant(m, spec)
        BY <1>1 DEF Relevant
      <4>2. QED BY <2>1, <2>4, <3>1, <4>1
    <3>2. QED BY <3>1 DEF Known
  <2>7. Stages' /\ BeforePolicy'
    BY <1>1, <1>9, <2>4 DEF SInv, Stages, BeforePolicy
  <2>8. AtRank'
    BY <1>1, <2>4, <2>6 DEF SInv, AtRank, StrategyOf
  <2>9. AtRules'
    <3> SUFFICES ASSUME pc' = "violated" PROVE AtRules'
      BY DEF AtRules
    <3>1. /\ req.path = "filter" /\ spec \in seen.policies \cap Specs
          /\ DontSchedule = StrategyOf(spec, "dontschedule")
          /\ DontSchedule \in Seq(Rules) /\ DontSchedule # <<>>
          /\ rule \in 1..(Len(DontSchedule) + 1) /\ DOMAIN nodeMetricViol = Nodes
          /\ \A n \in Nodes : Judged(n)
      BY <1>1 DEF SInv, AtRules
    <3>2. PICK S : S = DontSchedule
      OBVIOUS
    <3>3. DontSchedule' = S /\ StrategyOf(spec, "dontschedule")' = S
      BY <1>1, <3>1, <3>2 DEF DontSchedule, StrategyOf
    <3>4. \A i \in 1..(rule - 1) : S[i] \in Rules
      BY <3>1, <3>2
    <3>5. ASSUME NEW n \in Nodes PROVE Judged(n)'
      <4>1. Judged(n)
        BY <3>1
      <4>2. \A i \in 1..(rule - 1) : /\ MayBreak(n, S[i]) => MayBreak(n, S[i])'
                                     /\ MayKeep(n, S[i]) => MayKeep(n, S[i])'
        BY <2>5, <3>4, MoreSeen
      <4>3. QED BY <1>1, <3>2, <3>3, <4>1, <4>2 DEF Judged
    <3>6. QED BY <1>1, <2>4, <2>6, <3>1, <3>2, <3>3, <3>5 DEF AtRules
  <2>10. QED BY <1>4, <2>7, <2>8, <2>9 DEF SInv
<1>10. QED BY <1>7, <1>8, <1>9

\* Every step keeps the invariant.
LEMMA NextSInv == SInv /\ [SchedNext]_schedVars => SInv'
<1> SUFFICES ASSUME SInv, [SchedNext]_schedVars PROVE SInv'
  OBVIOUS
<1>1. CacheInv'
  <2>1. [Next]_vars
    BY DEF SchedNext, CacheStep, Arrive, Reply, Handler, PodIsNil, FilterReadsPolicy,
           PrioritizeReadsPolicy, ViolatedRule, FilterAnswers, PrioritizeAnswers, schedVars
  <2>2. QED BY <2>1, StepCacheInv DEF SInv
<1>2. CASE UNCHANGED schedVars
  <2>1. Stages' /\ BeforePolicy' /\ AtRank'
    BY <1>2 DEF schedVars, vars, reqVars, SInv, Stages, BeforePolicy, AtRank, Known, Relevant,
       StrategyOf
  <2>2. \A n, x : (MayBreak(n, x)' <=> MayBreak(n, x)) /\ (MayKeep(n, x)' <=> MayKeep(n, x))
    BY <1>2 DEF schedVars, MayBreak, MayKeep, Breaks
  <2>3. \A n : Judged(n)' <=> Judged(n)
    BY <1>2, <2>2 DEF schedVars, reqVars, Judged, DontSchedule
  <2>4. Known' <=> Known
    BY <1>2 DEF schedVars, vars, reqVars, Known, Relevant, StrategyOf
  <2>5. AtRules'
    BY <1>2, <2>3, <2>4 DEF schedVars, reqVars, SInv, AtRules, StrategyOf, DontSchedule
  <2>6. VerdictExplained'
    BY <1>2, <2>2 DEF schedVars, reqVars, SInv, VerdictExplained, StrategyOf
  <2>7. RankingExplained'
    BY <1>2 DEF schedVars, reqVars, SInv, RankingExplained, StrategyOf, Better
  <2>8. QED BY <1>1, <2>1, <2>5, <2>6, <2>7 DEF SInv
<1>3. QED
  BY <1>1, <1>2, ArriveStep, ReplyStep, NoPodStep, FilterPolicyStep, PrioritizePolicyStep, RuleStep,
     FilterStep, RankStep, CacheChange DEF SchedNext, Handler

-----------------------------------------------------------------------------
(* What is proved. *)

\* The verdict of filterNodes is that of one version of the policy, and each rule
\* in it of data that the cache held while the request was served, although the
\* handler takes no lock and reads metric by metric.
THEOREM VerdictsExplained == SchedSpec => []VerdictExplained
<1>1. SInv => VerdictExplained
  BY DEF SInv
<1>2. QED BY <1>1, InitSInv, NextSInv, PTL DEF SchedSpec

\* The ranking of prioritizeNodesForRule has every node of the request that has the
\* metric once, and follows one snapshot of it, for any number of nodes.
THEOREM RankingsExplained == SchedSpec => []RankingExplained
<1>1. SInv => RankingExplained
  BY DEF SInv
<1>2. QED BY <1>1, InitSInv, NextSInv, PTL DEF SchedSpec
=============================================================================
