---------------------------- MODULE TasScheduler ----------------------------
(***************************************************************************)
(* Telemetry Aware Scheduling: the extender's handlers of filter and       *)
(* prioritize requests, composed with the controller and the metric cache  *)
(* they read from.                                                         *)
(*                                                                         *)
(* A handler takes no lock.  It reads the pod's policy, then the metric of *)
(* each rule, each with a request of its own to the cache's goroutine, and *)
(* the controller and the updater change the cache between these reads.    *)
(* Handlers share nothing but the cache and do not write to it, so that    *)
(* one request at a time stands for any number of them.                    *)
(*                                                                         *)
(* The data of a metric is a function from node names to values.           *)
(***************************************************************************)
EXTENDS TasController

CONSTANTS
    Nodes,
    OperatorOf, TargetOf,   \* of each rule
    AllOf,      \* the specs whose dontschedule strategy has logicalOperator allOf
    MaxScore,   \* maxScore: 10 in the code
    MaxOverlap, \* bound: policies and data that come into the cache during a request
    Requests,   \* [path, json, large, post, decodes, key, nodes]: see Arrive
    NoRequest,
    NoLabel, NoPod  \* keys of requests: the pod has no such label; there is no pod

ASSUME SchedulerAssumption ==
    /\ IsFiniteSet(Nodes)
    /\ \A d \in Data : DOMAIN d \subseteq Nodes /\ \A n \in DOMAIN d : d[n] \in Int
    /\ \A q \in Requests : q.nodes \subseteq Nodes /\ q.key \in Keys \cup {NoLabel, NoPod}
    /\ NoRequest \notin Requests /\ NoPod \notin Keys \cup {NoLabel}
    /\ MaxScore \in Nat /\ MaxOverlap \in Nat

VARIABLES
    req,        \* the request that is served, or NoRequest
    pc,         \* the handler's next step
    spec,       \* the policy that was read: its spec
    rule,       \* index of the next dontschedule rule
    nodeMetricViol,  \* number of rules violated by each node
    violating,  \* violatingNodes
    answer,
    seen        \* history: the versions of the policy that the cache has held from the
                \* arrival of the request to the read of the policy, and the data from
                \* then on

reqVars == <<req, pc, spec, rule, nodeMetricViol, violating, answer>>
schedVars == <<vars, reqVars, seen>>

NoAnswer == [status |-> 0, body |-> "none", failed |-> {}, ranking |-> <<>>]
Unseen == [policies |-> {}, data |-> [m \in Metrics |-> {}]]

\* What the cache may hold under m that matters to a request once it has read policy
\* s: anything if the handler will read m, else nothing.
Relevant(m, s) ==
    LET rules == StrategyOf(s, IF req.path = "filter" THEN "dontschedule" ELSE "scheduleonmetric")
    IN IF \E r \in ToSet(rules) : MetricOf[r] = m THEN Data \cup {Nil, None} ELSE {}

\* The bound: what has come into the cache since the request arrived, or since its
\* policy was read.
BoundedOverlap(s) ==
    /\ Cardinality(s.policies) <= 1 + MaxOverlap
    /\ MapThenSumSet(LAMBDA m : Cardinality(s.data[m]), Metrics)
          <= Cardinality({m \in Metrics : s.data[m] # {}}) + MaxOverlap

IdleRequest ==
    /\ req = NoRequest /\ pc = "idle" /\ spec = None /\ rule = 1
    /\ nodeMetricViol = [n \in Nodes |-> 0] /\ violating = {}
    /\ answer = NoAnswer /\ seen = Unseen

SchedInit == Init /\ IdleRequest

-----------------------------------------------------------------------------
(* The HTTP server. *)

\* handlerWithMiddleware: content type, content length, method, in this order.
Middleware(q) ==
    CASE ~q.json -> 404
      [] q.json /\ q.large -> 500
      [] q.json /\ ~q.large /\ ~q.post -> 405
      [] OTHER -> 200

\* The routes of StartServer.  Bind and unknown paths (errorHandler) answer 404
\* and read nothing; a body that DecodeExtenderRequest refuses (not JSON, or
\* without a node list) gets the status 200 and no body.
Arrive(q) ==
    /\ req = NoRequest
    /\ req' = q
    /\ seen' = [Unseen EXCEPT !.policies = IF q.key \in Keys THEN {cached[q.key]} ELSE {}]
    /\ IF Middleware(q) # 200 \/ q.path \notin {"filter", "prioritize"} \/ ~q.decodes
          \/ (q.path = "prioritize" /\ q.nodes = {})
       THEN /\ pc' = "answered"
            /\ answer' = [NoAnswer EXCEPT !.status =
                  IF Middleware(q) # 200 THEN Middleware(q)
                  ELSE IF q.path \in {"filter", "prioritize"} THEN 200 ELSE 404]
       ELSE pc' = "policy" /\ UNCHANGED answer
    /\ UNCHANGED <<vars, spec, rule, nodeMetricViol, violating>>

\* The answer is on its way, and the handler's state gone.
Reply ==
    /\ pc = "answered"
    /\ req' = NoRequest /\ pc' = "idle" /\ spec' = None /\ rule' = 1
    /\ nodeMetricViol' = [n \in Nodes |-> 0] /\ violating' = {}
    /\ answer' = NoAnswer /\ seen' = Unseen
    /\ UNCHANGED vars

-----------------------------------------------------------------------------
(* The policy. *)

Answer(a) == pc' = "answered" /\ answer' = a

Policy == IF req.key \in Keys THEN cached[req.key] ELSE None

\* A request without a pod: the handler panics on its labels, the server recovers and
\* closes the connection, and there is no answer.
PodIsNil ==
    /\ pc = "policy" /\ req.key = NoPod
    /\ Answer(NoAnswer)
    /\ UNCHANGED <<vars, req, spec, rule, nodeMetricViol, violating, seen>>

\* getPolicyFromPod in filterNodes: without a policy the answer is null, with
\* status 404; without dontschedule rules every node is let through.
FilterReadsPolicy ==
    /\ pc = "policy" /\ req.path = "filter" /\ req.key # NoPod
    /\ spec' = Policy
    /\ CASE Policy = None -> Answer([NoAnswer EXCEPT !.status = 404, !.body = "null"])
         [] Policy # None /\ StrategyOf(Policy, "dontschedule") = <<>> ->
               Answer([NoAnswer EXCEPT !.status = 200, !.body = "nodes"])
         [] OTHER -> pc' = "violated" /\ UNCHANGED answer
    /\ seen' = [seen EXCEPT !.data = [m \in Metrics |-> {metrics[m]} \cap Relevant(m, Policy)]]
    /\ UNCHANGED <<vars, req, rule, nodeMetricViol, violating>>

\* A pod without the label gets the status 400, and an empty list all the same.
PrioritizeReadsPolicy ==
    /\ pc = "policy" /\ req.path = "prioritize" /\ req.key # NoPod
    /\ spec' = Policy
    /\ IF StrategyOf(Policy, "scheduleonmetric") = <<>>
       THEN Answer([NoAnswer EXCEPT !.status = IF req.key = NoLabel THEN 400 ELSE 200,
                                    !.body = "ranking"])
       ELSE pc' = "rank" /\ UNCHANGED answer
    /\ seen' = [seen EXCEPT !.data = [m \in Metrics |-> {metrics[m]} \cap Relevant(m, Policy)]]
    /\ UNCHANGED <<vars, req, rule, nodeMetricViol, violating>>

-----------------------------------------------------------------------------
(* Filter. *)

\* An operator that is not known is never violated.
EvaluateRule(value, r) ==
    CASE OperatorOf[r] = "LessThan" -> value < TargetOf[r]
      [] OperatorOf[r] = "GreaterThan" -> value > TargetOf[r]
      [] OperatorOf[r] = "Equals" -> value = TargetOf[r]
      [] OTHER -> FALSE

DontSchedule == spec["dontschedule"]

\* Mutant: a node is refused if it violates all the rules that could be read.
ViolatesReadable ==
    /\ pc = "violated" /\ rule <= Len(DontSchedule)
    /\ LET r == DontSchedule[rule]
           data == metrics[MetricOf[r]]
           bad == IF data \in Data
                  THEN {n \in DOMAIN data : EvaluateRule(data[n], r)} ELSE Nodes
           count == [n \in Nodes |-> nodeMetricViol[n] + IF n \in bad THEN 1 ELSE 0]
       IN /\ nodeMetricViol' = count
          /\ violating' = violating \cup
                IF spec \in AllOf THEN {n \in bad : count[n] = Len(DontSchedule)}
                ELSE IF data \in Data THEN bad ELSE {}
    /\ rule' = rule + 1
    /\ UNCHANGED <<vars, req, pc, spec, answer, seen>>

\* One round of the loop of Violated: the read of a metric without data fails and
\* the rule is skipped.
ViolatedRule ==
    /\ pc = "violated" /\ rule <= Len(DontSchedule)
    /\ LET r == DontSchedule[rule]
           data == metrics[MetricOf[r]]
           bad == IF data \in Data
                  THEN {n \in DOMAIN data : EvaluateRule(data[n], r)} ELSE {}
           count == [n \in Nodes |-> nodeMetricViol[n] + IF n \in bad THEN 1 ELSE 0]
       IN /\ nodeMetricViol' = count
          /\ violating' = violating \cup
                IF spec \in AllOf THEN {n \in bad : count[n] = Len(DontSchedule)} ELSE bad
    /\ rule' = rule + 1
    /\ UNCHANGED <<vars, req, pc, spec, answer, seen>>

\* The split of the node list.  NodeNames repeats the names that are let through.
FilterAnswers ==
    /\ pc = "violated" /\ rule > Len(DontSchedule)
    /\ IF req.nodes = {} THEN Answer([NoAnswer EXCEPT !.status = 404, !.body = "null"])
       ELSE Answer([NoAnswer EXCEPT !.status = 200, !.body = "nodes",
                                    !.failed = req.nodes \cap violating])
    /\ UNCHANGED <<vars, req, spec, rule, nodeMetricViol, violating, seen>>

-----------------------------------------------------------------------------
(* Prioritize. *)

\* The comparison that OrderedList sorts with.
Before(op, a, b) ==
    CASE op = "GreaterThan" -> a > b [] op = "LessThan" -> a < b [] OTHER -> FALSE

\* OrderedList starts from the iteration of a Go map and its sort is not stable,
\* so that equal values, and everything under another operator, come in any order.
OrderedLists(data, op) ==
    {s \in SetToSeqs(DOMAIN data) :
        \A x, y \in DOMAIN s : x < y => ~Before(op, data[s[y]], data[s[x]])}

\* Mutant: every node that has the metric is ranked.
AllWithMetric(data) == data

\* Only the nodes of the request are ranked, those that have the metric.
Filtered(data) == [n \in req.nodes \cap DOMAIN data |-> data[n]]

Scores(s) == [x \in DOMAIN s |-> [host |-> s[x], score |-> MaxScore - (x - 1)]]

\* prioritizeNodesForRule, with the first scheduleonmetric rule (rules have a metric
\* name here).
PrioritizeAnswers ==
    /\ pc = "rank"
    /\ LET r == spec["scheduleonmetric"][1]
           data == metrics[MetricOf[r]]
       IN IF data \in Data
          THEN \E s \in OrderedLists(Filtered(data), OperatorOf[r]) :
                  Answer([NoAnswer EXCEPT !.status = 200, !.body = "ranking",
                                          !.ranking = Scores(s)])
          ELSE Answer([NoAnswer EXCEPT !.status = 200, !.body = "ranking"])
    /\ UNCHANGED <<vars, req, spec, rule, nodeMetricViol, violating, seen>>

-----------------------------------------------------------------------------
AtRead == pc \in {"policy", "rank"} \/ (pc = "violated" /\ rule <= Len(DontSchedule))

\* A step of the controller or the updater; what it leaves in the cache is seen.
\* What a handler does between its last read and the end of its answer touches
\* nothing but its own state, and is not interleaved with anything.
CacheStep ==
    /\ Next /\ (req = NoRequest \/ AtRead)
    /\ UNCHANGED reqVars
    /\ seen' = IF pc = "policy" /\ req.key \in Keys
               THEN [seen EXCEPT !.policies = @ \cup {cached'[req.key]}]
               ELSE IF pc = "idle" THEN seen
               ELSE [seen EXCEPT !.data =
                        [m \in Metrics |-> @[m] \cup ({metrics'[m]} \cap Relevant(m, spec))]]
    /\ BoundedOverlap(seen')

Handler ==
    \/ PodIsNil \/ FilterReadsPolicy \/ PrioritizeReadsPolicy \/ ViolatedRule
    \/ FilterAnswers \/ PrioritizeAnswers

SchedNext ==
    \/ CacheStep
    \/ \E q \in Requests : Arrive(q)
    \/ Handler \/ Reply

SchedSpec == SchedInit /\ [][SchedNext]_schedVars

\* Requests are served.  The controller and the updater run as in FairSpec, the
\* ticker starts period after period, and the metrics API does not fail for a
\* metric for ever.
LiveSpec ==
    /\ SchedSpec
    /\ WF_schedVars(Handler \/ Reply)
    /\ SF_vars(Controller) /\ WF_vars(StartUpdate \/ Updater)
    /\ \A m \in Metrics : SF_vars(\E d \in Data : FetchMetric(m, d))

-----------------------------------------------------------------------------
(* Properties *)

Breaks(d, n, r) ==
    /\ d \in Data /\ n \in DOMAIN d
    /\ \/ OperatorOf[r] = "GreaterThan" /\ d[n] > TargetOf[r]
       \/ OperatorOf[r] = "LessThan" /\ d[n] < TargetOf[r]
       \/ OperatorOf[r] = "Equals" /\ d[n] = TargetOf[r]

MayBreak(n, r) == \E d \in seen.data[MetricOf[r]] : Breaks(d, n, r)
MayKeep(n, r) == \E d \in seen.data[MetricOf[r]] : ~Breaks(d, n, r)

\* The verdict of a filter is that of one version of the pod's policy, held while
\* the request was served, never a mixture of two: a node is refused only if it
\* broke one of its rules (all of them under allOf) by data that was in the cache
\* during the request, and let through only if some data in that time spared it.
VerdictExplained ==
    answer.body = "nodes" => \E s \in seen.policies \ {None} :
        LET rules == ToSet(StrategyOf(s, "dontschedule"))
        IN \A n \in req.nodes :
              IF n \in answer.failed
              THEN IF s \in AllOf THEN \A r \in rules : MayBreak(n, r)
                                  ELSE \E r \in rules : MayBreak(n, r)
              ELSE IF s \in AllOf /\ rules # {} THEN \E r \in rules : MayKeep(n, r)
                                               ELSE \A r \in rules : MayKeep(n, r)

Better(r, a, b) ==
    (OperatorOf[r] = "GreaterThan" /\ a > b) \/ (OperatorOf[r] = "LessThan" /\ a < b)

\* "Priorities are ordinal": a ranking that is not empty lists every node of the
\* request that has the metric once, and no other; it follows one snapshot of the
\* metric that the cache held during the request: the better of two values always
\* has the higher score, however many nodes there are.
RankingExplained ==
    answer.ranking # <<>> =>
        \E s \in {x \in seen.policies : StrategyOf(x, "scheduleonmetric") # <<>>} :
            LET r == s["scheduleonmetric"][1]
                R == answer.ranking
            IN \E d \in seen.data[MetricOf[r]] \cap Data :
                  /\ {R[x].host : x \in DOMAIN R} = req.nodes \cap DOMAIN d
                  /\ \A x, y \in DOMAIN R : x # y => R[x].host # R[y].host
                  /\ \A x, y \in DOMAIN R :
                        Better(r, d[R[x].host], d[R[y].host]) => R[x].score > R[y].score

\* Nodes that break the policy whatever the metrics API answers.
AlwaysBreaking(s) ==
    LET rules == ToSet(StrategyOf(s, "dontschedule"))
        breaks(n, r) == \A d \in Data : Breaks(d, n, r)
    IN {n \in Nodes : /\ rules # {}
                      /\ IF s \in AllOf THEN \A r \in rules : breaks(n, r)
                                         ELSE \E r \in rules : breaks(n, r)}

\* "A pod with this policy will never be scheduled on a node breaking any one of
\* these rules", in the long run: once the policies stay as they are the rules of
\* every one of them take effect, through the informer, the controller, the cache
\* and the updater, and no filter lets such a node through again, whatever became
\* of the metrics that were shared with policies that are gone.
RulesTakeEffect ==
    <>[](\A k \in Keys :
          answer.body = "nodes" /\ req.key = k /\ policies[k] # None =>
              req.nodes \cap AlwaysBreaking(policies[k]) \subseteq answer.failed)
=============================================================================
