---------------------------- MODULE TasController ----------------------------
(***************************************************************************)
(* Telemetry Aware Scheduling: the policy controller, the auto-updating    *)
(* metric cache and the registry of the strategy enforcer.                 *)
(*                                                                         *)
(* Two goroutines change this state.  The informer runs the controller's   *)
(* handlers one event at a time: they register strategies and count the    *)
(* users of each metric.  The updater fetches every counted metric once    *)
(* per period.  The cache itself belongs to a third goroutine (run) that   *)
(* serves requests from an unbuffered channel, so every send on that       *)
(* channel is one atomic step, and add, which sends twice, is two.         *)
(*                                                                         *)
(* A rule is a model value (its metric, operator and target), a strategy   *)
(* of a policy is a sequence of rules.  AddStrategy and RemoveStrategy hold *)
(* the enforcer's lock from start to end; so does the enforcement loop,    *)
(* which does not change the registry.                                     *)
(***************************************************************************)
EXTENDS Integers, Sequences, SequencesExt

CONSTANTS
    Keys,           \* policies: namespace and name
    NameOf,         \* NameOf[k]: the policy's name
    StrategyTypes,  \* the types castStrategy knows
    Enforceable,    \* the types that implement Enforceable
    Rules, Metrics,
    MetricOf,       \* MetricOf[r]: the metric of a rule
    Specs,          \* strategies of a policy: a function from type names
    Data,           \* what the metrics API may answer for a metric
    None, Nil, Free,
    MaxChanges      \* bound: changes of policies

ASSUME TasAssumption ==
    /\ Enforceable \subseteq StrategyTypes
    /\ MetricOf \in [Rules -> Metrics]
    /\ \A s \in Specs : \A t \in DOMAIN s : s[t] \in Seq(Rules)
    /\ None \notin Specs \cup Data \cup {Nil} /\ Nil \notin Data /\ Free # "updater"
    /\ MaxChanges \in Nat

VARIABLES
    policies,    \* policies[k]: the spec stored by the API server, or None
    events,      \* policy events not handled yet
    changes,     \* number of changes so far
    ctl,         \* the handler that is running: Idle or its event and what is left
    cached,      \* the cache's "policies/" keys
    metrics,     \* the cache's "metrics/" keys: None (no key), Nil or data
    metricMap,   \* users of each metric
    mtx,         \* AutoUpdatingCache.mtx: Free or "updater"
    pass,        \* metrics left to fetch in this period
    pending,     \* sends left of the metric that was fetched
    registered   \* RegisteredStrategies

apiVars == <<policies, events, changes>>
updVars == <<mtx, pass, pending>>
vars == <<apiVars, ctl, cached, metrics, metricMap, updVars, registered>>

Idle == [event |-> None]

Strategies == [type : Enforceable, name : {NameOf[k] : k \in Keys}, rules : Seq(Rules)]

\* Every variable of the controller, the cache and the registry has its type.
TypeOK ==
    /\ policies \in [Keys -> Specs \cup {None}] /\ cached \in [Keys -> Specs \cup {None}]
    /\ metrics \in [Metrics -> Data \cup {Nil, None}]
    /\ DOMAIN metricMap \subseteq Metrics /\ \A m \in DOMAIN metricMap : metricMap[m] \in Nat \ {0}
    /\ mtx \in {Free, "updater"} /\ pass \subseteq Metrics
    /\ registered \subseteq Strategies
    /\ changes \in 0..MaxChanges

Init ==
    /\ policies = [k \in Keys |-> None] /\ cached = policies
    /\ events = <<>> /\ changes = 0
    /\ ctl = Idle
    /\ metrics = [m \in Metrics |-> None]
    /\ metricMap = [m \in {} |-> 0]
    /\ mtx = Free /\ pass = {} /\ pending = <<>>
    /\ registered = {}

-----------------------------------------------------------------------------
(* The API server and the informer (external): an update carries the object *)
(* it replaces.                                                             *)

Change(k, kind, new) ==
    /\ changes < MaxChanges
    /\ changes' = changes + 1
    /\ policies' = [policies EXCEPT ![k] = new]
    /\ events' = Append(events, [kind |-> kind, key |-> k, old |-> policies[k], new |-> new])
    /\ UNCHANGED <<ctl, cached, metrics, metricMap, updVars, registered>>

CreatePolicy(k, spec) == policies[k] = None /\ Change(k, "add", spec)
\* Also an update of the metadata alone, or of a relist, with the spec that it had.
UpdatePolicy(k, spec) == policies[k] # None /\ Change(k, "update", spec)
DeletePolicy(k) == policies[k] # None /\ Change(k, "delete", None)

-----------------------------------------------------------------------------
(* The cache. *)

\* Mutant: a write without data overwrites the data.
WriteAlways(m, payload) == [metrics EXCEPT ![m] = payload]

\* run, WRITE: a nil payload does not replace what the key holds.
Write(m, payload) ==
    IF payload = Nil /\ metrics[m] # None
    THEN metrics ELSE [metrics EXCEPT ![m] = payload]

\* The counting half of WriteMetric, for a strategy that starts using m.
Counted(m) ==
    [x \in DOMAIN metricMap \cup {m} |->
        IF x # m THEN metricMap[x]
        ELSE IF m \in DOMAIN metricMap THEN metricMap[m] + 1 ELSE 1]

Users(m) == IF m \in DOMAIN metricMap THEN metricMap[m] ELSE 0

\* Mutant: a metric without users stays in the map.
KeepsZero(m) ==
    [x \in DOMAIN metricMap \cup {m} |-> IF x = m THEN Users(m) - 1 ELSE metricMap[x]]

\* DeleteMetric: the last user takes the metric out of the cache.  A metric that
\* is not counted gets the count -1.
Uncounted(m) ==
    [x \in IF Users(m) = 1 THEN DOMAIN metricMap \ {m} ELSE DOMAIN metricMap \cup {m} |->
        IF x = m THEN Users(m) - 1 ELSE metricMap[x]]

\* Mutant: the metric is dropped whoever else uses it.
EvictAlways(m) ==
    /\ metricMap' = [x \in DOMAIN metricMap \ {m} |-> metricMap[x]]
    /\ metrics' = [metrics EXCEPT ![m] = None]

DeleteMetric(m) ==
    /\ metricMap' = Uncounted(m)
    /\ metrics' = IF Users(m) = 1 THEN [metrics EXCEPT ![m] = None] ELSE metrics

-----------------------------------------------------------------------------
(* The handlers of the controller.  What a handler still has to do for one  *)
(* strategy is a sequence of operations.                                    *)

\* oldPol.Spec.Strategies[name]: the zero strategy when the map has no such key.
StrategyOf(spec, t) == IF spec # None /\ t \in DOMAIN spec THEN spec[t] ELSE <<>>

Op(op, arg) == [op |-> op, arg |-> arg]

\* AddStrategy, and WriteMetric(m, nil) for each rule: add sends twice, then the
\* users are counted under the lock.
Registration(rules) ==
    <<Op("register", rules)>> \o
    [x \in 1..(3 * Len(rules)) |->
        Op(IF x % 3 = 0 THEN "count" ELSE "send", MetricOf[rules[(x + 2) \div 3]])]

\* RemoveStrategy, and DeleteMetric for each rule.
Removal(rules) ==
    <<Op("unregister", rules)>> \o
    [i \in DOMAIN rules |-> Op("uncount", MetricOf[rules[i]])]

\* Mutant: the metrics of the new rules are not registered on an update.
RemovesOnly(e, t) ==
    IF e.kind = "add" THEN Registration(StrategyOf(e.new, t)) ELSE Removal(StrategyOf(e.old, t))

\* The loop body of onAdd, onUpdate and onDelete.
Operations(e, t) ==
    CASE e.kind = "add"    -> Registration(StrategyOf(e.new, t))
      [] e.kind = "update" -> Removal(StrategyOf(e.old, t)) \o Registration(StrategyOf(e.new, t))
      [] e.kind = "delete" -> Removal(StrategyOf(e.old, t))

\* A handler starts; onAdd and onUpdate first write the policy (the controller
\* is the only writer of policies, so the second send of add is not a step).
StartHandler ==
    /\ ctl = Idle /\ events # <<>>
    /\ events' = Tail(events)
    /\ LET e == Head(events)
       IN /\ ctl' = [event |-> e, ops |-> <<>>, type |-> None,
                     todo |-> DOMAIN (IF e.kind = "delete" THEN e.old ELSE e.new)]
          /\ cached' = IF e.kind = "delete" THEN cached ELSE [cached EXCEPT ![e.key] = e.new]
    /\ UNCHANGED <<policies, changes, metrics, metricMap, updVars, registered>>

Running == ctl # Idle
NextOp(op) == Running /\ ctl.ops # <<>> /\ Head(ctl.ops).op = op
Arg == Head(ctl.ops).arg
Advance == ctl' = [ctl EXCEPT !.ops = Tail(@)]

\* The next strategy of the policy, in the order of Go's map iteration.  A type
\* that castStrategy does not know ends the handler.
NextStrategy(t) ==
    /\ Running /\ ctl.ops = <<>> /\ t \in ctl.todo
    /\ ctl' = IF t \in StrategyTypes
              THEN [ctl EXCEPT !.todo = @ \ {t}, !.type = t, !.ops = Operations(ctl.event, t)]
              ELSE Idle
    /\ UNCHANGED <<apiVars, cached, metrics, metricMap, updVars, registered>>

Strategy == [type |-> ctl.type, name |-> NameOf[ctl.event.key], rules |-> Arg]

\* AddStrategy: equal strategies (of one policy name, with the same rules) are
\* registered once, types that cannot be enforced not at all.
AddStrategy ==
    /\ NextOp("register")
    /\ registered' = IF ctl.type \in Enforceable THEN registered \cup {Strategy} ELSE registered
    /\ Advance
    /\ UNCHANGED <<apiVars, cached, metrics, metricMap, updVars>>

\* Mutant: on an update the new strategy is removed instead of the old one.
RemoveNew ==
    /\ NextOp("unregister")
    /\ registered' =
          registered \ {IF ctl.event.kind = "update"
                        THEN [Strategy EXCEPT !.rules = StrategyOf(ctl.event.new, ctl.type)]
                        ELSE Strategy}
    /\ Advance
    /\ UNCHANGED <<apiVars, cached, metrics, metricMap, updVars>>

\* RemoveStrategy: Equals is false for strategies without rules.
RemoveStrategy ==
    /\ NextOp("unregister")
    /\ registered' = IF Arg # <<>> THEN registered \ {Strategy} ELSE registered
    /\ Advance
    /\ UNCHANGED <<apiVars, cached, metrics, metricMap, updVars>>

SendNil ==
    /\ NextOp("send")
    /\ metrics' = Write(Arg, Nil)
    /\ Advance
    /\ UNCHANGED <<apiVars, cached, metricMap, updVars, registered>>

CountUser ==
    /\ NextOp("count") /\ mtx = Free
    /\ metricMap' = Counted(Arg)
    /\ Advance
    /\ UNCHANGED <<apiVars, cached, metrics, updVars, registered>>

\* Mutant: the lock is not taken.
UncountUnlocked ==
    /\ NextOp("uncount")
    /\ DeleteMetric(Arg)
    /\ Advance
    /\ UNCHANGED <<apiVars, cached, updVars, registered>>

UncountUser ==
    /\ NextOp("uncount") /\ mtx = Free
    /\ DeleteMetric(Arg)
    /\ Advance
    /\ UNCHANGED <<apiVars, cached, updVars, registered>>

\* A handler returns; onDelete takes the policy out of the cache last.
FinishHandler ==
    /\ Running /\ ctl.ops = <<>> /\ ctl.todo = {}
    /\ ctl' = Idle
    /\ cached' = IF ctl.event.kind = "delete" THEN [cached EXCEPT ![ctl.event.key] = None]
                                              ELSE cached
    /\ UNCHANGED <<apiVars, metrics, metricMap, updVars, registered>>

-----------------------------------------------------------------------------
(* The updater: updateAllMetrics holds the lock for a whole period. *)

StartUpdate ==
    /\ mtx = Free
    /\ mtx' = "updater" /\ pass' = DOMAIN metricMap
    /\ UNCHANGED <<apiVars, ctl, cached, metrics, metricMap, pending, registered>>

\* GetNodeMetric fails, or no node has the metric: the old data stays.
FetchFails(m) ==
    /\ mtx = "updater" /\ pending = <<>> /\ m \in pass
    /\ pass' = pass \ {m}
    /\ UNCHANGED <<apiVars, ctl, cached, metrics, metricMap, mtx, pending, registered>>

FetchMetric(m, d) ==
    /\ mtx = "updater" /\ pending = <<>> /\ m \in pass
    /\ pass' = pass \ {m}
    /\ pending' = << <<m, d>>, <<m, d>> >>
    /\ UNCHANGED <<apiVars, ctl, cached, metrics, metricMap, mtx, registered>>

SendData ==
    /\ pending # <<>>
    /\ metrics' = Write(Head(pending)[1], Head(pending)[2])
    /\ pending' = Tail(pending)
    /\ UNCHANGED <<apiVars, ctl, cached, metricMap, mtx, pass, registered>>

\* Mutant: the lock is kept after a pass without metrics.
KeepsLock ==
    /\ mtx = "updater" /\ pass = {} /\ pending = <<>>
    /\ mtx' = IF DOMAIN metricMap = {} THEN mtx ELSE Free
    /\ UNCHANGED <<apiVars, ctl, cached, metrics, metricMap, pass, pending, registered>>

FinishUpdate ==
    /\ mtx = "updater" /\ pass = {} /\ pending = <<>>
    /\ mtx' = Free
    /\ UNCHANGED <<apiVars, ctl, cached, metrics, metricMap, pass, pending, registered>>

-----------------------------------------------------------------------------
Controller ==
    \/ StartHandler \/ (\E s \in Specs : \E t \in DOMAIN s : NextStrategy(t))
    \/ AddStrategy \/ RemoveStrategy \/ SendNil \/ CountUser \/ UncountUser
    \/ FinishHandler

Updater ==
    \/ \E m \in Metrics : FetchFails(m) \/ \E d \in Data : FetchMetric(m, d)
    \/ SendData \/ FinishUpdate

Next ==
    \/ \E k \in Keys :
          DeletePolicy(k) \/ \E s \in Specs : CreatePolicy(k, s) \/ UpdatePolicy(k, s)
    \/ Controller
    \/ StartUpdate \/ Updater

Spec == Init /\ [][Next]_vars

\* Both goroutines run; the controller is not starved of the mutex by an updater
\* that takes it again in every period (Go's mutexes are fair to waiters).
FairSpec == Spec /\ SF_vars(Controller) /\ WF_vars(Updater)

-----------------------------------------------------------------------------
(* Properties *)

MetricsOf(spec) == {MetricOf[r] : r \in UNION {ToSet(StrategyOf(spec, t)) : t \in DOMAIN spec}}

\* Valid policies whose handler has returned.
Settled(k) ==
    /\ cached[k] # None /\ DOMAIN cached[k] \subseteq StrategyTypes
    /\ ctl = Idle \/ ctl.event.key # k

\* "protecting it from deletion until there are no more associated strategies":
\* a metric that a valid policy uses keeps its key in the cache and is polled,
\* whatever happens to the other policies.
UsedMetricKept ==
    \A k \in Keys : Settled(k) =>
        \A m \in MetricsOf(cached[k]) : m \in DOMAIN metricMap /\ metrics[m] # None

\* The rules of the policies of the cache that use a metric.
UsesIn(k, t, m) == {<<k, t, i>> : i \in {x \in DOMAIN cached[k][t] : MetricOf[cached[k][t][x]] = m}}

Uses(m) ==
    UNION {UNION {UsesIn(k, t, m) : t \in DOMAIN cached[k]} : k \in {x \in Keys : cached[x] # None}}

\* The data of a metric that nobody uses any more is not put back by an update
\* that was under way.
NoResurrection ==
    ctl = Idle => \A m \in Metrics : m \notin DOMAIN metricMap => metrics[m] = None

\* The enforceable strategies of the policies of the cache.
Enforced ==
    UNION {{[type |-> t, name |-> NameOf[k], rules |-> cached[k][t]] :
               t \in DOMAIN cached[k] \cap Enforceable} :
             k \in {x \in Keys : cached[x] # None}}

\* Between two handlers the count of a metric is the number of rules that use it
\* in the policies of the cache, and the enforcer runs exactly the enforceable
\* strategies of these policies.
RegistrationsExact ==
    ctl = Idle =>
        /\ \A m \in Metrics : Users(m) = Cardinality(Uses(m))
        /\ registered = Enforced

\* A step that leaves data where it is needed.
DataStays ==
    \A m \in Metrics : metrics[m] \in Data /\ m \in DOMAIN metricMap' => metrics'[m] \in Data

\* Data that was fetched is not lost while the metric is in use: it is replaced
\* by newer data only, never by a registration without data.
DataKept == [][DataStays]_metrics

\* Every handler returns, though the updater holds the lock while it waits for the
\* metrics API, period after period, and what the controller has cached becomes
\* what the API server has.
PoliciesConverge == <>[](ctl = Idle /\ cached = policies)
=============================================================================
