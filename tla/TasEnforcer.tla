----------------------------- MODULE TasEnforcer -----------------------------
(***************************************************************************)
(* Telemetry Aware Scheduling: the enforcement of the deschedule and       *)
(* labeling strategies, that is, which labels the nodes carry.             *)
(*                                                                         *)
(* Once per period the enforcer runs Enforce for each registered strategy  *)
(* of each type; Enforce lists the nodes, evaluates every strategy of the  *)
(* type and patches node after node.  The policy controller adds and       *)
(* removes strategies, and a removal cleans up the labels of the policy.   *)
(* Both hold the enforcer's lock; neither is alone in using the API server. *)
(*                                                                         *)
(* A label name is <<policy>> for the deschedule strategy (the label has   *)
(* the name of the policy) and <<policy, key>> for a label in the          *)
(* namespace telemetry.aware.scheduling.policy.  Faults names what may     *)
(* happen besides:                                                         *)
(*   "apiError"  a list or patch fails                                     *)
(*   "edit"      somebody else removes a label of a node                   *)
(***************************************************************************)
EXTENDS Integers, Sequences, FiniteSets, SequencesExt

CONSTANTS
    Nodes, Metrics, Values,
    Strategies,  \* [type, policy, logicalOperator, rules]; a rule has a metric, an
                 \* operator, a target and a sequence of labels [key, value]
    None,        \* no value: the node does not have the metric
    Malformed,   \* the value of a label that is not of the form key=value
    Free,        \* the enforcer's lock is not taken
    Faults,
    MaxChanges,  \* bound: changes of metrics and of the registry
    MaxFaults    \* bound: faults

Types == {"deschedule", "labeling"}

ASSUME TasEnforcerAssumption ==
    /\ None \notin Strategies /\ None # {} /\ Free \notin {"enforcer", "controller"}
    /\ \A s \in Strategies : s.type \in Types
    /\ Values \subseteq Int /\ None \notin Values
    /\ MaxChanges \in Nat /\ MaxFaults \in Nat
    /\ \A s \in Strategies : \A i \in DOMAIN s.rules :
          /\ s.rules[i].metric \in Metrics
          /\ \A x, y \in DOMAIN s.rules[i].labels :
                s.rules[i].labels[x].key = s.rules[i].labels[y].key => x = y

VARIABLES
    metrics,     \* metrics[m][n]: the metric cache
    registered,  \* RegisteredStrategies
    labels,      \* labels[n]: label values of a node, by name
    lock,        \* MetricEnforcer's lock: Free, "enforcer" or "controller"
    enf,         \* what enforceStrategy has left to do
    cleanup,     \* <<node, label>> pairs that Cleanup has left, or None
    removing,    \* the strategy that is being removed, or None
    changes, faults

envVars == <<metrics, changes>>
vars == <<metrics, registered, labels, lock, enf, cleanup, removing, changes, faults>>

OfType(t) == {s \in registered : s.type = t}
Idle == [rounds |-> 0, todo |-> {}]

Init ==
    /\ metrics = [m \in Metrics |-> [n \in Nodes |-> None]]
    /\ registered = {}
    /\ labels = [n \in Nodes |-> << >>]
    /\ lock = Free /\ enf = Idle /\ cleanup = None /\ removing = None
    /\ changes = 0 /\ faults = 0

-----------------------------------------------------------------------------
(* Evaluation of strategies. *)

EvaluateRule(v, rule) ==
    CASE rule.operator = "LessThan"    -> v < rule.target
      [] rule.operator = "GreaterThan" -> v > rule.target
      [] rule.operator = "Equals"      -> v = rule.target
      [] OTHER                         -> FALSE

\* Violated: the rules that node n violates; with allOf all of them or none.
ViolatedRules(s, n, seen) ==
    LET v == {i \in DOMAIN s.rules :
                 /\ seen[s.rules[i].metric][n] # None
                 /\ EvaluateRule(seen[s.rules[i].metric][n], s.rules[i])}
    IN IF s.logicalOperator = "allOf" /\ v # DOMAIN s.rules THEN {} ELSE v

Violated(s, n, seen) == ViolatedRules(s, n, seen) # {}

Keys(rule) == {rule.labels[x].key : x \in DOMAIN rule.labels}

\* Violated rules that give a label the same name.
Rivals(s, n, seen, k) == {i \in ViolatedRules(s, n, seen) : k \in Keys(s.rules[i])}

\* Mutant: the rule with the smallest value wins whatever the operator.
SmallestWins(s, n, seen, i, j) ==
    LET v(x) == seen[s.rules[x].metric][n]
    IN v(i) < v(j) \/ (v(i) = v(j) /\ i < j)

\* shouldUpdateRuleThreshold: does rule i win over rule j?  The first of equals
\* stays.
Wins(s, n, seen, i, j) ==
    LET v(x) == seen[s.rules[x].metric][n]
    IN CASE s.rules[i].operator = "GreaterThan" -> v(i) > v(j) \/ (v(i) = v(j) /\ i < j)
         [] s.rules[i].operator = "LessThan"    -> v(i) < v(j) \/ (v(i) = v(j) /\ i < j)
         [] s.rules[i].operator = "Equals"      -> i < j

Winner(s, n, seen, k) ==
    CHOOSE i \in Rivals(s, n, seen, k) :
        \A j \in Rivals(s, n, seen, k) \ {i} : Wins(s, n, seen, i, j)

\* Rules with a label in common must have the same operator: otherwise the
\* filter panics, and the recovered call returns no rule at all.
Conflict(s, n, seen) ==
    \E i, j \in ViolatedRules(s, n, seen) :
        s.rules[i].operator # s.rules[j].operator /\ Keys(s.rules[i]) \cap Keys(s.rules[j]) # {}

\* minMaxFilterViolatedRules: the rules that win for one of their labels.
WinnerRules(s, n, seen) ==
    IF Conflict(s, n, seen) THEN {}
    ELSE {Winner(s, n, seen, k) : k \in UNION {Keys(s.rules[i]) : i \in ViolatedRules(s, n, seen)}}

-----------------------------------------------------------------------------
(* Patches.  A JSON patch is applied as a whole or not at all: it fails when *)
(* it replaces or removes a label that is not there.                         *)

Has(n, name) == name \in DOMAIN labels[n]

\* "set" maps names to values, "drop" is a set of names; names outside "set" that
\* the patch expects are in "expect".  Removals come last in the payload.
Patched(cur, set, drop) ==
    [x \in (DOMAIN cur \cup DOMAIN set) \ drop |-> IF x \in DOMAIN set THEN set[x] ELSE cur[x]]

Patch(n, set, drop, expect) ==
    labels' = IF expect \cup drop \subseteq DOMAIN labels[n]
              THEN [labels EXCEPT ![n] = Patched(@, set, drop)]
              ELSE labels

\* Mutant: labels of violated policies are removed as well.
DropsViolated(n) == {x \in {<<s.policy>> : s \in OfType("deschedule")} : x \in DOMAIN enf.snap[n]}

\* deschedule: labels of the registered policies that node n does not violate.
NotViolated(n) ==
    {<<s.policy>> : s \in {s \in OfType("deschedule") : s \notin enf.active \/ ~Violated(s, n, enf.seen)}}
        \cap DOMAIN enf.snap[n]

\* deschedule, updateNodeLabels.
DeschedulePatch(n) ==
    LET wanted == {<<s.policy>> : s \in {s \in enf.active : Violated(s, n, enf.seen)}}
        new == {x \in wanted : x \notin DOMAIN enf.snap[n] \/ enf.snap[n][x] # "violating"}
    IN Patch(n, [x \in new |-> "violating"], NotViolated(n), {})

\* createLabels: every label of a rule that wins, whether it wins for that label
\* or for another one.
Label(s, l) == [name |-> <<s.policy, l.key>>, value |-> l.value]

ViolatedLabels(n) ==
    UNION {UNION {{Label(s, l) : l \in ToSet(s.rules[i].labels)} :
                     i \in WinnerRules(s, n, enf.seen)} : s \in enf.active}

\* Mutant: only the policies that the node violates are cleaned up.
CleanupsOfOwn(n) ==
    {x \in DOMAIN enf.snap[n] :
        /\ Len(x) = 2 /\ \E s \in enf.active : s.policy = x[1] /\ Violated(s, n, enf.seen)
        /\ [name |-> x, value |-> enf.snap[n][x]] \notin ViolatedLabels(n)}

\* appendNodeLabelCleanups, over the labels of the namespaces of all policies.
Cleanups(n) ==
    {x \in DOMAIN enf.snap[n] :
        Len(x) = 2 /\ [name |-> x, value |-> enf.snap[n][x]] \notin ViolatedLabels(n)}

\* The rules are visited in the order of a Go map.
Visits(n) ==
    SetToSeqs(UNION {{<<s, i>> : i \in WinnerRules(s, n, enf.seen)} : s \in enf.active})

\* appendViolationPatchValue appends nothing for a label that has its value.
Sets(n, visit, name) ==
    {x \in DOMAIN visit : \E l \in ToSet(visit[x][1].rules[visit[x][2]].labels) :
        /\ Label(visit[x][1], l).name = name
        /\ l.value # Malformed
        /\ name \in DOMAIN enf.snap[n] => enf.snap[n][name] # l.value}

ValueSet(n, visit, name) ==
    LET last == CHOOSE x \in Sets(n, visit, name) : \A y \in Sets(n, visit, name) : y <= x
    IN (CHOOSE l \in ToSet(visit[last][1].rules[visit[last][2]].labels) :
            Label(visit[last][1], l).name = name).value

\* An error is noticed only if the last label of a policy is the malformed one.
Rejected(visit) ==
    \E x \in DOMAIN visit :
        /\ \A y \in DOMAIN visit : y > x => visit[y][1] # visit[x][1]
        /\ LET ls == visit[x][1].rules[visit[x][2]].labels
           IN ls # <<>> /\ ls[Len(ls)].value = Malformed

\* labeling, updateNodeLabels.
LabelingPatch(n, visit) ==
    LET named == {l.name : l \in ViolatedLabels(n)}
        changed == {x \in named : Sets(n, visit, x) # {}}
    IN Patch(n, [x \in changed |-> ValueSet(n, visit, x)], Cleanups(n), changed \cap DOMAIN enf.snap[n])

-----------------------------------------------------------------------------
(* The enforcer's goroutine. *)

\* Mutant: the lock is not taken.
EnforceUnlocked(t) ==
    /\ enf = Idle /\ OfType(t) # {}
    /\ enf' = [type |-> t, rounds |-> Cardinality(OfType(t)), todo |-> {}]
    /\ UNCHANGED <<envVars, registered, labels, lock, cleanup, removing, faults>>

\* enforceStrategy: one Enforce of the whole type for each of its strategies.
StartEnforce(t) ==
    /\ lock = Free /\ OfType(t) # {}
    /\ lock' = "enforcer"
    /\ enf' = [type |-> t, rounds |-> Cardinality(OfType(t)), todo |-> {}]
    /\ UNCHANGED <<envVars, registered, labels, cleanup, removing, faults>>

NextRound == enf.rounds > 0 /\ enf.todo = {}

\* Enforce: list the nodes and evaluate the strategies.
ListNodes ==
    /\ NextRound
    /\ enf' = [type |-> enf.type, rounds |-> enf.rounds - 1, todo |-> Nodes,
               snap |-> labels, seen |-> metrics, active |-> OfType(enf.type)]
    /\ UNCHANGED <<envVars, registered, labels, lock, cleanup, removing, faults>>

Fault(f) == f \in Faults /\ faults < MaxFaults /\ faults' = faults + 1

ListFails ==
    /\ NextRound /\ Fault("apiError")
    /\ enf' = [enf EXCEPT !.rounds = @ - 1]
    /\ UNCHANGED <<envVars, registered, labels, lock, cleanup, removing>>

NodeDone(n) == enf' = [enf EXCEPT !.todo = @ \ {n}]

PatchDeschedule(n) ==
    /\ n \in enf.todo /\ enf.type = "deschedule"
    /\ DeschedulePatch(n)
    /\ NodeDone(n)
    /\ UNCHANGED <<envVars, registered, lock, cleanup, removing, faults>>

PatchLabeling(n) ==
    /\ n \in enf.todo /\ enf.type = "labeling"
    /\ \E visit \in Visits(n) : ~Rejected(visit) /\ LabelingPatch(n, visit)
    /\ NodeDone(n)
    /\ UNCHANGED <<envVars, registered, lock, cleanup, removing, faults>>

\* A malformed label ends updateNodeLabels for the nodes that are left.
LabelingRejected(n) ==
    /\ n \in enf.todo /\ enf.type = "labeling"
    /\ \E visit \in Visits(n) : Rejected(visit)
    /\ enf' = [enf EXCEPT !.todo = {}]
    /\ UNCHANGED <<envVars, registered, labels, lock, cleanup, removing, faults>>

\* A patch that fails does not end the loop over the nodes.
PatchFails(n) ==
    /\ n \in enf.todo /\ Fault("apiError")
    /\ NodeDone(n)
    /\ UNCHANGED <<envVars, registered, labels, lock, cleanup, removing>>

FinishEnforce ==
    /\ enf # Idle /\ enf.rounds = 0 /\ enf.todo = {}
    /\ lock' = Free /\ enf' = Idle
    /\ UNCHANGED <<envVars, registered, labels, cleanup, removing, faults>>

-----------------------------------------------------------------------------
(* The controller, which has at most one strategy of a type per policy. *)

Changes == changes < MaxChanges /\ changes' = changes + 1

AddStrategy(s) ==
    /\ lock = Free /\ Changes
    /\ \A r \in registered : r.type # s.type \/ r.policy # s.policy
    /\ registered' = registered \cup {s}
    /\ UNCHANGED <<metrics, labels, lock, enf, cleanup, removing, faults>>

\* RemoveStrategy holds the lock until its Cleanup is done.
RemoveStrategy(s) ==
    /\ lock = Free /\ Changes /\ s \in registered
    /\ lock' = "controller"
    /\ registered' = registered \ {s}
    /\ removing' = s
    /\ UNCHANGED <<metrics, labels, enf, cleanup, faults>>

\* The labels that Cleanup finds: of the deschedule strategy those with the value
\* it sets, of the labeling strategy all in the namespace of the policy.
CleanupList(s) ==
    IF s.type = "deschedule"
    THEN {<<n, <<s.policy>> >> : n \in {n \in Nodes :
              Has(n, <<s.policy>>) /\ labels[n][<<s.policy>>] = "violating"}}
    ELSE UNION {{<<n, x>> : x \in {x \in DOMAIN labels[n] : Len(x) = 2 /\ x[1] = s.policy}} :
                   n \in Nodes}

StartCleanup ==
    /\ removing # None /\ cleanup = None
    /\ cleanup' = CleanupList(removing)
    /\ UNCHANGED <<envVars, registered, labels, lock, enf, removing, faults>>

\* The error is logged, and nobody tries again.
CleanupListFails ==
    /\ removing # None /\ cleanup = None /\ Fault("apiError")
    /\ cleanup' = {}
    /\ UNCHANGED <<envVars, registered, labels, lock, enf, removing>>

Cleaning == cleanup # None /\ cleanup # {}

CleanupPatch ==
    /\ Cleaning
    /\ \E c \in cleanup :
          /\ Patch(c[1], << >>, {c[2]}, {})
          /\ cleanup' = cleanup \ {c}
    /\ UNCHANGED <<envVars, registered, lock, enf, removing, faults>>

CleanupPatchFails ==
    /\ Cleaning /\ Fault("apiError")
    /\ \E c \in cleanup : cleanup' = cleanup \ {c}
    /\ UNCHANGED <<envVars, registered, labels, lock, enf, removing>>

FinishRemove ==
    /\ removing # None /\ cleanup = {}
    /\ lock' = Free /\ cleanup' = None /\ removing' = None
    /\ UNCHANGED <<envVars, registered, labels, enf, faults>>

-----------------------------------------------------------------------------
(* The metric cache, and others who edit node labels (external). *)

ChangeMetric(m, n, v) ==
    /\ Changes /\ metrics[m][n] # v
    /\ metrics' = [metrics EXCEPT ![m][n] = v]
    /\ UNCHANGED <<registered, labels, lock, enf, cleanup, removing, faults>>

EditLabel(n) ==
    /\ Fault("edit")
    /\ \E x \in DOMAIN labels[n] : labels' = [labels EXCEPT ![n] = Patched(@, << >>, {x})]
    /\ UNCHANGED <<envVars, registered, lock, enf, cleanup, removing>>

-----------------------------------------------------------------------------
Enforcing ==
    \/ ListNodes \/ ListFails
    \/ \E n \in Nodes :
          PatchDeschedule(n) \/ PatchLabeling(n) \/ LabelingRejected(n) \/ PatchFails(n)
    \/ FinishEnforce

Removing ==
    StartCleanup \/ CleanupListFails \/ CleanupPatch \/ CleanupPatchFails \/ FinishRemove

Next ==
    \/ \E t \in Types : StartEnforce(t)
    \/ Enforcing
    \/ \E s \in Strategies : AddStrategy(s) \/ RemoveStrategy(s)
    \/ Removing
    \/ \E m \in Metrics, n \in Nodes, v \in Values \cup {None} : ChangeMetric(m, n, v)
    \/ \E n \in Nodes : EditLabel(n)

Spec == Init /\ [][Next]_vars

\* The ticker fires in every period and each type gets its turn; who holds the
\* lock goes on.
FairSpec ==
    Spec /\ WF_vars(Enforcing) /\ WF_vars(Removing) /\ \A t \in Types : SF_vars(StartEnforce(t))

-----------------------------------------------------------------------------
(* Properties *)

\* Labels of policies that have no strategy of the label's type any more.
Orphans(n) ==
    {x \in DOMAIN labels[n] :
        \A s \in registered : s.policy # x[1] \/ (s.type = "deschedule") # (Len(x) = 1)}

\* "Cleanup remove node labels for violating when policy is deleted": no label
\* survives the removal of its strategy, whatever enforcement was under way.
NoOrphanLabels == lock = Free => \A n \in Nodes : Orphans(n) = {}

\* The rules whose violation asks for label x of node n in the pass under way.
Wanted(n, x) ==
    IF Len(x) = 1
    THEN \E s \in OfType("deschedule") : <<s.policy>> = x /\ Violated(s, n, enf.seen)
    ELSE \E s \in OfType("labeling") :
            s.policy = x[1] /\ ~Conflict(s, n, enf.seen) /\ Rivals(s, n, enf.seen, x[2]) # {}

WantedKept ==
    \A n \in Nodes : \A x \in DOMAIN labels[n] : Wanted(n, x) => x \in DOMAIN labels'[n]

Patching == enf.todo # {} /\ enf'.todo # enf.todo /\ labels' # labels

\* A pass over the nodes never takes a label away from a node that violates, in
\* that very pass, a rule that asks for the label: the node is not taken for
\* healthy in between.
ViolationKeepsLabel == [][Patching => WantedKept]_vars

\* The violated rules that may give label k: the largest metric value wins for
\* GreaterThan, the smallest for LessThan.
Best(s, n, seen, k) ==
    LET v(i) == seen[s.rules[i].metric][n]
    IN {i \in Rivals(s, n, seen, k) : \A j \in Rivals(s, n, seen, k) :
           CASE s.rules[i].operator = "GreaterThan" -> v(j) <= v(i)
             [] s.rules[i].operator = "LessThan"    -> v(i) <= v(j)
             [] s.rules[i].operator = "Equals"      -> TRUE}

Gives(s, R, k, val) == \E i \in R : [key |-> k, value |-> val] \in ToSet(s.rules[i].labels)

\* "the rule with the maximum metric value will be the only one honored": a pass
\* gives a label no other value than that of the winning rule.
HonoursWinner ==
    [][Patching => \A n \in Nodes, s \in OfType("labeling") :
          \A x \in DOMAIN labels'[n] :
             /\ Len(x) = 2 /\ x[1] = s.policy
             /\ x \in DOMAIN labels[n] => labels'[n][x] # labels[n][x]
             => Gives(s, Best(s, n, enf.seen, x[2]), x[2], labels'[n][x])]_vars

\* What the labels of node n are to be for the metrics as they are; rules with
\* different operators for one label are an error and give no labels.
RightLabels(s, n) ==
    IF s.type = "deschedule"
    THEN Has(n, <<s.policy>>) <=> Violated(s, n, metrics)
    ELSE \A k \in UNION {Keys(s.rules[i]) : i \in DOMAIN s.rules} :
            /\ Has(n, <<s.policy, k>>) <=>
                  Rivals(s, n, metrics, k) # {} /\ ~Conflict(s, n, metrics)
            /\ Has(n, <<s.policy, k>>) =>
                  Gives(s, Best(s, n, metrics, k), k, labels[n][<<s.policy, k>>])

\* Once metrics and policies come to rest the labels of every registered policy
\* become what its rules say, though lists and patches failed on the way and
\* somebody else removed labels.
LabelsConverge == <>[](\A s \in registered, n \in Nodes : RightLabels(s, n))
=============================================================================
