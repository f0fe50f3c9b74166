---------------------------- MODULE MCTasEnforcer ----------------------------
(***************************************************************************)
(* Instances of TasEnforcer for TLC.                                       *)
(***************************************************************************)
EXTENDS TasEnforcer, TLC

CONSTANTS n1, n2, m1, m2, pd, pl, pm

Rule(m, lbls) == [metric |-> m, operator |-> "GreaterThan", target |-> 0, labels |-> lbls]
Lbl(k, v) == [key |-> k, value |-> v]

Deschedule(p, op, rules) == [type |-> "deschedule", policy |-> p, logicalOperator |-> op, rules |-> rules]
Labeling(p, rules) == [type |-> "labeling", policy |-> p, logicalOperator |-> "anyOf", rules |-> rules]

\* A node violates pd when both metrics are above the target.
Both == Deschedule(pd, "allOf", <<Rule(m1, <<>>), Rule(m2, <<>>)>>)

\* Labels whose value does not depend on the rule that wins.
SameValue == Labeling(pl, <<Rule(m1, <<Lbl("foo", "true")>>), Rule(m2, <<Lbl("bar", "true")>>)>>)

\* A policy with a label that has no value.
NoValue == Labeling(pm, <<Rule(m2, <<Lbl("foo", Malformed)>>)>>)

Plain == {Both, SameValue, NoValue}

\* The example of the README: the rule with the larger value gives the label.
Foo == Labeling(pl, <<Rule(m1, <<Lbl("foo", "1")>>), Rule(m2, <<Lbl("foo", "2")>>)>>)
Example == {Foo}

\* Rules of different operators for one label.
Mixed == Labeling(pm, <<Rule(m1, <<Lbl("foo", "1")>>),
                        [Rule(m2, <<Lbl("foo", "2")>>) EXCEPT !.operator = "LessThan", !.target = 1]>>)
Contested == {Both, Foo, Mixed}

\* Two rules that share one of their labels.
Overlap == {Labeling(pl, <<Rule(m1, <<Lbl("foo", "1")>>), Rule(m2, <<Lbl("foo", "2"), Lbl("bar", "1")>>)>>)}
=============================================================================
