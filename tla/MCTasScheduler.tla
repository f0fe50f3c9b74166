--------------------------- MODULE MCTasScheduler ---------------------------
(***************************************************************************)
(* An instance of TasScheduler for TLC: a policy that changes its rules,   *)
(* a node that always breaks them and one that may.                        *)
(***************************************************************************)
EXTENDS TasScheduler, TLC

CONSTANTS k1, m1, m2, n1, n2, n3, hot, cold, odd

MCRuleMetric == hot :> m1 @@ cold :> m2 @@ odd :> m2
MCOperator == hot :> "GreaterThan" @@ cold :> "LessThan" @@ odd :> "unknown"
MCTarget == hot :> 2 @@ cold :> 5 @@ odd :> 0
OwnName == k1 :> "a"

Avoid(rules) == "dontschedule" :> rules
Prefer(rules) == "scheduleonmetric" :> rules

\* All of two rules; any of two, one of them with an unknown operator; a preference.
MCSpecs == {Avoid(<<hot, cold>>), Avoid(<<cold, odd>>), Prefer(<<hot>>)}
MCAllOf == {Avoid(<<hot, cold>>)}

\* Node n1 breaks hot and cold; n2 breaks cold only, or reports
\* nothing; n3 is never asked for.
MCData == {n1 :> 3 @@ n2 :> 1 @@ n3 :> 2, n1 :> 3 @@ n3 :> 4}

Wellformed(path, k, nodes) ==
    [path |-> path, json |-> TRUE, large |-> FALSE, post |-> TRUE, decodes |-> TRUE,
     key |-> k, nodes |-> nodes]

\* Requests of the pod of policy k1; a pod without the label; no pod; an empty node list;
\* one request for each check of the server and of the decoder.
MCRequests ==
    {Wellformed("filter", k1, {n1, n2}),
     Wellformed("prioritize", k1, {n1, n2}), Wellformed("prioritize", NoLabel, {n2}), Wellformed("bind", k1, {n1}),
     Wellformed("filter", NoPod, {n1}),
     Wellformed("prioritize", k1, {}),
     [Wellformed("filter", k1, {n1}) EXCEPT !.json = FALSE],
     [Wellformed("filter", k1, {n1}) EXCEPT !.large = TRUE],
     [Wellformed("filter", k1, {n1}) EXCEPT !.post = FALSE],
     [Wellformed("filter", k1, {n1}) EXCEPT !.decodes = FALSE]}
=============================================================================
