-------------------------- MODULE MCTasController --------------------------
(***************************************************************************)
(* Instances of TasController for TLC: policies of one or two strategies   *)
(* that share a metric.                                                    *)
(***************************************************************************)
EXTENDS TasController, TLC

CONSTANTS k1, k2, m1, m2, r1, r2, d1

MCRuleMetric == r1 :> m1 @@ r2 :> m2
OwnNames == k1 :> "a" @@ k2 :> "b"
SameName == k1 :> "a" @@ k2 :> "a"

Deschedule(rules) == "deschedule" :> rules
Prefer(rules) == "scheduleonmetric" :> rules

\* Policies that keep their strategy types when they are updated.
SteadySpecs == {Deschedule(<<r1>>) @@ Prefer(<<r1>>), Deschedule(<<r1, r2>>) @@ Prefer(<<r2>>)}

\* Policies that lose a strategy when they are updated.
DroppingSpecs == {Deschedule(<<r1>>) @@ Prefer(<<r2>>), Prefer(<<r2>>)}

\* A policy with a strategy type that castStrategy does not know.
UnknownTypeSpecs == {Deschedule(<<r1>>), Deschedule(<<r1>>) @@ "unknown" :> <<r2>>}
=============================================================================
