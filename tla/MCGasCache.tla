----------------------------- MODULE MCGasCache -----------------------------
(***************************************************************************)
(* Instances of GasCache for TLC: two GPUs with two i915 shares and one    *)
(* tile each, and three kinds of pod.                                      *)
(***************************************************************************)
EXTENDS GasCache, TLC

CONSTANTS p1, p2, n1, n2, c1, c2, b1, b2

\* Requests of one container.
Container(i915, tiles) == [k \in {"i915", "tiles"} |-> IF k = "i915" THEN i915 ELSE tiles]
NoGpu == EmptyMap

MCResources == {"i915", "tiles"}

\* One container with one GPU and a tile, twice.
TwoSingles == p1 :> <<Container(1, 1)>> @@ p2 :> <<Container(1, 1)>>

\* A container with one GPU, and a pod with two containers of which one spans
\* both GPUs.
SingleAndPair == p1 :> <<Container(1, 1)>> @@ p2 :> <<Container(2, 2), NoGpu>>

OneTile == [k \in {"i915", "tiles"} |-> IF k = "i915" THEN 2 ELSE 1]

\* A pod on a node whose NUMA label is malformed.
P2OnN2 == {<<p2, n2>>}

\* A pod with an explicit request of zero tiles.
ZeroTiles == p1 :> <<Container(1, 1)>> @@ p2 :> <<Container(1, 0), Container(1, 0)>>

\* The requests being served are interchangeable.
Symmetry == Permutations(Binders)
=============================================================================
