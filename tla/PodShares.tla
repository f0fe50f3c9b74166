------------------------------ MODULE PodShares ------------------------------
(***************************************************************************)
(* What a pod asks for and what an annotation charges to each card.        *)
(*                                                                         *)
(* A card annotation ("card0,card1|card2|" in the code: containers joined  *)
(* by |, the cards of a container by a comma) is a sequence with one set   *)
(* of cards per container.  strings.Split("", "|") is a list with one      *)
(* empty string, so the empty annotation is EmptyAnnotation, a sequence    *)
(* with one empty container, and not the empty sequence.                   *)
(*                                                                         *)
(* A tile annotation is the set of <<card, tile>> pairs it names:          *)
(* adjustTiles only ever adds them to, or deletes them from, a set.        *)
(***************************************************************************)
EXTENDS ResourceMap, Sequences, FiniteSets, FiniteSetsExt

CONSTANTS
    Pods,      \* pod keys: namespace & name
    Nodes,
    Cards,     \* GPUs of a node; nodes are homogeneous
    Tiles,     \* tile indices of a GPU
    I915,      \* the plugin resource gpu.intel.com/i915
    TileRes,   \* the resource gpu.intel.com/tiles
    Requests   \* Requests[p][i]: resource requests of container i of pod p

ASSUME PodSharesAssumption ==
    /\ IsFiniteSet(Pods) /\ IsFiniteSet(Nodes)
    /\ IsFiniteSet(Cards) /\ IsFiniteSet(Tiles)
    /\ \A p \in Pods :
          /\ Len(Requests[p]) \in Nat
          /\ DOMAIN Requests[p] = 1..Len(Requests[p])
          /\ \A i \in DOMAIN Requests[p] : Requests[p][i] \in ResourceMaps

Containers(p) == DOMAIN Requests[p]

EmptyAnnotation == << {} >>

\* getNumGPUReq for the i915 plugin.
NumGPUReq(p, i) == Amount(Requests[p][i], I915)

\* The annotations convertNodeCardsToAnnotations can produce for a pod: as many
\* distinct cards per container as it requests.
Annotations(p) ==
    {a \in [Containers(p) -> SUBSET Cards] :
        \A i \in Containers(p) : Cardinality(a[i]) = NumGPUReq(p, i)}

\* containerRequests[i] after divide(numCards).
PerCard(p, ann, i) == Divide(Requests[p][i], Cardinality(ann[i]))

\* The containers an annotation places on card c.
ContainersOn(ann, c) == {i \in DOMAIN ann : c \in ann[i]}

\* What adjusting by an annotation adds to, or removes from, card c in total.
Share(p, ann, c) ==
    LET on == ContainersOn(ann, c)
    IN [k \in UNION {DOMAIN Requests[p][i] : i \in on} |->
            SumFunctionOnSet([i \in on |-> Amount(PerCard(p, ann, i), k)], on)]
=============================================================================
