---------------------------- MODULE GpuAllocator ----------------------------
(***************************************************************************)
(* What GPU Aware Scheduling promises its users: a pod is given cards and  *)
(* tiles in one step, only if every card can satisfy its part of the       *)
(* request on top of what the other pods hold; it gets exactly the tiles   *)
(* it asked for, none of them shared; and it keeps that allocation         *)
(* unchanged until it is done.                                             *)
(***************************************************************************)
EXTENDS PodShares

CONSTANTS Capacity, None

VARIABLE held   \* held[p]: None, or the node, cards and tiles p holds

Load(h, n, c, k) ==
    LET holders == {p \in Pods : h[p] # None /\ h[p].node = n}
    IN SumFunctionOnSet([p \in holders |-> Amount(Share(p, h[p].ann, c), k)], holders)

TilesGranted(p, ann, tiles) ==
    \A c \in Cards :
        Cardinality({t \in Tiles : <<c, t>> \in tiles}) = Amount(Share(p, ann, c), TileRes)

Init == held = [p \in Pods |-> None]

Allocate(p, n, ann, tiles) ==
    /\ held[p] = None
    /\ held' = [held EXCEPT ![p] = [node |-> n, ann |-> ann, tiles |-> tiles]]
    /\ \A c \in Cards, k \in Resources : Load(held', n, c, k) <= Amount(Capacity, k)
    /\ TilesGranted(p, ann, tiles)
    /\ \A q \in Pods \ {p} :
          held[q] # None /\ held[q].node = n => held[q].tiles \cap tiles = {}

Release(p) ==
    /\ held[p] # None
    /\ held' = [held EXCEPT ![p] = None]

Next ==
    \E p \in Pods :
        \/ Release(p)
        \/ \E n \in Nodes, ann \in Annotations(p), tiles \in SUBSET (Cards \X Tiles) :
              Allocate(p, n, ann, tiles)

Spec == Init /\ [][Next]_held
=============================================================================
