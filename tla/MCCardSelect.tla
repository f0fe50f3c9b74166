---------------------------- MODULE MCCardSelect ----------------------------
(***************************************************************************)
(* Instances of CardSelect for TLC: cards 1 to 3, two tiles and two shares *)
(* of each.                                                                *)
(***************************************************************************)
EXTENDS CardSelect, TLC

CONSTANTS p1, p2, p3, p4, p5, n1, n2

MCResources == {"i915", "tiles"}
Amounts(i915, t) == [k \in {"i915", "tiles"} |-> IF k = "i915" THEN i915 ELSE t]
OneShare == [k \in {"i915"} |-> 1]

\* Two GPUs and a share; three containers two of which can share a GPU; tiles; two
\* pairs of GPUs; one pair.
FivePods ==
    p1 :> <<Amounts(2, 2), OneShare>> @@
    p2 :> <<OneShare, Amounts(1, 1), OneShare>> @@
    p3 :> <<Amounts(1, 1), Amounts(1, 1), EmptyMap>> @@
    p4 :> <<Amounts(2, 2), Amounts(2, 2)>> @@
    p5 :> <<Amounts(2, 2)>>

None0 == [samegpu |-> None, allow |-> None, deny |-> None, singleNuma |-> FALSE, xelink |-> FALSE]
Numa == [None0 EXCEPT !.singleNuma = TRUE]
Linked == [None0 EXCEPT !.xelink = TRUE]
Share2(list) == [None0 EXCEPT !.samegpu = list]

MCAsks ==
    [pod : {p1}, ann : {None0, Numa, [Numa EXCEPT !.allow = {2, 3}]}]
      \cup [pod : {p2}, ann : {None0, [None0 EXCEPT !.deny = {1}], [Share2(<<1, 3>>) EXCEPT !.singleNuma = TRUE],
                               [Share2(<<1, 3>>) EXCEPT !.xelink = TRUE]}]
      \cup [pod : {p2}, ann : {Share2(l) : l \in {<<1, 3>>, <<1, 2>>, <<1>>, <<1, 1>>, <<0, 1>>}}]
      \cup [pod : {p3}, ann : {None0, Linked}]
      \cup [pod : {p4}, ann : {Linked, [Linked EXCEPT !.singleNuma = TRUE]}]
      \cup [pod : {p5}, ann : {Linked}]

Chunk(m, items) == [mark |-> m, items |-> items]
Link(d, s, e, t) == [device |-> d, sub |-> s, linked |-> e, linkedSub |-> t]
Tas(p, k, c, t, v) == [policy |-> p, kind |-> k, card |-> c, tile |-> t, value |-> v]

\* Labels split in two; two NUMA nodes; a ring of links, and one that does not parse.
PlainLabels ==
    [gpuNumbers |-> <<Chunk("1", <<1, 2>>), Chunk("Z", <<3>>)>>, gpuList |-> <<>>,
     numa |-> <<Chunk("0", <<{3}, {1, 2}>>)>>,
     pciGroups |-> <<Chunk("1", <<{1, 2}, {3}>>)>>,
     xeLinks |-> <<Chunk("0", <<Link(0, 0, 1, 0), Link(1, 1, 2, 1)>>),
                   Chunk("Z", <<Link(2, 0, 0, 1), Malformed, Link(1, 0, 2, 0)>>)>>,
     tas |-> {}]

\* Tiles disabled and descheduled, and one that does not exist; a card, and its
\* PCI group, disabled; cards and tiles preferred, by one policy and by two.
TasSets ==
    {{},
     {Tas("a", "disableTile", 1, 0, "true"), Tas("a", "descheduleTile", 2, 1, "true"),
      Tas("a", "disableTile", 3, 2, "true")},
     {Tas("a", "disableGpu", 1, None, "true"), Tas("b", "preferGpu", 3, None, "true")},
     {Tas("a", "disableGpu", 1, None, "PCI_GROUP")},
     {Tas("a", "preferGpu", 2, None, "true"), Tas("a", "preferTile", 2, 1, "true")},
     {Tas("a", "preferGpu", 1, None, "true"), Tas("b", "preferGpu", 3, None, "true"),
      Tas("a", "preferTile", 1, 1, "true"), Tas("b", "preferTile", 1, 0, "true")}}

Loads ==
    {[shares |-> 0, tiles |-> {}], [shares |-> 1, tiles |-> {1}], [shares |-> 1, tiles |-> {0, 1}],
     [shares |-> 2, tiles |-> {}]}
Idle == [c \in {} |-> [shares |-> 0, tiles |-> {}]]
Node(l, b) == [known |-> TRUE, capacity |-> Amounts(6, 6), load |-> b, labels |-> l]

Busy == {Node([PlainLabels EXCEPT !.tas = t], b) : t \in TasSets, b \in [{1, 2, 3} -> Loads]}

\* A continuation without its mark, so that the old list counts; a malformed NUMA
\* label; a card in the books that the node no longer has; no GPUs; an empty
\* continuation; a node that cannot be read.
Odd ==
    {Node([PlainLabels EXCEPT !.gpuNumbers = <<Chunk("1", <<1, 2>>), Chunk("3", <<3>>)>>,
                              !.gpuList = <<1, 2, 3>>], Idle),
     Node([PlainLabels EXCEPT !.numa = <<Chunk("0", <<{3}, Malformed>>)>>], Idle),
     [Node([PlainLabels EXCEPT !.gpuNumbers = <<Chunk("1", <<1, 2>>)>>, !.numa = <<>>],
           [c \in {3} |-> [shares |-> 2, tiles |-> {1}]]) EXCEPT !.capacity = Amounts(4, 4)],
     Node([PlainLabels EXCEPT !.gpuNumbers = <<>>], Idle),
     Node([PlainLabels EXCEPT !.gpuNumbers = <<Chunk("1", <<1, 2>>), Chunk("", <<>>)>>], Idle),
     [Node(PlainLabels, Idle) EXCEPT !.known = FALSE]}

Second == Node([PlainLabels EXCEPT !.tas = {Tas("a", "preferGpu", 2, None, "true")}], Idle)

MCClusters == {n1 :> a @@ n2 :> Second : a \in Busy \cup Odd}
MCNodeLists == {<<n1>>, <<n2, n1>>, <<>>}
=============================================================================
