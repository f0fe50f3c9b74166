---------------------------- MODULE MCGasDesched ----------------------------
(***************************************************************************)
(* Instances of GasDesched for TLC: two pods on a node with two cards, of  *)
(* which card1 has a tile and both are in one PCI group.                   *)
(***************************************************************************)
EXTENDS GasDesched, TLC

CONSTANTS p1, p2, c0, c1, t0

OwnNames == p1 :> "a" @@ p2 :> "b"
SameName == p1 :> "a" @@ p2 :> "a"

MCPciGroup == c0 :> {c0, c1} @@ c1 :> {c0, c1}

Card(c, v) == [policy |-> "x", card |-> c, tile |-> NoTile, value |-> v]
Tile(pol, c, t) == [policy |-> pol, card |-> c, tile |-> t, value |-> "true"]

LiveLabelSets == {{}, {Card(c0, "PCI_GROUP")}, {Tile("x", c1, t0), Tile("y", c1, t0)}}
FewLabelSets == {{}, {Card(c0, "true")}, {Card(c0, "PCI_GROUP")}}

MCUseSets == {{<<c0>>}, {<<c1>>, <<c1, t0>>}}

OneRuns == p1 :> {<<c0>>}
=============================================================================
