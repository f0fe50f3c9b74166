----------------------------- MODULE NodeLabels -----------------------------
(***************************************************************************)
(* GPU Aware Scheduling: what the labels of a node and the annotations of  *)
(* a pod say about its GPUs.                                               *)
(*                                                                         *)
(* The labels of a node are a record:                                      *)
(*   gpuNumbers, numa, pciGroups, xeLinks: labels that may be split over   *)
(*       several: a sequence of chunks [mark, items], where mark is the    *)
(*       first character of the chunk ("Z" in a continuation) and items    *)
(*       are cards, sets of cards (a group), or links; an item that does   *)
(*       not parse is Malformed;                                           *)
(*   gpuList: the deprecated list of cards;                                *)
(*   tas: the labels of TAS policies, [policy, kind, card, tile, value].   *)
(* The annotations of a pod are a record: samegpu (names of containers as  *)
(* their indices, 0 for a name that is not in the pod, or None), allow and *)
(* deny (sets of cards, or None), singleNuma and xelink.                   *)
(* Cards are the numbers of their names.                                   *)
(***************************************************************************)
EXTENDS Integers, Sequences, FiniteSets, SequencesExt

CONSTANTS None, Malformed

-----------------------------------------------------------------------------
(* Split labels and the list of GPUs. *)

\* A continuation that does not start with the control character voids the label.
concatenateSplitLabel(chunks) ==
    IF \E x \in 2..Len(chunks) : chunks[x].mark # "Z" THEN <<>>
    ELSE FlattenSeq([x \in DOMAIN chunks |-> chunks[x].items])

\* The first wrong continuation is empty: logging its first character panics.
SlicesEmpty(chunks) ==
    LET wrong == {x \in 2..Len(chunks) : chunks[x].mark # "Z"}
    IN \E x \in wrong : chunks[x].mark = "" /\ \A y \in wrong : x <= y

getNodeGPUList(labels) ==
    LET numbers == concatenateSplitLabel(labels.gpuNumbers)
    IN IF numbers # <<>> THEN numbers ELSE labels.gpuList

-----------------------------------------------------------------------------
(* Tiles. *)

TasLabels(labels, kinds, c) == {x \in labels.tas : x.kind \in kinds /\ x.card = c}

\* createDisabledTileMapping: a list with one entry for each label, of whichever
\* policy, so that a tile may be in it twice: the labels stand for the entries.
DisabledTiles(labels, c) == TasLabels(labels, {"disableTile", "descheduleTile"}, c)

\* Likewise; in the order of a Go map.
PreferredTiles(labels, c) ==
    {[x \in DOMAIN s |-> s[x].tile] : s \in SetToSeqs(TasLabels(labels, {"preferTile"}, c))}

\* Mutant: tiles that do not exist are not removed from the list.
NoSanitize(list, tilesPerGpu) == list

sanitizeTiles(list, tilesPerGpu) == {x \in list : x.tile < tilesPerGpu}

\* Mutant: the first preferred tile goes to the second place.
SecondFirst(tiles, preferred) ==
    LET at == IF preferred = <<>> THEN 0 ELSE SelectInSeq(tiles, LAMBDA t : t = preferred[1])
    IN IF at > 2 THEN [tiles EXCEPT ![2] = preferred[1], ![at] = tiles[2]] ELSE tiles

\* Each preferred tile that is in the list is swapped to the front.
reorderPreferredTilesFirst(tiles, preferred) ==
    LET step(acc, p) ==
            LET at == SelectInSeq(acc.tiles, LAMBDA t : t = p)
            IN IF at = 0 THEN acc
               ELSE [tiles |-> IF at > acc.now
                               THEN [acc.tiles EXCEPT ![acc.now] = p, ![at] = acc.tiles[acc.now]]
                               ELSE acc.tiles,
                     now |-> acc.now + 1]
    IN FoldLeft(step, [tiles |-> tiles, now |-> 1], preferred).tiles

-----------------------------------------------------------------------------
(* Usable cards. *)

\* getPCIGroup: the first group of the label that names the card.
getPCIGroup(labels, c) ==
    LET groups == concatenateSplitLabel(labels.pciGroups)
        at == SelectInSeq(groups, LAMBDA group : c \in group)
    IN IF at = 0 THEN {} ELSE groups[at]

\* Mutant: the value of the label is not looked at.
DisabledByName(labels, c) == TasLabels(labels, {"disableGpu"}, c) # {}

isGPUDisabled(labels, c) ==
    \E x \in labels.tas :
        /\ x.kind = "disableGpu"
        /\ x.card = c \/ (x.value = "PCI_GROUP" /\ c \in getPCIGroup(labels, x.card))

isGPUAllowed(ann, c) == ann.allow = None \/ c \in ann.allow
isGPUDenied(ann, c) == ann.deny # None /\ c \in ann.deny

\* isGPUUsable; both lists are enabled.
isGPUUsable(ann, labels, c) ==
    ~isGPUDisabled(labels, c) /\ isGPUAllowed(ann, c) /\ ~isGPUDenied(ann, c)

\* One GPU map for each NUMA node, none if the label is malformed; or one for all.
createGPUMaps(ann, labels) ==
    LET groups == concatenateSplitLabel(labels.numa)
    IN IF ann.singleNuma /\ groups # <<>>
       THEN IF Contains(groups, Malformed) THEN <<>> ELSE groups
       ELSE <<ToSet(getNodeGPUList(labels))>>

\* What findNodesPreferredGPU may return: any of the cards that labels prefer.
findNodesPreferredGPU(labels) ==
    LET cards == {x.card : x \in {y \in labels.tas : y.kind = "preferGpu"}}
    IN IF cards = {} THEN {None} ELSE cards

-----------------------------------------------------------------------------
(* Xe-links: [device, sub, linked, linkedSub], by Level-Zero device ids.    *)

\* numSortedGpuNums; the device with id d is entry d + 1.
numSortedGpuNums(labels) ==
    CHOOSE s \in SetToSeqs(ToSet(concatenateSplitLabel(labels.gpuNumbers))) :
        \A x, y \in DOMAIN s : x < y => s[x] < s[y]

\* -1 for a card that has no device id.
gpuNameToLZeroDeviceID(labels, c) == SelectInSeq(numSortedGpuNums(labels), LAMBDA x : x = c) - 1

lZeroDeviceIDToGpuName(labels, id) ==
    LET names == numSortedGpuNums(labels) IN IF id + 1 \in DOMAIN names THEN names[id + 1] ELSE None

\* The links of the label, up to the first that does not parse.
Links(labels) ==
    LET links == concatenateSplitLabel(labels.xeLinks)
        bad == SelectInSeq(links, LAMBDA x : x = Malformed)
    IN IF bad = 0 THEN links ELSE SubSeq(links, 1, bad - 1)

\* Tiles of the card at either end of a link.
getXeLinkedTiles(labels, c) ==
    LET id == gpuNameToLZeroDeviceID(labels, c)
        links == ToSet(Links(labels))
    IN {x.sub : x \in {y \in links : y.device = id}}
         \cup {x.linkedSub : x \in {y \in links : y.device # id /\ y.linked = id}}

\* Mutant: the link is found by its device, whatever the tile.
AnyLinkOf(labels, c, t) ==
    LET links == Links(labels)
        at == SelectInSeq(links, LAMBDA x : x.device = gpuNameToLZeroDeviceID(labels, c))
    IN IF at = 0 THEN [gpuName |-> None, tile |-> -1]
       ELSE [gpuName |-> lZeroDeviceIDToGpuName(labels, links[at].linked), tile |-> links[at].linkedSub]

\* The other end of the first link that starts at tile t of the card; links that
\* end there are not found.
getXeLinkedGPUInfo(labels, c, t) ==
    LET links == Links(labels)
        at == SelectInSeq(links, LAMBDA x :
                  x.device = gpuNameToLZeroDeviceID(labels, c) /\ x.sub = t)
    IN IF at = 0 THEN [gpuName |-> None, tile |-> -1]
       ELSE [gpuName |-> lZeroDeviceIDToGpuName(labels, links[at].linked), tile |-> links[at].linkedSub]
=============================================================================
