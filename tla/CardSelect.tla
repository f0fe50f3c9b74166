------------------------------ MODULE CardSelect ------------------------------
(***************************************************************************)
(* GPU Aware Scheduling: the filter request for a pod and the selection of *)
(* cards and tiles when it is bound to a node the filter offered.          *)
(* filterNodes and bindNode both call checkForSpaceAndRetrieveCards, under *)
(* the extender's lock, on a copy of the node's books; bindNode then calls *)
(* convertNodeCardsToAnnotations.  What a binding does to the books, and   *)
(* how they change between requests, is the subject of GasCache: here they *)
(* stay as they are.                                                       *)
(*                                                                         *)
(* Cards are the numbers of their names, below 10, so that they sort alike *)
(* as names and as numbers.  The plugin resource is i915.                  *)
(***************************************************************************)
EXTENDS PodShares, NodeLabels

CONSTANTS
    Asks,       \* pods to schedule with their annotations: [pod, ann]
    Clusters,   \* the nodes: [Nodes -> [known, capacity, load, labels]], where
                \* load maps the cards of the books to [shares, tiles]
    NodeLists,  \* NodeNames of the filter request
    Balanced    \* values of the option balancedResource: a resource or None

\* What the labels can be: chunks of cards, of groups of cards and of links between
\* two devices, any of which may fail to parse, and finitely many TAS labels.
XeLinks == {x \in [device : Nat, sub : Nat, linked : Nat, linkedSub : Nat] : x.device # x.linked}
Chunks(items) == Seq([mark : STRING, items : Seq(items)])
LabelsOK(labels) ==
    /\ labels.gpuNumbers \in Chunks(Cards) /\ labels.gpuList \in Seq(Cards)
    /\ labels.numa \in Chunks({Malformed} \cup SUBSET Cards)
    /\ labels.pciGroups \in Chunks(SUBSET Cards)
    /\ labels.xeLinks \in Chunks({Malformed} \cup XeLinks)
    /\ IsFiniteSet(labels.tas)

ASSUME CardSelectAssumption ==
    /\ Cards \subseteq 0..9 /\ None \notin Cards \cup Tiles /\ I915 # TileRes
    /\ \A a \in Asks : a.pod \in Pods
    /\ NodeLists \subseteq Seq(Nodes)
    /\ \A cl \in Clusters, n \in Nodes :
          /\ cl[n].capacity \in ResourceMaps
          /\ DOMAIN cl[n].load \subseteq Cards
          /\ LabelsOK(cl[n].labels)
          /\ \A l \in {"numa", "pciGroups", "xeLinks"} : ~SlicesEmpty(cl[n].labels[l])
          /\ \A c \in DOMAIN cl[n].load :
                cl[n].load[c].shares \in Nat /\ cl[n].load[c].tiles \subseteq Tiles

VARIABLES
    ask, nodes, balanced,   \* the inputs
    verb,            \* "filter" or "bind"
    todo,            \* nodes that the filter has not looked at
    node,            \* the node at hand
    nodeNames, preferredNodeNames, failedNodes,
    pc,
    used,            \* nodeResourcesUsed
    containerCards,  \* the Cards of the containers handled so far
    g,               \* index of the GPU map being searched
    cards,           \* Cards found for the current container: [gpuName, tile]
    samegpuCard,     \* the Card of the containers that share one
    allocating,      \* nodeTilesAllocating: tiles taken by xe-linked pairs
    preferred,
    tiles            \* tiles[x][c]: what container x is given of card c

inputs == <<ask, nodes, balanced>>
answer == <<nodeNames, preferredNodeNames, failedNodes>>
search == <<used, containerCards, g, cards, samegpuCard, allocating, preferred>>
vars == <<inputs, verb, todo, node, answer, pc, search, tiles>>

-----------------------------------------------------------------------------
(* The node at hand: its GPUs, its books and what the labels take away. *)

pod == ask.pod
ann == ask.ann
labels == nodes[node].labels
load == nodes[node].load
gpus == getNodeGPUList(labels)
gpuMaps == createGPUMaps(ann, labels)

\* getPerGPUResourceCapacity
PerGPUCapacity == IF gpus = <<>> THEN EmptyMap ELSE Divide(nodes[node].capacity, Len(gpus))
TilesPerGpu == Amount(PerGPUCapacity, TileRes)

UsedTiles(c) == IF c \in DOMAIN load THEN load[c].tiles ELSE {}
Books(c) ==
    IF c \notin DOMAIN load THEN EmptyMap
    ELSE [k \in {I915, TileRes} |->
             IF k = I915 THEN load[c].shares ELSE Cardinality(load[c].tiles)]

Disabled(c) == sanitizeTiles(DisabledTiles(labels, c), TilesPerGpu)
TilesOf(entries) == {x.tile : x \in entries}

\* createUnavailableNodeResources: disabled tiles that are not used as well.
Unavailable(c) == Cardinality({x \in Disabled(c) : x.tile \notin UsedTiles(c)})

\* addEmptyResourceMaps and addUnavailableToUsedResources
NodeResourcesUsed ==
    [c \in DOMAIN load \cup ToSet(gpus) |->
        AddRM(Books(c), [k \in {TileRes} |-> Unavailable(c)])]

\* checkResourceCapacity
Enough(need, u) ==
    \A k \in DOMAIN need :
        /\ Amount(PerGPUCapacity, k) > 0
        /\ Wrap(Amount(u, k) + need[k]) >= 0
        /\ Amount(u, k) + need[k] <= Amount(PerGPUCapacity, k)

\* getPerGPUResourceRequest
PerGPU(x) ==
    IF NumGPUReq(pod, x) > 1 THEN Divide(Requests[pod][x], NumGPUReq(pod, x)) ELSE Requests[pod][x]

-----------------------------------------------------------------------------
(* The order in which cards are tried. *)

\* The card that labels prefer, read again for each GPU; only without balancing.
Preference == IF balanced = None THEN findNodesPreferredGPU(labels) ELSE {None}

\* arrangeGPUNamesPerResourceAvailability
Less(a, b) ==
    IF balanced = None \/ Amount(used[a], balanced) = Amount(used[b], balanced)
    THEN a < b ELSE Amount(used[a], balanced) < Amount(used[b], balanced)

\* movePreferredCardToFront swaps the preferred card with the first.
ToFront(names, pref) ==
    LET at == SelectInSeq(names, LAMBDA c : c = pref)
    IN IF at = 0 THEN names ELSE [names EXCEPT ![1] = pref, ![at] = names[1]]

SortedNames ==
    CHOOSE s \in SetToSeqs(DOMAIN used) : \A x, y \in DOMAIN s : x < y => Less(s[x], s[y])

GpuNames(pref) == ToFront(SortedNames, pref)

Names(list) == {list[x].gpuName : x \in DOMAIN list}
Plain(c) == [gpuName |-> c, tile |-> None]

checkGpuAvailability(gpuMap, c) ==
    c \notin Names(cards) /\ c \in gpuMap /\ isGPUUsable(ann, labels, c)

\* The place in names of the first card that is available and has room, or 0.
Pick(need, names, gpuMap) ==
    SelectInSeq(names, LAMBDA c : checkGpuAvailability(gpuMap, c) /\ Enough(need, used[c]))

-----------------------------------------------------------------------------
(* The filter request. *)

Init ==
    /\ ask \in Asks /\ nodes \in Clusters /\ balanced \in Balanced
    /\ verb = "filter" /\ todo \in NodeLists /\ node = None
    /\ nodeNames = <<>> /\ preferredNodeNames = <<>> /\ failedNodes = {}
    /\ pc = "request"
    /\ used = <<>> /\ containerCards = <<>> /\ g = 1 /\ cards = <<>> /\ samegpuCard = <<>>
    /\ allocating = [c \in Cards |-> {}] /\ preferred = FALSE
    /\ tiles = <<>>

\* The body cannot be decoded, or names no nodes: StatusNotFound.
RefuseRequest ==
    /\ pc = "request"
    /\ pc' = "notFound"
    /\ UNCHANGED <<inputs, verb, todo, node, answer, search, tiles>>

AcceptRequest ==
    /\ pc = "request" /\ todo # <<>>
    /\ pc' = "nodes"
    /\ UNCHANGED <<inputs, verb, todo, node, answer, search, tiles>>

Offered == IF preferredNodeNames # <<>> THEN preferredNodeNames ELSE nodeNames

TakeNode ==
    /\ pc = "nodes" /\ todo # <<>>
    /\ node' = Head(todo) /\ todo' = Tail(todo)
    /\ pc' = "fetch"
    /\ UNCHANGED <<inputs, verb, answer, search, tiles>>

\* All nodes are done.  The scheduler picks one of those in the answer.
BindOffered ==
    /\ pc = "nodes" /\ todo = <<>>
    /\ node' \in ToSet(Offered)
    /\ verb' = "bind"
    /\ pc' = "fetch"
    /\ UNCHANGED <<inputs, todo, answer, search, tiles>>

\* containersRequestingSamegpu finds no fault with the annotation.
SamegpuParses ==
    ann.samegpu # None =>
        /\ Len(ann.samegpu) > 1 /\ IsInjective(ann.samegpu)
        /\ ToSet(ann.samegpu) \subseteq Containers(pod)

\* getNodeForName and checkPod
Readable == nodes[node].known /\ (ann.xelink => ann.samegpu = None)
Checks == Readable /\ gpus # <<>> /\ SamegpuParses

\* The list of GPUs is read from a label that ends in an empty continuation: the
\* handler panics, for all the nodes of the request.
LabelPanics ==
    /\ pc = "fetch" /\ Readable /\ SlicesEmpty(labels.gpuNumbers)
    /\ pc' = "panic"
    /\ UNCHANGED <<inputs, verb, todo, node, answer, search, tiles>>

RejectNode ==
    /\ pc = "fetch" /\ ~Checks /\ (Readable => ~SlicesEmpty(labels.gpuNumbers))
    /\ pc' = "rejected"
    /\ UNCHANGED <<inputs, verb, todo, node, answer, search, tiles>>

\* checkForSpaceAndRetrieveCards up to checkForSpaceResourceRequests.
StartSearch ==
    /\ pc = "fetch" /\ Checks /\ ~SlicesEmpty(labels.gpuNumbers)
    /\ used' = NodeResourcesUsed
    /\ containerCards' = <<>> /\ g' = 1 /\ cards' = <<>> /\ samegpuCard' = <<>>
    /\ allocating' = [c \in Cards |-> {}] /\ preferred' = FALSE
    /\ pc' = "samegpu"
    /\ UNCHANGED <<inputs, verb, todo, node, answer, tiles>>

\* Mutant: the error is not looked at.
VerdictIgnoresError ==
    /\ verb = "filter" /\ pc \in {"fits", "wontFit", "rejected"}
    /\ IF preferred
       THEN preferredNodeNames' = Append(preferredNodeNames, node) /\ UNCHANGED nodeNames
       ELSE nodeNames' = Append(nodeNames, node) /\ UNCHANGED preferredNodeNames
    /\ pc' = "nodes"
    /\ UNCHANGED <<inputs, verb, todo, node, failedNodes, search, tiles>>

\* What the filter makes of the search.
FilterVerdict ==
    /\ verb = "filter" /\ pc \in {"fits", "wontFit", "rejected"}
    /\ IF pc # "fits"
       THEN failedNodes' = failedNodes \cup {node} /\ UNCHANGED <<nodeNames, preferredNodeNames>>
       ELSE /\ IF preferred
               THEN preferredNodeNames' = Append(preferredNodeNames, node) /\ UNCHANGED nodeNames
               ELSE nodeNames' = Append(nodeNames, node) /\ UNCHANGED preferredNodeNames
            /\ UNCHANGED failedNodes
    /\ pc' = "nodes"
    /\ UNCHANGED <<inputs, verb, todo, node, search, tiles>>

-----------------------------------------------------------------------------
(* Containers that share a GPU. *)

samegpu == IF ann.samegpu = None THEN {} ELSE ToSet(ann.samegpu)

\* combineSamegpuResourceRequests: the sum, with one plugin resource.
Combined ==
    [k \in UNION {DOMAIN Requests[pod][x] : x \in samegpu} |->
        IF k = I915 THEN 1
        ELSE SumFunctionOnSet([x \in samegpu |-> Amount(Requests[pod][x], k)], samegpu)]

\* sanitizeSamegpuResourcesRequest
SamegpuAllowed ==
    \A x \in samegpu : TileRes \notin DOMAIN Requests[pod][x] /\ NumGPUReq(pod, x) = 1

\* Mutant: the shares of all but one of the containers are not looked at.
MapUnpruned(gpuMap) == gpuMap

\* Cards without a share for each of the containers are pruned from the map.
Pruned(gpuMap) ==
    {c \in gpuMap : c \in DOMAIN used =>
        Amount(PerGPUCapacity, I915) - Amount(used[c], I915) >= Cardinality(samegpu)}

\* getCardForSamegpu, for all the containers that share a GPU; it searches the
\* first GPU map only.
SameGpuFound ==
    /\ pc = "samegpu"
    /\ samegpu # {} /\ gpuMaps # <<>> /\ SamegpuAllowed
    /\ \E pref \in Preference :
          LET names == GpuNames(pref)
              at == Pick(Combined, names, Pruned(gpuMaps[1]))
          IN /\ at # 0
             /\ samegpuCard' = <<Plain(names[at])>>
             /\ used' = [used EXCEPT ![names[at]] =
                    AddRM(AddRM(@, Combined), [k \in {I915} |-> Cardinality(samegpu) - 1])]
             /\ preferred' = (at = 1 /\ pref # None)
    /\ pc' = "containers"
    /\ UNCHANGED <<inputs, verb, todo, node, answer, containerCards, g, cards, allocating, tiles>>

SameGpuFails ==
    /\ pc = "samegpu"
    /\ samegpu # {} /\ gpuMaps # <<>>
    /\ SamegpuAllowed => Pick(Combined, GpuNames(None), Pruned(gpuMaps[1])) = 0
    /\ pc' = "wontFit"
    /\ UNCHANGED <<inputs, verb, todo, node, answer, search, tiles>>

\* Without a GPU map (a malformed NUMA label) gpuMaps[0] panics; the HTTP server
\* recovers and the request, for all its nodes, ends without an answer.
SameGpuPanics ==
    /\ pc = "samegpu"
    /\ samegpu # {} /\ gpuMaps = <<>>
    /\ pc' = "panic"
    /\ UNCHANGED <<inputs, verb, todo, node, answer, search, tiles>>

NoSameGpu ==
    /\ pc = "samegpu" /\ samegpu = {}
    /\ pc' = "containers"
    /\ UNCHANGED <<inputs, verb, todo, node, answer, search, tiles>>

-----------------------------------------------------------------------------
(* checkForSpaceResourceRequests: the loop over the containers. *)

i == Len(containerCards) + 1   \* the container at hand
More == pc = "containers" /\ gpuMaps # <<>> /\ i <= Len(Requests[pod])
Searching == More /\ i \notin samegpu
Lacking == Searching /\ Len(cards) < NumGPUReq(pod, i)

TakeSameGpu ==
    /\ More /\ i \in samegpu
    /\ containerCards' = Append(containerCards, samegpuCard)
    /\ UNCHANGED <<inputs, verb, todo, node, answer, pc, used, g, cards, samegpuCard,
                   allocating, preferred, tiles>>

\* Mutant: any card makes the node a preferred one when a label prefers a card.
PlaceAndPrefer ==
    /\ Lacking /\ ~ann.xelink
    /\ \E pref \in Preference :
          LET names == GpuNames(pref)
              at == Pick(PerGPU(i), names, gpuMaps[g])
          IN /\ at # 0
             /\ cards' = Append(cards, Plain(names[at]))
             /\ used' = [used EXCEPT ![names[at]] = AddRM(@, PerGPU(i))]
             /\ preferred' = (pref # None)
    /\ UNCHANGED <<inputs, verb, todo, node, answer, pc, containerCards, g, samegpuCard,
                   allocating, tiles>>

\* One more GPU for the container.  A hit of the preferred card is remembered until
\* the search for the container, or in the next GPU map, starts afresh.
PlaceGpu ==
    /\ Lacking /\ ~ann.xelink
    /\ \E pref \in Preference :
          LET names == GpuNames(pref)
              at == Pick(PerGPU(i), names, gpuMaps[g])
          IN /\ at # 0
             /\ cards' = Append(cards, Plain(names[at]))
             /\ used' = [used EXCEPT ![names[at]] = AddRM(@, PerGPU(i))]
             /\ preferred' = ((cards # <<>> /\ preferred) \/ (at = 1 /\ pref # None))
    /\ UNCHANGED <<inputs, verb, todo, node, answer, pc, containerCards, g, samegpuCard,
                   allocating, tiles>>

\* createAvailableXeLinkedTilesStat
AvailableTiles(c) ==
    IF c \notin DOMAIN used THEN {}
    ELSE getXeLinkedTiles(labels, c) \ (UsedTiles(c) \cup TilesOf(Disabled(c)) \cup allocating[c])

\* Tiles of c with a link that findXeLinkedGPUPair can use.
LinkableTiles(c) ==
    {t \in AvailableTiles(c) :
        LET other == getXeLinkedGPUInfo(labels, c, t)
        IN /\ checkGpuAvailability(gpuMaps[g], c) /\ Enough(PerGPU(i), used[c])
           /\ checkGpuAvailability(gpuMaps[g], other.gpuName)
           /\ other.tile \in AvailableTiles(other.gpuName)
           /\ Enough(PerGPU(i), used[other.gpuName])}

\* Two more GPUs for the container: the first card in the order of names that has
\* such a tile, and any of these, for they come in the order of a Go map.
PlacePair ==
    /\ Lacking /\ ann.xelink /\ NumGPUReq(pod, i) % 2 = 0
    /\ \E pref \in Preference :
          LET names == GpuNames(pref)
              at == SelectInSeq(names, LAMBDA c : LinkableTiles(c) # {})
          IN /\ at # 0
             /\ \E t \in LinkableTiles(names[at]) :
                   LET one == [gpuName |-> names[at], tile |-> t]
                       other == getXeLinkedGPUInfo(labels, names[at], t)
                   IN /\ cards' = cards \o <<one, other>>
                      /\ used' = [c \in DOMAIN used |->
                             IF c \in {one.gpuName, other.gpuName}
                             THEN AddRM(used[c], PerGPU(i)) ELSE used[c]]
                      /\ allocating' = [allocating EXCEPT ![one.gpuName] = @ \cup {t},
                                                          ![other.gpuName] = @ \cup {other.tile}]
             /\ preferred' = (cards'[1].gpuName = pref)
    /\ UNCHANGED <<inputs, verb, todo, node, answer, pc, containerCards, g, samegpuCard, tiles>>

Stuck ==
    /\ Lacking
    /\ IF ann.xelink
       THEN NumGPUReq(pod, i) % 2 # 0 \/ \A c \in DOMAIN used : LinkableTiles(c) = {}
       ELSE Pick(PerGPU(i), GpuNames(None), gpuMaps[g]) = 0

\* An error: try the next GPU map.  What was added to nodeResourcesUsed and to
\* nodeTilesAllocating for the cards found in this one stays there.
NextMap ==
    /\ Stuck
    /\ IF g < Len(gpuMaps) THEN g' = g + 1 /\ cards' = <<>> /\ preferred' = FALSE /\ pc' = pc
                           ELSE pc' = "wontFit" /\ UNCHANGED <<g, cards, preferred>>
    /\ UNCHANGED <<inputs, verb, todo, node, answer, used, containerCards, samegpuCard,
                   allocating, tiles>>

FinishContainer ==
    /\ Searching /\ Len(cards) = NumGPUReq(pod, i)
    /\ containerCards' = Append(containerCards, cards)
    /\ g' = 1 /\ cards' = <<>>
    /\ preferred' = (cards # <<>> /\ preferred)
    /\ UNCHANGED <<inputs, verb, todo, node, answer, pc, used, samegpuCard, allocating, tiles>>

\* All containers are done; without a GPU map none of them has got an entry.
FinishCheck ==
    /\ pc = "containers" /\ ~More
    /\ pc' = "fits"
    /\ UNCHANGED <<inputs, verb, todo, node, answer, search, tiles>>

-----------------------------------------------------------------------------
(* bindNode and convertNodeCardsToAnnotations, container by container. *)

BindFails ==
    /\ verb = "bind" /\ pc \in {"wontFit", "rejected"}
    /\ pc' = "bindError"
    /\ UNCHANGED <<inputs, verb, todo, node, answer, search, tiles>>

\* With too few entries the annotation is empty: bindNode returns without an error
\* and without having bound the pod.
StartConvert ==
    /\ verb = "bind" /\ pc = "fits"
    /\ pc' = IF Len(containerCards) = Len(Requests[pod]) THEN "convert" ELSE "unbound"
    /\ UNCHANGED <<inputs, verb, todo, node, answer, search, tiles>>

j == Len(tiles) + 1
CardsOf(x) == Names(containerCards[x])

TilesPerGPU(x) ==
    IF containerCards[x] = <<>> THEN 0
    ELSE Amount(Requests[pod][x], TileRes) \div Len(containerCards[x])

\* Tiles of card c given to the containers before the current one; the tile of an
\* xe-link, given as such, is not entered into currentlyAllocatingTilesMap.
CurrentlyAllocating(c) ==
    UNION {tiles[x][c] : x \in {y \in DOMAIN tiles :
        \E k \in DOMAIN containerCards[y] :
            /\ containerCards[y][k].gpuName = c
            /\ containerCards[y][k].tile = None \/ TilesPerGPU(y) # 1}}

\* Mutant: disabled tiles are not kept out.
IgnoreDisabled(c) == {t \in 0..(TilesPerGpu - 1) : t \notin UsedTiles(c) \cup CurrentlyAllocating(c)}

\* getFreeTiles; currentlyAllocatingTilesMap starts with the disabled tiles.
FreeTiles(c) ==
    {t \in 0..(TilesPerGpu - 1) :
        t \notin UsedTiles(c) \cup CurrentlyAllocating(c) \cup TilesOf(Disabled(c))}

\* createTileAnnotation: the tile of the link; or the first of the free tiles, which
\* come in the order of a Go map, after the preferred ones have been moved to the
\* front; none at all when there are too few.
TilesFor(card) ==
    LET need == TilesPerGPU(j)
        free == FreeTiles(card.gpuName)
    IN IF need = 0 THEN {{}}
       ELSE IF card.tile # None /\ need = 1 THEN {{card.tile}}
       ELSE IF Cardinality(free) < need THEN {{}}
       ELSE {ToSet(SubSeq(reorderPreferredTilesFirst(order, prefs), 1, need)) :
                 order \in SetToSeqs(free), prefs \in PreferredTiles(labels, card.gpuName)}

AnnotateTiles ==
    /\ pc = "convert" /\ j <= Len(Requests[pod])
    /\ \E f \in [CardsOf(j) -> SUBSET Tiles] :
          /\ \A x \in DOMAIN containerCards[j] :
                f[containerCards[j][x].gpuName] \in TilesFor(containerCards[j][x])
          /\ tiles' = Append(tiles, f)
    /\ UNCHANGED <<inputs, verb, todo, node, answer, pc, search>>

FinishConvert ==
    /\ pc = "convert" /\ j > Len(Requests[pod])
    /\ pc' = "annotated"
    /\ UNCHANGED <<inputs, verb, todo, node, answer, search, tiles>>

Next ==
    \/ RefuseRequest \/ AcceptRequest \/ TakeNode \/ BindOffered
    \/ LabelPanics \/ RejectNode \/ StartSearch \/ FilterVerdict
    \/ SameGpuFound \/ SameGpuFails \/ SameGpuPanics \/ NoSameGpu
    \/ TakeSameGpu \/ PlaceGpu \/ PlacePair \/ NextMap \/ FinishContainer \/ FinishCheck
    \/ BindFails \/ StartConvert \/ AnnotateTiles \/ FinishConvert

Spec == Init /\ [][Next]_vars

-----------------------------------------------------------------------------
(* Properties *)

Chosen == pc \in {"fits", "convert", "annotated"} /\ Len(containerCards) = Len(Requests[pod])
chosen == [x \in DOMAIN containerCards |-> CardsOf(x)]

\* The selection the code's comments and checks add up to: each container has
\* as many cards as it asked for, and every card can satisfy everything that is
\* about to be charged to it, whatever the containers share, on top of the books.
\* This is what GasCache assumes of the cards that bindNode is given.
SelectionFits ==
    Chosen =>
        /\ chosen \in Annotations(pod)
        /\ \A c \in Cards : Enough(Share(pod, chosen, c), Books(c))

\* The cards that the labels of a TAS policy rule out: the card itself, or all the
\* cards of its PCI group.
RuledOut(c) ==
    \E x \in labels.tas :
        /\ x.kind = "disableGpu"
        /\ \/ x.card = c
           \/ x.value = "PCI_GROUP" /\ \E chunk \in ToSet(labels.pciGroups) :
                 \E group \in ToSet(chunk.items) : {c, x.card} \subseteq group

\* Cards that labels or pod annotations rule out are not given to a container;
\* with the single-numa annotation the GPUs of one container are from one NUMA
\* node; containers that are to share a GPU do.
SelectionAllowed ==
    Chosen => \A x \in Containers(pod) :
        /\ \A c \in CardsOf(x) :
              /\ ~RuledOut(c)
              /\ (ann.allow # None => c \in ann.allow) /\ (ann.deny # None => c \notin ann.deny)
        /\ ann.singleNuma /\ labels.numa # <<>> =>
              \E chunk \in ToSet(labels.numa) : \E group \in ToSet(chunk.items) : CardsOf(x) \subseteq group
        /\ \A y \in samegpu : x \in samegpu => containerCards[x] = containerCards[y]

\* Tiles that the books or a label make unusable, read from the labels.
Unusable(c) == UsedTiles(c) \cup TilesOf(TasLabels(labels, {"disableTile", "descheduleTile"}, c))
Before(x, c) == UNION {tiles[y][c] : y \in {z \in DOMAIN tiles : z < x /\ c \in DOMAIN tiles[z]}}

\* Once the check for space has passed every container gets the tiles it asked
\* for: existing, not disabled, not used by another pod or another container.
TilesGranted ==
    \A x \in DOMAIN tiles : \A c \in DOMAIN tiles[x] :
        /\ Cardinality(tiles[x][c]) = TilesPerGPU(x)
        /\ tiles[x][c] \subseteq Tiles \ (Unusable(c) \cup Before(x, c))

\* Free tiles that a label prefers are given before others, whatever the order in
\* which the code comes upon the free tiles and the labels (scheduler.go:451).
PreferredTilesFirst ==
    ~ann.xelink =>
        \A x \in DOMAIN tiles : \A c \in DOMAIN tiles[x] :
            LET wanted == {y.tile : y \in TasLabels(labels, {"preferTile"}, c)}
                            \cap (Tiles \ (Unusable(c) \cup Before(x, c)))
            IN wanted \subseteq tiles[x][c] \/ tiles[x][c] \subseteq wanted

\* "GAS will only allocate GPUs which have free tiles that have Xe Links between
\* them listed in the node label": the cards of a container come in pairs, the tiles
\* it is given are the two ends of a link in the label, and no tile is the end of
\* two of them.
XeLinkGranted ==
    ann.xelink /\ Chosen => \A x \in Containers(pod) :
        \A k \in {m \in DOMAIN containerCards[x] : m % 2 = 1} :
            LET one == containerCards[x][k]
                other == containerCards[x][k + 1]
            IN /\ \E chunk \in ToSet(labels.xeLinks) : \E link \in ToSet(chunk.items) :
                     /\ link # Malformed
                     /\ <<one.gpuName, one.tile>> =
                            <<lZeroDeviceIDToGpuName(labels, link.device), link.sub>>
                     /\ <<other.gpuName, other.tile>> =
                            <<lZeroDeviceIDToGpuName(labels, link.linked), link.linkedSub>>
               /\ \A end \in {one, other} :
                     /\ end.tile \in Tiles \ Unusable(end.gpuName)
                     /\ \A y \in Containers(pod) \ {x} : end \notin ToSet(containerCards[y])
                     /\ x \in DOMAIN tiles => tiles[x][end.gpuName] = {end.tile}

\* A node is offered as a preferred one, to the exclusion of the others, only if the
\* pod would get a card there that a label prefers (scheduler.go:706, 1408).
PreferredTruthful ==
    Chosen /\ preferred =>
        \E x \in Containers(pod) : CardsOf(x) \cap findNodesPreferredGPU(labels) # {}

\* What card c has left for the container at hand, counted from scratch: the
\* books, the tiles that cannot be used, the containers placed so far.
Taken(c) ==
    AddRM(AddRM(Books(c), [k \in {TileRes} |-> Cardinality((Unusable(c) \ UsedTiles(c)) \cap Tiles)]),
          Share(pod, chosen, c))

Room(c) == ~RuledOut(c) /\ isGPUAllowed(ann, c) /\ ~isGPUDenied(ann, c) /\ Enough(PerGPU(i), Taken(c))

\* Both ends of the link are free.
LinkFree(m, link) ==
    \A end \in {<<link.device, link.sub>>, <<link.linked, link.linkedSub>>} :
        LET c == lZeroDeviceIDToGpuName(labels, end[1])
        IN c \in gpuMaps[m] /\ Room(c) /\ end[2] \notin Unusable(c)

\* "If pod doesn't fit or any other error triggers, error is returned": a
\* container that shares no GPU is refused only if no GPU map has enough cards
\* with room for it, or a free link between two of them.  With several NUMA nodes
\* this is so for the first container only: a failed search of one of them leaves
\* usage behind that later containers take for real (scheduler.go:947).  With
\* xe-links it is so for the first pair of a pod: a choice of links for one pair
\* may leave none for another.
RefusedOnlyIfFull ==
    pc = "wontFit" /\ samegpu = {} /\ (Len(gpuMaps) = 1 \/ i = 1) =>
        \A m \in DOMAIN gpuMaps :
            IF ~ann.xelink
            THEN Cardinality({c \in gpuMaps[m] : Room(c)}) < NumGPUReq(pod, i)
            ELSE i = 1 /\ NumGPUReq(pod, i) = 2 => \A link \in ToSet(Links(labels)) : ~LinkFree(m, link)

\* Nothing is left to chance: at most one label prefers a GPU, at most one pair of
\* GPUs is looked for.
Determined ==
    /\ Cardinality(findNodesPreferredGPU(labels)) = 1
    /\ ann.xelink => MapThenSumSet(LAMBDA x : NumGPUReq(pod, x), Containers(pod)) <= 2

\* "pod should always fit": while the books stay as they are, the bind that follows
\* finds room on any node that the filter offered, and binds the pod unless a
\* malformed NUMA label left no GPU map to search.
OfferedFits ==
    verb = "bind" /\ Determined =>
        /\ pc \notin {"bindError", "panic"}
        /\ pc = "unbound" => gpuMaps = <<>>
=============================================================================
