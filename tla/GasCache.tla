------------------------------- MODULE GasCache -------------------------------
(***************************************************************************)
(* GPU Aware Scheduling: the node resource cache, the bind handler that    *)
(* charges it, and the informer that releases it.                          *)
(*                                                                         *)
(*   kube-scheduler --bind--> GASExtender.bindNode --+--> Cache (the books) *)
(*                                 |                 |                     *)
(*                            patch, bind       podWorker (handlePod)      *)
(*                                 v                 ^                     *)
(*                            API server --watch--> informer --> handlers  *)
(*                                                                         *)
(* The books (annotatedPods, nodeStatuses, nodeTileStatuses) live in the   *)
(* memory of one process.  The bind handler charges a pod before the pod   *)
(* is bound and gives the charge back when a later step fails; a pod that  *)
(* ends is discharged by the worker, from what its last event says.        *)
(*                                                                         *)
(* The API server and client-go's informer are external.  Faults names the *)
(* unusual things they, and the process, may do:                           *)
(*   "lostReply"    a patch or bind is applied but its caller sees an error *)
(*   "forceDelete"  a bound pod is removed without a deletion timestamp     *)
(*   "watchGap"     the watch breaks and the informer relists               *)
(*   "restart"      the GAS process restarts                                *)
(*   "staleBind"    the scheduler binds a pod of a name for which a bind of  *)
(*                  an earlier pod of that name is still in progress         *)
(***************************************************************************)
EXTENDS PodShares

CONSTANTS
    Capacity,     \* per GPU capacity: getPerGPUResourceCapacity
    BadNuma,      \* <<pod, node>> pairs for which createGPUMaps finds no map
    Binders,      \* concurrent bind requests
    NoNode,       \* the empty node name
    NoBinder,     \* the extender's mutex is free
    NoAnnotation, \* a pod without the gas-container-cards annotation
    Faults,
    MaxUid,       \* bound: incarnations of one pod name
    MaxBinds,     \* bound: bind requests
    MaxRestarts,  \* bound: restarts and watch gaps
    MaxBacklog    \* bound: unhandled events beyond which pods do not change

ASSUME GasCacheAssumption ==
    /\ Capacity \in ResourceMaps
    /\ Cardinality(Tiles) = Amount(Capacity, TileRes)   \* getFreeTiles numbers them so
    /\ NoNode \notin Nodes
    /\ NoBinder \notin Binders
    /\ \A p \in Pods :
          /\ NoAnnotation \notin Annotations(p) \cup {EmptyAnnotation}
          /\ NoAnnotation \notin
                [node : Nodes, ann : Annotations(p), tiles : SUBSET (Cards \X Tiles)]
    /\ MaxUid \in Nat \ {0} /\ MaxBinds \in Nat /\ MaxRestarts \in Nat
    /\ MaxBacklog \in Nat

VARIABLES
    api,              \* api[p]: the pod object stored by the API server
    watch,            \* events sent by the API server, not yet in the store
    lister,           \* lister[p]: the informer's store
    notify,           \* events for which no handler has run yet
    podWorkQueue,
    annotatedPods,    \* keys of Cache.annotatedPods (its values are only logged)
    nodeStatuses,     \* nodeStatuses[n][c]: resourceMap of used resources
    nodeTileStatuses, \* nodeTileStatuses[n]: set of used <<card, tile>>
    rwmutex,          \* holder of GASExtender.rwmutex
    binder,           \* binder[b]: program counter and locals of bindNode
    acked,            \* history: <<pod, uid>> for which bind reported success
    binds,            \* bind requests so far
    restarts          \* restarts and watch gaps so far

apiVars   == <<api, watch>>
infVars   == <<lister, notify>>
bookVars  == <<annotatedPods, nodeStatuses, nodeTileStatuses>>
bindVars  == <<rwmutex, binder, acked>>
countVars == <<binds, restarts>>
vars == <<apiVars, infVars, podWorkQueue, bookVars, bindVars, countVars>>

-----------------------------------------------------------------------------
(* Types *)

PodAnnotations(p) == Annotations(p) \cup {NoAnnotation}
TileSets == SUBSET (Cards \X Tiles)
NodeNames == Nodes \cup {NoNode}

\* A pod object.  "pending" and "running" are live pods, "deleting" has a
\* deletion timestamp, "ended" is phase Failed or Succeeded.  An absent object
\* keeps the uid of the last incarnation, so that the next one gets a new one.
PodObject(p) ==
    [uid : 0..MaxUid, ann : PodAnnotations(p), tiles : TileSets,
     node : NodeNames, status : {"absent", "pending", "running", "deleting", "ended"}]

PodObjects == UNION {PodObject(p) : p \in Pods}

Absent(u) == [uid |-> u, ann |-> NoAnnotation, tiles |-> {}, node |-> NoNode,
              status |-> "absent"]

Events ==
    UNION {[kind : {"add", "update", "delete"}, pod : {p}, obj : PodObject(p)] :
             p \in Pods}

Items ==
    UNION {[action : {"podAdded", "podUpdated", "podDeleted", "podCompleted"},
            pod : {p}, ann : Annotations(p) \cup {EmptyAnnotation},
            tiles : TileSets, node : NodeNames] : p \in Pods}

Idle == [pc |-> "idle"]

Charged == {"annotate", "bind", "rollback"}

BinderRecord(p) ==
    [pc : {"check", "convert", "adjust"} \cup Charged, pod : {p}, uid : 0..MaxUid,
     node : Nodes, ann : Annotations(p) \cup {EmptyAnnotation}, tiles : TileSets]

BinderStates == {Idle} \cup UNION {BinderRecord(p) : p \in Pods}

ApiType ==
    /\ api \in [Pods -> PodObjects] /\ \A p \in Pods : api[p] \in PodObject(p)
    /\ watch \in Seq(Events)

InformerType ==
    /\ lister \in [Pods -> PodObjects] /\ \A p \in Pods : lister[p] \in PodObject(p)
    /\ notify \in Seq(Events)
    /\ podWorkQueue \in Seq(Items)

BooksType ==
    /\ annotatedPods \subseteq Pods
    /\ nodeStatuses \in [Nodes -> [Cards -> ResourceMaps]]
    /\ nodeTileStatuses \in [Nodes -> TileSets]

BindType ==
    /\ rwmutex \in Binders \cup {NoBinder}
    /\ binder \in [Binders -> BinderStates]
    /\ acked \subseteq Pods \X (0..MaxUid)

CountType == binds \in 0..MaxBinds /\ restarts \in 0..MaxRestarts

\* Every variable of the cache, the informer and bindNode holds a value of its Go
\* type; in particular no amount in the books leaves 0..MaxInt, and no item
\* without an annotation reaches the worker.
TypeOK == ApiType /\ InformerType /\ BooksType /\ BindType /\ CountType

-----------------------------------------------------------------------------
(* Initial state: an empty cluster and a process that has just synced. *)

NoStatuses == [n \in Nodes |-> [c \in Cards |-> EmptyMap]]
NoTiles == [n \in Nodes |-> {}]

Init ==
    /\ api = [p \in Pods |-> Absent(0)]
    /\ lister = api
    /\ watch = <<>> /\ notify = <<>> /\ podWorkQueue = <<>>
    /\ annotatedPods = {} /\ nodeStatuses = NoStatuses /\ nodeTileStatuses = NoTiles
    /\ rwmutex = NoBinder
    /\ binder = [b \in Binders |-> Idle]
    /\ acked = {}
    /\ binds = 0 /\ restarts = 0

-----------------------------------------------------------------------------
(* The API server and the kubelet (external). *)

Exists(p) == api[p].status # "absent"
Bound(p) == api[p].node # NoNode
Live(p) == api[p].status \in {"pending", "running"}

RoomForEvents == Len(watch) + Len(notify) + Len(podWorkQueue) < MaxBacklog

\* Store a new version of a pod and send it to the watchers.
Store(p, obj, kind) ==
    /\ api' = [api EXCEPT ![p] = obj]
    /\ watch' = Append(watch, [kind |-> kind, pod |-> p, obj |-> obj])

CreatePod(p) ==
    /\ RoomForEvents
    /\ ~Exists(p)
    /\ api[p].uid < MaxUid
    /\ Store(p, [Absent(api[p].uid + 1) EXCEPT !.status = "pending"], "add")
    /\ UNCHANGED <<infVars, podWorkQueue, bookVars, bindVars, countVars>>

\* The kubelet starts a bound pod.
StartPod(p) ==
    /\ RoomForEvents
    /\ Bound(p) /\ api[p].status = "pending"
    /\ Store(p, [api[p] EXCEPT !.status = "running"], "update")
    /\ UNCHANGED <<infVars, podWorkQueue, bookVars, bindVars, countVars>>

\* The containers of a bound pod all exit, by themselves or on a deletion.
EndPod(p) ==
    /\ RoomForEvents
    /\ Bound(p) /\ (Live(p) \/ api[p].status = "deleting")
    /\ Store(p, [api[p] EXCEPT !.status = "ended"], "update")
    /\ UNCHANGED <<infVars, podWorkQueue, bookVars, bindVars, countVars>>

\* Deleting a running pod sets its deletion timestamp; the kubelet stops it.
DeletePod(p) ==
    /\ RoomForEvents
    /\ Bound(p) /\ Live(p)
    /\ Store(p, [api[p] EXCEPT !.status = "deleting"], "update")
    /\ UNCHANGED <<infVars, podWorkQueue, bookVars, bindVars, countVars>>

\* The object goes away: after the kubelet stopped a deleted pod; at once when
\* the deleted pod is not bound or has ended; at any time by a forced delete.
RemovePod(p) ==
    /\ RoomForEvents
    /\ Exists(p)
    /\ \/ ~Bound(p)
       \/ api[p].status \in {"deleting", "ended"}
       \/ "forceDelete" \in Faults
    /\ api' = [api EXCEPT ![p] = Absent(api[p].uid)]
    /\ watch' = Append(watch, [kind |-> "delete", pod |-> p, obj |-> api[p]])
    /\ UNCHANGED <<infVars, podWorkQueue, bookVars, bindVars, countVars>>

-----------------------------------------------------------------------------
(* The informer: client-go's reflector and store (external) and the cache's *)
(* event handlers.                                                          *)

Stored(e) == IF e.kind = "delete" THEN Absent(e.obj.uid) ELSE e.obj

\* One watch event reaches the store and is queued for the handlers.
Deliver ==
    /\ watch # <<>>
    /\ lister' = [lister EXCEPT ![Head(watch).pod] = Stored(Head(watch))]
    /\ notify' = Append(notify, Head(watch))
    /\ watch' = Tail(watch)
    /\ UNCHANGED <<api, podWorkQueue, bookVars, bindVars, countVars>>

\* Mutant: phases Failed and Succeeded are forgotten.
OnlyDeletedCompletes(obj) == obj.status = "deleting"

isCompletedPod(obj) == obj.status \in {"deleting", "ended"}

WorkItem(action, p, ann, tiles, obj) ==
    [action |-> action, pod |-> p, ann |-> ann, tiles |-> tiles, node |-> obj.node]

\* Mutant: pods without the annotation are queued as well.
QueuesUnannotated(e) == e.kind = "delete" => e.pod \in annotatedPods

\* addPodToCache, updatePodInCache and deletePodFromCache: the item a handler
\* queues, if it queues one.  A deletion carries no annotations.
HandlerQueues(e) ==
    IF e.kind = "delete" THEN e.pod \in annotatedPods ELSE e.obj.ann # NoAnnotation

HandlerItem(e) ==
    CASE e.kind = "add" ->
            WorkItem("podAdded", e.pod, e.obj.ann, e.obj.tiles, e.obj)
      [] e.kind = "update" ->
            WorkItem(IF isCompletedPod(e.obj) THEN "podCompleted" ELSE "podUpdated",
                     e.pod, e.obj.ann, e.obj.tiles, e.obj)
      [] e.kind = "delete" ->
            WorkItem("podDeleted", e.pod, EmptyAnnotation, {}, e.obj)

Handle ==
    /\ notify # <<>>
    /\ notify' = Tail(notify)
    /\ podWorkQueue' = IF HandlerQueues(Head(notify))
                       THEN Append(podWorkQueue, HandlerItem(Head(notify)))
                       ELSE podWorkQueue
    /\ UNCHANGED <<apiVars, lister, bookVars, bindVars, countVars>>

-----------------------------------------------------------------------------
(* The books. *)

\* checkPodResourceAdjustment returns nil.
CanAdjust(p, adj, ann, n) ==
    /\ Len(ann) = Len(Requests[p])
    /\ n # NoNode
    /\ \A c \in Cards :
          IF adj = "add"
          THEN \A k \in DOMAIN Share(p, ann, c) :
                  Amount(nodeStatuses[n][c], k) + Share(p, ann, c)[k] <= MaxInt
          ELSE CanSubtractRM(nodeStatuses[n][c], Share(p, ann, c))

\* Mutant: the tiles a pod is given are not marked as used.
TilesUnmarked(p, adj, ann, tiles, n) ==
    IF CanAdjust(p, adj, ann, n)
    THEN /\ nodeStatuses' = [nodeStatuses EXCEPT ![n] =
               [c \in Cards |->
                   IF adj = "add" THEN AddRM(nodeStatuses[n][c], Share(p, ann, c))
                                  ELSE SubtractRM(nodeStatuses[n][c], Share(p, ann, c))]]
         /\ annotatedPods' = IF adj = "add" THEN annotatedPods \cup {p}
                                            ELSE annotatedPods \ {p}
         /\ UNCHANGED nodeTileStatuses
    ELSE UNCHANGED bookVars

\* adjustPodResources: all or nothing.
AdjustPodResources(p, adj, ann, tiles, n) ==
    IF CanAdjust(p, adj, ann, n)
    THEN /\ nodeStatuses' = [nodeStatuses EXCEPT ![n] =
               [c \in Cards |->
                   IF adj = "add" THEN AddRM(nodeStatuses[n][c], Share(p, ann, c))
                                  ELSE SubtractRM(nodeStatuses[n][c], Share(p, ann, c))]]
         /\ nodeTileStatuses' = [nodeTileStatuses EXCEPT ![n] =
               IF adj = "add" THEN nodeTileStatuses[n] \cup tiles
                              ELSE nodeTileStatuses[n] \ tiles]
         /\ annotatedPods' = IF adj = "add" THEN annotatedPods \cup {p}
                                            ELSE annotatedPods \ {p}
    ELSE UNCHANGED bookVars

\* Mutant: a completion is applied without looking at annotatedPods.
DischargeUnchecked(item) ==
    IF item.action \in {"podCompleted", "podDeleted"}
    THEN AdjustPodResources(item.pod, "remove", item.ann, item.tiles, item.node)
    ELSE IF item.pod \notin annotatedPods
         THEN AdjustPodResources(item.pod, "add", item.ann, item.tiles, item.node)
         ELSE UNCHANGED bookVars

\* Mutant: pods found by the initial list are not charged.
AddedNotCharged(item) ==
    IF item.action \in {"podCompleted", "podDeleted"} /\ item.pod \in annotatedPods
    THEN AdjustPodResources(item.pod, "remove", item.ann, item.tiles, item.node)
    ELSE IF item.action = "podUpdated" /\ item.pod \notin annotatedPods
         THEN AdjustPodResources(item.pod, "add", item.ann, item.tiles, item.node)
         ELSE UNCHANGED bookVars

\* handlePod: an ended pod is discharged if it is annotated, any other pod is
\* charged if it is not.  An error is logged and the item is not retried.
HandlePod(item) ==
    IF item.action \in {"podCompleted", "podDeleted"}
    THEN IF item.pod \in annotatedPods
         THEN AdjustPodResources(item.pod, "remove", item.ann, item.tiles, item.node)
         ELSE UNCHANGED bookVars
    ELSE IF item.pod \notin annotatedPods
         THEN AdjustPodResources(item.pod, "add", item.ann, item.tiles, item.node)
         ELSE UNCHANGED bookVars

\* podWork: the only worker takes the oldest item.
PodWork ==
    /\ podWorkQueue # <<>>
    /\ podWorkQueue' = Tail(podWorkQueue)
    /\ HandlePod(Head(podWorkQueue))
    /\ UNCHANGED <<apiVars, infVars, bindVars, countVars>>

-----------------------------------------------------------------------------
(* bindNode. *)

Fits(p, n, ann) ==
    \A c \in Cards : \A k \in DOMAIN Share(p, ann, c) :
        /\ Amount(Capacity, k) > 0
        /\ Amount(nodeStatuses[n][c], k) + Share(p, ann, c)[k] <= Amount(Capacity, k)

\* The scheduler asks for a pod it has seen and believes not to be bound.  It
\* has one bind of a pod in progress at a time, and with "staleBind" not yet
\* noticed that an earlier pod of the same name is gone.
SchedulerMayBind(p, u) ==
    /\ <<p, u>> \notin acked
    /\ u = api[p].uid => Exists(p) /\ ~Bound(p)
    /\ \A b \in Binders : binder[b] # Idle /\ binder[b].pod = p =>
          "staleBind" \in Faults /\ binder[b].uid # u

\* retrievePod, before the lock is taken: the object of the informer's store,
\* if it has the uid of the request.  A request that fails here changes nothing.
BindRequest(b, p, n) ==
    /\ binder[b] = Idle
    /\ binds < MaxBinds
    /\ lister[p].status # "absent"
    /\ SchedulerMayBind(p, lister[p].uid)
    /\ binder' = [binder EXCEPT ![b] =
          [pc |-> "check", pod |-> p, uid |-> lister[p].uid, node |-> n,
           ann |-> EmptyAnnotation, tiles |-> {}]]
    /\ binds' = binds + 1
    /\ UNCHANGED <<apiVars, infVars, podWorkQueue, bookVars, rwmutex, acked, restarts>>

At(b, pc) == binder[b] # Idle /\ binder[b].pc = pc

\* Mutant: an error return leaves the lock taken.
ReturnLocked(b, ok) ==
    /\ binder' = [binder EXCEPT ![b] = Idle]
    /\ rwmutex' = IF ok THEN NoBinder ELSE rwmutex
    /\ acked' = IF ok THEN acked \cup {<<binder[b].pod, binder[b].uid>>} ELSE acked

\* bindNode returns: the deferred unlock, and the answer to the scheduler.
Return(b, ok) ==
    /\ binder' = [binder EXCEPT ![b] = Idle]
    /\ rwmutex' = NoBinder
    /\ acked' = IF ok THEN acked \cup {<<binder[b].pod, binder[b].uid>>} ELSE acked

\* The cards of a pod that checkForSpaceAndRetrieveCards may select.
Selections(p, n) ==
    IF <<p, n>> \in BadNuma THEN {EmptyAnnotation}
                            ELSE {a \in Annotations(p) : Fits(p, n, a)}

\* Mutant: the check is made without holding the lock.
CheckUnlocked(b) ==
    /\ At(b, "check")
    /\ \E ann \in Selections(binder[b].pod, binder[b].node) :
          binder' = [binder EXCEPT ![b].pc = "convert", ![b].ann = ann]
    /\ UNCHANGED <<apiVars, infVars, podWorkQueue, bookVars, rwmutex, acked, countVars>>

\* Take the extender's lock and check for space.  Which of the fitting cards
\* are chosen depends on the node's labels and the pod's other annotations;
\* they may also rule out every fitting choice (CheckFails).  With no usable
\* NUMA map no container gets cards, and that is not an error.
CheckForSpace(b) ==
    /\ At(b, "check")
    /\ rwmutex = NoBinder
    /\ rwmutex' = b
    /\ \E ann \in Selections(binder[b].pod, binder[b].node) :
          binder' = [binder EXCEPT ![b].pc = "convert", ![b].ann = ann]
    /\ UNCHANGED <<apiVars, infVars, podWorkQueue, bookVars, acked, countVars>>

CheckFails(b) ==
    /\ At(b, "check")
    /\ rwmutex = NoBinder
    /\ Return(b, FALSE)
    /\ UNCHANGED <<apiVars, infVars, podWorkQueue, bookVars, countVars>>

TileNeed(p, ann, i) == Amount(PerCard(p, ann, i), TileRes)

FreeTiles(n, c) == {t \in Tiles : <<c, t>> \notin nodeTileStatuses[n]}

\* Mutant: a container that needs all the tiles that are left gets none.
TilesTakenStrict(p, ann, c, free) ==
    LET taken[i \in 0..Len(ann)] ==
            IF i = 0 THEN 0
            ELSE IF c \in ann[i] /\ taken[i - 1] + TileNeed(p, ann, i) < free
                 THEN taken[i - 1] + TileNeed(p, ann, i)
                 ELSE taken[i - 1]
    IN taken[Len(ann)]

\* createTileAnnotation, container by container: each gets the tiles it needs of
\* card c or, when too few are left, none at all; "free" counts the free tiles.
TilesTaken(p, ann, c, free) ==
    LET taken[i \in 0..Len(ann)] ==
            IF i = 0 THEN 0
            ELSE IF c \in ann[i] /\ taken[i - 1] + TileNeed(p, ann, i) <= free
                 THEN taken[i - 1] + TileNeed(p, ann, i)
                 ELSE taken[i - 1]
    IN taken[Len(ann)]

TilesOf(tiles, c) == {t \in Tiles : <<c, t>> \in tiles}

TileChoices(p, n, ann) ==
    {T \in TileSets : \A c \in Cards :
        /\ TilesOf(T, c) \subseteq FreeTiles(n, c)
        /\ Cardinality(TilesOf(T, c)) =
              TilesTaken(p, ann, c, Cardinality(FreeTiles(n, c)))}

\* convertNodeCardsToAnnotations: reads the tile status again.
ConvertToAnnotations(b) ==
    /\ At(b, "convert")
    /\ binder[b].ann # EmptyAnnotation
    /\ \E T \in TileChoices(binder[b].pod, binder[b].node, binder[b].ann) :
          binder' = [binder EXCEPT ![b].pc = "adjust", ![b].tiles = T]
    /\ UNCHANGED <<apiVars, infVars, podWorkQueue, bookVars, rwmutex, acked, countVars>>

\* An empty annotation ends the bind without an error and without a binding.
NothingToAnnotate(b) ==
    /\ At(b, "convert")
    /\ binder[b].ann = EmptyAnnotation
    /\ Return(b, TRUE)
    /\ UNCHANGED <<apiVars, infVars, podWorkQueue, bookVars, countVars>>

\* Charge the pod, whether or not its key is annotated already.
ChargePod(b) ==
    /\ At(b, "adjust")
    /\ LET r == binder[b]
       IN /\ AdjustPodResources(r.pod, "add", r.ann, r.tiles, r.node)
          /\ IF CanAdjust(r.pod, "add", r.ann, r.node)
             THEN /\ binder' = [binder EXCEPT ![b].pc = "annotate"]
                  /\ UNCHANGED <<rwmutex, acked>>
             ELSE Return(b, FALSE)
    /\ UNCHANGED <<apiVars, infVars, podWorkQueue, countVars>>

\* The patch has a tile annotation only if it is not the empty string.
PatchedTiles(r, old) ==
    IF /\ r.tiles = {} /\ Len(r.ann) = 1
       /\ \/ Amount(Requests[r.pod][1], TileRes) = 0
          \/ Cardinality(r.ann[1]) <= 1
    THEN old ELSE r.tiles

\* If the pod was retrieved without annotations, the patch replaces them all, those of
\* an earlier patch included; it may have had others, or the store was late.
KeptTiles(p) == {api[p].tiles, {}}

\* The answer of the API server to a call it has applied.
Replies == {"ok"} \cup (IF "lostReply" \in Faults THEN {"error"} ELSE {})

\* annotatePodBind: a patch of the pod of that name, whatever its uid.
AnnotatePodBind(b) ==
    /\ At(b, "annotate")
    /\ LET r == binder[b]
       IN /\ Exists(r.pod)
          /\ \E old \in KeptTiles(r.pod) :
                Store(r.pod, [api[r.pod] EXCEPT !.ann = r.ann,
                                                !.tiles = PatchedTiles(r, old)], "update")
    /\ \E reply \in Replies :
          binder' = [binder EXCEPT ![b].pc = IF reply = "ok" THEN "bind" ELSE "rollback"]
    /\ UNCHANGED <<infVars, podWorkQueue, bookVars, rwmutex, acked, countVars>>

\* Pods(...).Bind: the API server checks the uid and that the pod is not bound.
BindApi(b) ==
    /\ At(b, "bind")
    /\ LET r == binder[b]
       IN /\ Live(r.pod) /\ api[r.pod].uid = r.uid /\ ~Bound(r.pod)
          /\ Store(r.pod, [api[r.pod] EXCEPT !.node = r.node], "update")
    /\ \E reply \in Replies :
          IF reply = "ok"
          THEN Return(b, TRUE)
          ELSE /\ binder' = [binder EXCEPT ![b].pc = "rollback"]
               /\ UNCHANGED <<rwmutex, acked>>
    /\ UNCHANGED <<infVars, podWorkQueue, bookVars, countVars>>

\* Mutant: the error of the last call is dropped.
ErrorDropped(b) ==
    /\ At(b, "annotate") \/ At(b, "bind")
    /\ Return(b, TRUE)
    /\ UNCHANGED <<apiVars, infVars, podWorkQueue, bookVars, countVars>>

\* A call that is refused, or never arrives.
CallFails(b) ==
    /\ At(b, "annotate") \/ At(b, "bind")
    /\ binder' = [binder EXCEPT ![b].pc = "rollback"]
    /\ UNCHANGED <<apiVars, infVars, podWorkQueue, bookVars, rwmutex, acked, countVars>>

\* Mutant: the charge is kept.
NoRollback(b) ==
    /\ At(b, "rollback")
    /\ Return(b, FALSE)
    /\ UNCHANGED <<apiVars, infVars, podWorkQueue, bookVars, countVars>>

\* The deferred error handler gives the charge back.
Rollback(b) ==
    /\ At(b, "rollback")
    /\ LET r == binder[b]
       IN AdjustPodResources(r.pod, "remove", r.ann, r.tiles, r.node)
    /\ Return(b, FALSE)
    /\ UNCHANGED <<apiVars, infVars, podWorkQueue, countVars>>

-----------------------------------------------------------------------------
(* Faults of the process and of the watch. *)

\* The notifications of a list, in any order.
Orders(S) == {q \in [1..Cardinality(S) -> S] : \A i, j \in 1..Cardinality(S) :
                 q[i] = q[j] => i = j}

\* A new process: NewCache lists the pods before it serves, and its handlers
\* are then told of every one of them.
Restart ==
    /\ "restart" \in Faults
    /\ restarts < MaxRestarts
    /\ restarts' = restarts + 1
    /\ annotatedPods' = {} /\ nodeStatuses' = NoStatuses /\ nodeTileStatuses' = NoTiles
    /\ podWorkQueue' = <<>>
    /\ watch' = <<>>
    /\ lister' = api
    /\ \E q \in Orders({p \in Pods : Exists(p)}) :
          notify' = [i \in DOMAIN q |-> [kind |-> "add", pod |-> q[i], obj |-> api[q[i]]]]
    /\ rwmutex' = NoBinder
    /\ binder' = [b \in Binders |-> Idle]
    /\ UNCHANGED <<api, acked, binds>>

\* What a relist reports of a pod: the difference between the store and the list.
Listed(p) == lister[p].status # "absent"
ListEvent(p) ==
    CASE Exists(p) /\ ~Listed(p) -> [kind |-> "add", pod |-> p, obj |-> api[p]]
      [] Exists(p) /\ Listed(p)  -> [kind |-> "update", pod |-> p, obj |-> api[p]]
      [] OTHER                   -> [kind |-> "delete", pod |-> p, obj |-> lister[p]]

\* The watch breaks: the events in flight are lost and the informer relists.
\* A pod that is gone is reported with the last object the store has of it.
WatchGap ==
    /\ "watchGap" \in Faults
    /\ restarts < MaxRestarts
    /\ restarts' = restarts + 1
    /\ watch # <<>>
    /\ watch' = <<>>
    /\ lister' = api
    /\ \E q \in Orders({p \in Pods : Exists(p) \/ Listed(p)}) :
          notify' = notify \o [i \in DOMAIN q |-> ListEvent(q[i])]
    /\ UNCHANGED <<api, podWorkQueue, bookVars, bindVars, binds>>

-----------------------------------------------------------------------------
BindStep(b) ==
    \/ CheckForSpace(b) \/ CheckFails(b)
    \/ ConvertToAnnotations(b) \/ NothingToAnnotate(b)
    \/ ChargePod(b)
    \/ AnnotatePodBind(b) \/ BindApi(b) \/ CallFails(b)
    \/ Rollback(b)

Next ==
    \/ \E p \in Pods : CreatePod(p) \/ StartPod(p) \/ EndPod(p) \/ DeletePod(p) \/ RemovePod(p)
    \/ \E b \in Binders, p \in Pods, n \in Nodes : BindRequest(b, p, n)
    \/ \E b \in Binders : BindStep(b)
    \/ Deliver \/ Handle \/ PodWork
    \/ Restart \/ WatchGap

Spec == Init /\ [][Next]_vars

\* The goroutines of the process, and the watch, are not starved: informer,
\* handlers, worker and every request that has been accepted.
Fairness ==
    /\ WF_vars(Deliver) /\ WF_vars(Handle) /\ WF_vars(PodWork)
    /\ \A b \in Binders : SF_vars(BindStep(b))

FairSpec == Spec /\ Fairness

-----------------------------------------------------------------------------
(* Properties *)

\* A pod uses its GPUs while it is bound and has not been asked to stop.
Using(p) == Bound(p) /\ Live(p)

UsedBy(S, n, c, k) ==
    LET users == {p \in S : Using(p) /\ api[p].node = n}
    IN SumFunctionOnSet([p \in users |-> Amount(Share(p, api[p].ann, c), k)], users)

Used(n, c, k) == UsedBy(Pods, n, c, k)

\* The resources of the running pods that are placed on a card never exceed the
\* card's capacity: what filter and bind exist for.
NoOvercommit ==
    \A n \in Nodes, c \in Cards, k \in Resources : Used(n, c, k) <= Amount(Capacity, k)

\* The books never show less than the running pods use, from the moment a bind
\* is applied by the API server until the pod is told to stop or ends.
NoUndercount ==
    \A n \in Nodes, c \in Cards, k \in Resources :
        Used(n, c, k) <= Amount(nodeStatuses[n][c], k)

\* Two running pods on a node are never given the same tile of a card, and each
\* of their tiles is marked as used in nodeTileStatuses.
TileExclusive ==
    \A p, q \in Pods :
        /\ Using(p) => api[p].tiles \subseteq nodeTileStatuses[api[p].node]
        /\ p # q /\ Using(p) /\ Using(q) /\ api[p].node = api[q].node
              => api[p].tiles \cap api[q].tiles = {}

Quiescent ==
    /\ watch = <<>> /\ notify = <<>> /\ podWorkQueue = <<>>
    /\ \A b \in Binders : binder[b] = Idle

\* When every event has been handled and no bind is in progress the books hold
\* exactly what the running pods use: nothing leaked and nothing was released
\* twice by completions, deletions, failed binds and their rollbacks.
BooksBalanced ==
    Quiescent =>
        /\ annotatedPods = {p \in Pods : Using(p)}
        /\ \A n \in Nodes :
              /\ nodeTileStatuses[n] =
                    UNION {api[p].tiles : p \in {q \in Pods : Using(q) /\ api[q].node = n}}
              /\ \A c \in Cards, k \in Resources :
                    Amount(nodeStatuses[n][c], k) = Used(n, c, k)

\* Pods that a list has found bound and that the worker has not charged yet.
Unheard ==
    {p \in Pods :
        \/ \E x \in DOMAIN notify :
              notify[x].kind = "add" /\ notify[x].pod = p /\ notify[x].obj.node # NoNode
        \/ \E x \in DOMAIN podWorkQueue :
              /\ podWorkQueue[x].action = "podAdded" /\ podWorkQueue[x].pod = p
              /\ podWorkQueue[x].node # NoNode}

\* Whatever restarts, gaps of the watch and forced deletions came before: from the
\* moment the worker has handled the podAdded item of a pod that was listed, or the
\* pod was bound by this process, the books cover what the pod uses.
BooksCatchUp ==
    \A n \in Nodes, c \in Cards, k \in Resources :
        UsedBy(Pods \ Unheard, n, c, k) <= Amount(nodeStatuses[n][c], k)

\* "Removing resources should not fail if adding was ok": from the successful
\* charge until bindNode returns, giving the charge back passes every check.
RollbackNeverFails ==
    \A b \in Binders :
        binder[b] # Idle /\ binder[b].pc \in Charged =>
            CanAdjust(binder[b].pod, "remove", binder[b].ann, binder[b].node)

\* A bind that was reported as successful has bound the pod.
AckedMeansBound ==
    \A p \in Pods : <<p, api[p].uid>> \in acked /\ Exists(p) => Bound(p)

\* The charge of a pod that is told to stop, ends or is removed is dropped.
EndedIsReleased ==
    \A p \in Pods : (p \in annotatedPods /\ ~Using(p)) ~> (p \notin annotatedPods \/ Using(p))

\* A bind request that was accepted is answered.
BindReturns == \A b \in Binders : binder[b] # Idle ~> binder[b] = Idle

\* What the running pods hold, as the abstract allocator sees it.
Held ==
    [p \in Pods |->
        IF Using(p)
        THEN [node |-> api[p].node, ann |-> api[p].ann, tiles |-> api[p].tiles]
        ELSE NoAnnotation]

Allocator == INSTANCE GpuAllocator WITH None <- NoAnnotation, held <- Held

\* Cache, bind handler, informer and worker together implement the allocator:
\* every pod is bound to cards that have room for it, with all the tiles it asked
\* for and none of another pod's, and its allocation does not change while it runs.
AllocatorSpec == Allocator!Spec
=============================================================================
