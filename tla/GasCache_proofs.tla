--------------------------- MODULE GasCache_proofs ---------------------------
(***************************************************************************)
(* Theorems about GasCache, for every set of pods, nodes and cards, every  *)
(* request and every bound: first those that hold under every combination  *)
(* of faults; then, from the ledger on, those that need that there are no  *)
(* faults, and that GasCache implements GpuAllocator; last, that the books *)
(* catch up after restarts, breaks of the watch and forced deletions.      *)
(***************************************************************************)
EXTENDS GasCache, DataFacts

-----------------------------------------------------------------------------
(* Resource maps. *)

\* addRM never creates an amount outside int64 when it is applied only after
\* its check passed, and never loses a key.
LEMMA AddRMType ==
    ASSUME NEW rm \in ResourceMaps, NEW src,
           DOMAIN src \subseteq Resources,
           \A k \in DOMAIN src : src[k] \in Nat,
           \A k \in DOMAIN src : Amount(rm, k) + src[k] <= MaxInt
    PROVE  /\ AddRM(rm, src) \in ResourceMaps
           /\ DOMAIN AddRM(rm, src) = DOMAIN rm \cup DOMAIN src
<1>1. PICK D \in SUBSET Resources : rm \in [D -> 0..MaxInt]
  BY DEF ResourceMaps
<1>2. DOMAIN rm = D /\ \A k \in D : rm[k] \in 0..MaxInt
  BY <1>1
<1>3. \A k \in D \cup DOMAIN src : Amount(rm, k) + Amount(src, k) \in 0..MaxInt
  <2>1. TAKE k \in D \cup DOMAIN src
  <2>2. Amount(rm, k) \in Nat /\ Amount(rm, k) <= MaxInt
    BY <1>2, MaxIntAssumption DEF Amount
  <2>3. CASE k \in DOMAIN src
    BY <2>2, <2>3, MaxIntAssumption DEF Amount
  <2>4. CASE k \notin DOMAIN src
    BY <2>2, <2>4, MaxIntAssumption DEF Amount
  <2>5. QED BY <2>3, <2>4
<1>4. AddRM(rm, src) \in [D \cup DOMAIN src -> 0..MaxInt]
  BY <1>2, <1>3 DEF AddRM
<1>5. D \cup DOMAIN src \in SUBSET Resources
  BY <1>1
<1>6. QED BY <1>2, <1>4, <1>5 DEF ResourceMaps, AddRM

\* subtractRM caps at zero, and keeps every key.
LEMMA SubtractRMType ==
    ASSUME NEW rm \in ResourceMaps, NEW src,
           \A k \in DOMAIN src : src[k] \in Nat
    PROVE  /\ SubtractRM(rm, src) \in ResourceMaps
           /\ DOMAIN SubtractRM(rm, src) = DOMAIN rm
<1>1. PICK D \in SUBSET Resources : rm \in [D -> 0..MaxInt]
  BY DEF ResourceMaps
<1>2. DOMAIN rm = D /\ \A k \in D : rm[k] \in 0..MaxInt
  BY <1>1
<1>3. \A k \in D : LET left == rm[k] - Amount(src, k)
                   IN (IF left < 0 THEN 0 ELSE left) \in 0..MaxInt
  <2>1. TAKE k \in D
  <2>2. Amount(src, k) \in Nat
    BY DEF Amount
  <2>3. QED BY <2>2, <1>2, MaxIntAssumption
<1>4. SubtractRM(rm, src) \in [D -> 0..MaxInt]
  BY <1>2, <1>3 DEF SubtractRM
<1>5. QED BY <1>2, <1>4 DEF ResourceMaps, SubtractRM

\* The map of a card that was never charged is a resource map.
LEMMA EmptyMapType == EmptyMap \in ResourceMaps
<1>1. EmptyMap \in [{} -> 0..MaxInt]
  BY DEF EmptyMap
<1>2. QED BY <1>1 DEF ResourceMaps

-----------------------------------------------------------------------------
(* Shares. *)

\* An annotation is a list with an entry for each container.
LEMMA AnnotationLen ==
    ASSUME NEW p \in Pods, NEW ann \in Annotations(p)
    PROVE  /\ DOMAIN ann = 1..Len(Requests[p]) /\ Len(ann) = Len(Requests[p])
           /\ \A i \in DOMAIN ann : ann[i] \in SUBSET Cards /\ Requests[p][i] \in ResourceMaps
BY PodSharesAssumption DEF Annotations, Containers

\* divide leaves a natural number for each card of a container.
LEMMA PerCardType ==
    ASSUME NEW p \in Pods, NEW ann \in Annotations(p), NEW c \in Cards,
           NEW i \in ContainersOn(ann, c), NEW k
    PROVE  /\ i \in DOMAIN Requests[p] /\ DOMAIN Requests[p][i] \subseteq Resources
           /\ Amount(PerCard(p, ann, i), k) \in Nat
<1>1. i \in DOMAIN ann /\ c \in ann[i] /\ ann[i] \in SUBSET Cards /\ Requests[p][i] \in ResourceMaps
  BY AnnotationLen DEF ContainersOn
<1>2. PICK D \in SUBSET Resources : Requests[p][i] \in [D -> 0..MaxInt]
  BY <1>1 DEF ResourceMaps
<1>3. Cardinality(ann[i]) \in Nat /\ Cardinality(ann[i]) # 0
  BY <1>1, PodSharesAssumption, FS_Subset, FS_CardinalityType, FS_EmptySet
<1>4. \A a, b \in Nat : b # 0 => a \div b \in Nat
  OBVIOUS
<1>5. ASSUME NEW j \in D PROVE Requests[p][i][j] \div Cardinality(ann[i]) \in Nat
  <2>1. Requests[p][i][j] \in Nat
    BY <1>2, MaxIntAssumption
  <2>2. QED BY <1>3, <1>4, <2>1
<1>6. Amount(PerCard(p, ann, i), k) \in Nat
  BY <1>2, <1>5 DEF Amount, PerCard, Divide
<1>7. QED BY <1>1, <1>2, <1>6, AnnotationLen, PodSharesAssumption

\* The containers an annotation places on a card are finitely many.
LEMMA ContainersFinite ==
    ASSUME NEW p \in Pods, NEW ann \in Annotations(p), NEW c \in Cards
    PROVE  IsFiniteSet(ContainersOn(ann, c))
<1>1. DOMAIN ann = 1..Len(Requests[p]) /\ Len(Requests[p]) \in Nat
  BY AnnotationLen, PodSharesAssumption
<1>2. IsFiniteSet(1..Len(Requests[p]))
  BY <1>1, FS_Interval
<1>3. QED BY <1>1, <1>2, FS_Subset DEF ContainersOn

\* Every amount of a share is a natural number: a sum of quotients of requests.
LEMMA ShareType ==
    ASSUME NEW p \in Pods, NEW c \in Cards,
           NEW ann \in Annotations(p) \cup {EmptyAnnotation}
    PROVE  /\ DOMAIN Share(p, ann, c) \subseteq Resources
           /\ \A k \in DOMAIN Share(p, ann, c) : Share(p, ann, c)[k] \in Nat
<1>1. CASE ann \in Annotations(p)
  <2> DEFINE on == ContainersOn(ann, c)
  <2>1. IsFiniteSet(on)
    BY <1>1, ContainersFinite
  <2>2. ASSUME NEW k
        PROVE  SumFunctionOnSet([i \in on |-> Amount(PerCard(p, ann, i), k)], on) \in Nat
    <3> DEFINE f == [i \in on |-> Amount(PerCard(p, ann, i), k)]
    <3>1. \A i \in on : f[i] \in Nat
      BY <1>1, PerCardType
    <3> HIDE DEF f, on
    <3>2. QED BY <2>1, <3>1, SumType DEF f
  <2>3. \A i \in on : DOMAIN Requests[p][i] \subseteq Resources
    BY <1>1, PerCardType
  <2>4. DOMAIN Share(p, ann, c) = UNION {DOMAIN Requests[p][i] : i \in on}
    BY DEF Share
  <2>5. \A k \in DOMAIN Share(p, ann, c) :
           Share(p, ann, c)[k] = SumFunctionOnSet([i \in on |-> Amount(PerCard(p, ann, i), k)], on)
    BY DEF Share
  <2> HIDE DEF on
  <2>6. QED BY <2>2, <2>3, <2>4, <2>5
<1>2. CASE ann = EmptyAnnotation
  <2>1. ContainersOn(ann, c) = {}
    BY <1>2 DEF EmptyAnnotation, ContainersOn
  <2>2. QED BY <2>1 DEF Share
<1>3. QED BY <1>1, <1>2

-----------------------------------------------------------------------------
(* The books. *)

\* The keys of the books never shrink.
KeysKept ==
    \A n \in Nodes, c \in Cards :
        DOMAIN nodeStatuses[n][c] \subseteq DOMAIN nodeStatuses'[n][c]

\* adjustPodResources keeps the books well formed, keeps every key of them, and
\* after an addition holds every key that the matching removal needs.
LEMMA AdjustBooks ==
    ASSUME BooksType,
           NEW p \in Pods, NEW adj \in {"add", "remove"},
           NEW ann \in Annotations(p) \cup {EmptyAnnotation},
           NEW tiles \in TileSets, NEW n \in NodeNames,
           AdjustPodResources(p, adj, ann, tiles, n)
    PROVE  BooksType' /\ KeysKept
<1>1. CASE CanAdjust(p, adj, ann, n)
  <2>1. n \in Nodes
    BY <1>1 DEF CanAdjust, NodeNames
  <2>2. nodeStatuses' = [nodeStatuses EXCEPT ![n] =
               [c \in Cards |->
                   IF adj = "add" THEN AddRM(nodeStatuses[n][c], Share(p, ann, c))
                                  ELSE SubtractRM(nodeStatuses[n][c], Share(p, ann, c))]]
    BY <1>1 DEF AdjustPodResources
  <2>3. ASSUME NEW c \in Cards
        PROVE  LET m == IF adj = "add" THEN AddRM(nodeStatuses[n][c], Share(p, ann, c))
                                       ELSE SubtractRM(nodeStatuses[n][c], Share(p, ann, c))
               IN m \in ResourceMaps /\ DOMAIN nodeStatuses[n][c] \subseteq DOMAIN m
    <3>1. nodeStatuses[n][c] \in ResourceMaps
      BY <2>1 DEF BooksType
    <3>2. /\ DOMAIN Share(p, ann, c) \subseteq Resources
          /\ \A k \in DOMAIN Share(p, ann, c) : Share(p, ann, c)[k] \in Nat
      BY ShareType
    <3>3. CASE adj = "add"
      <4>1. \A k \in DOMAIN Share(p, ann, c) :
               Amount(nodeStatuses[n][c], k) + Share(p, ann, c)[k] <= MaxInt
        BY <1>1, <3>3 DEF CanAdjust
      <4>2. QED BY <3>1, <3>2, <3>3, <4>1, AddRMType
    <3>4. CASE adj = "remove"
      BY <3>1, <3>2, <3>4, SubtractRMType
    <3>5. QED BY <3>3, <3>4
  <2>4. nodeStatuses' \in [Nodes -> [Cards -> ResourceMaps]]
    BY <2>1, <2>2, <2>3 DEF BooksType
  <2>5. KeysKept
    BY <2>1, <2>2, <2>3 DEF KeysKept, BooksType
  <2>6. nodeTileStatuses' \in [Nodes -> TileSets] /\ annotatedPods' \subseteq Pods
    BY <1>1, <2>1 DEF AdjustPodResources, BooksType, TileSets
  <2>7. QED BY <2>4, <2>5, <2>6 DEF BooksType
<1>2. CASE ~CanAdjust(p, adj, ann, n)
  BY <1>2 DEF AdjustPodResources, bookVars, BooksType, KeysKept
<1>3. QED BY <1>1, <1>2

-----------------------------------------------------------------------------
(* Type correctness and the safety of the rollback. *)

\* Past convertNodeCardsToAnnotations the annotation is a selection of cards:
\* bindNode has returned if it was empty.
CardsChosen ==
    \A b \in Binders :
        binder[b] # Idle /\ binder[b].pc \in {"adjust"} \cup Charged =>
            binder[b].ann \in Annotations(binder[b].pod)

\* The inductive invariant.
IInv == TypeOK /\ CardsChosen /\ RollbackNeverFails

\* A process that has just synced with an empty cluster satisfies the invariant.
LEMMA InitIInv == Init => IInv
<1> SUFFICES ASSUME Init PROVE IInv
  OBVIOUS
<1>1. \A p \in Pods : Absent(0) \in PodObject(p)
  BY GasCacheAssumption DEF Absent, PodObject, PodAnnotations, TileSets, NodeNames
<1>2. ApiType /\ InformerType
  BY <1>1 DEF Init, ApiType, InformerType, PodObjects
<1>3. BooksType
  BY EmptyMapType DEF Init, BooksType, NoStatuses, NoTiles, TileSets
<1>4. BindType
  BY DEF Init, BindType, BinderStates
<1>5. CountType
  BY GasCacheAssumption DEF Init, CountType
<1>6. CardsChosen /\ RollbackNeverFails
  BY DEF Init, CardsChosen, RollbackNeverFails
<1>7. QED BY <1>2, <1>3, <1>4, <1>5, <1>6 DEF IInv, TypeOK

\* A well formed binder that is not idle is a record of one pod.
LEMMA BinderIsRecord ==
    ASSUME BindType, NEW b \in Binders, binder[b] # Idle
    PROVE  /\ binder[b].pod \in Pods
           /\ binder[b] \in BinderRecord(binder[b].pod)
BY DEF BindType, BinderStates, BinderRecord

\* A new version of a pod of the right type keeps the API server well formed.
LEMMA StoreType ==
    ASSUME ApiType, NEW p \in Pods, NEW obj \in PodObject(p),
           NEW kind \in {"add", "update", "delete"}, Store(p, obj, kind)
    PROVE  ApiType'
<1>1. [kind |-> kind, pod |-> p, obj |-> obj] \in Events
  BY DEF Events
<1>2. watch' \in Seq(Events)
  BY <1>1 DEF Store, ApiType
<1>3. QED BY <1>2 DEF Store, ApiType, PodObjects

-----------------------------------------------------------------------------
(* The steps of the API server, the informer and the worker. *)

\* What a bind in progress needs of the books survives every step that leaves
\* its request alone and no key out of the books.
LEMMA BindersKept ==
    ASSUME IInv, BooksType', KeysKept, UNCHANGED binder
    PROVE  CardsChosen' /\ RollbackNeverFails'
<1>1. CardsChosen'
  BY DEF IInv, CardsChosen
<1>2. ASSUME NEW b \in Binders, binder'[b] # Idle, binder'[b].pc \in Charged
      PROVE  CanAdjust(binder[b].pod, "remove", binder[b].ann, binder[b].node)'
  <2>1. CanAdjust(binder[b].pod, "remove", binder[b].ann, binder[b].node)
    BY <1>2 DEF IInv, RollbackNeverFails
  <2>2. binder[b].node \in Nodes
    BY <1>2, BinderIsRecord DEF IInv, TypeOK, BinderRecord
  <2>3. QED BY <2>1, <2>2 DEF CanAdjust, CanSubtractRM, CanSubtract, KeysKept
<1>3. QED BY <1>1, <1>2 DEF RollbackNeverFails

\* A step that leaves the books alone keeps them well formed, with all their keys.
LEMMA UnchangedBooks ==
    ASSUME BooksType, UNCHANGED bookVars
    PROVE  BooksType' /\ KeysKept
BY DEF BooksType, bookVars, KeysKept

\* CreatePod, StartPod, EndPod, DeletePod, RemovePod.
LEMMA PodSteps ==
    ASSUME IInv, NEW p \in Pods,
           CreatePod(p) \/ StartPod(p) \/ EndPod(p) \/ DeletePod(p) \/ RemovePod(p)
    PROVE  IInv'
<1>1. api[p] \in PodObject(p)
  BY DEF IInv, TypeOK, ApiType
<1>2. UNCHANGED <<infVars, podWorkQueue, bookVars, bindVars, countVars>>
  BY DEF CreatePod, StartPod, EndPod, DeletePod, RemovePod
<1>3. ApiType'
  <2>1. CASE CreatePod(p)
    <3>1. [Absent(api[p].uid + 1) EXCEPT !.status = "pending"] \in PodObject(p)
      BY <1>1, <2>1, GasCacheAssumption
         DEF CreatePod, Absent, PodObject, PodAnnotations, TileSets, NodeNames
    <3>2. QED BY <2>1, <3>1, StoreType DEF CreatePod, IInv, TypeOK
  <2>2. CASE StartPod(p)
    <3>1. [api[p] EXCEPT !.status = "running"] \in PodObject(p)
      BY <1>1 DEF PodObject
    <3>2. QED BY <2>2, <3>1, StoreType DEF StartPod, IInv, TypeOK
  <2>3. CASE EndPod(p)
    <3>1. [api[p] EXCEPT !.status = "ended"] \in PodObject(p)
      BY <1>1 DEF PodObject
    <3>2. QED BY <2>3, <3>1, StoreType DEF EndPod, IInv, TypeOK
  <2>4. CASE DeletePod(p)
    <3>1. [api[p] EXCEPT !.status = "deleting"] \in PodObject(p)
      BY <1>1 DEF PodObject
    <3>2. QED BY <2>4, <3>1, StoreType DEF DeletePod, IInv, TypeOK
  <2>5. CASE RemovePod(p)
    <3>1. Absent(api[p].uid) \in PodObject(p)
      BY <1>1 DEF Absent, PodObject, PodAnnotations, TileSets, NodeNames
    <3>2. [kind |-> "delete", pod |-> p, obj |-> api[p]] \in Events
      BY <1>1 DEF Events
    <3>3. QED BY <2>5, <3>1, <3>2 DEF RemovePod, IInv, TypeOK, ApiType, PodObjects
  <2>6. QED BY <2>1, <2>2, <2>3, <2>4, <2>5
<1>4. InformerType' /\ BindType' /\ CountType'
  BY <1>2 DEF IInv, TypeOK, InformerType, BindType, CountType, infVars, bindVars, countVars
<1>5. BooksType' /\ KeysKept
  BY <1>2, UnchangedBooks DEF IInv, TypeOK
<1>6. QED BY <1>2, <1>3, <1>4, <1>5, BindersKept DEF IInv, TypeOK, bindVars

\* What the informer stores of an event is an object of the pod it is about.
LEMMA EventType ==
    ASSUME NEW e \in Events
    PROVE  /\ e.pod \in Pods /\ e.obj \in PodObject(e.pod)
           /\ e.kind \in {"add", "update", "delete"}
BY DEF Events

\* An event that reaches the store keeps the invariant.
LEMMA DeliverStep == IInv /\ Deliver => IInv'
<1> SUFFICES ASSUME IInv, Deliver PROVE IInv'
  OBVIOUS
<1> DEFINE e == Head(watch)
<1>1. e \in Events /\ watch' \in Seq(Events)
  BY DEF IInv, TypeOK, ApiType, Deliver
<1>2. Stored(e) \in PodObject(e.pod) /\ e.pod \in Pods
  BY <1>1, EventType DEF Stored, Absent, PodObject, PodAnnotations, TileSets, NodeNames
<1>3. InformerType'
  <2>1. notify' \in Seq(Events)
    BY <1>1 DEF Deliver, IInv, TypeOK, InformerType
  <2>2. lister' = [lister EXCEPT ![e.pod] = Stored(e)]
    BY DEF Deliver
  <2> HIDE DEF e
  <2>3. QED BY <1>2, <2>1, <2>2 DEF Deliver, IInv, TypeOK, InformerType, PodObjects
<1>4. ApiType' /\ BindType' /\ CountType'
  BY <1>1 DEF Deliver, IInv, TypeOK, ApiType, BindType, CountType, bindVars, countVars
<1>5. BooksType' /\ KeysKept
  BY UnchangedBooks DEF Deliver, IInv, TypeOK
<1>6. QED BY <1>3, <1>4, <1>5, BindersKept DEF Deliver, IInv, TypeOK, bindVars

\* A handler queues only items that carry an annotation handlePod can read.
LEMMA HandlerItemType ==
    ASSUME NEW e \in Events, HandlerQueues(e)
    PROVE  HandlerItem(e) \in Items
<1>1. /\ e.pod \in Pods /\ e.obj \in PodObject(e.pod)
      /\ e.kind \in {"add", "update", "delete"}
  BY EventType
<1>2. e.obj.node \in NodeNames /\ e.obj.tiles \in TileSets
  BY <1>1 DEF PodObject
<1>3. e.kind # "delete" => e.obj.ann \in Annotations(e.pod)
  BY <1>1 DEF HandlerQueues, PodObject, PodAnnotations
<1> DEFINE PodItems(p) ==
           [action : {"podAdded", "podUpdated", "podDeleted", "podCompleted"},
            pod : {p}, ann : Annotations(p) \cup {EmptyAnnotation},
            tiles : TileSets, node : NodeNames]
<1>4. HandlerItem(e) \in PodItems(e.pod)
  <2>1. CASE e.kind = "add"
    BY <2>1, <1>2, <1>3 DEF HandlerItem, WorkItem
  <2>2. CASE e.kind = "update"
    BY <2>2, <1>2, <1>3 DEF HandlerItem, WorkItem
  <2>3. CASE e.kind = "delete"
    BY <2>3, <1>2 DEF HandlerItem, WorkItem, TileSets
  <2>4. QED BY <1>1, <2>1, <2>2, <2>3
<1>5. QED BY <1>1, <1>4 DEF Items

\* The event handlers (addPodToCache, updatePodInCache, deletePodFromCache) keep the
\* invariant.
LEMMA HandleStep == IInv /\ Handle => IInv'
<1> SUFFICES ASSUME IInv, Handle PROVE IInv'
  OBVIOUS
<1>1. Head(notify) \in Events /\ notify' \in Seq(Events)
  BY DEF IInv, TypeOK, InformerType, Handle
<1>2. podWorkQueue' \in Seq(Items)
  <2>1. CASE HandlerQueues(Head(notify))
    BY <1>1, <2>1, HandlerItemType DEF Handle, IInv, TypeOK, InformerType
  <2>2. CASE ~HandlerQueues(Head(notify))
    BY <2>2 DEF Handle, IInv, TypeOK, InformerType
  <2>3. QED BY <2>1, <2>2
<1>3. ApiType' /\ InformerType' /\ BindType' /\ CountType'
  BY <1>1, <1>2 DEF Handle, IInv, TypeOK, ApiType, InformerType, BindType, CountType,
                    apiVars, bindVars, countVars
<1>4. BooksType' /\ KeysKept
  BY UnchangedBooks DEF Handle, IInv, TypeOK
<1>5. QED BY <1>3, <1>4, BindersKept DEF Handle, IInv, TypeOK, bindVars

\* handlePod keeps the invariant: what it discharges leaves every key in the books.
LEMMA PodWorkStep == IInv /\ PodWork => IInv'
<1> SUFFICES ASSUME IInv, PodWork PROVE IInv'
  OBVIOUS
<1> DEFINE item == Head(podWorkQueue)
<1>1. item \in Items /\ podWorkQueue' \in Seq(Items)
  BY DEF IInv, TypeOK, InformerType, PodWork
<1>2. /\ item.pod \in Pods /\ item.ann \in Annotations(item.pod) \cup {EmptyAnnotation}
      /\ item.tiles \in TileSets /\ item.node \in NodeNames
  BY <1>1 DEF Items
<1>3. HandlePod(item)
  BY DEF PodWork
<1>4. BooksType' /\ KeysKept
  <2> HIDE DEF item
  <2>1. BooksType
    BY DEF IInv, TypeOK
  <2>2. CASE UNCHANGED bookVars
    BY <2>1, <2>2, UnchangedBooks
  <2>3. CASE AdjustPodResources(item.pod, "remove", item.ann, item.tiles, item.node)
    BY <1>2, <2>1, <2>3, AdjustBooks
  <2>4. CASE AdjustPodResources(item.pod, "add", item.ann, item.tiles, item.node)
    BY <1>2, <2>1, <2>4, AdjustBooks
  <2>5. QED BY <1>3, <2>2, <2>3, <2>4 DEF HandlePod
<1>5. ApiType' /\ InformerType' /\ BindType' /\ CountType'
  BY <1>1 DEF PodWork, IInv, TypeOK, ApiType, InformerType, BindType, CountType,
              apiVars, infVars, bindVars, countVars
<1>6. QED BY <1>4, <1>5, BindersKept DEF PodWork, IInv, TypeOK, bindVars

-----------------------------------------------------------------------------
(* The steps of bindNode. *)

\* Moving a request on keeps its locals.
LEMMA EditPc ==
    ASSUME NEW p, NEW r \in BinderRecord(p),
           NEW pc \in {"check", "convert", "adjust"} \cup Charged
    PROVE  /\ [r EXCEPT !.pc = pc] \in BinderRecord(p)
           /\ [r EXCEPT !.pc = pc].pc = pc
           /\ [r EXCEPT !.pc = pc].ann = r.ann
           /\ [r EXCEPT !.pc = pc].node = r.node
           /\ [r EXCEPT !.pc = pc].pod = r.pod
BY DEF BinderRecord

\* A step of request b keeps the invariant if it keeps the types, and leaves b
\* idle or with what its new program counter promises.
LEMMA OneBinder ==
    ASSUME IInv, ApiType', InformerType', BooksType', KeysKept, CountType',
           rwmutex' \in Binders \cup {NoBinder}, acked' \subseteq Pods \X (0..MaxUid),
           NEW b \in Binders, NEW r \in BinderStates,
           binder' = [binder EXCEPT ![b] = r],
           r # Idle /\ r.pc \in {"adjust"} \cup Charged => r.ann \in Annotations(r.pod),
           r # Idle /\ r.pc \in Charged =>
               /\ Len(r.ann) = Len(Requests[r.pod]) /\ r.node # NoNode
               /\ \A c \in Cards : CanSubtractRM(nodeStatuses'[r.node][c], Share(r.pod, r.ann, c))
    PROVE  IInv'
<1>1. BindType'
  BY DEF IInv, TypeOK, BindType
<1>2. \A x \in Binders : binder'[x] = IF x = b THEN r ELSE binder[x]
  BY DEF IInv, TypeOK, BindType
<1>3. CardsChosen'
  BY <1>2 DEF IInv, CardsChosen
<1>4. ASSUME NEW x \in Binders, binder'[x] # Idle, binder'[x].pc \in Charged
      PROVE  CanAdjust(binder[x].pod, "remove", binder[x].ann, binder[x].node)'
  <2>1. CASE x = b
    BY <1>2, <1>4, <2>1 DEF CanAdjust
  <2>2. CASE x # b
    <3>1. binder'[x] = binder[x]
      BY <1>2, <2>2
    <3>2. CanAdjust(binder[x].pod, "remove", binder[x].ann, binder[x].node)
      BY <1>4, <3>1 DEF IInv, RollbackNeverFails
    <3>3. binder[x].node \in Nodes
      BY <1>4, <3>1, BinderIsRecord DEF IInv, TypeOK, BinderRecord
    <3>4. QED BY <3>1, <3>2, <3>3 DEF CanAdjust, CanSubtractRM, CanSubtract, KeysKept
  <2>3. QED BY <2>1, <2>2
<1>5. RollbackNeverFails'
  BY <1>4 DEF RollbackNeverFails
<1>6. QED BY <1>1, <1>3, <1>5 DEF IInv, TypeOK

\* bindNode may return from any state in which the books are in order.
LEMMA ReturnStep ==
    ASSUME IInv, ApiType', InformerType', BooksType', KeysKept, CountType',
           NEW b \in Binders, binder[b] # Idle, NEW ok \in BOOLEAN, Return(b, ok)
    PROVE  IInv'
<1>1. binder[b].pod \in Pods /\ binder[b].uid \in 0..MaxUid
  BY BinderIsRecord DEF IInv, TypeOK, BinderRecord
<1>2. /\ rwmutex' \in Binders \cup {NoBinder}
      /\ acked' \subseteq Pods \X (0..MaxUid)
      /\ binder' = [binder EXCEPT ![b] = Idle]
  BY <1>1 DEF Return, IInv, TypeOK, BindType
<1>3. QED BY <1>2, OneBinder DEF BinderStates

\* What stays as it is, in a step that leaves it unchanged.
LEMMA Unchanged ==
    ASSUME IInv
    PROVE  /\ UNCHANGED apiVars => ApiType'
           /\ UNCHANGED <<infVars, podWorkQueue>> => InformerType'
           /\ UNCHANGED bookVars => BooksType' /\ KeysKept
           /\ UNCHANGED countVars => CountType'
BY DEF IInv, TypeOK, ApiType, InformerType, BooksType, KeysKept, CountType,
       apiVars, infVars, bookVars, countVars

\* A request that is accepted has charged nothing yet.
LEMMA BindRequestStep ==
    ASSUME IInv, NEW b \in Binders, NEW p \in Pods, NEW n \in Nodes, BindRequest(b, p, n)
    PROVE  IInv'
<1> DEFINE r == [pc |-> "check", pod |-> p, uid |-> lister[p].uid, node |-> n,
                 ann |-> EmptyAnnotation, tiles |-> {}]
<1>1. lister[p].uid \in 0..MaxUid
  BY DEF IInv, TypeOK, InformerType, PodObject
<1>2. r \in BinderRecord(p)
  BY <1>1 DEF BinderRecord, TileSets
<1>3. r \in BinderStates /\ r.pc = "check"
  BY <1>2 DEF BinderStates
<1>4. /\ rwmutex' \in Binders \cup {NoBinder}
      /\ acked' \subseteq Pods \X (0..MaxUid)
      /\ CountType'
  BY GasCacheAssumption DEF BindRequest, IInv, TypeOK, BindType, CountType
<1>5. ApiType' /\ InformerType' /\ BooksType' /\ KeysKept
  BY Unchanged DEF BindRequest
<1>6. binder' = [binder EXCEPT ![b] = r]
  BY DEF BindRequest
<1> HIDE DEF r
<1>7. QED BY <1>3, <1>4, <1>5, <1>6, OneBinder DEF Charged

\* The check for space selects cards the annotation of the pod may have.
LEMMA CheckForSpaceStep ==
    ASSUME IInv, NEW b \in Binders, CheckForSpace(b)
    PROVE  IInv'
<1> DEFINE p == binder[b].pod
<1>1. p \in Pods /\ binder[b] \in BinderRecord(p)
  BY BinderIsRecord DEF CheckForSpace, At, IInv, TypeOK
<1>2. PICK ann \in Selections(p, binder[b].node) :
         binder' = [binder EXCEPT ![b].pc = "convert", ![b].ann = ann]
  BY DEF CheckForSpace
<1>3. ann \in Annotations(p) \cup {EmptyAnnotation}
  BY DEF Selections
<1> DEFINE r == [binder[b] EXCEPT !.pc = "convert", !.ann = ann]
<1>4. r \in BinderRecord(p) /\ r.pc = "convert"
  BY <1>1, <1>3 DEF BinderRecord
<1>5. binder' = [binder EXCEPT ![b] = r]
  BY <1>2
<1>6. ApiType' /\ InformerType' /\ BooksType' /\ KeysKept /\ CountType'
  BY Unchanged DEF CheckForSpace
<1>7. rwmutex' \in Binders \cup {NoBinder} /\ acked' \subseteq Pods \X (0..MaxUid)
  BY DEF CheckForSpace, IInv, TypeOK, BindType
<1> HIDE DEF r, p
<1>8. QED BY <1>1, <1>4, <1>5, <1>6, <1>7, OneBinder DEF Charged, BinderStates

\* The conversion to annotations leaves the cards as they were selected.
LEMMA ConvertStep ==
    ASSUME IInv, NEW b \in Binders, ConvertToAnnotations(b)
    PROVE  IInv'
<1> DEFINE p == binder[b].pod
<1>1. p \in Pods /\ binder[b] \in BinderRecord(p)
  BY BinderIsRecord DEF ConvertToAnnotations, At, IInv, TypeOK
<1>2. PICK T \in TileChoices(p, binder[b].node, binder[b].ann) :
         binder' = [binder EXCEPT ![b].pc = "adjust", ![b].tiles = T]
  BY DEF ConvertToAnnotations
<1>3. T \in TileSets
  BY DEF TileChoices
<1>4. binder[b].ann \in Annotations(p)
  BY <1>1 DEF ConvertToAnnotations, BinderRecord
<1> DEFINE r == [binder[b] EXCEPT !.pc = "adjust", !.tiles = T]
<1>5. /\ r \in BinderRecord(p) /\ r.pc = "adjust"
      /\ r.ann = binder[b].ann
  BY <1>1, <1>3 DEF BinderRecord
<1>6. r.pod = p
  BY <1>5 DEF BinderRecord
<1>7. binder' = [binder EXCEPT ![b] = r]
  BY <1>2
<1>8. ApiType' /\ InformerType' /\ BooksType' /\ KeysKept /\ CountType'
  BY Unchanged DEF ConvertToAnnotations
<1>9. rwmutex' \in Binders \cup {NoBinder} /\ acked' \subseteq Pods \X (0..MaxUid)
  BY DEF ConvertToAnnotations, IInv, TypeOK, BindType
<1> HIDE DEF r, p
<1>10. QED BY <1>1, <1>4, <1>5, <1>6, <1>7, <1>8, <1>9, OneBinder DEF Charged, BinderStates

\* What a charged request may rely on, in terms of the next books.
NextCanRemove(r) ==
    /\ Len(r.ann) = Len(Requests[r.pod]) /\ r.node # NoNode
    /\ \A c \in Cards : CanSubtractRM(nodeStatuses'[r.node][c], Share(r.pod, r.ann, c))

\* A charged request may move on while the books keep their keys.
LEMMA ChargedMoves ==
    ASSUME IInv, ApiType', InformerType', BooksType', KeysKept, CountType',
           UNCHANGED <<rwmutex, acked>>,
           NEW b \in Binders, binder[b] # Idle, binder[b].pc \in Charged,
           NEW pc \in Charged, binder' = [binder EXCEPT ![b].pc = pc]
    PROVE  IInv'
<1> DEFINE r == [binder[b] EXCEPT !.pc = pc]
<1>1. binder[b].pod \in Pods /\ binder[b] \in BinderRecord(binder[b].pod)
  BY BinderIsRecord DEF IInv, TypeOK
<1>2. /\ r \in BinderRecord(binder[b].pod) /\ r.pc = pc /\ r.ann = binder[b].ann
      /\ r.node = binder[b].node /\ r.pod = binder[b].pod
  BY <1>1, EditPc
<1>3. r \in BinderStates
  BY <1>1, <1>2 DEF BinderStates
<1>4. binder[b].ann \in Annotations(binder[b].pod)
  BY DEF IInv, CardsChosen
<1>5. NextCanRemove(binder[b])
  <2>1. CanAdjust(binder[b].pod, "remove", binder[b].ann, binder[b].node)
    BY DEF IInv, RollbackNeverFails
  <2>2. binder[b].node \in Nodes
    BY <1>1 DEF BinderRecord
  <2>3. QED BY <2>1, <2>2 DEF CanAdjust, CanSubtractRM, CanSubtract, KeysKept, NextCanRemove
<1>6. rwmutex' \in Binders \cup {NoBinder} /\ acked' \subseteq Pods \X (0..MaxUid)
  BY DEF IInv, TypeOK, BindType
<1>7. binder' = [binder EXCEPT ![b] = r]
  OBVIOUS
<1>8. /\ r.ann \in Annotations(r.pod)
      /\ NextCanRemove(r)
  BY <1>2, <1>4, <1>5 DEF NextCanRemove
<1> HIDE DEF r
<1>9. QED BY <1>3, <1>6, <1>7, <1>8, OneBinder DEF NextCanRemove

\* The charge: afterwards the books hold every key of the pod's share.
LEMMA ChargePodStep ==
    ASSUME IInv, NEW b \in Binders, ChargePod(b)
    PROVE  IInv'
<1> DEFINE q == binder[b]
<1>1. q # Idle /\ q.pc = "adjust"
  BY DEF ChargePod, At
<1>2. q.pod \in Pods /\ q \in BinderRecord(q.pod)
  BY <1>1, BinderIsRecord DEF IInv, TypeOK
<1>3. /\ q.node \in Nodes /\ q.tiles \in TileSets
      /\ q.ann \in Annotations(q.pod)
  BY <1>1, <1>2 DEF BinderRecord, IInv, CardsChosen
<1>4. AdjustPodResources(q.pod, "add", q.ann, q.tiles, q.node)
  BY DEF ChargePod
<1>5. ApiType' /\ InformerType' /\ CountType'
  BY Unchanged DEF ChargePod
<1>6. BooksType' /\ KeysKept
  <2>1. BooksType
    BY DEF IInv, TypeOK
  <2> HIDE DEF q
  <2>2. QED BY <1>2, <1>3, <1>4, <2>1, AdjustBooks DEF NodeNames
<1>7. CASE CanAdjust(q.pod, "add", q.ann, q.node)
  <2> DEFINE r == [q EXCEPT !.pc = "annotate"]
  <2>1. /\ r \in BinderRecord(q.pod) /\ r.pc = "annotate" /\ r.ann = q.ann
        /\ r.node = q.node /\ r.pod = q.pod
    BY <1>2 DEF BinderRecord, Charged
  <2>2. NextCanRemove(q)
    <3>1. Len(q.ann) = Len(Requests[q.pod]) /\ q.node # NoNode
      BY <1>7 DEF CanAdjust
    <3>2. ASSUME NEW c \in Cards
          PROVE  CanSubtractRM(nodeStatuses'[q.node][c], Share(q.pod, q.ann, c))
      <4>1. nodeStatuses'[q.node][c] = AddRM(nodeStatuses[q.node][c], Share(q.pod, q.ann, c))
        BY <1>3, <1>4, <1>7 DEF AdjustPodResources, IInv, TypeOK, BooksType
      <4>2. DOMAIN Share(q.pod, q.ann, c) \subseteq DOMAIN nodeStatuses'[q.node][c]
        BY <4>1 DEF AddRM
      <4>3. \A k \in DOMAIN Share(q.pod, q.ann, c) : Share(q.pod, q.ann, c)[k] \in Nat
        BY <1>2, <1>3, ShareType
      <4>4. QED BY <4>2, <4>3 DEF CanSubtractRM, CanSubtract
    <3>3. QED BY <3>1, <3>2 DEF NextCanRemove
  <2>3. /\ binder' = [binder EXCEPT ![b] = r]
        /\ UNCHANGED <<rwmutex, acked>>
    BY <1>7 DEF ChargePod
  <2>4. rwmutex' \in Binders \cup {NoBinder} /\ acked' \subseteq Pods \X (0..MaxUid)
    BY <2>3 DEF IInv, TypeOK, BindType
  <2>5. r \in BinderStates /\ r.ann \in Annotations(r.pod) /\ NextCanRemove(r)
    BY <1>2, <1>3, <2>1, <2>2 DEF BinderStates, NextCanRemove
  <2> HIDE DEF r, q
  <2>6. QED BY <1>5, <1>6, <2>3, <2>4, <2>5, OneBinder DEF NextCanRemove
<1>8. CASE ~CanAdjust(q.pod, "add", q.ann, q.node)
  <2>1. Return(b, FALSE)
    BY <1>8 DEF ChargePod
  <2>2. QED BY <1>1, <1>5, <1>6, <2>1, ReturnStep
<1>9. QED BY <1>7, <1>8

\* The patch and the binding store a well formed pod.
LEMMA ApiCallStep ==
    ASSUME IInv, NEW b \in Binders, AnnotatePodBind(b) \/ BindApi(b)
    PROVE  IInv'
<1> DEFINE q == binder[b]
           p == q.pod
<1>1. q # Idle /\ q.pc \in Charged
  BY DEF AnnotatePodBind, BindApi, At, Charged
<1>2. p \in Pods /\ q \in BinderRecord(p)
  BY <1>1, BinderIsRecord DEF IInv, TypeOK
<1>3. /\ q.node \in Nodes /\ q.tiles \in TileSets
      /\ q.ann \in Annotations(p)
  BY <1>1, <1>2 DEF BinderRecord, IInv, CardsChosen
<1>4. api[p] \in PodObject(p)
  BY <1>2 DEF IInv, TypeOK, ApiType
<1>5. InformerType' /\ BooksType' /\ KeysKept /\ CountType'
  BY Unchanged DEF AnnotatePodBind, BindApi
<1>6. CASE AnnotatePodBind(b)
  <2>0. PICK old \in KeptTiles(p) :
           Store(p, [api[p] EXCEPT !.ann = q.ann, !.tiles = PatchedTiles(q, old)], "update")
    BY <1>6 DEF AnnotatePodBind
  <2> DEFINE t == PatchedTiles(q, old)
             obj == [api[p] EXCEPT !.ann = q.ann, !.tiles = t]
  <2>1. t \in TileSets
    BY <1>3, <1>4 DEF PatchedTiles, KeptTiles, PodObject, TileSets
  <2>2. obj \in PodObject(p)
    <3> HIDE DEF t, p
    <3>1. QED BY <1>3, <1>4, <2>1 DEF PodObject, PodAnnotations
  <2>3. Store(p, obj, "update")
    BY <2>0
  <2>4. ApiType'
    <3>1. ApiType
      BY DEF IInv, TypeOK
    <3> HIDE DEF p, obj
    <3>2. QED BY <1>2, <2>2, <2>3, <3>1, StoreType
  <2>5. PICK pc \in Charged : binder' = [binder EXCEPT ![b].pc = pc]
    BY <1>6 DEF AnnotatePodBind, Charged
  <2>6. UNCHANGED <<rwmutex, acked>>
    BY <1>6 DEF AnnotatePodBind
  <2>7. QED BY <1>1, <1>5, <2>4, <2>5, <2>6, ChargedMoves
<1>7. CASE BindApi(b)
  <2> DEFINE obj == [api[p] EXCEPT !.node = q.node]
  <2>1. obj \in PodObject(p)
    <3> HIDE DEF p
    <3>1. QED BY <1>3, <1>4 DEF PodObject, NodeNames
  <2>2. Store(p, obj, "update")
    BY <1>7 DEF BindApi
  <2>3. ApiType'
    <3>1. ApiType
      BY DEF IInv, TypeOK
    <3> HIDE DEF p, obj
    <3>2. QED BY <1>2, <2>1, <2>2, <3>1, StoreType
  <2>4. CASE Return(b, TRUE)
    BY <1>1, <1>5, <2>3, <2>4, ReturnStep
  <2>5. CASE /\ binder' = [binder EXCEPT ![b].pc = "rollback"]
             /\ UNCHANGED <<rwmutex, acked>>
    BY <1>1, <1>5, <2>3, <2>5, ChargedMoves DEF Charged
  <2>6. QED BY <1>7, <2>4, <2>5 DEF BindApi
<1>8. QED BY <1>6, <1>7

\* CheckFails, NothingToAnnotate, CallFails, Rollback.
LEMMA BindEnds ==
    ASSUME IInv, NEW b \in Binders,
           CheckFails(b) \/ NothingToAnnotate(b) \/ CallFails(b) \/ Rollback(b)
    PROVE  IInv'
<1>1. binder[b] # Idle
  BY DEF CheckFails, NothingToAnnotate, CallFails, Rollback, At
<1>2. ApiType' /\ InformerType' /\ CountType'
  BY Unchanged DEF CheckFails, NothingToAnnotate, CallFails, Rollback
<1>3. CASE CheckFails(b)
  BY <1>1, <1>2, <1>3, Unchanged, ReturnStep DEF CheckFails
<1>4. CASE NothingToAnnotate(b)
  BY <1>1, <1>2, <1>4, Unchanged, ReturnStep DEF NothingToAnnotate
<1>5. CASE CallFails(b)
  <2>1. /\ binder[b].pc \in Charged /\ UNCHANGED <<rwmutex, acked>>
        /\ binder' = [binder EXCEPT ![b].pc = "rollback"]
    BY <1>5 DEF CallFails, At, Charged
  <2>2. BooksType' /\ KeysKept
    BY <1>5, Unchanged DEF CallFails
  <2>3. QED BY <1>1, <1>2, <2>1, <2>2, ChargedMoves DEF Charged
<1>6. CASE Rollback(b)
  <2> DEFINE q == binder[b]
  <2>1. q.pod \in Pods /\ q \in BinderRecord(q.pod)
    BY <1>1, BinderIsRecord DEF IInv, TypeOK
  <2>2. /\ q.node \in NodeNames /\ q.tiles \in TileSets
        /\ q.ann \in Annotations(q.pod) \cup {EmptyAnnotation}
    BY <2>1 DEF BinderRecord, NodeNames
  <2>3. AdjustPodResources(q.pod, "remove", q.ann, q.tiles, q.node) /\ Return(b, FALSE)
    BY <1>6 DEF Rollback
  <2>4. BooksType' /\ KeysKept
    <3>1. BooksType
      BY DEF IInv, TypeOK
    <3> HIDE DEF q
    <3>2. QED BY <2>1, <2>2, <2>3, <3>1, AdjustBooks
  <2>5. QED BY <1>1, <1>2, <2>3, <2>4, ReturnStep
<1>7. QED BY <1>3, <1>4, <1>5, <1>6

-----------------------------------------------------------------------------
(* Restart and watch gap. *)

\* The notifications of a list of pods are a sequence of events.
LEMMA ListedEvents ==
    ASSUME NEW S \in SUBSET Pods, NEW q \in Orders(S),
           NEW ev, DOMAIN ev = DOMAIN q, ev = [i \in DOMAIN ev |-> ev[i]],
           \A i \in DOMAIN q : q[i] \in S => ev[i] \in Events
    PROVE  ev \in Seq(Events)
<1>1. IsFiniteSet(S)
  BY PodSharesAssumption, FS_Subset
<1>2. Cardinality(S) \in Nat
  BY <1>1, FS_CardinalityType
<1>3. q \in [1..Cardinality(S) -> S]
  BY DEF Orders
<1>4. ev \in [1..Cardinality(S) -> Events]
  BY <1>3
<1>5. QED BY <1>2, <1>4

\* A restart empties the books together with the requests that relied on them.
LEMMA RestartStep == IInv /\ Restart => IInv'
<1> SUFFICES ASSUME IInv, Restart PROVE IInv'
  OBVIOUS
<1>1. PICK q \in Orders({p \in Pods : Exists(p)}) :
         notify' = [i \in DOMAIN q |-> [kind |-> "add", pod |-> q[i], obj |-> api[q[i]]]]
  BY DEF Restart
<1>2. notify' \in Seq(Events)
  <2>1. \A p \in Pods : [kind |-> "add", pod |-> p, obj |-> api[p]] \in Events
    BY DEF IInv, TypeOK, ApiType, Events
  <2> DEFINE S == {p \in Pods : Exists(p)}
  <2>2. \A i \in DOMAIN q : q[i] \in S => notify'[i] \in Events
    BY <1>1, <2>1
  <2>3. DOMAIN notify' = DOMAIN q /\ notify' = [i \in DOMAIN notify' |-> notify'[i]]
    BY <1>1
  <2>4. S \in SUBSET Pods
    OBVIOUS
  <2> HIDE DEF S
  <2>5. QED BY <2>2, <2>3, <2>4, ListedEvents DEF S
<1>3. ApiType' /\ InformerType'
  BY <1>2 DEF Restart, IInv, TypeOK, ApiType, InformerType
<1>4. BooksType'
  BY EmptyMapType DEF Restart, BooksType, NoStatuses, NoTiles, TileSets
<1>5. BindType' /\ CountType'
  BY GasCacheAssumption DEF Restart, IInv, TypeOK, BindType, CountType, BinderStates
<1>6. CardsChosen' /\ RollbackNeverFails'
  BY DEF Restart, CardsChosen, RollbackNeverFails
<1>7. QED BY <1>3, <1>4, <1>5, <1>6 DEF IInv, TypeOK

\* A relist reports well formed objects only.
LEMMA WatchGapStep == IInv /\ WatchGap => IInv'
<1> SUFFICES ASSUME IInv, WatchGap PROVE IInv'
  OBVIOUS
<1> DEFINE S == {p \in Pods : Exists(p) \/ Listed(p)}
<1>1. PICK q \in Orders(S) : notify' = notify \o [i \in DOMAIN q |-> ListEvent(q[i])]
  BY DEF WatchGap
<1> DEFINE ev == [i \in DOMAIN q |-> ListEvent(q[i])]
<1>2. ev \in Seq(Events)
  <2>1. ASSUME NEW p \in Pods PROVE ListEvent(p) \in Events
    <3>1. api[p] \in PodObject(p) /\ lister[p] \in PodObject(p)
      BY DEF IInv, TypeOK, ApiType, InformerType
    <3>2. \A k \in {"add", "update", "delete"}, o \in PodObject(p) :
             [kind |-> k, pod |-> p, obj |-> o] \in Events
      BY DEF Events
    <3>3. QED BY <3>1, <3>2 DEF ListEvent
  <2>2. \A i \in DOMAIN q : q[i] \in S => ev[i] \in Events
    BY <2>1
  <2>3. DOMAIN ev = DOMAIN q /\ ev = [i \in DOMAIN ev |-> ev[i]]
    OBVIOUS
  <2>4. S \in SUBSET Pods
    OBVIOUS
  <2> HIDE DEF S, ev
  <2>5. QED BY <2>2, <2>3, <2>4, ListedEvents
<1>3. notify' \in Seq(Events)
  <2> HIDE DEF S
  <2>1. notify \in Seq(Events) /\ notify' = notify \o ev
    BY <1>1 DEF IInv, TypeOK, InformerType
  <2> HIDE DEF ev
  <2>2. QED BY <1>2, <2>1
<1>4. ApiType' /\ InformerType'
  BY <1>3 DEF WatchGap, IInv, TypeOK, ApiType, InformerType
<1>5. BindType' /\ CountType'
  BY GasCacheAssumption DEF WatchGap, IInv, TypeOK, BindType, CountType, bindVars
<1>6. BooksType' /\ KeysKept
  BY UnchangedBooks DEF WatchGap, IInv, TypeOK
<1>7. QED BY <1>4, <1>5, <1>6, BindersKept DEF WatchGap, IInv, TypeOK, bindVars

-----------------------------------------------------------------------------
(* The theorems. *)

\* A step that changes nothing keeps the invariant.
LEMMA StutterStep == IInv /\ UNCHANGED vars => IInv'
<1> SUFFICES ASSUME IInv, UNCHANGED vars PROVE IInv'
  OBVIOUS
<1>1. BooksType' /\ KeysKept
  BY UnchangedBooks DEF vars, IInv, TypeOK
<1>2. ApiType' /\ InformerType' /\ BindType' /\ CountType'
  BY DEF vars, apiVars, infVars, bindVars, countVars,
         IInv, TypeOK, ApiType, InformerType, BindType, CountType
<1>3. QED BY <1>1, <1>2, BindersKept DEF vars, bindVars, IInv, TypeOK

\* Every step of the system keeps the invariant, action by action.
LEMMA NextIInv == IInv /\ [Next]_vars => IInv'
<1> SUFFICES ASSUME IInv, [Next]_vars PROVE IInv'
  OBVIOUS
<1>1. ASSUME NEW p \in Pods,
             CreatePod(p) \/ StartPod(p) \/ EndPod(p) \/ DeletePod(p) \/ RemovePod(p)
      PROVE  IInv'
  BY <1>1, PodSteps
<1>2. ASSUME NEW b \in Binders, NEW p \in Pods, NEW n \in Nodes, BindRequest(b, p, n)
      PROVE  IInv'
  BY <1>2, BindRequestStep
<1>3. ASSUME NEW b \in Binders, BindStep(b)
      PROVE  IInv'
  BY <1>3, CheckForSpaceStep, ConvertStep, ChargePodStep, ApiCallStep, BindEnds DEF BindStep
<1>4. CASE Deliver \/ Handle \/ PodWork
  BY <1>4, DeliverStep, HandleStep, PodWorkStep
<1>5. CASE Restart \/ WatchGap
  BY <1>5, RestartStep, WatchGapStep
<1>6. CASE UNCHANGED vars
  BY <1>6, StutterStep
<1>7. QED BY <1>1, <1>2, <1>3, <1>4, <1>5, <1>6 DEF Next

\* The inductive invariant holds throughout: bindNode relies on cards it has
\* selected and on keys that nobody takes out of the books.
THEOREM Invariance == Spec => []IInv
<1>1. QED BY InitIInv, NextIInv, PTL DEF Spec

\* Whatever the faults and the interleaving of binds, events and restarts: every
\* amount in the books stays a non-negative int64, and whatever the handlers
\* queue, and bindNode patches, carries an annotation adjustPodResources can read.
THEOREM TypeCorrect == Spec => []TypeOK
<1>1. IInv => TypeOK
  BY DEF IInv
<1>2. QED BY <1>1, Invariance, PTL

\* "Removing resources should not fail if adding was ok": for every number of
\* concurrent binds, every fault and every order of completions in between, the
\* deferred rollback of bindNode finds all it needs in the books.
THEOREM RollbackSafe == Spec => []RollbackNeverFails
<1>1. IInv => RollbackNeverFails
  BY DEF IInv
<1>2. QED BY <1>1, Invariance, PTL

-----------------------------------------------------------------------------
(* What a successful bind means. *)

\* Every pod asks for GPUs in a way that leaves bindNode something to annotate:
\* the NUMA labels can be read, and a pod of one container asks for a card.
CardsAsked == BadNuma = {} /\ \A p \in Pods : EmptyAnnotation \notin Annotations(p)

\* A success reported for a pod is about this pod, which is then bound, or about
\* an earlier one of its name.
Acks ==
    \A p \in Pods, u \in 0..MaxUid :
        <<p, u>> \in acked =>
            /\ u <= api[p].uid
            /\ u = api[p].uid /\ Exists(p) => Bound(p)

\* What checkForSpaceAndRetrieveCards hands over is a selection of cards.
Selected ==
    \A b \in Binders :
        binder[b] # Idle /\ binder[b].pc = "convert" =>
            binder[b].ann \in Annotations(binder[b].pod)

\* The uid of a pod only grows, and a pod that is bound stays so until it is
\* removed or replaced.
Moves(p) ==
    /\ api[p].uid <= api'[p].uid
    /\ api'[p].uid = api[p].uid /\ api'[p].status # "absent" =>
          api[p].status # "absent" /\ (api[p].node # NoNode => api'[p].node # NoNode)

\* Whatever was reported stays true when the pods move on.
LEMMA AcksMove ==
    ASSUME IInv, IInv', Acks, \A p \in Pods : Moves(p), acked' = acked
    PROVE  Acks'
<1> SUFFICES ASSUME NEW p \in Pods, NEW u \in 0..MaxUid, <<p, u>> \in acked
             PROVE  /\ u <= api'[p].uid
                    /\ u = api'[p].uid /\ Exists(p)' => Bound(p)'
  BY DEF Acks
<1>1. api[p] \in PodObject(p) /\ api'[p] \in PodObject(p)
  BY DEF IInv, TypeOK, ApiType
<1>2. api[p].uid \in Nat /\ api'[p].uid \in Nat /\ u \in Nat
  BY <1>1, GasCacheAssumption DEF PodObject
<1>3. u <= api[p].uid /\ (u = api[p].uid /\ Exists(p) => Bound(p))
  BY DEF Acks
<1>4. Moves(p)
  OBVIOUS
<1>5. QED BY <1>2, <1>3, <1>4 DEF Moves, Exists, Bound

\* A new version of a pod.
NotBack(p, obj) ==
    /\ api[p].uid <= obj.uid
    /\ obj.uid = api[p].uid /\ obj.status # "absent" =>
          api[p].status # "absent" /\ (api[p].node # NoNode => obj.node # NoNode)

\* A pod that is stored again moves on.
LEMMA StoreMoves ==
    ASSUME IInv, NEW p \in Pods, NEW obj, api' = [api EXCEPT ![p] = obj], NotBack(p, obj)
    PROVE  \A q \in Pods : Moves(q)
<1> TAKE q \in Pods
<1>1. api[q] \in PodObject(q) /\ api'[q] = IF q = p THEN obj ELSE api[q]
  BY DEF IInv, TypeOK, ApiType
<1>2. api[q].uid \in Nat
  BY <1>1, GasCacheAssumption DEF PodObject
<1>3. QED BY <1>1, <1>2 DEF Moves, NotBack

\* Pods that stay as they are.
LEMMA SameMoves ==
    ASSUME IInv, api' = api PROVE \A q \in Pods : Moves(q)
<1> TAKE q \in Pods
<1>1. api[q] \in PodObject(q) /\ api'[q] = api[q]
  BY DEF IInv, TypeOK, ApiType
<1>2. api[q].uid \in Nat
  BY <1>1, GasCacheAssumption DEF PodObject
<1>3. QED BY <1>1, <1>2 DEF Moves

\* The pods move on at every step.
LEMMA PodsMove ==
    ASSUME IInv, [Next]_vars
    PROVE  \A p \in Pods : Moves(p)
<1> USE DEF Store
<1>1. \A p \in Pods : api[p] \in PodObject(p) /\ api[p].uid \in Nat
  BY GasCacheAssumption DEF IInv, TypeOK, ApiType, PodObject
<1>2. ASSUME NEW p \in Pods, CreatePod(p) PROVE \A q \in Pods : Moves(q)
  <2>1. PICK obj : obj = [Absent(api[p].uid + 1) EXCEPT !.status = "pending"]
    OBVIOUS
  <2>2. obj.uid = api[p].uid + 1
    BY <2>1 DEF Absent
  <2>3. api' = [api EXCEPT ![p] = obj]
    BY <1>2, <2>1 DEF CreatePod
  <2>4. NotBack(p, obj)
    BY <1>1, <2>2 DEF NotBack
  <2>5. QED BY <2>3, <2>4, StoreMoves
<1>3. ASSUME NEW p \in Pods, NEW s \in {"running", "deleting", "ended"}, Bound(p), Exists(p),
             api' = [api EXCEPT ![p] = [api[p] EXCEPT !.status = s]]
      PROVE  \A q \in Pods : Moves(q)
  <2>1. PICK obj : obj = [api[p] EXCEPT !.status = s]
    OBVIOUS
  <2>2. obj.uid = api[p].uid /\ obj.node = api[p].node
    BY <1>1, <2>1 DEF PodObject
  <2>3. NotBack(p, obj)
    BY <1>1, <1>3, <2>2 DEF NotBack, Exists
  <2>4. QED BY <1>3, <2>1, <2>3, StoreMoves
<1>4. ASSUME NEW p \in Pods, StartPod(p) \/ EndPod(p) \/ DeletePod(p)
      PROVE  \A q \in Pods : Moves(q)
  BY <1>3, <1>4 DEF StartPod, EndPod, DeletePod, Exists, Live
<1>5. ASSUME NEW p \in Pods, RemovePod(p) PROVE \A q \in Pods : Moves(q)
  <2>1. PICK obj : obj = Absent(api[p].uid)
    OBVIOUS
  <2>2. obj.uid = api[p].uid /\ obj.status = "absent"
    BY <2>1 DEF Absent
  <2>3. api' = [api EXCEPT ![p] = obj]
    BY <1>5, <2>1 DEF RemovePod
  <2>4. NotBack(p, obj)
    BY <1>1, <2>2 DEF NotBack
  <2>5. QED BY <2>3, <2>4, StoreMoves
<1>6. ASSUME NEW b \in Binders, AnnotatePodBind(b) \/ BindApi(b)
      PROVE  \A q \in Pods : Moves(q)
  <2>1. binder[b] # Idle
    BY <1>6 DEF AnnotatePodBind, BindApi, At
  <2>2. PICK p, r : p \in Pods /\ p = binder[b].pod /\ r = binder[b] /\ r \in BinderRecord(p)
    BY <2>1, BinderIsRecord DEF IInv, TypeOK
  <2>3. CASE AnnotatePodBind(b)
    <3>0. PICK old \in KeptTiles(p) :
             Store(p, [api[p] EXCEPT !.ann = r.ann, !.tiles = PatchedTiles(r, old)], "update")
      BY <2>2, <2>3 DEF AnnotatePodBind
    <3>1. PICK obj : obj = [api[p] EXCEPT !.ann = r.ann, !.tiles = PatchedTiles(r, old)]
      OBVIOUS
    <3>2. obj.uid = api[p].uid /\ obj.node = api[p].node /\ obj.status = api[p].status
      BY <1>1, <2>2, <3>1 DEF PodObject
    <3>3. api' = [api EXCEPT ![p] = obj]
      BY <3>0, <3>1 DEF Store
    <3>4. NotBack(p, obj)
      BY <1>1, <2>2, <3>2, <3>3 DEF NotBack
    <3>5. QED BY <2>2, <3>3, <3>4, StoreMoves
  <2>4. CASE BindApi(b)
    <3>1. PICK obj : obj = [api[p] EXCEPT !.node = r.node]
      OBVIOUS
    <3>2. obj.uid = api[p].uid /\ obj.node = r.node /\ obj.status = api[p].status
      BY <1>1, <2>2, <3>1 DEF PodObject
    <3>3. api' = [api EXCEPT ![p] = obj] /\ r.node # NoNode
      BY <2>2, <2>4, <3>1, GasCacheAssumption DEF BindApi, BinderRecord
    <3>4. NotBack(p, obj)
      BY <1>1, <2>2, <3>2, <3>3 DEF NotBack
    <3>5. QED BY <2>2, <3>3, <3>4, StoreMoves
  <2>5. QED BY <1>6, <2>3, <2>4
<1>7. CASE api' = api
  BY <1>7, SameMoves
<1>8. ASSUME NEW b \in Binders, BindStep(b), ~(AnnotatePodBind(b) \/ BindApi(b))
      PROVE  api' = api
  BY <1>8 DEF BindStep, CheckForSpace, CheckFails, ConvertToAnnotations, NothingToAnnotate,
              ChargePod, CallFails, Rollback, apiVars
<1>9. ASSUME \/ \E b \in Binders, p \in Pods, n \in Nodes : BindRequest(b, p, n)
             \/ Deliver \/ Handle \/ PodWork \/ Restart \/ WatchGap \/ UNCHANGED vars
      PROVE  api' = api
  BY <1>9 DEF BindRequest, Deliver, Handle, PodWork, Restart, WatchGap, vars, apiVars
<1>10. QED
  BY <1>2, <1>4, <1>5, <1>6, <1>7, <1>8, <1>9 DEF Next

\* A request has its cards once it has left the check for space.
LEMMA SelectedStep ==
    ASSUME CardsAsked, IInv, Selected, [Next]_vars
    PROVE  Selected'
<1> SUFFICES ASSUME NEW b \in Binders, binder'[b] # Idle, binder'[b].pc = "convert"
             PROVE  binder'[b].ann \in Annotations(binder'[b].pod)
  BY DEF Selected
<1>1. binder \in [Binders -> BinderStates]
  BY DEF IInv, TypeOK, BindType
<1>2. CASE binder'[b] = binder[b]
  BY <1>2 DEF Selected
<1>3. ASSUME NEW a \in Binders, CheckForSpace(a)
      PROVE  binder'[b].ann \in Annotations(binder'[b].pod)
  <2>1. CASE a # b
    BY <1>1, <1>2, <1>3, <2>1 DEF CheckForSpace
  <2>2. CASE a = b
    <3>1. PICK p, r : p \in Pods /\ p = binder[b].pod /\ r = binder[b] /\ r \in BinderRecord(p)
      BY <1>3, <2>2, BinderIsRecord DEF CheckForSpace, At, IInv, TypeOK
    <3>2. PICK ann \in Selections(p, r.node) :
             binder' = [binder EXCEPT ![b].pc = "convert", ![b].ann = ann]
      BY <1>3, <2>2, <3>1 DEF CheckForSpace
    <3>3. ann \in Annotations(p)
      BY <3>2 DEF Selections, CardsAsked
    <3>4. binder'[b] = [r EXCEPT !.pc = "convert", !.ann = ann]
      BY <1>1, <3>1, <3>2
    <3>5. binder'[b].ann = ann /\ binder'[b].pod = p
      BY <3>1, <3>4 DEF BinderRecord
    <3>6. QED BY <3>3, <3>5
  <2>3. QED BY <2>1, <2>2
<1>4. ASSUME NEW a \in Binders, Return(a, TRUE) \/ Return(a, FALSE)
      PROVE  binder'[b] = binder[b]
  BY <1>1, <1>4 DEF Return
<1>5. ASSUME NEW a \in Binders, NEW pc \in {"adjust"} \cup Charged, binder[a] # Idle,
             binder' = [binder EXCEPT ![a].pc = pc]
      PROVE  binder'[b] = binder[b]
  <2>1. CASE a # b
    BY <1>1, <1>5, <2>1
  <2>2. CASE a = b
    <3>1. PICK r : r = binder[b] /\ r \in BinderRecord(r.pod)
      BY <1>5, <2>2, BinderIsRecord DEF IInv, TypeOK
    <3>2. binder'[b] = [r EXCEPT !.pc = pc]
      BY <1>1, <1>5, <2>2, <3>1
    <3>3. binder'[b].pc = pc
      BY <3>1, <3>2 DEF BinderRecord
    <3>4. QED BY <3>3 DEF Charged
  <2>3. QED BY <2>1, <2>2
<1>6. ASSUME NEW a \in Binders, ConvertToAnnotations(a)
      PROVE  binder'[b] = binder[b]
  <2>1. CASE a # b
    BY <1>1, <1>6, <2>1 DEF ConvertToAnnotations
  <2>2. CASE a = b
    <3>1. PICK r : r = binder[b] /\ r \in BinderRecord(r.pod)
      BY <1>6, <2>2, BinderIsRecord DEF ConvertToAnnotations, At, IInv, TypeOK
    <3>2. PICK T : binder' = [binder EXCEPT ![b].pc = "adjust", ![b].tiles = T]
      BY <1>6, <2>2 DEF ConvertToAnnotations
    <3>3. binder'[b] = [r EXCEPT !.pc = "adjust", !.tiles = T]
      BY <1>1, <3>1, <3>2
    <3>4. binder'[b].pc = "adjust"
      BY <3>1, <3>3 DEF BinderRecord
    <3>5. QED BY <3>4
  <2>3. QED BY <2>1, <2>2
<1>7. ASSUME NEW a \in Binders, BindStep(a)
      PROVE  binder'[b].ann \in Annotations(binder'[b].pod)
  <2>1. CASE CheckFails(a) \/ NothingToAnnotate(a) \/ Rollback(a)
    BY <1>2, <1>4, <2>1 DEF CheckFails, NothingToAnnotate, Rollback
  <2>2. CASE ChargePod(a)
    BY <1>2, <1>4, <1>5, <2>2 DEF ChargePod, At, Charged
  <2>3. CASE AnnotatePodBind(a)
    BY <1>2, <1>5, <2>3 DEF AnnotatePodBind, At, Charged
  <2>4. CASE BindApi(a)
    BY <1>2, <1>4, <1>5, <2>4 DEF BindApi, At, Charged
  <2>5. CASE CallFails(a)
    BY <1>2, <1>5, <2>5 DEF CallFails, At, Charged
  <2>6. QED BY <1>2, <1>3, <1>6, <1>7, <2>1, <2>2, <2>3, <2>4, <2>5 DEF BindStep
<1>8. ASSUME NEW a \in Binders, NEW p \in Pods, NEW n \in Nodes, BindRequest(a, p, n)
      PROVE  binder'[b] = binder[b]
  BY <1>1, <1>8 DEF BindRequest
<1>9. CASE Restart
  BY <1>9 DEF Restart
<1>10. CASE \/ \E p \in Pods : CreatePod(p) \/ StartPod(p) \/ EndPod(p) \/ DeletePod(p)
                 \/ RemovePod(p)
            \/ Deliver \/ Handle \/ PodWork \/ WatchGap \/ UNCHANGED vars
  BY <1>2, <1>10 DEF CreatePod, StartPod, EndPod, DeletePod, RemovePod, Deliver, Handle, PodWork,
             WatchGap, vars, bindVars
<1>11. QED BY <1>2, <1>7, <1>8, <1>9, <1>10 DEF Next

\* Only the binding itself is reported as a success.
LEMMA AckedByBind ==
    ASSUME CardsAsked, IInv, Selected, [Next]_vars
    PROVE  \/ acked' = acked
           \/ \E b \in Binders : /\ BindApi(b)
                                 /\ acked' = acked \cup {<<binder[b].pod, binder[b].uid>>}
<1>1. ASSUME NEW b \in Binders, BindStep(b), ~BindApi(b)
      PROVE  acked' = acked
  <2>1. ~NothingToAnnotate(b)
    <3>1. ASSUME NothingToAnnotate(b) PROVE FALSE
      <4>1. binder[b] # Idle /\ binder[b].pc = "convert" /\ binder[b].ann = EmptyAnnotation
        BY <3>1 DEF NothingToAnnotate, At
      <4>2. binder[b].pod \in Pods /\ binder[b].ann \in Annotations(binder[b].pod)
        BY <4>1, BinderIsRecord DEF Selected, IInv, TypeOK
      <4>3. QED BY <4>1, <4>2 DEF CardsAsked
    <3>2. QED BY <3>1
  <2>2. QED
    BY <1>1, <2>1 DEF BindStep, CheckForSpace, CheckFails, ConvertToAnnotations,
       ChargePod, AnnotatePodBind, CallFails, Rollback, Return
<1>2. ASSUME NEW b \in Binders, BindApi(b)
      PROVE  acked' = acked \/ acked' = acked \cup {<<binder[b].pod, binder[b].uid>>}
  BY <1>2 DEF BindApi, Return
<1>3. ASSUME \/ \E p \in Pods : CreatePod(p) \/ StartPod(p) \/ EndPod(p) \/ DeletePod(p)
                  \/ RemovePod(p)
             \/ \E b \in Binders, p \in Pods, n \in Nodes : BindRequest(b, p, n)
             \/ Deliver \/ Handle \/ PodWork \/ Restart \/ WatchGap \/ UNCHANGED vars
      PROVE  acked' = acked
  BY <1>3 DEF CreatePod, StartPod, EndPod, DeletePod, RemovePod, BindRequest, Deliver, Handle,
              PodWork, Restart, WatchGap, vars, bindVars
<1>4. QED BY <1>1, <1>2, <1>3 DEF Next

\* Every step keeps the acknowledgements truthful.
LEMMA AcksStep ==
    ASSUME CardsAsked, IInv, IInv', Selected, Acks, [Next]_vars
    PROVE  Acks'
<1>1. \A p \in Pods : Moves(p)
  BY PodsMove
<1>2. CASE acked' = acked
  BY <1>1, <1>2, AcksMove
<1>3. ASSUME NEW b \in Binders, BindApi(b), acked' = acked \cup {<<binder[b].pod, binder[b].uid>>}
      PROVE  Acks'
  <2>1. PICK p, r : p \in Pods /\ p = binder[b].pod /\ r = binder[b] /\ r \in BinderRecord(p)
    BY <1>3, BinderIsRecord DEF BindApi, At, IInv, TypeOK
  <2>2. api[p] \in PodObject(p) /\ \A q \in Pods : api'[q] \in PodObject(q)
    BY <2>1 DEF IInv, TypeOK, ApiType
  <2>3. api'[p] = [api[p] EXCEPT !.node = r.node] /\ r.node # NoNode /\ r.uid = api[p].uid
    BY <1>3, <2>1, GasCacheAssumption
       DEF BindApi, Store, BinderRecord, IInv, TypeOK, ApiType
  <2>4. api'[p].uid = r.uid /\ Bound(p)' /\ api'[p].uid \in Nat
    BY <2>1, <2>2, <2>3, GasCacheAssumption DEF PodObject, Bound
  <2>5. ASSUME NEW q \in Pods, NEW u \in 0..MaxUid, <<q, u>> \in acked'
        PROVE  /\ u <= api'[q].uid
               /\ u = api'[q].uid /\ Exists(q)' => Bound(q)'
    <3>1. CASE <<q, u>> = <<p, r.uid>>
      BY <2>4, <3>1
    <3>2. CASE <<q, u>> \in acked
      <4>1. u <= api[q].uid /\ (u = api[q].uid /\ Exists(q) => Bound(q))
        BY <3>2 DEF Acks
      <4>2. Moves(q) /\ api[q] \in PodObject(q)
        BY <1>1 DEF IInv, TypeOK, ApiType
      <4>3. api[q].uid \in Nat /\ api'[q].uid \in Nat /\ u \in Nat
        BY <2>2, <4>2, GasCacheAssumption DEF PodObject
      <4>4. QED BY <4>1, <4>2, <4>3 DEF Moves, Exists, Bound
    <3>3. QED BY <1>3, <2>1, <2>5, <3>1, <3>2
  <2>6. QED BY <2>5 DEF Acks
<1>4. QED BY <1>2, <1>3, AckedByBind

\* Whatever is lost, restarted, force deleted or bound twice: when every pod asks
\* for cards, a bind that was reported as successful has bound the pod that it
\* was asked for, and not another one of the same name.
THEOREM AcksAreTruthful ==
    ASSUME CardsAsked
    PROVE  Spec => []AckedMeansBound
<1>1. Init => Selected /\ Acks
  BY DEF Init, Selected, Acks
<1>2. IInv /\ IInv' /\ Selected /\ Acks /\ [Next]_vars => Selected' /\ Acks'
  BY SelectedStep, AcksStep
<1>3. IInv /\ Acks => AckedMeansBound
  <2>1. SUFFICES ASSUME IInv, Acks, NEW p \in Pods, <<p, api[p].uid>> \in acked, Exists(p)
                 PROVE  Bound(p)
    BY DEF AckedMeansBound
  <2>2. api[p].uid \in 0..MaxUid
    BY <2>1 DEF IInv, TypeOK, ApiType, PodObject
  <2>3. QED BY <2>1, <2>2 DEF Acks
<1>4. QED BY <1>1, <1>2, <1>3, Invariance, PTL DEF Spec

-----------------------------------------------------------------------------
(***************************************************************************)
(* Without faults of the API server, of the watch or of the process, and    *)
(* with pod names that are used once, the cache, the bind handler, the      *)
(* informer and the worker keep the books exactly, and together implement   *)
(* the allocator of GpuAllocator.                                           *)
(*                                                                          *)
(* The books are explained by a ledger: one entry for each annotated pod,   *)
(* with the node, cards and tiles it was charged for.  The inductive        *)
(* invariant says that there is a ledger that adds up to the books, to which *)
(* binds in progress, bound pods and events on their way agree.             *)
(***************************************************************************)

\* No fault, and no pod takes the name of an earlier one.
Graceful == Faults = {} /\ MaxUid = 1

-----------------------------------------------------------------------------
(* The ledger and the books. *)

\* The entry of a pod, as a bind, an object or a work item states it.
Entry(r) == [node |-> r.node, ann |-> r.ann, tiles |-> r.tiles]

Entries(p) == [node : Nodes, ann : Annotations(p), tiles : TileSets]

\* What an entry of ledger L takes of resource k of a card.
Part(L, n, c, k) ==
    [p \in Pods |-> IF p \in DOMAIN L /\ L[p].node = n
                    THEN Amount(Share(p, L[p].ann, c), k) ELSE 0]

Total(L, n, c, k) == SumFunctionOnSet(Part(L, n, c, k), Pods)

\* createTileAnnotation gave all the tiles that are asked for.
Granted(p, ann, tiles) ==
    \A c \in Cards : Cardinality(TilesOf(tiles, c)) = Amount(Share(p, ann, c), TileRes)

LedgerType(L) == DOMAIN L = annotatedPods /\ \A p \in DOMAIN L : L[p] \in Entries(p)

\* The amounts in the books are the sums of the ledger, and within capacity.
AmountsExact(L) ==
    \A n \in Nodes, c \in Cards, k \in Resources :
        /\ Amount(nodeStatuses[n][c], k) = Total(L, n, c, k)
        /\ Amount(nodeStatuses[n][c], k) <= Amount(Capacity, k)

\* What is charged can be discharged.
KeysThere(L) ==
    \A p \in DOMAIN L : \A c \in Cards :
        DOMAIN Share(p, L[p].ann, c) \subseteq DOMAIN nodeStatuses[L[p].node][c]

\* The tiles in use are the tiles of the ledger, each of one pod.
TilesExact(L) ==
    /\ \A n \in Nodes : \A t \in Cards \X Tiles :
          t \in nodeTileStatuses[n] <=> \E p \in DOMAIN L : L[p].node = n /\ t \in L[p].tiles
    /\ \A p, q \in DOMAIN L : p # q /\ L[p].node = L[q].node => L[p].tiles \cap L[q].tiles = {}
    /\ \A p \in DOMAIN L : Granted(p, L[p].ann, L[p].tiles)

\* As many tiles are marked as are charged.
TilesCounted ==
    \A n \in Nodes, c \in Cards :
        Cardinality(TilesOf(nodeTileStatuses[n], c)) = Amount(nodeStatuses[n][c], TileRes)

Books(L) == LedgerType(L) /\ AmountsExact(L) /\ KeysThere(L) /\ TilesExact(L) /\ TilesCounted

-----------------------------------------------------------------------------
(* Pods, binds and events. *)

InBind(p) == \E b \in Binders : binder[b] # Idle /\ binder[b].pod = p

\* The object of a pod during its life, and what its annotations say.
Life(p, obj) ==
    /\ obj.status = "absent" => obj = Absent(obj.uid)
    /\ obj.status # "absent" => obj.uid = 1
    /\ obj.status # "absent" /\ obj.node = NoNode => obj.status = "pending"
    /\ obj.node # NoNode => obj.ann # NoAnnotation
    /\ IF obj.ann = NoAnnotation THEN obj.tiles = {} ELSE Granted(p, obj.ann, obj.tiles)

Lives == \A p \in Pods : Life(p, api[p])

\* What is known of a pod is about its only life.
Seen ==
    /\ \A p \in Pods : lister[p].status # "absent" => lister[p].uid = 1 /\ api[p].uid = 1
    /\ \A i \in DOMAIN watch : watch[i].obj.uid = 1 /\ api[watch[i].pod].uid = 1
    /\ \A i \in DOMAIN watch : watch[i].kind = "add" => watch[i].obj.node = NoNode
    /\ \A i \in DOMAIN notify : notify[i].kind = "add" => notify[i].obj.node = NoNode

Locked == {"convert", "adjust"} \cup Charged

\* A bind in progress is of a pod that is not bound; past the check for space it
\* holds the lock, and what it found stays true.
BindFacts(L, b) ==
    LET r == binder[b]
    IN /\ ~Bound(r.pod) /\ r.uid = 1 /\ api[r.pod].uid = 1
       /\ r.pc \in Locked => rwmutex = b
       /\ r.pc = "convert" => r.ann = EmptyAnnotation \/ Fits(r.pod, r.node, r.ann)
       /\ r.pc = "adjust" => /\ Fits(r.pod, r.node, r.ann)
                             /\ r.tiles \cap nodeTileStatuses[r.node] = {}
                             /\ Granted(r.pod, r.ann, r.tiles)
       /\ r.pc \notin Charged => r.pod \notin DOMAIN L
       /\ r.pc \in Charged => r.pod \in DOMAIN L /\ L[r.pod] = Entry(r)
       /\ r.pc = "bind" /\ Exists(r.pod) =>
             api[r.pod].ann = r.ann /\ api[r.pod].tiles = r.tiles

\* There is one bind of a pod at a time.
Binds(L) ==
    /\ \A a, b \in Binders :
          binder[a] # Idle /\ binder[b] # Idle /\ binder[a].pod = binder[b].pod => a = b
    /\ \A b \in Binders : binder[b] # Idle => BindFacts(L, b)

\* The entries of pods: bound ones have theirs, others only while they are bound
\* or after they are gone.
Owners(L) ==
    \A p \in Pods :
        /\ Using(p) => p \in DOMAIN L
        /\ Bound(p) /\ p \in DOMAIN L => L[p] = Entry(api[p])
        /\ p \in DOMAIN L /\ Exists(p) /\ ~Bound(p) => InBind(p)

\* What the worker will be told: its queue, then the events on their way.
PipeOf(Q, N, W) ==
    [i \in 1..(Len(Q) + Len(N) + Len(W)) |->
        IF i <= Len(Q) THEN Q[i]
        ELSE IF i <= Len(Q) + Len(N) THEN HandlerItem(N[i - Len(Q)])
             ELSE HandlerItem(W[i - Len(Q) - Len(N)])]

Pipe == PipeOf(podWorkQueue, notify, watch)

\* 0: not bound, handlePod can do nothing; 1: bound; 2: completed; 3: deleted.
Stage(x) ==
    IF x.node = NoNode THEN 0
    ELSE IF x.action = "podDeleted" THEN 3
         ELSE IF x.action = "podCompleted" THEN 2 ELSE 1

\* What an item on its way says of its pod.
Told(L, x) ==
    Stage(x) > 0 =>
        /\ ~InBind(x.pod) /\ api[x.pod].uid = 1
        /\ Exists(x.pod) => Bound(x.pod)
        /\ Stage(x) = 1 => x.pod \in DOMAIN L
        /\ Stage(x) < 3 => x.ann # NoAnnotation
        /\ Stage(x) < 3 /\ x.pod \in DOMAIN L => L[x.pod] = Entry(x)
        /\ Stage(x) > 1 => ~Using(x.pod)
        /\ Stage(x) = 3 => ~Exists(x.pod)

InOrder(P) ==
    \A i, j \in DOMAIN P :
        i < j /\ P[i].pod = P[j].pod /\ Stage(P[i]) > 0 /\ Stage(P[j]) > 0 =>
            Stage(P[i]) <= Stage(P[j])

Ending(P, p) == \E i \in DOMAIN P : P[i].pod = p /\ Stage(P[i]) = 2

\* The items of a pod arrive in the order of its life, and one of them releases
\* an entry whose pod no longer runs.
Queued(L, P) ==
    /\ \A i \in DOMAIN P : Told(L, P[i])
    /\ InOrder(P)
    /\ \A p \in DOMAIN L : Using(p) \/ InBind(p) \/ Ending(P, p)

Ledger(L) == Books(L) /\ Binds(L) /\ Owners(L) /\ Queued(L, Pipe)

\* The inductive invariant.
GInv == IInv /\ Lives /\ Seen /\ \E L : Ledger(L)

-----------------------------------------------------------------------------
(* Sums of the ledger. *)

Put(L, p, x) == [q \in DOMAIN L \cup {p} |-> IF q = p THEN x ELSE L[q]]
Drop(L, p) == [q \in DOMAIN L \ {p} |-> L[q]]

WellTyped(L) == DOMAIN L \subseteq Pods /\ \A p \in DOMAIN L : L[p] \in Entries(p)

\* The share of an annotation is a natural number for every resource.
LEMMA ShareAmount ==
    ASSUME NEW p \in Pods, NEW ann \in Annotations(p), NEW c \in Cards, NEW k
    PROVE  Amount(Share(p, ann, c), k) \in Nat
BY ShareType DEF Amount

\* Each part of a ledger is a natural number.
LEMMA PartType ==
    ASSUME NEW L, WellTyped(L), NEW n, NEW c \in Cards, NEW k
    PROVE  \A p \in Pods : Part(L, n, c, k)[p] \in Nat
BY ShareAmount DEF WellTyped, Entries, Part

\* So is the sum of a ledger.
LEMMA TotalType ==
    ASSUME NEW L, WellTyped(L), NEW n, NEW c \in Cards, NEW k
    PROVE  Total(L, n, c, k) \in Nat
BY PartType, SumType, PodSharesAssumption DEF Total

\* An empty ledger owes nothing.
LEMMA NothingOwed ==
    ASSUME NEW L, DOMAIN L = {}, NEW n, NEW c, NEW k
    PROVE  Total(L, n, c, k) = 0
<1>1. PICK f : f = Part(L, n, c, k)
  OBVIOUS
<1>2. \A p \in Pods : f[p] = 0
  BY <1>1 DEF Part
<1>3. SumFunctionOnSet(f, Pods) = SumFunctionOnSet(f, {})
  BY <1>2, SumZeroOutside, PodSharesAssumption
<1>4. QED BY <1>1, <1>3, SumEmpty DEF Total

\* A ledger with one more entry adds up to its share more.
LEMMA TotalPut ==
    ASSUME NEW L, WellTyped(L), NEW p \in Pods, p \notin DOMAIN L, NEW x \in Entries(p),
           NEW n, NEW c \in Cards, NEW k
    PROVE  /\ WellTyped(Put(L, p, x))
           /\ Total(Put(L, p, x), n, c, k) =
                 Total(L, n, c, k) + (IF x.node = n THEN Amount(Share(p, x.ann, c), k) ELSE 0)
<1> DEFINE M == Put(L, p, x)
<1> DEFINE f == Part(L, n, c, k)
<1> DEFINE g == Part(M, n, c, k)
<1>1. WellTyped(M)
  BY DEF WellTyped, Put
<1>2. \A q \in Pods : f[q] \in Nat /\ g[q] \in Nat
  BY <1>1, PartType
<1>3. f[p] = 0
  BY DEF Part
<1>4. g[p] = IF x.node = n THEN Amount(Share(p, x.ann, c), k) ELSE 0
  BY DEF Part, Put
<1>5. \A q \in Pods \ {p} : f[q] = g[q]
  BY DEF Part, Put
<1>6. Total(L, n, c, k) = SumFunctionOnSet(f, Pods) /\ Total(M, n, c, k) = SumFunctionOnSet(g, Pods)
  BY DEF Total
<1>7. Total(L, n, c, k) \in Nat /\ Total(M, n, c, k) \in Nat
  BY <1>1, TotalType
<1> HIDE DEF M, f, g
<1>8. SumFunctionOnSet(f, Pods) + g[p] = SumFunctionOnSet(g, Pods) + f[p]
  BY <1>2, <1>5, SumDiffer, PodSharesAssumption
<1>9. Total(M, n, c, k) = Total(L, n, c, k) + g[p]
  BY <1>2, <1>3, <1>6, <1>7, <1>8
<1>10. QED BY <1>1, <1>4, <1>9 DEF M

\* A ledger without one of its entries adds up to its share less.
LEMMA TotalDrop ==
    ASSUME NEW L, WellTyped(L), NEW p \in DOMAIN L, NEW n, NEW c \in Cards, NEW k
    PROVE  /\ WellTyped(Drop(L, p))
           /\ Total(L, n, c, k) =
                 Total(Drop(L, p), n, c, k)
                   + (IF L[p].node = n THEN Amount(Share(p, L[p].ann, c), k) ELSE 0)
<1> DEFINE M == Drop(L, p)
<1>1. WellTyped(M) /\ p \in Pods /\ p \notin DOMAIN M /\ L[p] \in Entries(p)
  BY DEF WellTyped, Drop
<1>2. Put(M, p, L[p]) = [q \in DOMAIN L |-> L[q]]
  BY DEF Put, Drop
<1>3. DOMAIN Put(M, p, L[p]) = DOMAIN L /\ \A q \in DOMAIN L : Put(M, p, L[p])[q] = L[q]
  BY <1>2
<1>4. Part(Put(M, p, L[p]), n, c, k) = Part(L, n, c, k)
  BY <1>3 DEF Part
<1>5. Total(Put(M, p, L[p]), n, c, k) = Total(L, n, c, k)
  BY <1>4 DEF Total
<1>6. QED BY <1>1, <1>5, TotalPut

-----------------------------------------------------------------------------
(* Charging and discharging. *)

\* addRM adds, resource by resource.
LEMMA AddAmount ==
    ASSUME NEW rm \in ResourceMaps, NEW src, NEW k, \A j \in DOMAIN src : src[j] \in Nat
    PROVE  Amount(AddRM(rm, src), k) = Amount(rm, k) + Amount(src, k)
<1>1. DOMAIN AddRM(rm, src) = DOMAIN rm \cup DOMAIN src
  BY DEF AddRM
<1>2. CASE k \in DOMAIN rm \cup DOMAIN src
  BY <1>2 DEF AddRM, Amount
<1>3. CASE k \notin DOMAIN rm \cup DOMAIN src
  BY <1>1, <1>3 DEF Amount
<1>4. QED BY <1>2, <1>3

\* subtractRM takes away, where there is enough.
LEMMA SubtractAmount ==
    ASSUME NEW rm \in ResourceMaps, NEW src, NEW k, \A j \in DOMAIN src : src[j] \in Nat,
           DOMAIN src \subseteq DOMAIN rm, NEW m \in Nat,
           Amount(rm, k) = m + Amount(src, k)
    PROVE  Amount(SubtractRM(rm, src), k) = m
<1>1. DOMAIN SubtractRM(rm, src) = DOMAIN rm
  BY DEF SubtractRM
<1>2. Amount(src, k) \in Nat
  BY DEF Amount
<1>3. CASE k \in DOMAIN rm
  <2>1. SubtractRM(rm, src)[k] = LET left == rm[k] - Amount(src, k) IN IF left < 0 THEN 0 ELSE left
    BY <1>3 DEF SubtractRM
  <2>2. rm[k] = m + Amount(src, k)
    BY <1>3 DEF Amount
  <2>3. SubtractRM(rm, src)[k] = m
    BY <1>2, <2>1, <2>2
  <2>4. QED BY <1>1, <1>3, <2>3 DEF Amount
<1>4. CASE k \notin DOMAIN rm
  <2>1. Amount(rm, k) = 0 /\ Amount(src, k) = 0
    BY <1>4 DEF Amount
  <2>2. QED BY <1>1, <1>4, <2>1 DEF Amount
<1>5. QED BY <1>3, <1>4

\* The tiles of one card among tiles taken together, or taken away.
LEMMA TilesOfUnion ==
    ASSUME NEW A, NEW B, NEW c
    PROVE  /\ TilesOf(A \cup B, c) = TilesOf(A, c) \cup TilesOf(B, c)
           /\ TilesOf(A \ B, c) = TilesOf(A, c) \ TilesOf(B, c)
           /\ A \cap B = {} => TilesOf(A, c) \cap TilesOf(B, c) = {}
           /\ B \subseteq A => TilesOf(B, c) \subseteq TilesOf(A, c)
BY DEF TilesOf

\* They are finitely many.
LEMMA TilesFinite ==
    ASSUME NEW A, NEW c
    PROVE  IsFiniteSet(TilesOf(A, c)) /\ Cardinality(TilesOf(A, c)) \in Nat
<1>1. TilesOf(A, c) \in SUBSET Tiles
  BY DEF TilesOf
<1>2. IsFiniteSet(TilesOf(A, c))
  BY <1>1, FS_Subset, PodSharesAssumption
<1>3. QED BY <1>2, FS_CardinalityType

\* Their number, when other tiles are added.
LEMMA TilesAdded ==
    ASSUME NEW A, NEW B, NEW c, A \cap B = {}
    PROVE  Cardinality(TilesOf(A \cup B, c)) =
              Cardinality(TilesOf(A, c)) + Cardinality(TilesOf(B, c))
<1>1. TilesOf(A \cup B, c) = TilesOf(A, c) \cup TilesOf(B, c)
          /\ TilesOf(A, c) \cap TilesOf(B, c) = {}
  BY TilesOfUnion
<1>2. Cardinality(TilesOf(A, c) \cup TilesOf(B, c)) =
         Cardinality(TilesOf(A, c)) + Cardinality(TilesOf(B, c))
           - Cardinality(TilesOf(A, c) \cap TilesOf(B, c))
  BY TilesFinite, FS_Union
<1>3. Cardinality(TilesOf(A, c) \cap TilesOf(B, c)) = 0
  BY <1>1, FS_EmptySet
<1>4. \A a, b \in Nat : a + b - 0 = a + b
  OBVIOUS
<1>5. Cardinality(TilesOf(A, c)) \in Nat /\ Cardinality(TilesOf(B, c)) \in Nat
  BY TilesFinite
<1>6. QED BY <1>1, <1>2, <1>3, <1>4, <1>5

\* Their number, when some are taken away.
LEMMA TilesRemoved ==
    ASSUME NEW A, NEW B, NEW c, B \subseteq A
    PROVE  Cardinality(TilesOf(A, c)) =
              Cardinality(TilesOf(A \ B, c)) + Cardinality(TilesOf(B, c))
<1>1. A = (A \ B) \cup B /\ (A \ B) \cap B = {}
  OBVIOUS
<1>2. Cardinality(TilesOf((A \ B) \cup B, c)) =
              Cardinality(TilesOf(A \ B, c)) + Cardinality(TilesOf(B, c))
  BY <1>1, TilesAdded
<1>3. QED BY <1>1, <1>2

\* The books of a node that an adjustment is not about stay as they are.
LEMMA Adjusted ==
    ASSUME BooksType, NEW p \in Pods, NEW adj \in {"add", "remove"},
           NEW ann \in Annotations(p), NEW tiles \in TileSets, NEW n \in Nodes,
           CanAdjust(p, adj, ann, n), AdjustPodResources(p, adj, ann, tiles, n)
    PROVE  /\ \A m \in Nodes \ {n} : nodeStatuses'[m] = nodeStatuses[m]
                                   /\ nodeTileStatuses'[m] = nodeTileStatuses[m]
           /\ \A c \in Cards : nodeStatuses'[n][c] =
                 IF adj = "add" THEN AddRM(nodeStatuses[n][c], Share(p, ann, c))
                                ELSE SubtractRM(nodeStatuses[n][c], Share(p, ann, c))
           /\ nodeTileStatuses'[n] = IF adj = "add" THEN nodeTileStatuses[n] \cup tiles
                                                   ELSE nodeTileStatuses[n] \ tiles
           /\ annotatedPods' = IF adj = "add" THEN annotatedPods \cup {p}
                                             ELSE annotatedPods \ {p}
BY DEF AdjustPodResources, BooksType

\* The amount of a resource map is a natural number.
LEMMA AmountType ==
    ASSUME NEW rm \in ResourceMaps, NEW k PROVE Amount(rm, k) \in Nat
BY MaxIntAssumption DEF ResourceMaps, Amount

\* A bind that charges a pod enters it into the ledger.
LEMMA BooksCharged ==
    ASSUME BooksType, NEW L, Books(L), NEW p \in Pods, p \notin DOMAIN L, NEW x \in Entries(p),
           Fits(p, x.node, x.ann), x.tiles \cap nodeTileStatuses[x.node] = {},
           Granted(p, x.ann, x.tiles), CanAdjust(p, "add", x.ann, x.node),
           AdjustPodResources(p, "add", x.ann, x.tiles, x.node)
    PROVE  Books(Put(L, p, x))'
<1> DEFINE n == x.node
<1> DEFINE M == Put(L, p, x)
<1>0. n \in Nodes /\ x.ann \in Annotations(p) /\ x.tiles \in TileSets
  BY DEF Entries
<1>1. /\ \A m \in Nodes \ {n} : nodeStatuses'[m] = nodeStatuses[m]
                              /\ nodeTileStatuses'[m] = nodeTileStatuses[m]
      /\ \A c \in Cards : nodeStatuses'[n][c] = AddRM(nodeStatuses[n][c], Share(p, x.ann, c))
      /\ nodeTileStatuses'[n] = nodeTileStatuses[n] \cup x.tiles
      /\ annotatedPods' = annotatedPods \cup {p}
  BY <1>0, Adjusted
<1>2. WellTyped(L)
  BY DEF Books, LedgerType, BooksType, WellTyped
<1>3. LedgerType(M)'
  BY <1>1 DEF Books, LedgerType, Put
<1>4. DOMAIN M = DOMAIN L \cup {p} /\ M[p] = x /\ \A q \in DOMAIN L : M[q] = L[q]
  BY DEF Put
<1>5. ASSUME NEW m \in Nodes, NEW c \in Cards, NEW k
      PROVE  Amount(nodeStatuses'[m][c], k) =
                Amount(nodeStatuses[m][c], k) + (IF n = m THEN Amount(Share(p, x.ann, c), k) ELSE 0)
  <2>1. nodeStatuses[m][c] \in ResourceMaps
    BY DEF BooksType
  <2>2. \A j \in DOMAIN Share(p, x.ann, c) : Share(p, x.ann, c)[j] \in Nat
    BY <1>0, ShareType
  <2>3. CASE m = n
    BY <1>1, <2>1, <2>2, <2>3, AddAmount
  <2>4. CASE m # n
    <3>1. Amount(nodeStatuses[m][c], k) \in Nat
      BY <2>1, AmountType
    <3>2. QED BY <1>1, <2>4, <3>1
  <2>5. QED BY <2>3, <2>4
<1>6. AmountsExact(M)'
  <2> SUFFICES ASSUME NEW m \in Nodes, NEW c \in Cards, NEW k \in Resources
               PROVE  /\ Amount(nodeStatuses'[m][c], k) = Total(M, m, c, k)
                      /\ Amount(nodeStatuses'[m][c], k) <= Amount(Capacity, k)
    BY DEF AmountsExact
  <2>1. /\ Amount(nodeStatuses[m][c], k) = Total(L, m, c, k)
        /\ Amount(nodeStatuses[m][c], k) <= Amount(Capacity, k)
    BY DEF Books, AmountsExact
  <2>2. Total(M, m, c, k) =
           Total(L, m, c, k) + (IF n = m THEN Amount(Share(p, x.ann, c), k) ELSE 0)
    BY <1>2, TotalPut
  <2>3. Amount(nodeStatuses'[m][c], k) <= Amount(Capacity, k)
    <3>1. CASE n = m /\ k \in DOMAIN Share(p, x.ann, c)
      <4>1. Amount(nodeStatuses[n][c], k) + Share(p, x.ann, c)[k] <= Amount(Capacity, k)
        BY <3>1 DEF Fits
      <4>2. QED BY <1>5, <3>1, <4>1 DEF Amount
    <3>2. CASE ~(n = m /\ k \in DOMAIN Share(p, x.ann, c))
      <4>1. (IF n = m THEN Amount(Share(p, x.ann, c), k) ELSE 0) = 0
        BY <3>2 DEF Amount
      <4>2. nodeStatuses[m][c] \in ResourceMaps
        BY DEF BooksType
      <4>3. Amount(nodeStatuses[m][c], k) \in Nat
        BY <4>2, AmountType
      <4>4. \A a \in Nat : a + 0 = a
        OBVIOUS
      <4>5. QED BY <1>5, <2>1, <4>1, <4>3, <4>4
    <3>3. QED BY <3>1, <3>2
  <2>4. QED BY <1>5, <2>1, <2>2, <2>3
<1>7. KeysThere(M)'
  <2> SUFFICES ASSUME NEW q \in DOMAIN M, NEW c \in Cards
               PROVE  DOMAIN Share(q, M[q].ann, c) \subseteq DOMAIN nodeStatuses'[M[q].node][c]
    BY DEF KeysThere
  <2>1. DOMAIN nodeStatuses'[n][c] = DOMAIN nodeStatuses[n][c] \cup DOMAIN Share(p, x.ann, c)
    <3>1. nodeStatuses'[n][c] = AddRM(nodeStatuses[n][c], Share(p, x.ann, c))
      BY <1>1
    <3>2. \A rm, src : DOMAIN AddRM(rm, src) = DOMAIN rm \cup DOMAIN src
      BY DEF AddRM
    <3>3. QED BY <3>1, <3>2
  <2>2. CASE q = p
    BY <1>4, <2>1, <2>2
  <2>3. CASE q # p
    <3>1. DOMAIN Share(q, L[q].ann, c) \subseteq DOMAIN nodeStatuses[L[q].node][c]
              /\ L[q].node \in Nodes
      BY <1>2, <1>4, <2>3 DEF Books, KeysThere, WellTyped, Entries
    <3>2. M[q] = L[q]
      BY <1>4, <2>3
    <3>3. DOMAIN nodeStatuses[L[q].node][c] \subseteq DOMAIN nodeStatuses'[L[q].node][c]
      BY <1>1, <2>1, <3>1
    <3>4. QED BY <3>1, <3>2, <3>3
  <2>4. QED BY <2>2, <2>3
<1>8. TilesExact(M)'
  <2>1. ASSUME NEW m \in Nodes, NEW t \in Cards \X Tiles
        PROVE  t \in nodeTileStatuses'[m] <=> \E q \in DOMAIN M : M[q].node = m /\ t \in M[q].tiles
    <3>1. t \in nodeTileStatuses[m] <=> \E q \in DOMAIN L : L[q].node = m /\ t \in L[q].tiles
      BY DEF Books, TilesExact
    <3>2. t \in nodeTileStatuses'[m] <=> t \in nodeTileStatuses[m] \/ (n = m /\ t \in x.tiles)
      BY <1>0, <1>1
    <3>3. (\E q \in DOMAIN M : M[q].node = m /\ t \in M[q].tiles) <=>
             (n = m /\ t \in x.tiles) \/ \E q \in DOMAIN L : L[q].node = m /\ t \in L[q].tiles
      BY <1>4
    <3>4. QED BY <3>1, <3>2, <3>3
  <2>2. ASSUME NEW q \in DOMAIN L, L[q].node = n PROVE L[q].tiles \cap x.tiles = {}
    <3>1. L[q].tiles \subseteq Cards \X Tiles
      BY <1>2 DEF WellTyped, Entries, TileSets
    <3>2. L[q].tiles \subseteq nodeTileStatuses[n]
      BY <1>0, <2>2, <3>1 DEF Books, TilesExact
    <3>3. QED BY <3>2
  <2>3. ASSUME NEW q \in DOMAIN M, NEW r \in DOMAIN M, q # r, M[q].node = M[r].node
        PROVE  M[q].tiles \cap M[r].tiles = {}
    <3>1. CASE q = p
      BY <1>4, <2>2, <2>3, <3>1
    <3>2. CASE r = p
      BY <1>4, <2>2, <2>3, <3>2
    <3>3. CASE q # p /\ r # p
      <4>1. q \in DOMAIN L /\ r \in DOMAIN L /\ M[q] = L[q] /\ M[r] = L[r]
        BY <1>4, <3>3
      <4>2. QED BY <2>3, <4>1 DEF Books, TilesExact
    <3>4. QED BY <3>1, <3>2, <3>3
  <2>4. ASSUME NEW q \in DOMAIN M PROVE Granted(q, M[q].ann, M[q].tiles)
    BY <1>4 DEF Books, TilesExact
  <2> HIDE DEF M
  <2>5. QED BY <2>1, <2>3, <2>4 DEF TilesExact
<1>9. TilesCounted'
  <2> SUFFICES ASSUME NEW m \in Nodes, NEW c \in Cards
               PROVE  Cardinality(TilesOf(nodeTileStatuses'[m], c)) =
                          Amount(nodeStatuses'[m][c], TileRes)
    BY DEF TilesCounted, TilesOf
  <2>1. Cardinality(TilesOf(nodeTileStatuses[m], c)) = Amount(nodeStatuses[m][c], TileRes)
    BY DEF Books, TilesCounted
  <2>2. CASE m = n
    <3>1. Cardinality(TilesOf(x.tiles, c)) = Amount(Share(p, x.ann, c), TileRes)
      BY DEF Granted
    <3>2. nodeTileStatuses[n] \cap x.tiles = {}
      OBVIOUS
    <3>3. Cardinality(TilesOf(nodeTileStatuses[n] \cup x.tiles, c)) =
             Cardinality(TilesOf(nodeTileStatuses[n], c)) + Cardinality(TilesOf(x.tiles, c))
      BY <3>2, TilesAdded
    <3>4. nodeTileStatuses'[m] = nodeTileStatuses[n] \cup x.tiles
      BY <1>1, <2>2
    <3>5. Amount(nodeStatuses'[m][c], TileRes) =
             Amount(nodeStatuses[m][c], TileRes) + Amount(Share(p, x.ann, c), TileRes)
      BY <1>5, <2>2
    <3>6. QED BY <2>1, <2>2, <3>1, <3>3, <3>4, <3>5
  <2>3. CASE m # n
    BY <1>1, <2>1, <2>3
  <2>4. QED BY <2>2, <2>3
<1>10. QED BY <1>3, <1>6, <1>7, <1>8, <1>9 DEF Books

\* A discharge of what a pod was charged for takes it out of the ledger, and frees
\* resources and tiles.
LEMMA BooksDischarged ==
    ASSUME BooksType, NEW L, Books(L), NEW p \in DOMAIN L,
           AdjustPodResources(p, "remove", L[p].ann, L[p].tiles, L[p].node)
    PROVE  /\ Books(Drop(L, p))'
           /\ \A m \in Nodes, c \in Cards, k \in Resources :
                 Amount(nodeStatuses'[m][c], k) <= Amount(nodeStatuses[m][c], k)
           /\ \A m \in Nodes : nodeTileStatuses'[m] \subseteq nodeTileStatuses[m]
<1> DEFINE x == L[p]
<1> DEFINE n == x.node
<1> DEFINE M == Drop(L, p)
<1>2. WellTyped(L)
  BY DEF Books, LedgerType, BooksType, WellTyped
<1>0. p \in Pods /\ n \in Nodes /\ x.ann \in Annotations(p) /\ x.tiles \in TileSets
  BY <1>2 DEF Entries, WellTyped
<1>a. \A c \in Cards : \A k \in DOMAIN Share(p, x.ann, c) : Share(p, x.ann, c)[k] \in Nat
  BY <1>0, ShareType
<1>b. \A c \in Cards : DOMAIN Share(p, x.ann, c) \subseteq DOMAIN nodeStatuses[n][c]
  BY DEF Books, KeysThere
<1>c. CanAdjust(p, "remove", x.ann, n)
  <2>1. Len(x.ann) = Len(Requests[p]) /\ n # NoNode
    BY <1>0, AnnotationLen, GasCacheAssumption
  <2>2. ASSUME NEW c \in Cards PROVE CanSubtractRM(nodeStatuses[n][c], Share(p, x.ann, c))
    BY <1>a, <1>b DEF CanSubtractRM, CanSubtract
  <2>3. QED BY <2>1, <2>2 DEF CanAdjust
<1>1. /\ \A m \in Nodes \ {n} : nodeStatuses'[m] = nodeStatuses[m]
                              /\ nodeTileStatuses'[m] = nodeTileStatuses[m]
      /\ \A c \in Cards : nodeStatuses'[n][c] = SubtractRM(nodeStatuses[n][c], Share(p, x.ann, c))
      /\ nodeTileStatuses'[n] = nodeTileStatuses[n] \ x.tiles
      /\ annotatedPods' = annotatedPods \ {p}
  BY <1>0, <1>c, Adjusted
<1>3. LedgerType(M)'
  BY <1>1 DEF Books, LedgerType, Drop
<1>4. /\ DOMAIN M = DOMAIN L \ {p} /\ \A q \in DOMAIN M : M[q] = L[q]
      /\ WellTyped(M)
  BY <1>2 DEF Drop, WellTyped
<1>5. ASSUME NEW m \in Nodes, NEW c \in Cards, NEW k \in Resources
      PROVE  /\ Amount(nodeStatuses'[m][c], k) = Total(M, m, c, k)
             /\ Amount(nodeStatuses[m][c], k) = Total(M, m, c, k)
                   + (IF n = m THEN Amount(Share(p, x.ann, c), k) ELSE 0)
             /\ Total(M, m, c, k) \in Nat
  <2>1. nodeStatuses[m][c] \in ResourceMaps
    BY DEF BooksType
  <2>2. Amount(nodeStatuses[m][c], k) = Total(L, m, c, k)
    BY DEF Books, AmountsExact
  <2>3. Total(L, m, c, k) = Total(M, m, c, k) + (IF n = m THEN Amount(Share(p, x.ann, c), k) ELSE 0)
    BY <1>2, TotalDrop
  <2>4. Total(M, m, c, k) \in Nat
    BY <1>4, TotalType
  <2>5. CASE m = n
    <3>1. Amount(nodeStatuses[m][c], k) = Total(M, m, c, k) + Amount(Share(p, x.ann, c), k)
      BY <2>2, <2>3, <2>5
    <3>2. Amount(SubtractRM(nodeStatuses[m][c], Share(p, x.ann, c)), k) = Total(M, m, c, k)
      <4> HIDE DEF x, M
      <4> QED BY <1>a, <1>b, <2>1, <2>4, <2>5, <3>1, SubtractAmount
    <3>3. nodeStatuses'[m][c] = SubtractRM(nodeStatuses[m][c], Share(p, x.ann, c))
      BY <1>1, <2>5
    <3>4. QED BY <2>4, <2>5, <3>1, <3>2, <3>3
  <2>6. CASE m # n
    <3>1. nodeStatuses'[m] = nodeStatuses[m]
      BY <1>1, <2>6
    <3>2. Total(L, m, c, k) = Total(M, m, c, k)
      BY <2>3, <2>4, <2>6
    <3>3. QED BY <2>2, <2>3, <2>4, <3>1, <3>2
  <2>7. QED BY <2>5, <2>6
<1>6. ASSUME NEW m \in Nodes, NEW c \in Cards, NEW k \in Resources
      PROVE  Amount(nodeStatuses'[m][c], k) <= Amount(nodeStatuses[m][c], k)
  <2>1. (IF n = m THEN Amount(Share(p, x.ann, c), k) ELSE 0) \in Nat
    BY <1>0, ShareAmount
  <2>2. \A a, b \in Nat : a <= a + b
    OBVIOUS
  <2>3. QED BY <1>5, <2>1, <2>2
<1>7. AmountsExact(M)'
  <2> SUFFICES ASSUME NEW m \in Nodes, NEW c \in Cards, NEW k \in Resources
               PROVE  /\ Amount(nodeStatuses'[m][c], k) = Total(M, m, c, k)
                      /\ Amount(nodeStatuses'[m][c], k) <= Amount(Capacity, k)
    BY DEF AmountsExact
  <2>1. Amount(nodeStatuses[m][c], k) <= Amount(Capacity, k)
    BY DEF Books, AmountsExact
  <2>2. nodeStatuses[m][c] \in ResourceMaps /\ Capacity \in ResourceMaps
    BY GasCacheAssumption DEF BooksType
  <2>3. Amount(nodeStatuses[m][c], k) \in Nat /\ Amount(Capacity, k) \in Nat
    BY <2>2, AmountType
  <2>4. \A a, b, d \in Nat : a <= b /\ b <= d => a <= d
    OBVIOUS
  <2>5. QED BY <1>5, <1>6, <2>1, <2>3, <2>4
<1>8. KeysThere(M)'
  <2> SUFFICES ASSUME NEW q \in DOMAIN M, NEW c \in Cards
               PROVE  DOMAIN Share(q, M[q].ann, c) \subseteq DOMAIN nodeStatuses'[M[q].node][c]
    BY DEF KeysThere
  <2>1. /\ DOMAIN Share(q, L[q].ann, c) \subseteq DOMAIN nodeStatuses[L[q].node][c]
        /\ L[q].node \in Nodes /\ M[q] = L[q]
    BY <1>2, <1>4 DEF Books, KeysThere, WellTyped, Entries
  <2>2. DOMAIN nodeStatuses'[L[q].node][c] = DOMAIN nodeStatuses[L[q].node][c]
    <3>1. \A rm, src : DOMAIN SubtractRM(rm, src) = DOMAIN rm
      BY DEF SubtractRM
    <3>2. CASE L[q].node = n
      <4>1. nodeStatuses'[n][c] = SubtractRM(nodeStatuses[n][c], Share(p, x.ann, c))
        BY <1>1
      <4>2. QED BY <3>1, <3>2, <4>1
    <3>3. CASE L[q].node # n
      BY <1>1, <2>1, <3>3
    <3>4. QED BY <3>2, <3>3
  <2>3. QED BY <2>1, <2>2
<1>9. TilesExact(M)'
  <2>1. ASSUME NEW q \in DOMAIN L, q # p, L[q].node = n PROVE L[q].tiles \cap x.tiles = {}
    BY <2>1 DEF Books, TilesExact
  <2>2. ASSUME NEW m \in Nodes, NEW t \in Cards \X Tiles
        PROVE  t \in nodeTileStatuses'[m] <=> \E q \in DOMAIN M : M[q].node = m /\ t \in M[q].tiles
    <3>1. t \in nodeTileStatuses[m] <=> \E q \in DOMAIN L : L[q].node = m /\ t \in L[q].tiles
      BY DEF Books, TilesExact
    <3>2. t \in nodeTileStatuses'[m] <=> t \in nodeTileStatuses[m] /\ ~(n = m /\ t \in x.tiles)
      BY <1>0, <1>1
    <3>3. (\E q \in DOMAIN M : M[q].node = m /\ t \in M[q].tiles) <=>
             \E q \in DOMAIN L : q # p /\ L[q].node = m /\ t \in L[q].tiles
      BY <1>4
    <3>4. (\E q \in DOMAIN L : q # p /\ L[q].node = m /\ t \in L[q].tiles) <=>
             /\ \E q \in DOMAIN L : L[q].node = m /\ t \in L[q].tiles
             /\ ~(n = m /\ t \in x.tiles)
      BY <2>1
    <3>5. QED BY <3>1, <3>2, <3>3, <3>4
  <2>3. ASSUME NEW q \in DOMAIN M, NEW r \in DOMAIN M, q # r, M[q].node = M[r].node
        PROVE  M[q].tiles \cap M[r].tiles = {}
    <3>1. q \in DOMAIN L /\ r \in DOMAIN L /\ M[q] = L[q] /\ M[r] = L[r]
      BY <1>4
    <3>2. QED BY <2>3, <3>1 DEF Books, TilesExact
  <2>4. ASSUME NEW q \in DOMAIN M PROVE Granted(q, M[q].ann, M[q].tiles)
    BY <1>4 DEF Books, TilesExact
  <2> HIDE DEF M
  <2>5. QED BY <2>2, <2>3, <2>4 DEF TilesExact
<1>10. TileRes \in Resources \/ \A rm \in ResourceMaps : Amount(rm, TileRes) = 0
  BY DEF ResourceMaps, Amount
<1>11. TilesCounted'
  <2> SUFFICES ASSUME NEW m \in Nodes, NEW c \in Cards
               PROVE  Cardinality(TilesOf(nodeTileStatuses'[m], c)) =
                          Amount(nodeStatuses'[m][c], TileRes)
    BY DEF TilesCounted, TilesOf
  <2>1. Cardinality(TilesOf(nodeTileStatuses[m], c)) = Amount(nodeStatuses[m][c], TileRes)
    BY DEF Books, TilesCounted
  <2>2. CASE m = n
    <3>1. Cardinality(TilesOf(x.tiles, c)) = Amount(Share(p, x.ann, c), TileRes)
      BY DEF Granted, Books, TilesExact
    <3>2. x.tiles \subseteq nodeTileStatuses[n]
      BY <1>0 DEF Books, TilesExact, TileSets
    <3>3. Cardinality(TilesOf(nodeTileStatuses[n], c)) =
             Cardinality(TilesOf(nodeTileStatuses[n] \ x.tiles, c)) + Cardinality(TilesOf(x.tiles,
                 c))
      BY <3>2, TilesRemoved
    <3>4. nodeTileStatuses'[m] = nodeTileStatuses[n] \ x.tiles
      BY <1>1, <2>2
    <3>5. Amount(nodeStatuses[m][c], TileRes) =
             Amount(nodeStatuses'[m][c], TileRes) + Amount(Share(p, x.ann, c), TileRes)
      <4>1. nodeStatuses[m][c] \in ResourceMaps
        BY DEF BooksType
      <4>2. nodeStatuses'[m][c] = SubtractRM(nodeStatuses[m][c], Share(p, x.ann, c))
        BY <1>1, <2>2
      <4>3. nodeStatuses'[m][c] \in ResourceMaps
        BY <1>a, <4>1, <4>2, SubtractRMType
      <4>4. CASE TileRes \in Resources
        BY <1>5, <2>2, <4>4
      <4>5. CASE \A rm \in ResourceMaps : Amount(rm, TileRes) = 0
        <5>1. Amount(Share(p, x.ann, c), TileRes) = 0
          <6>1. Amount(Share(p, x.ann, c), TileRes) \in Nat
            BY <1>0, ShareAmount
          <6>2. TilesOf(x.tiles, c) \subseteq TilesOf(nodeTileStatuses[n], c)
            BY <3>2 DEF TilesOf
          <6>3. Cardinality(TilesOf(x.tiles, c)) <= Cardinality(TilesOf(nodeTileStatuses[n], c))
            BY <6>2, TilesFinite, FS_Subset
          <6>4. Cardinality(TilesOf(nodeTileStatuses[n], c)) = 0
            BY <2>1, <2>2, <4>1, <4>5
          <6>5. QED BY <3>1, <6>1, <6>3, <6>4
        <5>2. QED BY <4>1, <4>3, <4>5, <5>1
      <4>6. QED BY <1>10, <4>4, <4>5
    <3>6. /\ Cardinality(TilesOf(nodeTileStatuses[n] \ x.tiles, c)) \in Nat
          /\ Amount(Share(p, x.ann, c), TileRes) \in Nat
      BY <1>0, TilesFinite, ShareAmount
    <3>7. Amount(nodeStatuses'[m][c], TileRes) \in Nat
      <4>1. nodeStatuses[m][c] \in ResourceMaps
        BY DEF BooksType
      <4>2. nodeStatuses'[m][c] = SubtractRM(nodeStatuses[m][c], Share(p, x.ann, c))
        BY <1>1, <2>2
      <4>3. nodeStatuses'[m][c] \in ResourceMaps
        BY <1>a, <4>1, <4>2, SubtractRMType
      <4>4. QED BY <4>3, AmountType
    <3>8. \A a, b, d \in Nat : a + d = b + d => a = b
      OBVIOUS
    <3>9. QED BY <2>1, <2>2, <3>1, <3>3, <3>4, <3>5, <3>6, <3>7, <3>8
  <2>3. CASE m # n
    BY <1>1, <2>1, <2>3
  <2>4. QED BY <2>2, <2>3
<1>12. \A m \in Nodes : nodeTileStatuses'[m] \subseteq nodeTileStatuses[m]
  BY <1>1
<1>13. QED BY <1>3, <1>6, <1>7, <1>8, <1>9, <1>11, <1>12 DEF Books

-----------------------------------------------------------------------------
(* Tiles: createTileAnnotation gives all the tiles that are asked for. *)

\* What the containers on a card need of a resource, one by one.
Needs(p, ann, c, k) == [i \in ContainersOn(ann, c) |-> Amount(PerCard(p, ann, i), k)]

\* A share is the sum of the needs.
LEMMA ShareSum ==
    ASSUME NEW p \in Pods, NEW ann \in Annotations(p), NEW c \in Cards, NEW k
    PROVE  /\ \A i \in ContainersOn(ann, c) : Needs(p, ann, c, k)[i] \in Nat
           /\ Amount(Share(p, ann, c), k) =
                 SumFunctionOnSet(Needs(p, ann, c, k), ContainersOn(ann, c))
<1> DEFINE on == ContainersOn(ann, c)
<1> DEFINE f == Needs(p, ann, c, k)
<1>1. \A i \in on : f[i] \in Nat
  BY PerCardType DEF Needs
<1>2. IsFiniteSet(on)
  BY ContainersFinite
<1>3. DOMAIN Share(p, ann, c) = UNION {DOMAIN Requests[p][i] : i \in on}
  BY DEF Share
<1>4. CASE k \in DOMAIN Share(p, ann, c)
  <2>1. \A j \in DOMAIN Share(p, ann, c) :
           Share(p, ann, c)[j] = SumFunctionOnSet([i \in on |-> Amount(PerCard(p, ann, i), j)], on)
    BY DEF Share
  <2>2. f = [i \in on |-> Amount(PerCard(p, ann, i), k)]
    BY DEF Needs
  <2>3. Amount(Share(p, ann, c), k) = Share(p, ann, c)[k]
    BY <1>4 DEF Amount
  <2> HIDE DEF f, on
  <2>4. QED BY <1>1, <1>4, <2>1, <2>2, <2>3 DEF f, on
<1>5. CASE k \notin DOMAIN Share(p, ann, c)
  <2>1. \A i \in on : f[i] = 0
    BY <1>3, <1>5 DEF Needs, PerCard, Divide, Amount
  <2>2. {} \in SUBSET on /\ \A i \in on \ {} : f[i] = 0
    BY <2>1
  <2> HIDE DEF f, on
  <2>3. SumFunctionOnSet(f, on) = SumFunctionOnSet(f, {})
    BY <1>1, <1>2, <2>2, SumZeroOutside
  <2>4. QED BY <1>1, <1>5, <2>3, SumEmpty DEF Amount, f, on
<1>6. QED BY <1>1, <1>4, <1>5

TakenBody(p, ann, c, free, g, i) ==
    IF i = 0 THEN 0
    ELSE IF c \in ann[i] /\ g[i - 1] + TileNeed(p, ann, i) <= free
         THEN g[i - 1] + TileNeed(p, ann, i)
         ELSE g[i - 1]

TakenRec(p, ann, c, free, g) == g = [i \in 0..Len(ann) |-> TakenBody(p, ann, c, free, g, i)]

\* The tiles taken are the value of a solution of the recursion equation.
LEMMA TakenUnfold ==
    ASSUME NEW p, NEW ann, NEW c, NEW free
    PROVE  TilesTaken(p, ann, c, free) = (CHOOSE g : TakenRec(p, ann, c, free, g))[Len(ann)]
BY DEF TilesTaken, TakenRec, TakenBody

\* The recursion equation at one container.
LEMMA TakenAt ==
    ASSUME NEW p, NEW ann, NEW c, NEW free, NEW g, TakenRec(p, ann, c, free, g),
           NEW i \in 0..Len(ann)
    PROVE  g[i] = TakenBody(p, ann, c, free, g, i)
<1> DEFINE h == [j \in 0..Len(ann) |-> TakenBody(p, ann, c, free, g, j)]
<1>1. g = h
  BY DEF TakenRec
<1>2. h[i] = TakenBody(p, ann, c, free, g, i)
  OBVIOUS
<1> HIDE DEF h
<1>3. QED BY <1>1, <1>2

\* The recursion equation has at most one solution.
LEMMA TakenUnique ==
    ASSUME NEW p, NEW ann, Len(ann) \in Nat, NEW c, NEW free, NEW g, NEW h,
           TakenRec(p, ann, c, free, g), TakenRec(p, ann, c, free, h)
    PROVE  g[Len(ann)] = h[Len(ann)]
<1> DEFINE Bad == {i \in 0..Len(ann) : g[i] # h[i]}
<1> SUFFICES ASSUME Bad # {} PROVE FALSE
  OBVIOUS
<1>0. Bad \in SUBSET Nat
  OBVIOUS
<1>1. PICK i \in Bad : \A j \in Bad : i <= j
  <2> HIDE DEF Bad
  <2> QED BY <1>0, LeastNat
<1>2. i \in 0..Len(ann) /\ g[i] # h[i]
  BY <1>1
<1>3. g[i] = TakenBody(p, ann, c, free, g, i) /\ h[i] = TakenBody(p, ann, c, free, h, i)
  BY <1>2, TakenAt
<1>4. i # 0
  BY <1>2, <1>3 DEF TakenBody
<1>5. i - 1 \in 0..Len(ann) /\ ~(i <= i - 1)
  BY <1>2, <1>4
<1>6. g[i - 1] = h[i - 1]
  BY <1>1, <1>5
<1>7. QED BY <1>2, <1>3, <1>6 DEF TakenBody

\* Where as many tiles are free as the share of a pod needs, it gets them all.
LEMMA AllTaken ==
    ASSUME NEW p \in Pods, NEW ann \in Annotations(p), NEW c \in Cards, NEW free \in Nat,
           Amount(Share(p, ann, c), TileRes) <= free
    PROVE  TilesTaken(p, ann, c, free) = Amount(Share(p, ann, c), TileRes)
<1> DEFINE on == ContainersOn(ann, c)
<1> DEFINE f == Needs(p, ann, c, TileRes)
<1> DEFINE upTo(i) == {j \in on : j <= i}
<1> DEFINE g == [i \in 0..Len(ann) |-> SumFunctionOnSet(f, upTo(i))]
<1>1. /\ \A i \in on : f[i] \in Nat /\ f[i] = TileNeed(p, ann, i)
      /\ Amount(Share(p, ann, c), TileRes) = SumFunctionOnSet(f, on)
  BY ShareSum DEF Needs, TileNeed
<1>2. IsFiniteSet(on) /\ on \subseteq 1..Len(ann) /\ Len(ann) \in Nat /\ DOMAIN ann = 1..Len(ann)
  BY ContainersFinite, AnnotationLen, PodSharesAssumption DEF ContainersOn
<1>3. \A i \in 1..Len(ann) : i \in on <=> c \in ann[i]
  BY <1>2 DEF ContainersOn
<1>4. \A T \in SUBSET on :
         IsFiniteSet(T) /\ SumFunctionOnSet(f, T) \in Nat /\ SumFunctionOnSet(f, T) <= free
  <2> TAKE T \in SUBSET on
  <2>1. IsFiniteSet(T)
    BY <1>2, FS_Subset
  <2> HIDE DEF on, f
  <2>2. SumFunctionOnSet(f, T) \in Nat /\ SumFunctionOnSet(f, on) \in Nat
    BY <1>1, <1>2, <2>1, SumType
  <2>3. SumFunctionOnSet(f, T) <= SumFunctionOnSet(f, on)
    BY <1>1, <1>2, SumSubset
  <2>4. QED BY <1>1, <2>1, <2>2, <2>3
<1>5. ASSUME NEW i \in 0..Len(ann) PROVE g[i] = TakenBody(p, ann, c, free, g, i)
  <2>1. CASE i = 0
    <3>1. upTo(0) = {}
      BY <1>2
    <3>2. g[i] = SumFunctionOnSet(f, upTo(0))
      BY <2>1
    <3> HIDE DEF g, upTo
    <3>3. QED BY <2>1, <3>1, <3>2, SumEmpty DEF TakenBody
  <2>2. CASE i # 0
    <3>1. i \in 1..Len(ann) /\ i - 1 \in 0..Len(ann)
      BY <1>2, <2>2
    <3>2. g[i] = SumFunctionOnSet(f, upTo(i)) /\ g[i - 1] = SumFunctionOnSet(f, upTo(i - 1))
      BY <3>1
    <3>3. CASE c \in ann[i]
      <4>1. i \in upTo(i) /\ upTo(i) \ {i} = upTo(i - 1) /\ upTo(i) \in SUBSET on
        BY <1>2, <1>3, <3>1, <3>3
      <4> HIDE DEF upTo, on, f, g
      <4>2. SumFunctionOnSet(f, upTo(i)) = f[i] + SumFunctionOnSet(f, upTo(i - 1))
        BY <1>1, <1>4, <4>1, SumRemove
      <4>3. f[i] \in Nat /\ f[i] = TileNeed(p, ann, i)
        BY <1>1, <4>1
      <4>4. upTo(i - 1) \in SUBSET on
        BY <4>1
      <4>5. g[i] = g[i - 1] + TileNeed(p, ann, i) /\ g[i] <= free
        BY <1>4, <3>2, <4>1, <4>2, <4>3, <4>4
      <4>6. QED BY <2>2, <3>3, <4>5 DEF TakenBody
    <3>4. CASE c \notin ann[i]
      <4>1. upTo(i) = upTo(i - 1)
        BY <1>2, <1>3, <3>1, <3>4
      <4> HIDE DEF upTo, on, f, g
      <4>2. QED BY <2>2, <3>2, <3>4, <4>1 DEF TakenBody
    <3>5. QED BY <3>3, <3>4
  <2>3. QED BY <2>1, <2>2
<1>6. g = [i \in 0..Len(ann) |-> g[i]]
  OBVIOUS
<1>7. g[Len(ann)] = SumFunctionOnSet(f, on)
  <2>1. upTo(Len(ann)) = on
    BY <1>2
  <2>2. Len(ann) \in 0..Len(ann)
    BY <1>2
  <2>3. QED BY <2>1, <2>2
<1> HIDE DEF g
<1>8. TakenRec(p, ann, c, free, g)
  BY <1>5, <1>6 DEF TakenRec
<1> DEFINE h == CHOOSE x : TakenRec(p, ann, c, free, x)
<1>9. TakenRec(p, ann, c, free, h)
  BY <1>8
<1>10. TilesTaken(p, ann, c, free) = h[Len(ann)]
  BY TakenUnfold
<1> HIDE DEF h
<1>11. h[Len(ann)] = g[Len(ann)]
  BY <1>2, <1>8, <1>9, TakenUnique
<1>12. QED BY <1>1, <1>7, <1>10, <1>11

\* Tiles that createTileAnnotation chooses for cards that passed the check for space:
\* as many as are asked for, and all of them free.
LEMMA TilesChosen ==
    ASSUME BooksType, TilesCounted, NEW p \in Pods, NEW n \in Nodes, NEW ann \in Annotations(p),
           Fits(p, n, ann), NEW T \in TileChoices(p, n, ann)
    PROVE  Granted(p, ann, T) /\ T \cap nodeTileStatuses[n] = {}
<1>1. T \in TileSets
  BY DEF TileChoices
<1>2. ASSUME NEW c \in Cards
      PROVE  /\ TilesOf(T, c) \subseteq FreeTiles(n, c)
             /\ Cardinality(TilesOf(T, c)) = TilesTaken(p, ann, c, Cardinality(FreeTiles(n, c)))
  BY DEF TileChoices
<1>3. ASSUME NEW c \in Cards
      PROVE  Cardinality(TilesOf(T, c)) = Amount(Share(p, ann, c), TileRes)
  <2> DEFINE used == TilesOf(nodeTileStatuses[n], c)
  <2>1. FreeTiles(n, c) = Tiles \ used /\ used \subseteq Tiles
    BY DEF FreeTiles, TilesOf
  <2>2. Cardinality(Tiles \ used) = Cardinality(Tiles) - Cardinality(Tiles \cap used)
    BY PodSharesAssumption, FS_Difference
  <2>3. Tiles \cap used = used
    BY <2>1
  <2>4. Cardinality(used) = Amount(nodeStatuses[n][c], TileRes)
    BY DEF TilesCounted
  <2>5. IsFiniteSet(Tiles \ used)
    BY PodSharesAssumption, FS_Difference
  <2>6. Cardinality(FreeTiles(n, c)) \in Nat
    BY <2>1, <2>5, FS_CardinalityType
  <2>7. nodeStatuses[n][c] \in ResourceMaps
    BY DEF BooksType
  <2>8. Amount(nodeStatuses[n][c], TileRes) \in Nat /\ Amount(Capacity, TileRes) \in Nat
    BY <2>7, AmountType, GasCacheAssumption
  <2>9. Amount(Share(p, ann, c), TileRes) \in Nat
    BY ShareAmount
  <2>10. Cardinality(FreeTiles(n, c)) =
             Amount(Capacity, TileRes) - Amount(nodeStatuses[n][c], TileRes)
    BY <2>1, <2>2, <2>3, <2>4, GasCacheAssumption
  <2>11. Amount(Share(p, ann, c), TileRes) <= Cardinality(FreeTiles(n, c))
    <3>1. CASE TileRes \in DOMAIN Share(p, ann, c)
      <4>1. Amount(nodeStatuses[n][c], TileRes) + Share(p, ann, c)[TileRes] <= Amount(Capacity,
                TileRes)
        BY <3>1 DEF Fits
      <4>2. Share(p, ann, c)[TileRes] = Amount(Share(p, ann, c), TileRes)
        BY <3>1 DEF Amount
      <4>3. \A a, b, d \in Nat : a + b <= d => b <= d - a
        OBVIOUS
      <4>4. QED BY <2>8, <2>9, <2>10, <4>1, <4>2, <4>3
    <3>2. CASE TileRes \notin DOMAIN Share(p, ann, c)
      <4>1. Amount(Share(p, ann, c), TileRes) = 0
        BY <3>2 DEF Amount
      <4>2. QED BY <2>6, <4>1
    <3>3. QED BY <3>1, <3>2
  <2>12. QED BY <1>2, <2>6, <2>11, AllTaken
<1>4. ASSUME NEW t \in T PROVE t \notin nodeTileStatuses[n]
  <2>1. PICK c \in Cards, i \in Tiles : t = <<c, i>>
    BY <1>1 DEF TileSets
  <2>2. i \in TilesOf(T, c)
    BY <2>1 DEF TilesOf
  <2>3. i \in FreeTiles(n, c)
    BY <1>2, <2>2
  <2>4. QED BY <2>1, <2>3 DEF FreeTiles
<1>5. QED BY <1>3, <1>4 DEF Granted

\* No tiles of any card are no tiles.
LEMMA NoTilesOf ==
    ASSUME NEW T \in TileSets, \A c \in Cards : Cardinality(TilesOf(T, c)) = 0
    PROVE  T = {}
<1> SUFFICES ASSUME NEW t \in T PROVE FALSE
  OBVIOUS
<1>1. PICK c \in Cards, i \in Tiles : t = <<c, i>>
  BY DEF TileSets
<1>2. i \in TilesOf(T, c)
  BY <1>1 DEF TilesOf
<1>3. TilesOf(T, c) = {}
  BY <1>1, TilesFinite, FS_EmptySet
<1>4. QED BY <1>2, <1>3

\* The share of a container that is the only one of its pod.
LEMMA OnlyContainer ==
    ASSUME NEW p \in Pods, NEW ann \in Annotations(p), Len(ann) = 1, NEW c \in Cards, NEW k
    PROVE  Amount(Share(p, ann, c), k) = IF c \in ann[1] THEN Amount(PerCard(p, ann, 1), k) ELSE 0
<1> DEFINE on == ContainersOn(ann, c)
<1> DEFINE f == Needs(p, ann, c, k)
<1>1. DOMAIN ann = 1..1
  BY AnnotationLen
<1>2. /\ \A i \in on : f[i] \in Nat
      /\ Amount(Share(p, ann, c), k) = SumFunctionOnSet(f, on)
  BY ShareSum
<1>3. CASE c \in ann[1]
  <2>1. on = {1}
    BY <1>1, <1>3 DEF ContainersOn
  <2>2. f[1] = Amount(PerCard(p, ann, 1), k) /\ f[1] \in Nat
    BY <1>2, <2>1 DEF Needs
  <2>3. {1} \ {1} = {} /\ IsFiniteSet({1}) /\ 1 \in {1}
    BY FS_Singleton
  <2> HIDE DEF f, on
  <2>4. SumFunctionOnSet(f, {1}) = f[1] + SumFunctionOnSet(f, {1} \ {1})
    BY <2>2, <2>3, SumRemove
  <2>5. SumFunctionOnSet(f, {1} \ {1}) = 0
    BY <2>3, SumEmpty
  <2>6. QED BY <1>2, <1>3, <2>1, <2>2, <2>4, <2>5
<1>4. CASE c \notin ann[1]
  <2>1. on = {}
    BY <1>1, <1>4 DEF ContainersOn
  <2>2. QED BY <1>2, <1>4, <2>1, SumEmpty
<1>5. QED BY <1>3, <1>4

\* The tile annotation of a pod is the one of its last patch, although a patch without
\* tiles leaves an earlier one in place: where that happens no patch had tiles.
LEMMA TilesPatched ==
    ASSUME NEW p \in Pods, NEW r, r.pod = p, r.ann \in Annotations(p), Granted(p, r.ann, r.tiles),
           NEW old \in TileSets, NEW ann \in PodAnnotations(p),
           IF ann = NoAnnotation THEN old = {} ELSE Granted(p, ann, old)
    PROVE  PatchedTiles(r, old) = r.tiles
<1> DEFINE need == Amount(Requests[p][1], TileRes)
<1> SUFFICES ASSUME r.tiles = {}, Len(r.ann) = 1, need = 0 \/ Cardinality(r.ann[1]) <= 1,
                    ann # NoAnnotation
             PROVE  old = {}
  BY DEF PatchedTiles
<1>1. ann \in Annotations(p) /\ Granted(p, ann, old)
  BY DEF PodAnnotations
<1>2. /\ Len(ann) = 1 /\ Len(r.ann) = 1 /\ 1 \in DOMAIN ann /\ 1 \in DOMAIN r.ann
      /\ 1 \in Containers(p) /\ Requests[p][1] \in ResourceMaps
  BY <1>1, AnnotationLen, PodSharesAssumption DEF Containers
<1>3. /\ Cardinality(ann[1]) = NumGPUReq(p, 1) /\ Cardinality(r.ann[1]) = NumGPUReq(p, 1)
      /\ ann[1] \in SUBSET Cards /\ r.ann[1] \in SUBSET Cards
  BY <1>1, <1>2 DEF Annotations
<1>4. IsFiniteSet(ann[1]) /\ IsFiniteSet(r.ann[1])
  BY <1>3, FS_Subset, PodSharesAssumption
<1>5. \A a \in Annotations(p) : Amount(PerCard(p, a, 1), TileRes) =
         IF TileRes \in DOMAIN Requests[p][1] THEN Requests[p][1][TileRes] \div Cardinality(a[1])
             ELSE 0
  BY DEF PerCard, Divide, Amount
<1>6. need \in Nat /\ (TileRes \in DOMAIN Requests[p][1] => need = Requests[p][1][TileRes])
  BY <1>2, AmountType DEF Amount
<1>7. ASSUME NEW c \in Cards PROVE Cardinality(TilesOf(old, c)) = 0
  <2>1. Cardinality(TilesOf(old, c)) = Amount(Share(p, ann, c), TileRes)
    BY <1>1 DEF Granted
  <2>2. Amount(Share(p, ann, c), TileRes) =
           IF c \in ann[1] THEN Amount(PerCard(p, ann, 1), TileRes) ELSE 0
    BY <1>1, <1>2, OnlyContainer
  <2>3. CASE c \notin ann[1]
    BY <2>1, <2>2, <2>3
  <2>4. CASE c \in ann[1]
    <3>1. Cardinality(ann[1]) \in Nat \ {0}
      BY <1>4, <2>4, FS_CardinalityType, FS_EmptySet
    <3>2. \A m \in Nat \ {0} : 0 \div m = 0
      OBVIOUS
    <3>3. need = 0 => Amount(PerCard(p, ann, 1), TileRes) = 0
      BY <1>1, <1>5, <1>6, <3>1, <3>2
    <3>4. CASE need = 0
      BY <2>1, <2>2, <2>4, <3>3, <3>4
    <3>5. CASE Cardinality(r.ann[1]) <= 1
      <4>1. Cardinality(r.ann[1]) = 1
        BY <1>3, <3>1, <3>5
      <4>2. PICK d : r.ann[1] = {d}
        BY <1>4, <4>1, FS_Singleton
      <4>3. d \in Cards /\ d \in r.ann[1]
        BY <1>3, <4>2
      <4>4. Amount(Share(p, r.ann, d), TileRes) = Amount(PerCard(p, r.ann, 1), TileRes)
        BY <1>2, <4>3, OnlyContainer
      <4>5. Cardinality(TilesOf(r.tiles, d)) = Amount(Share(p, r.ann, d), TileRes)
        BY <4>3 DEF Granted
      <4>6. Cardinality(TilesOf(r.tiles, d)) = 0
        BY FS_EmptySet DEF TilesOf
      <4>7. \A m \in Nat : m \div 1 = m
        OBVIOUS
      <4>8. need = 0
        <5>1. CASE TileRes \in DOMAIN Requests[p][1]
          <6>1. Amount(PerCard(p, r.ann, 1), TileRes) = need \div 1
            BY <1>5, <1>6, <4>1, <5>1
          <6>2. QED BY <1>6, <4>4, <4>5, <4>6, <4>7, <6>1
        <5>2. CASE TileRes \notin DOMAIN Requests[p][1]
          BY <5>2 DEF Amount
        <5>3. QED BY <5>1, <5>2
      <4>9. QED BY <2>1, <2>2, <2>4, <3>3, <4>8
    <3>6. QED BY <3>4, <3>5
  <2>5. QED BY <2>3, <2>4
<1>8. QED BY <1>7, NoTilesOf
-----------------------------------------------------------------------------
(* The pipe. *)

\* An event that reaches the store is still on its way.
LEMMA PipeDelivered ==
    ASSUME NEW Q \in Seq(Items), NEW N \in Seq(Events), NEW W \in Seq(Events), W # <<>>
    PROVE  PipeOf(Q, Append(N, Head(W)), Tail(W)) = PipeOf(Q, N, W)
<1> DEFINE N2 == Append(N, Head(W))
<1> DEFINE W2 == Tail(W)
<1>1. /\ Len(N2) = Len(N) + 1 /\ \A i \in 1..Len(N) : N2[i] = N[i]
      /\ N2[Len(N) + 1] = W[1]
  OBVIOUS
<1>2. Len(W2) = Len(W) - 1 /\ \A i \in 1..Len(W2) : W2[i] = W[i + 1]
  OBVIOUS
<1>3. Len(Q) \in Nat /\ Len(N) \in Nat /\ Len(W) \in Nat
  OBVIOUS
<1> HIDE DEF N2, W2
<1>4. Len(Q) + Len(N2) + Len(W2) = Len(Q) + Len(N) + Len(W)
  BY <1>1, <1>2, <1>3
<1>5. ASSUME NEW i \in 1..(Len(Q) + Len(N) + Len(W))
      PROVE  (IF i <= Len(Q) THEN Q[i]
              ELSE IF i <= Len(Q) + Len(N2) THEN HandlerItem(N2[i - Len(Q)])
                   ELSE HandlerItem(W2[i - Len(Q) - Len(N2)]))
             = (IF i <= Len(Q) THEN Q[i]
                ELSE IF i <= Len(Q) + Len(N) THEN HandlerItem(N[i - Len(Q)])
                     ELSE HandlerItem(W[i - Len(Q) - Len(N)]))
  <2>1. CASE i <= Len(Q)
    BY <2>1
  <2>2. CASE ~(i <= Len(Q)) /\ i <= Len(Q) + Len(N)
    <3>1. i - Len(Q) \in 1..Len(N) /\ i <= Len(Q) + Len(N2)
      BY <1>1, <1>3, <2>2
    <3>2. QED BY <1>1, <2>2, <3>1
  <2>3. CASE i = Len(Q) + Len(N) + 1
    <3>1. ~(i <= Len(Q)) /\ i <= Len(Q) + Len(N2) /\ ~(i <= Len(Q) + Len(N))
      BY <1>1, <1>3, <2>3
    <3>2. i - Len(Q) = Len(N) + 1 /\ i - Len(Q) - Len(N) = 1
      BY <1>3, <2>3
    <3>3. QED BY <1>1, <3>1, <3>2
  <2>4. CASE i > Len(Q) + Len(N) + 1
    <3>1. ~(i <= Len(Q)) /\ ~(i <= Len(Q) + Len(N2)) /\ ~(i <= Len(Q) + Len(N))
      BY <1>1, <1>3, <2>4
    <3>2. /\ i - Len(Q) - Len(N2) \in 1..Len(W2)
          /\ (i - Len(Q) - Len(N2)) + 1 = i - Len(Q) - Len(N)
      BY <1>1, <1>2, <1>3, <2>4
    <3>3. W2[i - Len(Q) - Len(N2)] = W[i - Len(Q) - Len(N)]
      BY <1>2, <3>2
    <3>4. QED BY <3>1, <3>3
  <2>5. QED BY <1>3, <2>1, <2>2, <2>3, <2>4
<1>6. PipeOf(Q, N2, W2) = PipeOf(Q, N, W)
  BY <1>4, <1>5 DEF PipeOf
<1>7. QED BY <1>6 DEF N2, W2

\* An event that a handler queues stays where it is.
LEMMA PipeHandled ==
    ASSUME NEW Q \in Seq(Items), NEW N \in Seq(Events), NEW W \in Seq(Events), N # <<>>,
           HandlerItem(Head(N)) \in Items
    PROVE  PipeOf(Append(Q, HandlerItem(Head(N))), Tail(N), W) = PipeOf(Q, N, W)
<1> DEFINE Q2 == Append(Q, HandlerItem(Head(N)))
<1> DEFINE N2 == Tail(N)
<1>1. /\ Len(Q2) = Len(Q) + 1 /\ \A i \in 1..Len(Q) : Q2[i] = Q[i]
      /\ Q2[Len(Q) + 1] = HandlerItem(N[1])
  OBVIOUS
<1>2. Len(N2) = Len(N) - 1 /\ \A i \in 1..Len(N2) : N2[i] = N[i + 1]
  OBVIOUS
<1>3. Len(Q) \in Nat /\ Len(N) \in Nat /\ Len(W) \in Nat /\ Len(N) # 0
  OBVIOUS
<1> HIDE DEF N2, Q2
<1>4. Len(Q2) + Len(N2) + Len(W) = Len(Q) + Len(N) + Len(W) /\ Len(Q2) + Len(N2) = Len(Q) + Len(N)
  BY <1>1, <1>2, <1>3
<1>5. ASSUME NEW i \in 1..(Len(Q) + Len(N) + Len(W))
      PROVE  (IF i <= Len(Q2) THEN Q2[i]
              ELSE IF i <= Len(Q2) + Len(N2) THEN HandlerItem(N2[i - Len(Q2)])
                   ELSE HandlerItem(W[i - Len(Q2) - Len(N2)]))
             = (IF i <= Len(Q) THEN Q[i]
                ELSE IF i <= Len(Q) + Len(N) THEN HandlerItem(N[i - Len(Q)])
                     ELSE HandlerItem(W[i - Len(Q) - Len(N)]))
  <2>1. CASE i <= Len(Q)
    BY <1>1, <1>3, <2>1
  <2>2. CASE i = Len(Q) + 1
    <3>1. i - Len(Q) = 1 /\ i <= Len(Q2) /\ ~(i <= Len(Q)) /\ i <= Len(Q) + Len(N)
      BY <1>1, <1>3, <2>2
    <3>2. QED BY <1>1, <2>2, <3>1
  <2>3. CASE i > Len(Q) + 1 /\ i <= Len(Q) + Len(N)
    <3>1. ~(i <= Len(Q)) /\ ~(i <= Len(Q2)) /\ i <= Len(Q2) + Len(N2)
      BY <1>1, <1>3, <1>4, <2>3
    <3>2. i - Len(Q2) \in 1..Len(N2) /\ (i - Len(Q2)) + 1 = i - Len(Q)
      BY <1>1, <1>2, <1>3, <2>3
    <3>3. N2[i - Len(Q2)] = N[i - Len(Q)]
      BY <1>2, <3>2
    <3>4. QED BY <2>3, <3>1, <3>3
  <2>4. CASE i > Len(Q) + Len(N)
    <3>1. /\ ~(i <= Len(Q)) /\ ~(i <= Len(Q2)) /\ ~(i <= Len(Q2) + Len(N2))
               /\ ~(i <= Len(Q) + Len(N))
          /\ i - Len(Q2) - Len(N2) = i - Len(Q) - Len(N)
      BY <1>1, <1>2, <1>3, <2>4
    <3>2. QED BY <3>1
  <2>5. QED BY <1>3, <2>1, <2>2, <2>3, <2>4
<1>6. PipeOf(Q2, N2, W) = PipeOf(Q, N, W)
  BY <1>4, <1>5 DEF PipeOf
<1>7. QED BY <1>6 DEF N2, Q2

\* R is P without its item k.
Shorter(P, R, k) ==
    \E l \in Nat : /\ DOMAIN P = 1..l /\ DOMAIN R = 1..(l - 1) /\ k \in 1..l
                   /\ \A i \in 1..(l - 1) : R[i] = IF i < k THEN P[i] ELSE P[i + 1]

\* An event that no handler queues drops out, and the items behind it move up.
LEMMA PipeIgnored ==
    ASSUME NEW Q \in Seq(Items), NEW N \in Seq(Events), NEW W \in Seq(Events), N # <<>>,
           NEW P, P = PipeOf(Q, N, W), NEW R, R = PipeOf(Q, Tail(N), W)
    PROVE  Shorter(P, R, Len(Q) + 1) /\ P[Len(Q) + 1] = HandlerItem(Head(N))
<1> DEFINE N2 == Tail(N)
<1>2. Len(N2) = Len(N) - 1 /\ \A i \in 1..Len(N2) : N2[i] = N[i + 1]
  OBVIOUS
<1>3. Len(Q) \in Nat /\ Len(N) \in Nat /\ Len(W) \in Nat /\ Len(N) # 0 /\ Head(N) = N[1]
  OBVIOUS
<1> HIDE DEF N2
<1>4. Len(Q) + Len(N2) + Len(W) = Len(Q) + Len(N) + Len(W) - 1
  BY <1>2, <1>3
<1>5. DOMAIN P = 1..(Len(Q) + Len(N) + Len(W)) /\ DOMAIN R = 1..(Len(Q) + Len(N) + Len(W) - 1)
  BY <1>4 DEF PipeOf, N2
<1>6. \A i \in DOMAIN P : P[i] = IF i <= Len(Q) THEN Q[i]
                ELSE IF i <= Len(Q) + Len(N) THEN HandlerItem(N[i - Len(Q)])
                     ELSE HandlerItem(W[i - Len(Q) - Len(N)])
  BY <1>5 DEF PipeOf
<1>7. \A i \in DOMAIN R : R[i] = IF i <= Len(Q) THEN Q[i]
                ELSE IF i <= Len(Q) + Len(N2) THEN HandlerItem(N2[i - Len(Q)])
                     ELSE HandlerItem(W[i - Len(Q) - Len(N2)])
  BY <1>4, <1>5 DEF PipeOf, N2
<1>8. Len(Q) + 1 \in DOMAIN P /\ P[Len(Q) + 1] = HandlerItem(Head(N))
  <2>1. Len(Q) + 1 \in DOMAIN P /\ ~(Len(Q) + 1 <= Len(Q)) /\ Len(Q) + 1 <= Len(Q) + Len(N)
    BY <1>3, <1>5
  <2>2. (Len(Q) + 1) - Len(Q) = 1
    BY <1>3
  <2>3. QED BY <1>3, <1>6, <2>1, <2>2
<1>9. ASSUME NEW i \in DOMAIN R PROVE R[i] = IF i <= Len(Q) THEN P[i] ELSE P[i + 1]
  <2>0. i \in DOMAIN P /\ i + 1 \in DOMAIN P /\ i \in Nat
    BY <1>3, <1>5
  <2>1. CASE i <= Len(Q)
    BY <1>6, <1>7, <2>0, <2>1
  <2>2. CASE i > Len(Q) /\ i <= Len(Q) + Len(N2)
    <3>1. ~(i <= Len(Q)) /\ ~(i + 1 <= Len(Q)) /\ i + 1 <= Len(Q) + Len(N)
      BY <1>2, <1>3, <2>0, <2>2
    <3>2. i - Len(Q) \in 1..Len(N2) /\ (i - Len(Q)) + 1 = (i + 1) - Len(Q)
      BY <1>2, <1>3, <2>0, <2>2
    <3>3. N2[i - Len(Q)] = N[(i + 1) - Len(Q)]
      BY <1>2, <3>2
    <3>4. QED BY <1>6, <1>7, <2>0, <2>2, <3>1, <3>3
  <2>3. CASE i > Len(Q) + Len(N2)
    <3>1. /\ ~(i <= Len(Q)) /\ ~(i + 1 <= Len(Q)) /\ ~(i <= Len(Q) + Len(N2))
          /\ ~(i + 1 <= Len(Q) + Len(N))
          /\ i - Len(Q) - Len(N2) = (i + 1) - Len(Q) - Len(N)
      BY <1>2, <1>3, <2>0, <2>3
    <3>2. QED BY <1>6, <1>7, <2>0, <3>1
  <2>4. Len(Q) \in Nat /\ Len(N2) \in Nat
    BY <1>2, <1>3
  <2>5. QED BY <2>0, <2>1, <2>2, <2>3, <2>4
<1>10. PICK l \in Nat, k \in Nat : l = Len(Q) + Len(N) + Len(W) /\ k = Len(Q) + 1
  BY <1>3
<1>11. k \in 1..l /\ \A i \in Nat : i < k <=> i <= Len(Q)
  BY <1>3, <1>10
<1>12. Shorter(P, R, k)
  <2>1. DOMAIN P = 1..l /\ DOMAIN R = 1..(l - 1)
    BY <1>5, <1>10
  <2>2. ASSUME NEW i \in 1..(l - 1) PROVE R[i] = IF i < k THEN P[i] ELSE P[i + 1]
    <3>1. R[i] = (IF i <= Len(Q) THEN P[i] ELSE P[i + 1]) /\ i \in Nat
      BY <1>9, <2>1
    <3>2. i < k <=> i <= Len(Q)
      BY <1>11, <3>1
    <3>3. QED BY <3>1, <3>2
  <2>3. QED BY <1>11, <2>1, <2>2 DEF Shorter
<1>13. QED BY <1>8, <1>10, <1>12

\* The worker takes the first item.
LEMMA PipeWorked ==
    ASSUME NEW Q \in Seq(Items), NEW N \in Seq(Events), NEW W \in Seq(Events), Q # <<>>,
           NEW P, P = PipeOf(Q, N, W), NEW R, R = PipeOf(Tail(Q), N, W)
    PROVE  Shorter(P, R, 1) /\ P[1] = Head(Q)
<1> DEFINE Q2 == Tail(Q)
<1>2. Len(Q2) = Len(Q) - 1 /\ \A i \in 1..Len(Q2) : Q2[i] = Q[i + 1]
  OBVIOUS
<1>3. Len(Q) \in Nat /\ Len(N) \in Nat /\ Len(W) \in Nat /\ Len(Q) # 0 /\ Head(Q) = Q[1]
  OBVIOUS
<1> HIDE DEF Q2
<1>4. Len(Q2) + Len(N) + Len(W) = Len(Q) + Len(N) + Len(W) - 1
  BY <1>2, <1>3
<1>5. DOMAIN P = 1..(Len(Q) + Len(N) + Len(W)) /\ DOMAIN R = 1..(Len(Q) + Len(N) + Len(W) - 1)
  BY <1>4 DEF PipeOf, Q2
<1>6. \A i \in DOMAIN P : P[i] = IF i <= Len(Q) THEN Q[i]
                ELSE IF i <= Len(Q) + Len(N) THEN HandlerItem(N[i - Len(Q)])
                     ELSE HandlerItem(W[i - Len(Q) - Len(N)])
  BY <1>5 DEF PipeOf
<1>7. \A i \in DOMAIN R : R[i] = IF i <= Len(Q2) THEN Q2[i]
                ELSE IF i <= Len(Q2) + Len(N) THEN HandlerItem(N[i - Len(Q2)])
                     ELSE HandlerItem(W[i - Len(Q2) - Len(N)])
  BY <1>4, <1>5 DEF PipeOf, Q2
<1>8. 1 \in DOMAIN P /\ P[1] = Head(Q)
  BY <1>3, <1>5, <1>6
<1>9. ASSUME NEW i \in DOMAIN R PROVE R[i] = P[i + 1]
  <2>0. i \in DOMAIN P /\ i + 1 \in DOMAIN P /\ i \in Nat /\ i # 0
    BY <1>3, <1>5
  <2>1. CASE i <= Len(Q2)
    <3>1. i \in 1..Len(Q2) /\ i + 1 <= Len(Q)
      BY <1>2, <1>3, <2>0, <2>1
    <3>2. QED BY <1>2, <1>6, <1>7, <2>0, <2>1, <3>1
  <2>2. CASE ~(i <= Len(Q2))
    <3>1. /\ ~(i + 1 <= Len(Q)) /\ (i <= Len(Q2) + Len(N) <=> i + 1 <= Len(Q) + Len(N))
          /\ i - Len(Q2) = (i + 1) - Len(Q) /\ i - Len(Q2) - Len(N) = (i + 1) - Len(Q) - Len(N)
      BY <1>2, <1>3, <2>0, <2>2
    <3>2. QED BY <1>6, <1>7, <2>0, <2>2, <3>1
  <2>3. QED BY <2>1, <2>2
<1>10. PICK l \in Nat : l = Len(Q) + Len(N) + Len(W)
  BY <1>3
<1>11. 1 \in 1..l /\ \A i \in 1..(l - 1) : ~(i < 1)
  BY <1>3, <1>10
<1>12. Shorter(P, R, 1)
  BY <1>5, <1>9, <1>10, <1>11 DEF Shorter
<1>13. QED BY <1>8, <1>12

Longer(P, R, x) ==
    \E l \in Nat : /\ DOMAIN P = 1..l /\ DOMAIN R = 1..(l + 1)
                   /\ \A i \in 1..l : R[i] = P[i]
                   /\ R[l + 1] = x

\* A new version of a pod comes last.
LEMMA PipeStored ==
    ASSUME NEW Q \in Seq(Items), NEW N \in Seq(Events), NEW W \in Seq(Events), NEW e \in Events,
           NEW V, V = Append(W, e), NEW P, P = PipeOf(Q, N, W), NEW R, R = PipeOf(Q, N, V)
    PROVE  Longer(P, R, HandlerItem(e))
<1> DEFINE W2 == V
<1> DEFINE l == Len(Q) + Len(N) + Len(W)
<1>2. Len(W2) = Len(W) + 1 /\ W2[Len(W) + 1] = e /\ \A i \in 1..Len(W) : W2[i] = W[i]
  OBVIOUS
<1>3. Len(Q) \in Nat /\ Len(N) \in Nat /\ Len(W) \in Nat
  OBVIOUS
<1> HIDE DEF W2
<1>4. Len(Q) + Len(N) + Len(W2) = l + 1
  BY <1>2, <1>3
<1>5. DOMAIN P = 1..l /\ DOMAIN R = 1..(l + 1) /\ l \in Nat
  BY <1>3, <1>4 DEF PipeOf, W2
<1>6. \A i \in DOMAIN P : P[i] = IF i <= Len(Q) THEN Q[i]
                ELSE IF i <= Len(Q) + Len(N) THEN HandlerItem(N[i - Len(Q)])
                     ELSE HandlerItem(W[i - Len(Q) - Len(N)])
  BY <1>5 DEF PipeOf
<1>7. \A i \in DOMAIN R : R[i] = IF i <= Len(Q) THEN Q[i]
                ELSE IF i <= Len(Q) + Len(N) THEN HandlerItem(N[i - Len(Q)])
                     ELSE HandlerItem(W2[i - Len(Q) - Len(N)])
  BY <1>4, <1>5 DEF PipeOf, W2
<1>8. ASSUME NEW i \in 1..l PROVE R[i] = P[i]
  <2>1. i \in DOMAIN P /\ i \in DOMAIN R
    BY <1>5
  <2>2. CASE i <= Len(Q) + Len(N)
    BY <1>6, <1>7, <2>1, <2>2
  <2>3. CASE ~(i <= Len(Q) + Len(N))
    <3>1. i - Len(Q) - Len(N) \in 1..Len(W) /\ ~(i <= Len(Q))
      BY <1>3, <2>3
    <3>2. W2[i - Len(Q) - Len(N)] = W[i - Len(Q) - Len(N)]
      BY <1>2, <3>1
    <3>3. QED BY <1>6, <1>7, <2>1, <2>3, <3>1, <3>2
  <2>4. QED BY <2>2, <2>3
<1>9. R[l + 1] = HandlerItem(e)
  <2>1. /\ l + 1 \in DOMAIN R /\ ~(l + 1 <= Len(Q)) /\ ~(l + 1 <= Len(Q) + Len(N))
        /\ (l + 1) - Len(Q) - Len(N) = Len(W) + 1
    BY <1>3, <1>5
  <2> HIDE DEF l
  <2>2. QED BY <1>2, <1>7, <2>1
<1> HIDE DEF l
<1>10. QED BY <1>5, <1>8, <1>9 DEF Longer

-----------------------------------------------------------------------------
(* What a step that is about one pod leaves as it is. *)

\* The step from ledger L to ledger M is about pod p.
Apart(L, M, p) ==
    /\ DOMAIN M \ {p} = DOMAIN L \ {p}
    /\ \A q \in DOMAIN M \ {p} : M[q] = L[q]

\* So are the changes of the API server and of the binds in progress.
OnlyAbout(p) ==
    \A q \in Pods \ {p} : api'[q] = api[q] /\ (InBind(q)' <=> InBind(q))

\* The owners of the entries of other pods stay.
LEMMA OwnersStep ==
    ASSUME NEW L, NEW M, NEW p \in Pods, Owners(L), Apart(L, M, p), OnlyAbout(p),
           Using(p)' => p \in DOMAIN M,
           Bound(p)' /\ p \in DOMAIN M => M[p] = Entry(api[p])',
           p \in DOMAIN M /\ Exists(p)' /\ ~Bound(p)' => InBind(p)'
    PROVE  Owners(M)'
<1> SUFFICES ASSUME NEW q \in Pods
             PROVE  /\ Using(q)' => q \in DOMAIN M
                    /\ Bound(q)' /\ q \in DOMAIN M => M[q] = Entry(api[q])'
                    /\ q \in DOMAIN M /\ Exists(q)' /\ ~Bound(q)' => InBind(q)'
  BY DEF Owners
<1>1. CASE q = p
  BY <1>1
<1>2. CASE q # p
  <2>1. api'[q] = api[q] /\ (InBind(q)' <=> InBind(q))
    BY <1>2 DEF OnlyAbout
  <2>2. (q \in DOMAIN M <=> q \in DOMAIN L) /\ (q \in DOMAIN M => M[q] = L[q])
    BY <1>2 DEF Apart
  <2>3. /\ Using(q) => q \in DOMAIN L
        /\ Bound(q) /\ q \in DOMAIN L => L[q] = Entry(api[q])
        /\ q \in DOMAIN L /\ Exists(q) /\ ~Bound(q) => InBind(q)
    BY DEF Owners
  <2>4. QED BY <2>1, <2>2, <2>3 DEF Using, Bound, Exists, Live, Entry
<1>3. QED BY <1>1, <1>2

\* What is told of other pods stays true, and an item on its way releases each
\* entry whose pod no longer runs.
LEMMA QueuedStep ==
    ASSUME NEW L, NEW M, NEW p \in Pods, Queued(L, Pipe), Apart(L, M, p), OnlyAbout(p),
           DOMAIN L \subseteq Pods,
           \A i \in DOMAIN Pipe' : /\ Pipe'[i].pod \in Pods
                                   /\ Pipe'[i].pod # p => \E j \in DOMAIN Pipe : Pipe'[i] = Pipe[j],
           \A i \in DOMAIN Pipe' : Pipe'[i].pod = p => Told(M, Pipe[i])',
           InOrder(Pipe)',
           \A q \in DOMAIN M \ {p} : Ending(Pipe, q) => Ending(Pipe, q)',
           p \in DOMAIN M => Using(p)' \/ InBind(p)' \/ Ending(Pipe, p)'
    PROVE  Queued(M, Pipe)'
<1>1. ASSUME NEW i \in DOMAIN Pipe' PROVE Told(M, Pipe[i])'
  <2>1. CASE Pipe'[i].pod = p
    BY <2>1
  <2>2. CASE Pipe'[i].pod # p
    <3>1. PICK j \in DOMAIN Pipe : Pipe'[i] = Pipe[j]
      BY <2>2
    <3>2. Told(L, Pipe[j])
      BY DEF Queued
    <3>3. PICK q \in Pods : q = Pipe'[i].pod
      OBVIOUS
    <3>4. api'[q] = api[q] /\ (InBind(q)' <=> InBind(q))
      BY <2>2, <3>3 DEF OnlyAbout
    <3>5. (q \in DOMAIN M <=> q \in DOMAIN L) /\ (q \in DOMAIN M => M[q] = L[q])
      BY <2>2, <3>3 DEF Apart
    <3>6. (Using(q)' <=> Using(q)) /\ (Bound(q)' <=> Bound(q)) /\ (Exists(q)' <=> Exists(q))
      BY <3>4 DEF Using, Bound, Exists, Live
    <3>7. Stage(Pipe'[i]) > 0 =>
              /\ ~InBind(q) /\ api[q].uid = 1
              /\ Exists(q) => Bound(q)
              /\ Stage(Pipe'[i]) = 1 => q \in DOMAIN L
              /\ Stage(Pipe'[i]) < 3 => Pipe'[i].ann # NoAnnotation
              /\ Stage(Pipe'[i]) < 3 /\ q \in DOMAIN L => L[q] = Entry(Pipe'[i])
              /\ Stage(Pipe'[i]) > 1 => ~Using(q)
              /\ Stage(Pipe'[i]) = 3 => ~Exists(q)
      BY <3>1, <3>2, <3>3 DEF Told
    <3>8. Stage(Pipe'[i]) > 0 =>
              /\ ~InBind(q)' /\ api'[q].uid = 1
              /\ Exists(q)' => Bound(q)'
              /\ Stage(Pipe'[i]) = 1 => q \in DOMAIN M
              /\ Stage(Pipe'[i]) < 3 => Pipe'[i].ann # NoAnnotation
              /\ Stage(Pipe'[i]) < 3 /\ q \in DOMAIN M => M[q] = Entry(Pipe'[i])
              /\ Stage(Pipe'[i]) > 1 => ~Using(q)'
              /\ Stage(Pipe'[i]) = 3 => ~Exists(q)'
      BY <3>4, <3>5, <3>6, <3>7
    <3>9. QED BY <3>3, <3>8 DEF Told
  <2>3. QED BY <2>1, <2>2
<1>2. ASSUME NEW q \in DOMAIN M PROVE Using(q)' \/ InBind(q)' \/ Ending(Pipe, q)'
  <2>1. CASE q = p
    BY <2>1
  <2>2. CASE q # p
    <3>1. q \in DOMAIN L /\ q \in Pods
      BY <2>2 DEF Apart
    <3>2. api'[q] = api[q] /\ (InBind(q)' <=> InBind(q))
      BY <2>2, <3>1 DEF OnlyAbout
    <3>3. Using(q) \/ InBind(q) \/ Ending(Pipe, q)
      BY <3>1 DEF Queued
    <3>4. Using(q)' <=> Using(q)
      BY <3>2 DEF Using, Bound, Live
    <3>5. QED BY <2>2, <3>2, <3>3, <3>4
  <2>3. QED BY <2>1, <2>2
<1>3. QED BY <1>1, <1>2 DEF Queued

\* The items on their way are about pods.
LEMMA PipePods ==
    ASSUME NEW Q \in Seq(Items), NEW N \in Seq(Events), NEW W \in Seq(Events),
           NEW i \in DOMAIN PipeOf(Q, N, W)
    PROVE  PipeOf(Q, N, W)[i].pod \in Pods
<1>1. i \in 1..(Len(Q) + Len(N) + Len(W)) /\ Len(Q) \in Nat /\ Len(N) \in Nat /\ Len(W) \in Nat
  BY DEF PipeOf
<1>2. ASSUME NEW e \in Events PROVE HandlerItem(e).pod \in Pods
  BY EventType DEF HandlerItem, WorkItem
<1>3. ASSUME NEW x \in Items PROVE x.pod \in Pods
  BY DEF Items
<1>4. CASE i <= Len(Q)
  <2>1. PipeOf(Q, N, W)[i] = Q[i] /\ Q[i] \in Items
    BY <1>1, <1>4 DEF PipeOf
  <2>2. QED BY <1>3, <2>1
<1>5. CASE ~(i <= Len(Q)) /\ i <= Len(Q) + Len(N)
  <2>1. i - Len(Q) \in 1..Len(N)
    BY <1>1, <1>5
  <2>2. PipeOf(Q, N, W)[i] = HandlerItem(N[i - Len(Q)]) /\ N[i - Len(Q)] \in Events
    BY <1>1, <1>5, <2>1 DEF PipeOf
  <2>3. QED BY <1>2, <2>2
<1>6. CASE ~(i <= Len(Q)) /\ ~(i <= Len(Q) + Len(N))
  <2>1. i - Len(Q) - Len(N) \in 1..Len(W)
    BY <1>1, <1>6
  <2>2. PipeOf(Q, N, W)[i] = HandlerItem(W[i - Len(Q) - Len(N)])
            /\ W[i - Len(Q) - Len(N)] \in Events
    BY <1>1, <1>6, <2>1 DEF PipeOf
  <2>3. QED BY <1>2, <2>2
<1>7. QED BY <1>4, <1>5, <1>6

\* Item y is on its way, and about p.
Waits(p, y) == y.pod = p /\ \E i \in DOMAIN Pipe : Pipe[i] = y

\* A new version of a pod is sent: what was told before stays true, and the new
\* item comes after the others.
LEMMA Published ==
    ASSUME IInv, IInv', NEW L, NEW p \in Pods, Queued(L, Pipe), DOMAIN L \subseteq Pods,
           OnlyAbout(p),
           NEW e \in Events, e.pod = p, watch' = Append(watch, e),
               UNCHANGED <<notify, podWorkQueue>>,
           \A y : Waits(p, y) =>
               /\ Told(L, y)'
               /\ Stage(y) > 0 /\ Stage(HandlerItem(e)) > 0 => Stage(y) <= Stage(HandlerItem(e)),
           Told(L, HandlerItem(e))',
           p \in DOMAIN L => Using(p)' \/ InBind(p)' \/ Ending(Pipe, p) \/ Stage(HandlerItem(e)) = 2
    PROVE  Queued(L, Pipe)'
<1> DEFINE x == HandlerItem(e)
<1>1. /\ podWorkQueue \in Seq(Items) /\ notify \in Seq(Events) /\ watch \in Seq(Events)
      /\ podWorkQueue' \in Seq(Items) /\ notify' \in Seq(Events) /\ watch' \in Seq(Events)
  BY DEF IInv, TypeOK, InformerType, ApiType
<1>2. \A i \in DOMAIN Pipe' : Pipe'[i].pod \in Pods
  BY <1>1, PipePods DEF Pipe
<1>3. Longer(Pipe, Pipe', x)
  <2>1. Pipe = PipeOf(podWorkQueue, notify, watch)
    BY DEF Pipe
  <2>2. Pipe' = PipeOf(podWorkQueue, notify, watch')
    BY DEF Pipe
  <2>3. QED BY <1>1, <2>1, <2>2, PipeStored, Zenon
<1>4. PICK l \in Nat : /\ DOMAIN Pipe = 1..l /\ DOMAIN Pipe' = 1..(l + 1)
                       /\ \A i \in 1..l : Pipe'[i] = Pipe[i]
                       /\ Pipe'[l + 1] = x
  BY <1>3 DEF Longer
<1>5. x.pod = p
  BY EventType DEF HandlerItem, WorkItem
<1> HIDE DEF x
<1>6. \A i \in 1..(l + 1) : i \in 1..l \/ i = l + 1
  OBVIOUS
<1>7. \A i \in DOMAIN Pipe' : Pipe'[i].pod # p => \E j \in DOMAIN Pipe : Pipe'[i] = Pipe[j]
  BY <1>4, <1>5, <1>6
<1>8. ASSUME NEW i \in DOMAIN Pipe', Pipe'[i].pod = p PROVE Told(L, Pipe[i])'
  <2>1. CASE i \in 1..l
    <3>1. PICK y : y = Pipe[i]
      OBVIOUS
    <3>2. Waits(p, y) /\ Pipe'[i] = y
      BY <1>4, <1>8, <2>1, <3>1 DEF Waits
    <3>3. Told(L, y)'
      BY <3>2
    <3>4. QED BY <3>2, <3>3 DEF Told
  <2>2. CASE i = l + 1
    <3>1. Pipe'[i] = HandlerItem(e)
      BY <1>4, <2>2 DEF x
    <3>2. QED BY <3>1 DEF Told
  <2>3. QED BY <1>4, <1>6, <2>1, <2>2
<1>9. InOrder(Pipe)'
  <2> SUFFICES ASSUME NEW i \in DOMAIN Pipe', NEW j \in DOMAIN Pipe',
                      i < j, Pipe'[i].pod = Pipe'[j].pod, Stage(Pipe'[i]) > 0, Stage(Pipe'[j]) > 0
               PROVE  Stage(Pipe'[i]) <= Stage(Pipe'[j])
    BY DEF InOrder
  <2>1. CASE j \in 1..l
    <3>1. i \in 1..l
      BY <1>4, <2>1
    <3>2. Pipe'[i] = Pipe[i] /\ Pipe'[j] = Pipe[j]
      BY <1>4, <2>1, <3>1
    <3>3. InOrder(Pipe)
      BY DEF Queued
    <3>4. QED BY <1>4, <2>1, <3>1, <3>2, <3>3 DEF InOrder
  <2>2. CASE j = l + 1
    <3>1. i \in 1..l
      BY <1>4, <2>2
    <3>2. Pipe'[i] = Pipe[i] /\ Pipe'[j] = x
      BY <1>4, <2>2, <3>1
    <3>3. Waits(p, Pipe[i])
      BY <1>4, <1>5, <3>1, <3>2 DEF Waits
    <3>4. QED BY <3>2, <3>3 DEF x
  <2>3. QED BY <1>4, <1>6, <2>1, <2>2
<1>10. \A q : Ending(Pipe, q) => Ending(Pipe, q)'
  BY <1>4, <1>6 DEF Ending
<1>11. Stage(x) = 2 => Ending(Pipe, p)'
  BY <1>4, <1>5 DEF Ending
<1>12. Apart(L, L, p)
  BY DEF Apart
<1>13. p \in DOMAIN L => Using(p)' \/ InBind(p)' \/ Ending(Pipe, p)'
  BY <1>10, <1>11 DEF x
<1>14. QED BY <1>2, <1>7, <1>8, <1>9, <1>10, <1>12, <1>13, QueuedStep

\* Books that are not touched still agree with the ledger.
LEMMA BooksSame ==
    ASSUME NEW L, Books(L), UNCHANGED bookVars
    PROVE  Books(L)'
BY DEF Books, LedgerType, AmountsExact, KeysThere, TilesExact, TilesCounted, bookVars

\* What is known of pods, when a new version of one is sent.
LEMMA SeenStored ==
    ASSUME IInv, Seen, NEW p \in Pods, NEW obj, api' = [api EXCEPT ![p] = obj], obj.uid = 1,
           NEW e \in Events, e.pod = p, e.obj.uid = 1, e.kind = "add" => e.obj.node = NoNode,
           watch' = Append(watch, e), UNCHANGED infVars
    PROVE  Seen'
<1>1. /\ api \in [Pods -> PodObjects] /\ watch \in Seq(Events)
  BY DEF IInv, TypeOK, ApiType
<1>2. \A i \in DOMAIN watch : watch[i] \in Events /\ watch[i].pod \in Pods
  BY <1>1, EventType
<1>3. api'[p].uid = 1 /\ \A q \in Pods : api[q].uid = 1 => api'[q].uid = 1
  BY <1>1
<1>4. lister' = lister /\ notify' = notify
  BY DEF infVars
<1>5. \A i \in DOMAIN watch' : (i \in DOMAIN watch /\ watch'[i] = watch[i]) \/ watch'[i] = e
  BY <1>1
<1>6. \A q \in Pods : lister'[q].status # "absent" => lister'[q].uid = 1 /\ api'[q].uid = 1
  BY <1>3, <1>4 DEF Seen
<1>7. ASSUME NEW i \in DOMAIN watch'
      PROVE  /\ watch'[i].obj.uid = 1 /\ api'[watch'[i].pod].uid = 1
             /\ watch'[i].kind = "add" => watch'[i].obj.node = NoNode
  <2>1. CASE i \in DOMAIN watch /\ watch'[i] = watch[i]
    BY <1>2, <1>3, <2>1 DEF Seen
  <2>2. CASE watch'[i] = e
    BY <1>3, <2>2
  <2>3. QED BY <1>5, <2>1, <2>2
<1>8. \A i \in DOMAIN notify' : notify'[i].kind = "add" => notify'[i].obj.node = NoNode
  BY <1>4 DEF Seen
<1>9. QED BY <1>6, <1>7, <1>8 DEF Seen

\* Pods live on when the object of one is replaced by another of its life.
LEMMA LivesStored ==
    ASSUME IInv, Lives, NEW p \in Pods, NEW obj, api' = [api EXCEPT ![p] = obj], Life(p, obj)
    PROVE  Lives'
<1>1. api \in [Pods -> PodObjects]
  BY DEF IInv, TypeOK, ApiType
<1>2. ASSUME NEW q \in Pods PROVE Life(q, api[q])'
  <2>1. PICK o : o = api'[q]
    OBVIOUS
  <2>2. Life(q, o)
    BY <1>1, <2>1 DEF Lives
  <2>3. QED BY <2>1, <2>2 DEF Life
<1>3. QED BY <1>2 DEF Lives

\* Steps of pods that no bind in progress depends on.
LEMMA PodChanged ==
    ASSUME IInv, IInv', Lives, Seen, NEW L, Ledger(L), NEW p \in Pods, NEW obj,
           api' = [api EXCEPT ![p] = obj], Life(p, obj), obj.uid = 1,
           NEW e \in Events, e.pod = p, e.obj.uid = 1, e.kind = "add" => e.obj.node = NoNode,
           watch' = Append(watch, e), UNCHANGED <<infVars, podWorkQueue, bookVars, bindVars>>,
           InBind(p) => obj.status = "absent",
           Using(p)' => p \in DOMAIN L,
           Bound(p)' /\ p \in DOMAIN L => L[p] = Entry(api[p])',
           p \in DOMAIN L /\ Exists(p)' /\ ~Bound(p)' => InBind(p),
           \A y : Waits(p, y) =>
               /\ Told(L, y)'
               /\ Stage(y) > 0 /\ Stage(HandlerItem(e)) > 0 => Stage(y) <= Stage(HandlerItem(e)),
           Told(L, HandlerItem(e))',
           p \in DOMAIN L => Using(p)' \/ InBind(p)' \/ Ending(Pipe, p) \/ Stage(HandlerItem(e)) = 2
    PROVE  GInv'
<1>1. /\ Books(L) /\ Binds(L) /\ Owners(L) /\ Queued(L, Pipe)
      /\ DOMAIN L \subseteq Pods
  BY DEF Ledger, Books, LedgerType, IInv, TypeOK, BooksType
<1>2. api \in [Pods -> PodObjects] /\ binder \in [Binders -> BinderStates]
  BY DEF IInv, TypeOK, ApiType, BindType
<1>3. binder' = binder /\ rwmutex' = rwmutex /\ UNCHANGED bookVars /\ UNCHANGED infVars
          /\ UNCHANGED <<notify, podWorkQueue>>
  BY DEF bindVars, infVars
<1>4. \A q : InBind(q)' <=> InBind(q)
  BY <1>3 DEF InBind
<1>5. OnlyAbout(p) /\ Apart(L, L, p)
  BY <1>2, <1>4 DEF OnlyAbout, Apart
<1>6. Lives' /\ Seen'
  BY <1>3, LivesStored, SeenStored
<1>7. Books(L)'
  BY <1>1, <1>3, BooksSame
<1>8. Owners(L)'
  BY <1>1, <1>4, <1>5, OwnersStep
<1>9. Queued(L, Pipe)'
  BY <1>1, <1>3, <1>5, Published
<1>10. Binds(L)'
  <2>1. ASSUME NEW b \in Binders, binder'[b] # Idle PROVE BindFacts(L, b)'
    <3>1. binder[b] # Idle /\ BindFacts(L, b) /\ binder'[b] = binder[b] /\ binder[b].pod \in Pods
      BY <1>1, <1>3, <2>1, BinderIsRecord DEF Binds, IInv, TypeOK
    <3>2. PICK q \in Pods : q = binder[b].pod
      BY <3>1
    <3>3. CASE q = p
      <4>1. InBind(p)
        BY <3>1, <3>2, <3>3 DEF InBind
      <4>2. api'[p] = obj /\ obj.status = "absent" /\ obj.node = NoNode
        BY <1>2, <4>1 DEF Life, Absent
      <4>3. QED BY <1>3, <3>1, <3>2, <3>3, <4>2 DEF BindFacts, Bound, Exists, Fits, bookVars
    <3>4. CASE q # p
      <4>1. api'[q] = api[q]
        BY <1>2, <3>4
      <4>2. QED BY <1>3, <3>1, <3>2, <4>1 DEF BindFacts, Bound, Exists, Fits, bookVars
    <3>5. QED BY <3>3, <3>4
  <2>2. QED BY <1>1, <1>3, <2>1 DEF Binds
<1>11. QED BY <1>6, <1>7, <1>8, <1>9, <1>10 DEF Ledger, GInv

-----------------------------------------------------------------------------
(* The invariant holds initially, and every action preserves it. *)

\* Nothing is charged in an empty cluster.
LEMMA InitGInv ==
    ASSUME Init
    PROVE  GInv
<1> DEFINE L == [p \in {} |-> p]
<1>1. IInv
  BY InitIInv
<1>2. /\ \A p \in Pods : /\ api[p].status = "absent" /\ api[p].node = NoNode
                          /\ api[p].ann = NoAnnotation /\ api[p].tiles = {} /\ api[p] = Absent(0)
                          /\ api[p].uid = 0
      /\ lister = api /\ watch = <<>> /\ notify = <<>> /\ podWorkQueue = <<>>
      /\ \A b \in Binders : binder[b] = Idle
  BY DEF Init, Absent
<1>3. Lives
  BY <1>2 DEF Lives, Life
<1>4. Seen
  BY <1>2 DEF Seen
<1>5. DOMAIN L = {}
  OBVIOUS
<1> HIDE DEF L
<1>6. Books(L)
  <2>1. LedgerType(L) /\ KeysThere(L)
    BY <1>5 DEF Init, LedgerType, KeysThere
  <2>2. ASSUME NEW n \in Nodes, NEW c \in Cards
        PROVE  \A k : Amount(nodeStatuses[n][c], k) = 0
    BY DEF Init, NoStatuses, EmptyMap, Amount
  <2>3. ASSUME NEW n \in Nodes, NEW c \in Cards, NEW k \in Resources
        PROVE  Total(L, n, c, k) = 0
    BY <1>5, NothingOwed
  <2>4. \A k : Amount(Capacity, k) \in Nat
    BY AmountType, GasCacheAssumption
  <2>5. AmountsExact(L)
    BY <2>2, <2>3, <2>4 DEF AmountsExact
  <2>6. TilesExact(L)
    BY <1>5 DEF TilesExact, Init, NoTiles
  <2>7. TilesCounted
    <3>1. \A n \in Nodes, c \in Cards : TilesOf(nodeTileStatuses[n], c) = {}
      BY DEF TilesOf, Init, NoTiles
    <3>2. QED BY <2>2, <3>1, FS_EmptySet DEF TilesCounted
  <2>8. QED BY <2>1, <2>5, <2>6, <2>7 DEF Books
<1>7. Binds(L)
  BY <1>2 DEF Binds
<1>8. Owners(L)
  BY <1>2, <1>5 DEF Owners, Using, Bound
<1>9. Queued(L, Pipe)
  <2>1. DOMAIN Pipe = {}
    BY <1>2 DEF Pipe, PipeOf
  <2>2. QED BY <1>5, <2>1 DEF Queued, InOrder
<1>10. QED BY <1>1, <1>3, <1>4, <1>6, <1>7, <1>8, <1>9 DEF GInv, Ledger

\* The API server stores what it sends.
LEMMA Objects ==
    ASSUME IInv, Lives, NEW p \in Pods
    PROVE  /\ api[p] \in PodObject(p) /\ Life(p, api[p]) /\ api[p].node \in NodeNames
           /\ api[p].ann \in PodAnnotations(p) /\ api[p].tiles \in TileSets
           /\ \A s \in {"absent", "pending", "running", "deleting", "ended"} :
                 LET o == [api[p] EXCEPT !.status = s]
                 IN /\ o \in PodObject(p) /\ o.uid = api[p].uid /\ o.ann = api[p].ann
                    /\ o.tiles = api[p].tiles /\ o.node = api[p].node /\ o.status = s
BY DEF IInv, TypeOK, ApiType, Lives, PodObject

\* What the ledger says of the items of a pod that are on their way.
LEMMA Waiting ==
    ASSUME NEW L, Queued(L, Pipe), NEW p, NEW y, Waits(p, y)
    PROVE  Told(L, y) /\ y.pod = p
BY DEF Queued, Waits

\* The stage of a new version of a pod.
LEMMA NewStage ==
    ASSUME NEW p \in Pods, NEW kind \in {"add", "update", "delete"}, NEW obj \in PodObject(p),
           NEW e, e = [kind |-> kind, pod |-> p, obj |-> obj]
    PROVE  LET x == HandlerItem(e)
           IN /\ e \in Events /\ e.pod = p /\ e.kind = kind /\ e.obj = obj
              /\ x.pod = p /\ x.node = obj.node
              /\ obj.node = NoNode => Stage(x) = 0
              /\ kind # "delete" => x.ann = obj.ann /\ x.tiles = obj.tiles /\ Entry(x) = Entry(obj)
              /\ obj.node # NoNode /\ kind = "delete" => Stage(x) = 3
              /\ obj.node # NoNode /\ kind = "update" =>
                    Stage(x) = IF obj.status \in {"deleting", "ended"} THEN 2 ELSE 1
<1>1. e \in Events /\ e.pod = p /\ e.kind = kind /\ e.obj = obj
  BY DEF Events
<1>2. CASE kind = "add"
  BY <1>1, <1>2 DEF HandlerItem, WorkItem, Stage, Entry
<1>3. CASE kind = "update"
  BY <1>1, <1>3 DEF HandlerItem, WorkItem, Stage, Entry, isCompletedPod
<1>4. CASE kind = "delete"
  BY <1>1, <1>4 DEF HandlerItem, WorkItem, Stage, Entry
<1>5. QED BY <1>2, <1>3, <1>4

\* The stage of an update of a bound pod.
LEMMA UpdateStage ==
    ASSUME NEW p \in Pods, NEW obj \in PodObject(p), obj.node # NoNode,
           NEW e, e = [kind |-> "update", pod |-> p, obj |-> obj]
    PROVE  /\ e \in Events /\ e.pod = p /\ e.obj = obj /\ e.kind = "update"
           /\ HandlerItem(e).pod = p /\ HandlerItem(e).ann = obj.ann
           /\ Entry(HandlerItem(e)) = Entry(obj)
           /\ Stage(HandlerItem(e)) = IF obj.status \in {"deleting", "ended"} THEN 2 ELSE 1
BY NewStage

\* Stages are numbers.
LEMMA StageType == \A y : Stage(y) \in 0..3
BY DEF Stage

\* A pod is created: no entry, bind or item of its name is left from before.
LEMMA CreateGInv ==
    ASSUME Graceful, GInv, IInv', NEW p \in Pods, CreatePod(p)
    PROVE  GInv'
<1>1. IInv /\ Lives /\ Seen
  BY DEF GInv
<1>2. PICK L : Ledger(L)
  BY DEF GInv
<1>3. Books(L) /\ Binds(L) /\ Owners(L) /\ Queued(L, Pipe)
  BY <1>2 DEF Ledger
<1>4. api[p].uid = 0 /\ ~Exists(p) /\ api[p] = Absent(0)
  <2>1. api[p].uid \in 0..MaxUid /\ api[p].uid < 1
    BY <1>1, Objects DEF CreatePod, Graceful, PodObject
  <2>2. api[p].uid = 0
    BY <2>1, GasCacheAssumption
  <2>3. QED BY <1>1, <2>2, Objects DEF CreatePod, Life, Exists
<1> DEFINE obj == [Absent(1) EXCEPT !.status = "pending"]
<1> DEFINE e == [kind |-> "add", pod |-> p, obj |-> obj]
<1>5. api' = [api EXCEPT ![p] = obj] /\ watch' = Append(watch, e)
  BY <1>4 DEF CreatePod, Store
<1>6. /\ obj \in PodObject(p) /\ obj.uid = 1 /\ obj.node = NoNode /\ obj.ann = NoAnnotation
      /\ obj.tiles = {} /\ obj.status = "pending"
  <2>1. 1 \in 0..MaxUid
    BY DEF Graceful
  <2>2. QED BY <2>1 DEF PodObject, Absent, PodAnnotations, NodeNames, TileSets
<1>7. Life(p, obj)
  BY <1>6 DEF Life
<1>8. UNCHANGED <<infVars, podWorkQueue, bookVars, bindVars>>
  BY DEF CreatePod
<1> HIDE DEF obj
<1>9. /\ e \in Events /\ e.pod = p /\ e.obj = obj /\ Stage(HandlerItem(e)) = 0
  BY <1>6, NewStage
<1> HIDE DEF e
<1>10. ~InBind(p)
  BY <1>3, <1>4 DEF InBind, Binds, BindFacts
<1>11. \A y : Waits(p, y) => Stage(y) = 0
  BY <1>3, <1>4, Waiting, StageType DEF Told
<1>12. p \notin DOMAIN L
  <2>1. ~Using(p)
    BY <1>4 DEF Using, Bound, Absent
  <2>2. ~Ending(Pipe, p)
    BY <1>11 DEF Ending, Waits
  <2>3. QED BY <1>3, <1>10, <2>1, <2>2 DEF Queued
<1>13. api'[p] = obj
  BY <1>1, <1>5 DEF IInv, TypeOK, ApiType
<1>14. ~Using(p)' /\ ~Bound(p)'
  BY <1>6, <1>13 DEF Using, Bound
<1>15. \A y : Stage(y) = 0 => Told(L, y)'
  BY DEF Told
<1>16. e.obj.uid = 1 /\ (e.kind = "add" => e.obj.node = NoNode)
  BY <1>6, <1>9
<1>17. \A y : Waits(p, y) =>
            /\ Told(L, y)'
            /\ Stage(y) > 0 /\ Stage(HandlerItem(e)) > 0 => Stage(y) <= Stage(HandlerItem(e))
  BY <1>9, <1>11, <1>15
<1>18. Told(L, HandlerItem(e))'
  BY <1>9 DEF Told
<1>19. /\ InBind(p) => obj.status = "absent"
       /\ Using(p)' => p \in DOMAIN L
       /\ Bound(p)' /\ p \in DOMAIN L => L[p] = Entry(api[p])'
       /\ p \in DOMAIN L /\ Exists(p)' /\ ~Bound(p)' => InBind(p)
       /\ p \in DOMAIN L => Using(p)' \/ InBind(p)' \/ Ending(Pipe, p) \/ Stage(HandlerItem(e)) = 2
  BY <1>10, <1>12, <1>14
<1>20. QED
  BY <1>1, <1>2, <1>5, <1>6, <1>7, <1>8, <1>9, <1>16, <1>17, <1>18, <1>19, PodChanged

\* A bound pod starts, is deleted or ends: it keeps its entry, and what is sent
\* when it stops releases the entry.
LEMMA BoundMoves ==
    ASSUME GInv, IInv', NEW p \in Pods, Bound(p), Exists(p),
           NEW s \in {"running", "deleting", "ended"}, s = "running" => api[p].status = "pending",
           Store(p, [api[p] EXCEPT !.status = s], "update"),
           UNCHANGED <<infVars, podWorkQueue, bookVars, bindVars>>
    PROVE  GInv'
<1>1. IInv /\ Lives /\ Seen
  BY DEF GInv
<1>2. PICK L : Ledger(L)
  BY DEF GInv
<1>3. Books(L) /\ Binds(L) /\ Owners(L) /\ Queued(L, Pipe)
  BY <1>2 DEF Ledger
<1>a. PICK obj, e : /\ obj = [api[p] EXCEPT !.status = s]
                    /\ e = [kind |-> "update", pod |-> p, obj |-> obj]
  OBVIOUS
<1>4. api' = [api EXCEPT ![p] = obj] /\ watch' = Append(watch, e)
  BY <1>a DEF Store
<1>5. /\ obj \in PodObject(p) /\ obj.uid = api[p].uid /\ obj.ann = api[p].ann
      /\ obj.tiles = api[p].tiles /\ obj.node = api[p].node /\ obj.status = s
  BY <1>1, <1>a DEF IInv, TypeOK, ApiType, PodObject
<1>6. /\ Life(p, api[p]) /\ api[p].uid = 1 /\ api[p].node # NoNode /\ api[p].ann # NoAnnotation
  BY <1>1, Objects DEF Life, Bound, Exists
<1>7. Life(p, obj)
  BY <1>5, <1>6 DEF Life
<1>8. /\ e \in Events /\ e.pod = p /\ e.obj = obj /\ e.kind = "update"
      /\ HandlerItem(e).pod = p /\ HandlerItem(e).ann = obj.ann
           /\ Entry(HandlerItem(e)) = Entry(obj)
      /\ Stage(HandlerItem(e)) = IF s \in {"deleting", "ended"} THEN 2 ELSE 1
  <2>1. obj.node # NoNode /\ obj \in PodObject(p) /\ e = [kind |-> "update", pod |-> p, obj |-> obj]
    BY <1>a, <1>5, <1>6
  <2>2. /\ e \in Events /\ e.pod = p /\ e.obj = obj /\ e.kind = "update"
        /\ HandlerItem(e).pod = p /\ HandlerItem(e).ann = obj.ann
             /\ Entry(HandlerItem(e)) = Entry(obj)
        /\ Stage(HandlerItem(e)) = IF obj.status \in {"deleting", "ended"} THEN 2 ELSE 1
    BY <2>1, UpdateStage
  <2>3. QED BY <1>5, <2>2
<1>9. ~InBind(p)
  BY <1>3 DEF InBind, Binds, BindFacts
<1>10. api'[p] = obj
  BY <1>1, <1>4 DEF IInv, TypeOK, ApiType
<1>11. Bound(p)' /\ Exists(p)' /\ (Using(p)' <=> s = "running") /\ api'[p].uid = 1 /\ ~InBind(p)'
  BY <1>5, <1>6, <1>9, <1>10 DEF Using, Bound, Live, Exists, InBind, bindVars
<1>12. s = "running" => Using(p) /\ p \in DOMAIN L
  BY <1>3 DEF Owners, Using, Live
<1>13. p \in DOMAIN L => L[p] = Entry(obj) /\ Entry(obj) = Entry(api[p])'
  BY <1>3, <1>5, <1>10 DEF Owners, Entry
<1>14. ASSUME NEW y, Waits(p, y), Stage(y) > 0
       PROVE  /\ Told(L, y)'
              /\ Stage(y) <= Stage(HandlerItem(e))
  <2>1. Told(L, y) /\ y.pod = p /\ Stage(y) \in 0..3
    BY <1>3, <1>14, Waiting, StageType
  <2>2. Stage(y) <= Stage(HandlerItem(e)) /\ Stage(y) < 3
    BY <1>8, <1>12, <1>14, <2>1 DEF Told
  <2>3. QED BY <1>11, <1>12, <1>14, <2>1, <2>2 DEF Told
<1>15. Told(L, HandlerItem(e))'
  <2>1. PICK x : x = HandlerItem(e)
    OBVIOUS
  <2>2. /\ x.pod = p /\ x.ann # NoAnnotation /\ Stage(x) \in {1, 2}
        /\ Stage(x) = 1 => s = "running"
        /\ Stage(x) = 2 => s # "running"
        /\ p \in DOMAIN L => L[p] = Entry(x)
    BY <1>5, <1>6, <1>8, <1>13, <2>1
  <2>3. Told(L, x)'
    BY <1>11, <1>12, <2>2 DEF Told
  <2>4. QED BY <2>1, <2>3 DEF Told
<1>16. \A y : Waits(p, y) =>
            /\ Told(L, y)'
            /\ Stage(y) > 0 /\ Stage(HandlerItem(e)) > 0 => Stage(y) <= Stage(HandlerItem(e))
  BY <1>14, StageType DEF Told
<1>17. e.obj.uid = 1 /\ (e.kind = "add" => e.obj.node = NoNode) /\ obj.uid = 1
  BY <1>5, <1>6, <1>8
<1>18. /\ InBind(p) => obj.status = "absent"
       /\ Using(p)' => p \in DOMAIN L
       /\ Bound(p)' /\ p \in DOMAIN L => L[p] = Entry(api[p])'
       /\ p \in DOMAIN L /\ Exists(p)' /\ ~Bound(p)' => InBind(p)
       /\ p \in DOMAIN L => Using(p)' \/ InBind(p)' \/ Ending(Pipe, p) \/ Stage(HandlerItem(e)) = 2
  BY <1>8, <1>9, <1>11, <1>12, <1>13
<1>19. QED
  BY <1>1, <1>2, <1>4, <1>7, <1>8, <1>15, <1>16, <1>17, <1>18, PodChanged

\* An object goes away: of a pod that never was bound, or one whose end was told.
LEMMA RemoveGInv ==
    ASSUME Graceful, GInv, IInv', NEW p \in Pods, RemovePod(p)
    PROVE  GInv'
<1>1. IInv /\ Lives /\ Seen
  BY DEF GInv
<1>2. PICK L : Ledger(L)
  BY DEF GInv
<1>3. Books(L) /\ Binds(L) /\ Owners(L) /\ Queued(L, Pipe)
  BY <1>2 DEF Ledger
<1>a. PICK obj, e : /\ obj = Absent(api[p].uid)
                    /\ e = [kind |-> "delete", pod |-> p, obj |-> api[p]]
  OBVIOUS
<1>4. api' = [api EXCEPT ![p] = obj] /\ watch' = Append(watch, e) /\ Exists(p)
  BY <1>a DEF RemovePod
<1>5. /\ obj.ann = NoAnnotation /\ obj.tiles = {} /\ obj.node = NoNode /\ obj.status = "absent"
      /\ obj.uid = 1 /\ api[p].uid = 1 /\ Life(p, obj) /\ api[p] \in PodObject(p)
  BY <1>a, <1>1, <1>4, Objects DEF Absent, Life, Exists
<1>6. UNCHANGED <<infVars, podWorkQueue, bookVars, bindVars>>
  BY DEF RemovePod
<1>7. /\ e \in Events /\ e.pod = p /\ e.obj = api[p] /\ e.kind = "delete" /\ HandlerItem(e).pod = p
      /\ Stage(HandlerItem(e)) = IF Bound(p) THEN 3 ELSE 0
  BY <1>a, <1>5, NewStage DEF Bound
<1>8. api'[p] = obj
  BY <1>1, <1>4 DEF IInv, TypeOK, ApiType
<1>9. ~Bound(p)' /\ ~Exists(p)' /\ ~Using(p)' /\ api'[p].uid = 1 /\ (InBind(p)' <=> InBind(p))
  BY <1>5, <1>6, <1>8 DEF Using, Bound, Exists, InBind, bindVars
<1>10. Bound(p) => ~InBind(p) /\ ~Using(p)
  <2>1. ASSUME Bound(p) PROVE ~Using(p)
    BY <2>1 DEF RemovePod, Graceful, Using, Live
  <2>2. QED BY <1>3, <2>1 DEF InBind, Binds, BindFacts
<1>11. ASSUME NEW y, Waits(p, y), Stage(y) > 0
       PROVE  Told(L, y)' /\ Bound(p)
  <2>1. Told(L, y) /\ y.pod = p
    BY <1>3, <1>11, Waiting
  <2>2. QED BY <1>4, <1>9, <1>11, <2>1 DEF Told
<1>12. \A y : Waits(p, y) =>
            /\ Told(L, y)'
            /\ Stage(y) > 0 /\ Stage(HandlerItem(e)) > 0 => Stage(y) <= Stage(HandlerItem(e))
  BY <1>7, <1>11, StageType DEF Told
<1>13. Told(L, HandlerItem(e))'
  <2>1. PICK x : x = HandlerItem(e)
    OBVIOUS
  <2>2. x.pod = p /\ Stage(x) \in {0, 3} /\ (Stage(x) = 3 => Bound(p))
    BY <1>7, <2>1
  <2>3. Told(L, x)'
    BY <1>9, <1>10, <2>2 DEF Told
  <2>4. QED BY <2>1, <2>3 DEF Told
<1>14. p \in DOMAIN L => InBind(p) \/ Ending(Pipe, p)
  BY <1>3, <1>4, <1>10 DEF Queued, Owners
<1>15. /\ InBind(p) => obj.status = "absent"
       /\ Using(p)' => p \in DOMAIN L
       /\ Bound(p)' /\ p \in DOMAIN L => L[p] = Entry(api[p])'
       /\ p \in DOMAIN L /\ Exists(p)' /\ ~Bound(p)' => InBind(p)
       /\ p \in DOMAIN L => Using(p)' \/ InBind(p)' \/ Ending(Pipe, p) \/ Stage(HandlerItem(e)) = 2
       /\ e.obj.uid = 1 /\ (e.kind = "add" => e.obj.node = NoNode)
  BY <1>5, <1>7, <1>9, <1>14
<1>16. QED
  BY <1>1, <1>2, <1>4, <1>5, <1>6, <1>7, <1>12, <1>13, <1>15, PodChanged

\* A step of one bind is about its pod.
LEMMA BindIsAbout ==
    ASSUME NEW b \in Binders, NEW p \in Pods, binder[b] # Idle, binder[b].pod = p,
           \A a \in Binders \ {b} : binder'[a] = binder[a],
           binder'[b] = Idle \/ binder'[b].pod = p,
           \A q \in Pods \ {p} : api'[q] = api[q]
    PROVE  OnlyAbout(p)
<1>1. ASSUME NEW q \in Pods \ {p} PROVE InBind(q)' <=> InBind(q)
  BY DEF InBind
<1>2. QED BY <1>1 DEF OnlyAbout

\* While a bind has the lock, or takes it, the others have only been accepted.
LEMMA BindsStep ==
    ASSUME IInv, NEW L, NEW M, Binds(L), NEW b \in Binders, NEW p \in Pods,
           binder[b] # Idle, binder[b].pod = p, rwmutex \in {b, NoBinder},
           OnlyAbout(p), Apart(L, M, p),
           \A a \in Binders \ {b} : binder'[a] = binder[a],
           binder'[b] = Idle \/ (binder'[b].pod = p /\ BindFacts(M, b)')
    PROVE  Binds(M)'
<1>1. ASSUME NEW a \in Binders \ {b}, binder[a] # Idle PROVE BindFacts(M, a)' /\ binder[a].pod # p
  <2>1. BindFacts(L, a) /\ binder[a].pod # p
    BY <1>1 DEF Binds
  <2>2. PICK q \in Pods : q = binder[a].pod
    BY <1>1, BinderIsRecord DEF IInv, TypeOK
  <2>3. binder[a].pc \in {"check"} \cup Locked
    <3>1. binder[a] \in BinderRecord(q)
      BY <1>1, <2>2, BinderIsRecord DEF IInv, TypeOK
    <3>2. QED BY <3>1 DEF BinderRecord, Locked
  <2>4. binder[a].pc = "check"
    <3>1. rwmutex # a
      BY GasCacheAssumption
    <3>2. QED BY <2>1, <2>3, <3>1 DEF BindFacts
  <2>5. api'[q] = api[q] /\ (q \in DOMAIN M <=> q \in DOMAIN L) /\ binder'[a] = binder[a]
    BY <2>1, <2>2 DEF OnlyAbout, Apart
  <2>6. ~Bound(q) /\ binder[a].uid = 1 /\ api[q].uid = 1 /\ q \notin DOMAIN L
    BY <2>1, <2>2, <2>4 DEF BindFacts, Charged
  <2>7. BindFacts(M, a)'
    BY <2>2, <2>4, <2>5, <2>6 DEF BindFacts, Bound, Locked, Charged
  <2>8. QED BY <2>1, <2>7
<1>2. ASSUME NEW a \in Binders, binder'[a] # Idle PROVE BindFacts(M, a)'
  BY <1>1, <1>2
<1>3. ASSUME NEW a \in Binders, NEW d \in Binders, binder'[a] # Idle, binder'[d] # Idle,
             binder'[a].pod = binder'[d].pod
      PROVE  a = d
  BY <1>1, <1>3 DEF Binds
<1>4. QED BY <1>2, <1>3 DEF Binds

\* The pipe of what has not changed.
LEMMA PipeSame ==
    ASSUME UNCHANGED <<apiVars, infVars, podWorkQueue>>
    PROVE  Pipe' = Pipe
BY DEF Pipe, PipeOf, apiVars, infVars

\* A step of a bind inside the process.
LEMMA BindChanged ==
    ASSUME GInv, IInv', NEW L, Ledger(L), NEW M, Books(M)', NEW b \in Binders, NEW p \in Pods,
           binder[b] # Idle, binder[b].pod = p, rwmutex \in {b, NoBinder},
           Apart(L, M, p), UNCHANGED <<apiVars, infVars, podWorkQueue>>,
           \A a \in Binders \ {b} : binder'[a] = binder[a],
           \/ binder'[b] = Idle /\ p \notin DOMAIN M
           \/ binder'[b] # Idle /\ binder'[b].pod = p /\ BindFacts(M, b)'
    PROVE  GInv'
<1>1. IInv /\ Lives /\ Seen
  BY DEF GInv
<1>2. Books(L) /\ Binds(L) /\ Owners(L) /\ Queued(L, Pipe) /\ DOMAIN L \subseteq Pods
  BY <1>1 DEF Ledger, Books, LedgerType, IInv, TypeOK, BooksType
<1>3. api' = api /\ watch' = watch /\ lister' = lister /\ notify' = notify
          /\ podWorkQueue' = podWorkQueue
  BY DEF apiVars, infVars
<1>4. Lives' /\ Seen'
  BY <1>1, <1>3 DEF Lives, Life, Seen
<1>5. OnlyAbout(p)
  BY <1>3, BindIsAbout
<1>6. InBind(p) /\ ~Bound(p) /\ (p \in DOMAIN M => InBind(p)')
  BY <1>2 DEF InBind, Binds, BindFacts
<1>7. ~Bound(p)' /\ ~Using(p)'
  BY <1>3, <1>6 DEF Bound, Using
<1>8. Owners(M)'
  BY <1>2, <1>5, <1>6, <1>7, OwnersStep
<1>9. Binds(M)'
  BY <1>1, <1>2, <1>5, BindsStep
<1>10. Queued(M, Pipe)'
  <2>1. Pipe' = Pipe
    BY PipeSame
  <2>2. \A i \in DOMAIN Pipe' : Pipe'[i].pod \in Pods
    <3>1. podWorkQueue \in Seq(Items) /\ notify \in Seq(Events) /\ watch \in Seq(Events)
      BY <1>1 DEF IInv, TypeOK, InformerType, ApiType
    <3>2. QED BY <2>1, <3>1, PipePods DEF Pipe
  <2>3. ASSUME NEW i \in DOMAIN Pipe', Pipe'[i].pod = p PROVE Told(M, Pipe[i])'
    <3>1. Stage(Pipe[i]) = 0
      BY <1>2, <1>6, <2>1, <2>3, StageType DEF Queued, Told
    <3>2. QED BY <2>1, <3>1 DEF Told
  <2>4. InOrder(Pipe)'
    BY <1>2, <2>1 DEF Queued, InOrder
  <2>5. \A q : Ending(Pipe, q) => Ending(Pipe, q)'
    BY <2>1 DEF Ending
  <2>6. \A i \in DOMAIN Pipe' : /\ Pipe'[i].pod \in Pods
                                /\ Pipe'[i].pod # p => \E j \in DOMAIN Pipe : Pipe'[i] = Pipe[j]
    BY <2>1, <2>2
  <2>7. QED BY <1>2, <1>5, <1>6, <2>3, <2>4, <2>5, <2>6, QueuedStep
<1>11. QED BY <1>4, <1>8, <1>9, <1>10 DEF GInv, Ledger

\* What a bind knows.
LEMMA BindKnows ==
    ASSUME GInv, NEW L, Ledger(L), NEW b \in Binders, binder[b] # Idle
    PROVE  /\ binder[b].pod \in Pods /\ binder[b] \in BinderRecord(binder[b].pod)
           /\ BindFacts(L, b) /\ Books(L) /\ BooksType
           /\ binder \in [Binders -> BinderStates]
           /\ binder[b].pc \in {"adjust"} \cup Charged =>
                binder[b].ann \in Annotations(binder[b].pod)
BY BinderIsRecord DEF GInv, Ledger, Binds, IInv, TypeOK, BindType, CardsChosen

\* A bind ends before its pod is charged.
LEMMA ReturnGInv ==
    ASSUME GInv, IInv', NEW b \in Binders, binder[b] # Idle, binder[b].pc \notin Charged,
           rwmutex \in {b, NoBinder}, NEW ok, Return(b, ok),
           UNCHANGED <<apiVars, infVars, podWorkQueue, bookVars>>
    PROVE  GInv'
<1>1. PICK L : Ledger(L)
  BY DEF GInv
<1>2. PICK p \in Pods : p = binder[b].pod
  BY <1>1, BindKnows
<1>3. BindFacts(L, b) /\ Books(L) /\ binder \in [Binders -> BinderStates]
  BY <1>1, BindKnows
<1>4. Books(L)'
  BY <1>3, BooksSame
<1>5. p \notin DOMAIN L /\ Apart(L, L, p)
  BY <1>2, <1>3 DEF BindFacts, Apart
<1>6. binder'[b] = Idle /\ \A a \in Binders \ {b} : binder'[a] = binder[a]
  BY <1>3 DEF Return
<1>7. QED BY <1>1, <1>2, <1>4, <1>5, <1>6, BindChanged

\* The check for space fails.
LEMMA CheckFailsGInv ==
    ASSUME GInv, IInv', NEW b \in Binders, CheckFails(b)
    PROVE  GInv'
<1>1. binder[b] # Idle /\ binder[b].pc \notin Charged /\ rwmutex = NoBinder /\ Return(b, FALSE)
  BY DEF CheckFails, At, Charged
<1>2. UNCHANGED <<apiVars, infVars, podWorkQueue, bookVars>>
  BY DEF CheckFails
<1>3. QED BY <1>1, <1>2, ReturnGInv

\* There is nothing to annotate.
LEMMA NothingGInv ==
    ASSUME GInv, IInv', NEW b \in Binders, NothingToAnnotate(b)
    PROVE  GInv'
<1>1. binder[b] # Idle /\ binder[b].pc = "convert" /\ Return(b, TRUE)
  BY DEF NothingToAnnotate, At
<1>2. rwmutex = b
  <2>1. PICK L : Ledger(L)
    BY DEF GInv
  <2>2. BindFacts(L, b)
    BY <1>1, <2>1, BindKnows
  <2>3. QED BY <1>1, <2>2 DEF BindFacts, Locked
<1>3. UNCHANGED <<apiVars, infVars, podWorkQueue, bookVars>> /\ binder[b].pc \notin Charged
  BY <1>1 DEF NothingToAnnotate, Charged
<1>4. QED BY <1>1, <1>2, <1>3, ReturnGInv

\* There is space on the cards that are selected.
LEMMA CheckGInv ==
    ASSUME GInv, IInv', NEW b \in Binders, CheckForSpace(b)
    PROVE  GInv'
<1>1. PICK L : Ledger(L)
  BY DEF GInv
<1>2. binder[b] # Idle /\ binder[b].pc = "check" /\ rwmutex = NoBinder /\ rwmutex' = b
  BY DEF CheckForSpace, At
<1>3. PICK p \in Pods : p = binder[b].pod
  BY <1>1, <1>2, BindKnows
<1>4. BindFacts(L, b) /\ Books(L) /\ binder \in [Binders -> BinderStates]
          /\ binder[b] \in BinderRecord(p)
  BY <1>1, <1>2, <1>3, BindKnows
<1>5. PICK ann \in Selections(binder[b].pod, binder[b].node) :
          binder' = [binder EXCEPT ![b].pc = "convert", ![b].ann = ann]
  BY DEF CheckForSpace
<1>6. UNCHANGED <<apiVars, infVars, podWorkQueue>> /\ UNCHANGED bookVars
  BY DEF CheckForSpace
<1>7. /\ binder'[b].pod = p /\ binder'[b].pc = "convert" /\ binder'[b].ann = ann
      /\ binder'[b].uid = binder[b].uid /\ binder'[b].node = binder[b].node
      /\ \A a \in Binders \ {b} : binder'[a] = binder[a]
  <2>1. binder'[b] = [[binder[b] EXCEPT !.pc = "convert"] EXCEPT !.ann = ann]
    BY <1>4, <1>5
  <2>2. QED BY <1>3, <1>4, <1>5, <2>1 DEF BinderRecord
<1>8. binder'[b] # Idle
  <2>1. PICK r : r = binder'[b]
    OBVIOUS
  <2>2. r.pc # Idle.pc
    BY <1>7, <2>1 DEF Idle
  <2>3. QED BY <2>1, <2>2
<1>9. ann = EmptyAnnotation \/ Fits(p, binder[b].node, ann)
  BY <1>3, <1>5 DEF Selections
<1>10. BindFacts(L, b)'
  <2>1. ~Bound(p) /\ binder[b].uid = 1 /\ api[p].uid = 1 /\ p \notin DOMAIN L
    BY <1>2, <1>3, <1>4 DEF BindFacts, Charged
  <2>2. ~Bound(p)' /\ api'[p].uid = 1
    BY <1>6, <2>1 DEF Bound, apiVars
  <2>3. binder'[b].ann = EmptyAnnotation \/ Fits(binder[b].pod, binder[b].node, binder[b].ann)'
    BY <1>6, <1>7, <1>9 DEF Fits, bookVars
  <2>4. QED BY <1>2, <1>7, <2>1, <2>2, <2>3 DEF BindFacts, Locked, Charged
<1>11. Books(L)' /\ Apart(L, L, p)
  BY <1>4, <1>6, BooksSame DEF Apart
<1>12. QED BY <1>1, <1>2, <1>3, <1>6, <1>7, <1>8, <1>10, <1>11, BindChanged

\* Tiles are chosen: all that are asked for, of those that are free.
LEMMA ConvertGInv ==
    ASSUME GInv, IInv', NEW b \in Binders, ConvertToAnnotations(b)
    PROVE  GInv'
<1>1. PICK L : Ledger(L)
  BY DEF GInv
<1>2. binder[b] # Idle /\ binder[b].pc = "convert" /\ binder[b].ann # EmptyAnnotation
  BY DEF ConvertToAnnotations, At
<1>3. PICK p \in Pods : p = binder[b].pod
  BY <1>1, <1>2, BindKnows
<1>4. /\ BindFacts(L, b) /\ Books(L) /\ BooksType
      /\ binder \in [Binders -> BinderStates] /\ binder[b] \in BinderRecord(p)
  BY <1>1, <1>2, <1>3, BindKnows
<1>5. PICK T \in TileChoices(binder[b].pod, binder[b].node, binder[b].ann) :
          binder' = [binder EXCEPT ![b].pc = "adjust", ![b].tiles = T]
  BY DEF ConvertToAnnotations
<1>6. /\ UNCHANGED <<apiVars, infVars, podWorkQueue>> /\ UNCHANGED bookVars
      /\ rwmutex = b /\ rwmutex' = b
  BY <1>2, <1>4 DEF ConvertToAnnotations, BindFacts, Locked
<1>7. /\ binder'[b].pod = p /\ binder'[b].pc = "adjust" /\ binder'[b].tiles = T
      /\ binder'[b].uid = binder[b].uid /\ binder'[b].node = binder[b].node
      /\ binder'[b].ann = binder[b].ann
      /\ \A a \in Binders \ {b} : binder'[a] = binder[a]
  <2>1. binder'[b] = [[binder[b] EXCEPT !.pc = "adjust"] EXCEPT !.tiles = T]
    BY <1>4, <1>5
  <2>2. QED BY <1>3, <1>4, <1>5, <2>1 DEF BinderRecord
<1>8. binder'[b] # Idle
  <2>1. PICK r : r = binder'[b]
    OBVIOUS
  <2>2. r.pc # Idle.pc
    BY <1>7, <2>1 DEF Idle
  <2>3. QED BY <2>1, <2>2
<1>9. Fits(p, binder[b].node, binder[b].ann)
  BY <1>2, <1>3, <1>4 DEF BindFacts
<1>10. Granted(p, binder[b].ann, T) /\ T \cap nodeTileStatuses[binder[b].node] = {}
  <2>1. binder[b].node \in Nodes /\ binder[b].ann \in Annotations(p)
    BY <1>2, <1>4 DEF BinderRecord
  <2>2. TilesCounted
    BY <1>4 DEF Books
  <2>3. QED BY <1>3, <1>4, <1>5, <1>9, <2>1, <2>2, TilesChosen
<1>11. BindFacts(L, b)'
  <2>1. ~Bound(p) /\ binder[b].uid = 1 /\ api[p].uid = 1 /\ p \notin DOMAIN L
    BY <1>2, <1>3, <1>4 DEF BindFacts, Charged
  <2>2. ~Bound(p)' /\ api'[p].uid = 1
    BY <1>6, <2>1 DEF Bound, apiVars
  <2>3. Fits(binder[b].pod, binder[b].node, binder[b].ann)'
    BY <1>6, <1>7, <1>9 DEF Fits, bookVars
  <2>4. Granted(binder[b].pod, binder[b].ann, binder[b].tiles)'
    BY <1>7, <1>10 DEF Granted
  <2>5. binder'[b].tiles \cap nodeTileStatuses'[binder'[b].node] = {}
    BY <1>6, <1>7, <1>10 DEF bookVars
  <2>6. QED BY <1>6, <1>7, <2>1, <2>2, <2>3, <2>4, <2>5 DEF BindFacts, Locked, Charged
<1>12. Books(L)' /\ Apart(L, L, p)
  BY <1>4, <1>6, BooksSame DEF Apart
<1>13. QED BY <1>1, <1>2, <1>3, <1>6, <1>7, <1>8, <1>11, <1>12, BindChanged

\* A charged bind moves on inside the process.
LEMMA CallFailsGInv ==
    ASSUME GInv, IInv', NEW b \in Binders, CallFails(b)
    PROVE  GInv'
<1>1. PICK L : Ledger(L)
  BY DEF GInv
<1>2. binder[b] # Idle /\ binder[b].pc \in Charged
  BY DEF CallFails, At, Charged
<1>3. PICK p \in Pods : p = binder[b].pod
  BY <1>1, <1>2, BindKnows
<1>4. /\ BindFacts(L, b) /\ Books(L)
      /\ binder \in [Binders -> BinderStates] /\ binder[b] \in BinderRecord(p)
  BY <1>1, <1>2, <1>3, BindKnows
<1>5. /\ UNCHANGED <<apiVars, infVars, podWorkQueue>> /\ UNCHANGED bookVars
      /\ rwmutex = b /\ rwmutex' = b
      /\ binder' = [binder EXCEPT ![b].pc = "rollback"]
  BY <1>2, <1>4 DEF CallFails, BindFacts, Locked
<1>6. /\ binder'[b].pod = p /\ binder'[b].pc = "rollback" /\ binder'[b].tiles = binder[b].tiles
      /\ binder'[b].uid = binder[b].uid /\ binder'[b].node = binder[b].node
      /\ binder'[b].ann = binder[b].ann
      /\ \A a \in Binders \ {b} : binder'[a] = binder[a]
  <2>1. binder'[b] = [binder[b] EXCEPT !.pc = "rollback"]
    BY <1>4, <1>5
  <2>2. QED BY <1>3, <1>4, <1>5, <2>1 DEF BinderRecord
<1>7. binder'[b] # Idle
  <2>1. PICK r : r = binder'[b]
    OBVIOUS
  <2>2. r.pc # Idle.pc
    BY <1>6, <2>1 DEF Idle
  <2>3. QED BY <2>1, <2>2
<1>8. BindFacts(L, b)'
  <2>1. ~Bound(p) /\ binder[b].uid = 1 /\ api[p].uid = 1 /\ p \in DOMAIN L
            /\ L[p] = Entry(binder[b])
    BY <1>2, <1>3, <1>4 DEF BindFacts
  <2>2. ~Bound(p)' /\ api'[p].uid = 1
    BY <1>5, <2>1 DEF Bound, apiVars
  <2>3. L[p] = Entry(binder[b])'
    BY <1>6, <2>1 DEF Entry
  <2>4. QED BY <1>5, <1>6, <2>1, <2>2, <2>3 DEF BindFacts, Locked, Charged
<1>9. Books(L)' /\ Apart(L, L, p)
  BY <1>4, <1>5, BooksSame DEF Apart
<1>10. QED BY <1>1, <1>2, <1>3, <1>5, <1>6, <1>7, <1>8, <1>9, BindChanged

\* The pod is charged, or the books do not change.
LEMMA ChargeGInv ==
    ASSUME GInv, IInv', NEW b \in Binders, ChargePod(b)
    PROVE  GInv'
<1>1. PICK L : Ledger(L)
  BY DEF GInv
<1>2. binder[b] # Idle /\ binder[b].pc = "adjust"
  BY DEF ChargePod, At
<1>3. PICK p \in Pods : p = binder[b].pod
  BY <1>1, <1>2, BindKnows
<1>4. /\ BindFacts(L, b) /\ Books(L) /\ BooksType
      /\ binder \in [Binders -> BinderStates] /\ binder[b] \in BinderRecord(p)
      /\ binder[b].ann \in Annotations(p)
  BY <1>1, <1>2, <1>3, BindKnows
<1>5. /\ UNCHANGED <<apiVars, infVars, podWorkQueue>> /\ rwmutex = b
  BY <1>2, <1>4 DEF ChargePod, BindFacts, Locked
<1>6. CASE ~CanAdjust(p, "add", binder[b].ann, binder[b].node)
  <2>1. UNCHANGED bookVars /\ Return(b, FALSE)
    BY <1>3, <1>6 DEF ChargePod, AdjustPodResources
  <2>2. binder[b].pc \notin Charged
    BY <1>2 DEF Charged
  <2>3. UNCHANGED <<apiVars, infVars, podWorkQueue, bookVars>>
    BY <1>5, <2>1
  <2>4. QED BY <1>2, <1>5, <2>1, <2>2, <2>3, ReturnGInv
<1>7. CASE CanAdjust(p, "add", binder[b].ann, binder[b].node)
  <2>1. /\ AdjustPodResources(p, "add", binder[b].ann, binder[b].tiles, binder[b].node)
        /\ binder' = [binder EXCEPT ![b].pc = "annotate"] /\ rwmutex' = b
    BY <1>3, <1>5, <1>7 DEF ChargePod
  <2>2. PICK x : x = Entry(binder[b])
    OBVIOUS
  <2>3. x \in Entries(p) /\ x.node = binder[b].node /\ x.ann = binder[b].ann
            /\ x.tiles = binder[b].tiles
    BY <1>4, <2>2 DEF Entry, Entries, BinderRecord
  <2>4. /\ Fits(p, binder[b].node, binder[b].ann)
        /\ binder[b].tiles \cap nodeTileStatuses[binder[b].node] = {}
        /\ Granted(p, binder[b].ann, binder[b].tiles)
        /\ p \notin DOMAIN L /\ ~Bound(p) /\ binder[b].uid = 1 /\ api[p].uid = 1
    BY <1>2, <1>3, <1>4 DEF BindFacts, Charged
  <2>5. /\ Fits(p, x.node, x.ann) /\ x.tiles \cap nodeTileStatuses[x.node] = {}
        /\ Granted(p, x.ann, x.tiles) /\ CanAdjust(p, "add", x.ann, x.node)
        /\ AdjustPodResources(p, "add", x.ann, x.tiles, x.node)
    BY <1>7, <2>1, <2>3, <2>4
  <2>6. Books(Put(L, p, x))'
    BY <1>4, <2>3, <2>4, <2>5, BooksCharged
  <2>7. Apart(L, Put(L, p, x), p) /\ p \in DOMAIN Put(L, p, x) /\ Put(L, p, x)[p] = x
    BY DEF Apart, Put
  <2>8. /\ binder'[b].pod = p /\ binder'[b].pc = "annotate" /\ binder'[b].tiles = binder[b].tiles
        /\ binder'[b].uid = binder[b].uid /\ binder'[b].node = binder[b].node
        /\ binder'[b].ann = binder[b].ann
        /\ \A a \in Binders \ {b} : binder'[a] = binder[a]
    <3>1. binder'[b] = [binder[b] EXCEPT !.pc = "annotate"]
      BY <1>4, <2>1
    <3>2. QED BY <1>3, <1>4, <2>1, <3>1 DEF BinderRecord
  <2>9. binder'[b] # Idle
    <3>1. PICK r : r = binder'[b]
      OBVIOUS
    <3>2. r.pc # Idle.pc
      BY <2>8, <3>1 DEF Idle
    <3>3. QED BY <3>1, <3>2
  <2>10. PICK M : M = Put(L, p, x)
    OBVIOUS
  <2>11. Apart(L, M, p) /\ p \in DOMAIN M /\ M[p] = x
    BY <2>7, <2>10
  <2>12. BindFacts(M, b)'
    <3>1. ~Bound(p)' /\ api'[p].uid = 1
      BY <1>5, <2>4 DEF Bound, apiVars
    <3>2. M[p] = Entry(binder[b])'
      BY <2>2, <2>8, <2>11 DEF Entry
    <3>3. QED BY <2>1, <2>4, <2>8, <2>11, <3>1, <3>2 DEF BindFacts, Locked, Charged
  <2>13. Books(M)'
    BY <2>6, <2>10
  <2>14. QED BY <1>1, <1>2, <1>3, <1>5, <2>8, <2>9, <2>11, <2>12, <2>13, BindChanged
<1>8. QED BY <1>6, <1>7

\* The charge is given back.
LEMMA RollbackGInv ==
    ASSUME GInv, IInv', NEW b \in Binders, Rollback(b)
    PROVE  GInv'
<1>1. PICK L : Ledger(L)
  BY DEF GInv
<1>2. binder[b] # Idle /\ binder[b].pc = "rollback"
  BY DEF Rollback, At
<1>3. PICK p \in Pods : p = binder[b].pod
  BY <1>1, <1>2, BindKnows
<1>4. /\ BindFacts(L, b) /\ Books(L) /\ BooksType
      /\ binder \in [Binders -> BinderStates]
  BY <1>1, <1>2, <1>3, BindKnows
<1>5. /\ UNCHANGED <<apiVars, infVars, podWorkQueue>> /\ rwmutex = b
      /\ p \in DOMAIN L /\ L[p] = Entry(binder[b])
  BY <1>2, <1>3, <1>4 DEF Rollback, BindFacts, Locked, Charged
<1>6. AdjustPodResources(p, "remove", L[p].ann, L[p].tiles, L[p].node) /\ Return(b, FALSE)
  <2>1. L[p].ann = binder[b].ann /\ L[p].tiles = binder[b].tiles /\ L[p].node = binder[b].node
    BY <1>5 DEF Entry
  <2>2. /\ AdjustPodResources(binder[b].pod, "remove", binder[b].ann, binder[b].tiles,
             binder[b].node)
        /\ Return(b, FALSE)
    BY DEF Rollback
  <2>3. QED BY <1>3, <2>1, <2>2
<1>7. Books(Drop(L, p))'
  BY <1>4, <1>5, <1>6, BooksDischarged
<1>8. Apart(L, Drop(L, p), p) /\ p \notin DOMAIN Drop(L, p)
  BY DEF Apart, Drop
<1>9. binder'[b] = Idle /\ \A a \in Binders \ {b} : binder'[a] = binder[a]
  BY <1>4, <1>6 DEF Return
<1>10. QED BY <1>1, <1>2, <1>3, <1>5, <1>7, <1>8, <1>9, BindChanged

\* A bind is accepted, of a pod that has no entry and of which no item says that
\* it is bound.
LEMMA RequestGInv ==
    ASSUME Graceful, GInv, IInv', NEW b \in Binders, NEW p \in Pods, NEW n \in Nodes,
           BindRequest(b, p, n)
    PROVE  GInv'
<1>1. IInv /\ Lives /\ Seen
  BY DEF GInv
<1>2. PICK L : Ledger(L)
  BY DEF GInv
<1>3. Books(L) /\ Binds(L) /\ Owners(L) /\ Queued(L, Pipe) /\ DOMAIN L \subseteq Pods
  BY <1>1, <1>2 DEF Ledger, Books, LedgerType, IInv, TypeOK, BooksType
<1>4. lister[p].uid = 1 /\ api[p].uid = 1 /\ Exists(p) /\ ~Bound(p) /\ ~InBind(p)
  <2>1. lister[p].uid = 1 /\ api[p].uid = 1
    BY <1>1 DEF BindRequest, Seen
  <2>2. SchedulerMayBind(p, lister[p].uid)
    BY DEF BindRequest
  <2>3. QED BY <2>1, <2>2 DEF SchedulerMayBind, InBind, Graceful
<1>5. p \notin DOMAIN L
  BY <1>3, <1>4 DEF Owners
<1>6. api' = api /\ watch' = watch /\ lister' = lister /\ notify' = notify
          /\ podWorkQueue' = podWorkQueue
  BY DEF BindRequest, apiVars, infVars
<1>7. UNCHANGED <<apiVars, infVars, podWorkQueue>> /\ UNCHANGED bookVars /\ rwmutex' = rwmutex
  BY DEF BindRequest
<1>8. binder \in [Binders -> BinderStates]
  BY <1>1 DEF IInv, TypeOK, BindType
<1>9. /\ binder[b] = Idle /\ binder'[b].pod = p /\ binder'[b].pc = "check" /\ binder'[b].uid = 1
      /\ \A a \in Binders \ {b} : binder'[a] = binder[a]
  BY <1>4, <1>8 DEF BindRequest
<1>10. binder'[b] # Idle
  <2>1. PICK r : r = binder'[b]
    OBVIOUS
  <2>2. r.pc # Idle.pc
    BY <1>9, <2>1 DEF Idle
  <2>3. QED BY <2>1, <2>2
<1>11. OnlyAbout(p) /\ Apart(L, L, p)
  <2>1. ASSUME NEW q \in Pods \ {p} PROVE InBind(q)' <=> InBind(q)
    BY <1>9, <1>10 DEF InBind
  <2>2. QED BY <1>6, <2>1 DEF OnlyAbout, Apart
<1>12. Lives' /\ Seen' /\ Books(L)'
  BY <1>1, <1>3, <1>6, <1>7, BooksSame DEF Lives, Life, Seen
<1>13. ~Bound(p)' /\ ~Using(p)' /\ api'[p].uid = 1
  BY <1>4, <1>6 DEF Bound, Using
<1>14. Owners(L)'
  BY <1>3, <1>5, <1>11, <1>13, OwnersStep
<1>15. Binds(L)'
  <2>1. ASSUME NEW a \in Binders \ {b}, binder[a] # Idle PROVE BindFacts(L, a)' /\ binder[a].pod # p
    <3>1. BindFacts(L, a) /\ binder'[a] = binder[a] /\ binder[a].pod # p
      BY <1>3, <1>4, <1>9, <2>1 DEF Binds, InBind
    <3>2. QED BY <1>6, <1>7, <3>1 DEF BindFacts, Bound, Exists, Fits, bookVars
  <2>2. BindFacts(L, b)'
    BY <1>5, <1>9, <1>13 DEF BindFacts, Locked, Charged
  <2>3. ASSUME NEW a \in Binders, binder'[a] # Idle PROVE BindFacts(L, a)'
    BY <1>9, <2>1, <2>2, <2>3
  <2>4. ASSUME NEW a \in Binders, NEW d \in Binders, binder'[a] # Idle, binder'[d] # Idle,
               binder'[a].pod = binder'[d].pod
        PROVE  a = d
    BY <1>3, <1>9, <2>1, <2>4 DEF Binds
  <2>5. QED BY <2>3, <2>4 DEF Binds
<1>16. Queued(L, Pipe)'
  <2>1. Pipe' = Pipe
    BY <1>7, PipeSame
  <2>2. \A i \in DOMAIN Pipe' : Pipe'[i].pod \in Pods
    <3>1. podWorkQueue \in Seq(Items) /\ notify \in Seq(Events) /\ watch \in Seq(Events)
      BY <1>1 DEF IInv, TypeOK, InformerType, ApiType
    <3>2. QED BY <2>1, <3>1, PipePods DEF Pipe
  <2>3. ASSUME NEW i \in DOMAIN Pipe', Pipe'[i].pod = p PROVE Told(L, Pipe[i])'
    <3>1. Stage(Pipe[i]) = 0
      BY <1>3, <1>4, <2>1, <2>3, StageType DEF Queued, Told
    <3>2. QED BY <2>1, <3>1 DEF Told
  <2>4. InOrder(Pipe)'
    BY <1>3, <2>1 DEF Queued, InOrder
  <2>5. \A q : Ending(Pipe, q) => Ending(Pipe, q)'
    BY <2>1 DEF Ending
  <2>6. \A i \in DOMAIN Pipe' : /\ Pipe'[i].pod \in Pods
                                /\ Pipe'[i].pod # p => \E j \in DOMAIN Pipe : Pipe'[i] = Pipe[j]
    BY <2>1, <2>2
  <2>7. QED BY <1>3, <1>5, <1>11, <2>3, <2>4, <2>5, <2>6, QueuedStep
<1>17. QED BY <1>12, <1>14, <1>15, <1>16 DEF GInv, Ledger

\* A call that the API server applied.
LEMMA CallApplied ==
    ASSUME GInv, IInv', NEW L, Ledger(L), NEW b \in Binders, NEW p \in Pods,
           binder[b] # Idle, binder[b].pod = p, binder[b].pc \in Charged,
           \A a \in Binders \ {b} : binder'[a] = binder[a],
           binder'[b] = Idle \/ (binder'[b].pod = p /\ BindFacts(L, b)'),
           NEW obj \in PodObject(p), api' = [api EXCEPT ![p] = obj], Life(p, obj),
               obj.status = "pending",
           watch' = Append(watch, [kind |-> "update", pod |-> p, obj |-> obj]),
           UNCHANGED <<infVars, podWorkQueue>>, UNCHANGED bookVars,
           IF binder'[b] = Idle THEN obj.node # NoNode /\ L[p] = Entry(obj) ELSE obj.node = NoNode
    PROVE  GInv'
<1>1. IInv /\ Lives /\ Seen
  BY DEF GInv
<1>2. Books(L) /\ Binds(L) /\ Owners(L) /\ Queued(L, Pipe) /\ DOMAIN L \subseteq Pods
  BY <1>1 DEF Ledger, Books, LedgerType, IInv, TypeOK, BooksType
<1>3. BindFacts(L, b) /\ rwmutex = b /\ p \in DOMAIN L /\ InBind(p) /\ obj.uid = 1
  BY <1>2 DEF Binds, BindFacts, Locked, InBind, Life
<1>4. api'[p] = obj /\ \A q \in Pods \ {p} : api'[q] = api[q]
  BY <1>1 DEF IInv, TypeOK, ApiType
<1>5. OnlyAbout(p) /\ Apart(L, L, p)
  BY <1>4, BindIsAbout DEF Apart
<1>6. PICK e : e = [kind |-> "update", pod |-> p, obj |-> obj]
  OBVIOUS
<1>7. /\ e \in Events /\ e.pod = p /\ e.obj = obj /\ e.kind = "update" /\ HandlerItem(e).pod = p
      /\ obj.node = NoNode => Stage(HandlerItem(e)) = 0
      /\ obj.node # NoNode => /\ HandlerItem(e).ann = obj.ann /\ Entry(HandlerItem(e)) = Entry(obj)
                              /\ Stage(HandlerItem(e)) = 1
  <2>1. /\ e \in Events /\ e.pod = p /\ e.obj = obj /\ e.kind = "update" /\ HandlerItem(e).pod = p
        /\ obj.node = NoNode => Stage(HandlerItem(e)) = 0
    BY <1>6, NewStage
  <2>2. CASE obj.node # NoNode
    BY <1>6, <2>1, <2>2, UpdateStage
  <2>3. QED BY <2>1, <2>2
<1>8. Lives' /\ Books(L)'
  BY <1>1, <1>2, LivesStored, BooksSame
<1>9. Seen'
  <2>1. watch' = Append(watch, e) /\ UNCHANGED infVars /\ e.obj.uid = 1
            /\ (e.kind = "add" => e.obj.node = NoNode)
    BY <1>3, <1>6, <1>7
  <2>2. QED BY <1>1, <1>3, <1>7, <2>1, SeenStored
<1>10. /\ Exists(p)' /\ (Bound(p)' <=> obj.node # NoNode) /\ (Using(p)' <=> obj.node # NoNode)
       /\ api'[p].uid = 1
  BY <1>3, <1>4 DEF Exists, Bound, Using, Live
<1>11. InBind(p)' <=> obj.node = NoNode
  <2>1. \A a \in Binders \ {b} : binder[a] # Idle => binder[a].pod # p
    BY <1>2 DEF Binds
  <2>2. QED BY <2>1 DEF InBind
<1>12. Owners(L)'
  <2>1. Bound(p)' /\ p \in DOMAIN L => L[p] = Entry(api[p])'
    BY <1>4, <1>10 DEF Entry
  <2>2. QED BY <1>2, <1>3, <1>5, <1>10, <1>11, <2>1, OwnersStep
<1>13. Binds(L)'
  BY <1>1, <1>2, <1>3, <1>5, BindsStep
<1>14. Queued(L, Pipe)'
  <2>1. \A y : Waits(p, y) => Stage(y) = 0
    BY <1>2, <1>3, Waiting, StageType DEF Told
  <2>2. \A y : Waits(p, y) =>
            /\ Told(L, y)'
            /\ Stage(y) > 0 /\ Stage(HandlerItem(e)) > 0 => Stage(y) <= Stage(HandlerItem(e))
    BY <2>1 DEF Told
  <2>3. PICK x : x = HandlerItem(e)
    OBVIOUS
  <2>4. /\ x.pod = p /\ Stage(x) \in {0, 1}
        /\ Stage(x) = 1 => x.ann # NoAnnotation /\ L[p] = Entry(x) /\ obj.node # NoNode
    BY <1>7, <2>3 DEF Life
  <2>5. Told(L, x)'
    BY <1>3, <1>10, <1>11, <2>4 DEF Told
  <2>6. Told(L, HandlerItem(e))'
    BY <2>3, <2>5 DEF Told
  <2>7. watch' = Append(watch, e) /\ UNCHANGED <<notify, podWorkQueue>>
    BY <1>6 DEF infVars
  <2>8. p \in DOMAIN L => Using(p)' \/ InBind(p)' \/ Ending(Pipe, p) \/ Stage(HandlerItem(e)) = 2
    BY <1>10, <1>11
  <2>9. QED BY <1>1, <1>2, <1>5, <1>7, <2>2, <2>6, <2>7, <2>8, Published
<1>15. QED BY <1>8, <1>9, <1>12, <1>13, <1>14 DEF GInv, Ledger

\* The pod is annotated with what it was charged for.
LEMMA AnnotateGInv ==
    ASSUME Graceful, GInv, IInv', NEW b \in Binders, AnnotatePodBind(b)
    PROVE  GInv'
<1>1. PICK L : Ledger(L)
  BY DEF GInv
<1>2. binder[b] # Idle /\ binder[b].pc = "annotate" /\ binder[b].pc \in Charged
  BY DEF AnnotatePodBind, At, Charged
<1>3. PICK p, r : p \in Pods /\ p = binder[b].pod /\ r = binder[b]
  BY <1>1, <1>2, BindKnows
<1>4. /\ BindFacts(L, b) /\ Books(L) /\ binder \in [Binders -> BinderStates]
      /\ r \in BinderRecord(p) /\ r.ann \in Annotations(p) /\ r.pod = p
  BY <1>1, <1>2, <1>3, BindKnows
<1>5. ~Bound(p) /\ r.uid = 1 /\ api[p].uid = 1 /\ rwmutex = b /\ p \in DOMAIN L /\ L[p] = Entry(r)
  BY <1>2, <1>3, <1>4 DEF BindFacts, Locked
<1>6. Granted(p, r.ann, r.tiles)
  BY <1>4, <1>5 DEF Books, TilesExact, Entry
<1>7. Exists(p)
  BY <1>3 DEF AnnotatePodBind
<1>8. /\ api[p] \in PodObject(p) /\ Life(p, api[p]) /\ api[p].node = NoNode
           /\ api[p].status = "pending"
      /\ api[p].ann \in PodAnnotations(p) /\ api[p].tiles \in TileSets
  BY <1>3, <1>5, <1>7, Objects DEF GInv, Life, Bound, Exists
<1>0. PICK old \in KeptTiles(p) :
         Store(p, [api[p] EXCEPT !.ann = r.ann, !.tiles = PatchedTiles(r, old)], "update")
  BY <1>3 DEF AnnotatePodBind
<1>9. PatchedTiles(r, old) = r.tiles
  <2>1. {} \in TileSets /\ NoAnnotation \in PodAnnotations(p)
    BY DEF TileSets, PodAnnotations
  <2>2. PatchedTiles(r, api[p].tiles) = r.tiles
    BY <1>3, <1>4, <1>6, <1>8, TilesPatched DEF Life
  <2>3. PatchedTiles(r, {}) = r.tiles
    BY <1>3, <1>4, <1>6, <2>1, TilesPatched
  <2>4. QED BY <1>0, <2>2, <2>3 DEF KeptTiles
<1>10. PICK obj : obj = [api[p] EXCEPT !.ann = r.ann, !.tiles = r.tiles]
  OBVIOUS
<1>11. /\ api' = [api EXCEPT ![p] = obj]
       /\ watch' = Append(watch, [kind |-> "update", pod |-> p, obj |-> obj])
  BY <1>0, <1>9, <1>10 DEF Store
<1>12. /\ obj \in PodObject(p) /\ obj.ann = r.ann /\ obj.tiles = r.tiles /\ obj.uid = 1
       /\ obj.node = NoNode /\ obj.status = "pending"
  <2>1. r.tiles \in TileSets /\ r.ann \in PodAnnotations(p)
    BY <1>4 DEF BinderRecord, PodAnnotations
  <2>2. QED BY <1>5, <1>8, <1>10, <2>1 DEF PodObject
<1>13. Life(p, obj)
  <2>1. r.ann # NoAnnotation
    BY <1>3, <1>4, GasCacheAssumption
  <2>2. QED BY <1>6, <1>12, <2>1 DEF Life
<1>14. binder' = [binder EXCEPT ![b].pc = "bind"] /\ rwmutex' = b
  <2>1. Replies = {"ok"}
    BY DEF Replies, Graceful
  <2>2. QED BY <1>5, <2>1 DEF AnnotatePodBind
<1>15. UNCHANGED <<infVars, podWorkQueue>> /\ UNCHANGED bookVars
  BY DEF AnnotatePodBind
<1>16. /\ binder'[b].pod = p /\ binder'[b].pc = "bind" /\ binder'[b].tiles = r.tiles
       /\ binder'[b].uid = 1 /\ binder'[b].node = r.node /\ binder'[b].ann = r.ann
       /\ \A a \in Binders \ {b} : binder'[a] = binder[a]
  <2>1. binder'[b] = [r EXCEPT !.pc = "bind"]
    BY <1>3, <1>4, <1>14
  <2>2. QED BY <1>4, <1>5, <1>14, <2>1 DEF BinderRecord
<1>17. binder'[b] # Idle
  <2>1. PICK s : s = binder'[b]
    OBVIOUS
  <2>2. s.pc # Idle.pc
    BY <1>16, <2>1 DEF Idle
  <2>3. QED BY <2>1, <2>2
<1>18. BindFacts(L, b)'
  <2>1. api'[p] = obj
    BY <1>11 DEF GInv, IInv, TypeOK, ApiType
  <2>2. ~Bound(p)' /\ api'[p].uid = 1 /\ api'[p].ann = r.ann /\ api'[p].tiles = r.tiles
    BY <1>12, <2>1 DEF Bound
  <2>3. L[p] = Entry(binder[b])'
    BY <1>5, <1>16 DEF Entry
  <2>4. QED BY <1>5, <1>14, <1>16, <2>2, <2>3 DEF BindFacts, Locked, Charged
<1>19. QED
  BY <1>1, <1>2, <1>3, <1>11, <1>12, <1>13, <1>15, <1>16, <1>17, <1>18, CallApplied

\* The pod is bound with what it was charged for.
LEMMA BindApiGInv ==
    ASSUME Graceful, GInv, IInv', NEW b \in Binders, BindApi(b)
    PROVE  GInv'
<1>1. PICK L : Ledger(L)
  BY DEF GInv
<1>2. binder[b] # Idle /\ binder[b].pc = "bind" /\ binder[b].pc \in Charged
  BY DEF BindApi, At, Charged
<1>3. PICK p, r : p \in Pods /\ p = binder[b].pod /\ r = binder[b]
  BY <1>1, <1>2, BindKnows
<1>4. /\ BindFacts(L, b) /\ binder \in [Binders -> BinderStates]
      /\ r \in BinderRecord(p) /\ r.ann \in Annotations(p) /\ r.pod = p
  BY <1>1, <1>2, <1>3, BindKnows
<1>5. Live(p) /\ Exists(p)
  BY <1>3 DEF BindApi, Live, Exists
<1>6. ~Bound(p) /\ api[p].uid = 1 /\ L[p] = Entry(r) /\ api[p].ann = r.ann /\ api[p].tiles = r.tiles
  BY <1>2, <1>3, <1>4, <1>5 DEF BindFacts
<1>7. /\ api[p] \in PodObject(p) /\ Life(p, api[p]) /\ api[p].node = NoNode
           /\ api[p].status = "pending"
  BY <1>3, <1>5, <1>6, Objects DEF GInv, Life, Bound, Exists
<1>8. PICK obj : obj = [api[p] EXCEPT !.node = r.node]
  OBVIOUS
<1>9. /\ api' = [api EXCEPT ![p] = obj]
      /\ watch' = Append(watch, [kind |-> "update", pod |-> p, obj |-> obj])
  BY <1>3, <1>8 DEF BindApi, Store
<1>10. /\ obj \in PodObject(p) /\ obj.ann = r.ann /\ obj.tiles = r.tiles /\ obj.uid = 1
       /\ obj.node = r.node /\ obj.node # NoNode /\ obj.status = "pending"
  <2>1. r.node \in NodeNames /\ r.node # NoNode
    BY <1>4, GasCacheAssumption DEF BinderRecord, NodeNames
  <2>2. QED BY <1>6, <1>7, <1>8, <2>1 DEF PodObject
<1>11. Life(p, obj)
  <2>1. r.ann # NoAnnotation
    BY <1>3, <1>4, GasCacheAssumption
  <2>2. QED BY <1>6, <1>7, <1>10, <2>1 DEF Life
<1>12. binder' = [binder EXCEPT ![b] = Idle]
  <2>1. Replies = {"ok"}
    BY DEF Replies, Graceful
  <2>2. QED BY <2>1 DEF BindApi, Return
<1>13. UNCHANGED <<infVars, podWorkQueue>> /\ UNCHANGED bookVars
  BY DEF BindApi
<1>14. binder'[b] = Idle /\ \A a \in Binders \ {b} : binder'[a] = binder[a]
  BY <1>4, <1>12
<1>15. L[p] = Entry(obj)
  BY <1>6, <1>10 DEF Entry
<1>16. QED BY <1>1, <1>2, <1>3, <1>9, <1>10, <1>11, <1>13, <1>14, <1>15, CallApplied

\* An item leaves: the others stay in order, and an entry that it was to release
\* goes with it.
LEMMA QueuedShorter ==
    ASSUME IInv', NEW L, NEW M, NEW p \in Pods, NEW k, Shorter(Pipe, Pipe', k), Pipe[k].pod = p,
           Queued(L, Pipe), DOMAIN L \subseteq Pods, Apart(L, M, p), UNCHANGED <<api, binder>>,
           p \in DOMAIN M => p \in DOMAIN L /\ M[p] = L[p] /\ Stage(Pipe[k]) # 2,
           p \in DOMAIN L /\ p \notin DOMAIN M => k = 1 /\ Stage(Pipe[k]) = 2
    PROVE  Queued(M, Pipe)'
<1>1. PICK l \in Nat : /\ DOMAIN Pipe = 1..l /\ DOMAIN Pipe' = 1..(l - 1) /\ k \in 1..l
                       /\ \A i \in 1..(l - 1) : Pipe'[i] = IF i < k THEN Pipe[i] ELSE Pipe[i + 1]
  BY DEF Shorter
<1> DEFINE From(i) == IF i < k THEN i ELSE i + 1
<1>2. ASSUME NEW i \in DOMAIN Pipe'
      PROVE  From(i) \in DOMAIN Pipe /\ From(i) # k /\ Pipe'[i] = Pipe[From(i)]
  BY <1>1
<1>3. \A i, j \in DOMAIN Pipe' : i < j => From(i) < From(j)
  BY <1>1
<1>4. ASSUME NEW j \in DOMAIN Pipe, j # k PROVE \E i \in DOMAIN Pipe' : Pipe'[i] = Pipe[j]
  <2>1. CASE j < k
    <3>1. j \in 1..(l - 1)
      BY <1>1, <2>1
    <3>2. QED BY <1>1, <2>1, <3>1
  <2>2. CASE j > k
    <3>1. (j - 1) \in 1..(l - 1) /\ ~(j - 1 < k) /\ (j - 1) + 1 = j
      BY <1>1, <2>2
    <3>2. QED BY <1>1, <3>1
  <2>3. QED BY <1>1, <1>4, <2>1, <2>2
<1> HIDE DEF From
<1>5. \A i \in DOMAIN Pipe' : Pipe'[i].pod \in Pods
  <2>1. podWorkQueue' \in Seq(Items) /\ notify' \in Seq(Events) /\ watch' \in Seq(Events)
    BY DEF IInv, TypeOK, InformerType, ApiType
  <2>2. QED BY <2>1, PipePods DEF Pipe
<1>6. InOrder(Pipe)'
  <2> SUFFICES ASSUME NEW i \in DOMAIN Pipe', NEW j \in DOMAIN Pipe',
                      i < j, Pipe'[i].pod = Pipe'[j].pod, Stage(Pipe'[i]) > 0, Stage(Pipe'[j]) > 0
               PROVE  Stage(Pipe'[i]) <= Stage(Pipe'[j])
    BY DEF InOrder
  <2>1. From(i) < From(j) /\ From(i) \in DOMAIN Pipe /\ From(j) \in DOMAIN Pipe
        /\ Pipe'[i] = Pipe[From(i)] /\ Pipe'[j] = Pipe[From(j)]
    BY <1>2, <1>3
  <2>2. InOrder(Pipe)
    BY DEF Queued
  <2>3. QED BY <2>1, <2>2 DEF InOrder
<1>7. OnlyAbout(p)
  BY DEF OnlyAbout, InBind
<1>8. ASSUME NEW q, Ending(Pipe, q), q # p \/ Stage(Pipe[k]) # 2 PROVE Ending(Pipe, q)'
  <2>1. PICK j \in DOMAIN Pipe : Pipe[j].pod = q /\ Stage(Pipe[j]) = 2
    BY <1>8 DEF Ending
  <2>2. j # k
    BY <1>8, <2>1
  <2>3. PICK i \in DOMAIN Pipe' : Pipe'[i] = Pipe[j]
    BY <1>4, <2>2
  <2>4. QED BY <2>1, <2>3 DEF Ending
<1>9. p \in DOMAIN M => Using(p)' \/ InBind(p)' \/ Ending(Pipe, p)'
  <2>1. p \in DOMAIN L => Using(p) \/ InBind(p) \/ Ending(Pipe, p)
    BY DEF Queued
  <2>2. (Using(p)' <=> Using(p)) /\ (InBind(p)' <=> InBind(p))
    BY DEF Using, Bound, Live, InBind
  <2>3. QED BY <1>8, <2>1, <2>2
<1>10. ASSUME NEW i \in DOMAIN Pipe', Pipe'[i].pod = p PROVE Told(M, Pipe[i])'
  <2>1. PICK j, y : j \in DOMAIN Pipe /\ j # k /\ y = Pipe[j] /\ y = Pipe'[i]
    BY <1>2
  <2>2. Told(L, y) /\ y.pod = p
    BY <1>10, <2>1 DEF Queued
  <2>3. /\ Stage(y) = 1 => (p \in DOMAIN L => p \in DOMAIN M)
    <3>1. CASE p \in DOMAIN L /\ p \notin DOMAIN M
      <4>1. k = 1 /\ k < j /\ Stage(Pipe[k]) = 2
        BY <1>1, <2>1, <3>1
      <4>2. Stage(y) > 0 => 2 <= Stage(y)
        <5>1. InOrder(Pipe) /\ k \in DOMAIN Pipe /\ Pipe[k].pod = Pipe[j].pod
          BY <1>1, <2>1, <2>2 DEF Queued
        <5>2. Stage(Pipe[k]) > 0 /\ Pipe[j] = y
          BY <2>1, <4>1
        <5>3. Stage(Pipe[j]) > 0 => Stage(Pipe[k]) <= Stage(Pipe[j])
          BY <2>1, <4>1, <5>1, <5>2 DEF InOrder
        <5>4. QED BY <4>1, <5>2, <5>3
      <4>3. Stage(y) # 1
        BY <4>2
      <4>4. QED BY <4>3
    <3>2. QED BY <3>1
  <2>4. /\ (Using(p)' <=> Using(p)) /\ (InBind(p)' <=> InBind(p)) /\ api' = api
        /\ (Bound(p)' <=> Bound(p)) /\ (Exists(p)' <=> Exists(p))
    BY DEF Using, Bound, Live, InBind, Exists
  <2>5. Told(M, y)'
    BY <2>2, <2>3, <2>4 DEF Told
  <2>6. QED BY <2>1, <2>5 DEF Told
<1>11. \A i \in DOMAIN Pipe' : /\ Pipe'[i].pod \in Pods
                               /\ Pipe'[i].pod # p => \E j \in DOMAIN Pipe : Pipe'[i] = Pipe[j]
  BY <1>2, <1>5
<1>12. \A q \in DOMAIN M \ {p} : Ending(Pipe, q) => Ending(Pipe, q)'
  BY <1>8
<1>13. QED BY <1>6, <1>7, <1>9, <1>10, <1>11, <1>12, QueuedStep

\* Binds in progress and owners do not depend on what is on its way.
LEMMA BindsSame ==
    ASSUME NEW L, Binds(L), Owners(L), UNCHANGED <<api, bookVars, rwmutex, binder>>
    PROVE  Binds(L)' /\ Owners(L)'
<1>1. ASSUME NEW b \in Binders, BindFacts(L, b) PROVE BindFacts(L, b)'
  BY <1>1 DEF BindFacts, Bound, Exists, Fits, Granted, Entry, bookVars
<1>2. Binds(L)'
  BY <1>1 DEF Binds
<1>3. Owners(L)'
  BY DEF Owners, Using, Live, Bound, Exists, Entry, InBind
<1>4. QED BY <1>2, <1>3

\* An event reaches the store.
LEMMA DeliverGInv ==
    ASSUME GInv, IInv', Deliver
    PROVE  GInv'
<1>1. IInv /\ Lives /\ Seen
  BY DEF GInv
<1>2. PICK L : Ledger(L)
  BY DEF GInv
<1>3. Books(L) /\ Binds(L) /\ Owners(L) /\ Queued(L, Pipe)
  BY <1>2 DEF Ledger
<1>4. /\ api' = api /\ podWorkQueue' = podWorkQueue /\ UNCHANGED bookVars
      /\ rwmutex' = rwmutex /\ binder' = binder /\ watch # <<>>
      /\ notify' = Append(notify, Head(watch)) /\ watch' = Tail(watch)
      /\ lister' = [lister EXCEPT ![Head(watch).pod] = Stored(Head(watch))]
  BY DEF Deliver, bindVars
<1>5. /\ podWorkQueue \in Seq(Items) /\ notify \in Seq(Events) /\ watch \in Seq(Events)
      /\ lister \in [Pods -> PodObjects]
  BY <1>1 DEF IInv, TypeOK, InformerType, ApiType
<1>6. Pipe' = Pipe
  BY <1>4, <1>5, PipeDelivered DEF Pipe
<1>7. Lives' /\ Books(L)' /\ Binds(L)' /\ Owners(L)'
  BY <1>1, <1>3, <1>4, BooksSame, BindsSame DEF Lives, Life
<1>8. Queued(L, Pipe)'
  BY <1>3, <1>4, <1>6 DEF Queued, Told, InOrder, Ending, InBind, Using, Bound, Live, Exists
<1>9. Seen'
  <2>1. PICK e : e = watch[1]
    OBVIOUS
  <2>2. e = Head(watch) /\ 1 \in DOMAIN watch /\ e \in Events /\ e.pod \in Pods
    BY <1>4, <1>5, <2>1, EventType
  <2>3. /\ e.obj.uid = 1 /\ api[e.pod].uid = 1 /\ (e.kind = "add" => e.obj.node = NoNode)
    BY <1>1, <2>1, <2>2 DEF Seen
  <2>4. \A q \in Pods : lister'[q].status # "absent" => lister'[q].uid = 1 /\ api'[q].uid = 1
    <3>1. Stored(e).status # "absent" => Stored(e).uid = 1
      BY <2>3 DEF Stored, Absent
    <3>2. QED BY <1>1, <1>4, <1>5, <2>2, <2>3, <3>1 DEF Seen
  <2>5. \A i \in DOMAIN watch' : i + 1 \in DOMAIN watch /\ watch'[i] = watch[i + 1]
    BY <1>4, <1>5
  <2>6. \A i \in DOMAIN notify' : (i \in DOMAIN notify /\ notify'[i] = notify[i]) \/ notify'[i] = e
    BY <1>4, <1>5, <2>2
  <2>7. QED BY <1>1, <1>4, <2>3, <2>4, <2>5, <2>6 DEF Seen
<1>10. QED BY <1>7, <1>8, <1>9 DEF GInv, Ledger

\* A handler runs: an event it ignores would have changed nothing.
LEMMA HandleGInv ==
    ASSUME GInv, IInv', Handle
    PROVE  GInv'
<1>1. IInv /\ Lives /\ Seen
  BY DEF GInv
<1>2. PICK L : Ledger(L)
  BY DEF GInv
<1>3. Books(L) /\ Binds(L) /\ Owners(L) /\ Queued(L, Pipe) /\ DOMAIN L = annotatedPods
          /\ DOMAIN L \subseteq Pods
  BY <1>1, <1>2 DEF Ledger, Books, LedgerType, IInv, TypeOK, BooksType
<1>4. /\ api' = api /\ watch' = watch /\ lister' = lister /\ UNCHANGED bookVars
      /\ rwmutex' = rwmutex /\ binder' = binder /\ notify # <<>> /\ notify' = Tail(notify)
      /\ podWorkQueue' = IF HandlerQueues(Head(notify))
                         THEN Append(podWorkQueue, HandlerItem(Head(notify))) ELSE podWorkQueue
  BY DEF Handle, apiVars, bindVars
<1>5. podWorkQueue \in Seq(Items) /\ notify \in Seq(Events) /\ watch \in Seq(Events)
  BY <1>1 DEF IInv, TypeOK, InformerType, ApiType
<1>6. PICK e : e = Head(notify) /\ e \in Events
  BY <1>4, <1>5
<1>7. Lives' /\ Books(L)' /\ Binds(L)' /\ Owners(L)'
  BY <1>1, <1>3, <1>4, BooksSame, BindsSame DEF Lives, Life
<1>8. Seen'
  <2>1. \A i \in DOMAIN notify' : i + 1 \in DOMAIN notify /\ notify'[i] = notify[i + 1]
    BY <1>4, <1>5
  <2>2. QED BY <1>1, <1>4, <2>1 DEF Seen
<1>9. Queued(L, Pipe)'
  <2>1. CASE HandlerQueues(e)
    <3>1. HandlerItem(Head(notify)) \in Items
      BY <1>6, <2>1, HandlerItemType
    <3>2. Pipe' = PipeOf(Append(podWorkQueue, HandlerItem(Head(notify))), Tail(notify), watch)
      BY <1>4, <1>6, <2>1 DEF Pipe
    <3>3. Pipe' = Pipe
      BY <1>4, <1>5, <3>1, <3>2, PipeHandled DEF Pipe
    <3>4. QED BY <1>3, <1>4, <3>3 DEF Queued, Told, InOrder, Ending, InBind, Using, Bound, Live,
                 Exists
  <2>2. CASE ~HandlerQueues(e)
    <3>1. Pipe' = PipeOf(podWorkQueue, Tail(notify), watch)
              /\ Pipe = PipeOf(podWorkQueue, notify, watch)
      BY <1>4, <1>6, <2>2 DEF Pipe
    <3>2. Shorter(Pipe, Pipe', Len(podWorkQueue) + 1)
              /\ Pipe[Len(podWorkQueue) + 1] = HandlerItem(Head(notify))
      BY <1>4, <1>5, <3>1, PipeIgnored, Zenon
    <3>3. PICK k, x, p : k = Len(podWorkQueue) + 1 /\ x = HandlerItem(e) /\ p = e.pod
      OBVIOUS
    <3>4. Shorter(Pipe, Pipe', k) /\ Pipe[k] = x /\ k \in DOMAIN Pipe
      BY <1>6, <3>2, <3>3 DEF Shorter
    <3>5. p \in Pods /\ x.pod = p /\ e.kind \in {"add", "update", "delete"}
      BY <1>6, <3>3, EventType DEF HandlerItem, WorkItem
    <3>6. Told(L, x)
      BY <1>3, <3>4 DEF Queued
    <3>7. e.kind # "delete" => Stage(x) = 0
      <4>1. ASSUME e.kind # "delete" PROVE x.ann = NoAnnotation /\ Stage(x) # 3
        <5>1. e.obj.ann = NoAnnotation
          BY <2>2, <4>1 DEF HandlerQueues
        <5>2. QED BY <3>3, <3>5, <4>1, <5>1 DEF HandlerItem, WorkItem, Stage
      <4>2. QED BY <3>6, <4>1, StageType DEF Told
    <3>8. e.kind = "delete" => Stage(x) \in {0, 3} /\ p \notin DOMAIN L
      <4>1. ASSUME e.kind = "delete" PROVE Stage(x) \in {0, 3}
        BY <3>3, <4>1 DEF HandlerItem, WorkItem, Stage
      <4>2. QED BY <1>3, <2>2, <3>3, <4>1 DEF HandlerQueues
    <3>9. Stage(Pipe[k]) # 2 /\ Pipe[k].pod = p
      BY <3>4, <3>5, <3>7, <3>8
    <3>10. Apart(L, L, p) /\ UNCHANGED <<api, binder>>
      BY <1>4 DEF Apart
    <3>11. QED BY <1>3, <3>4, <3>5, <3>9, <3>10, QueuedShorter
  <2>3. QED BY <2>1, <2>2
<1>10. QED BY <1>7, <1>8, <1>9 DEF GInv, Ledger

\* What fits still fits when less is used.
LEMMA StillFits ==
    ASSUME BooksType, BooksType', NEW p \in Pods, NEW n \in Nodes,
           NEW ann \in Annotations(p) \cup {EmptyAnnotation}, Fits(p, n, ann),
           \A c \in Cards, k \in Resources :
               Amount(nodeStatuses'[n][c], k) <= Amount(nodeStatuses[n][c], k)
    PROVE  Fits(p, n, ann)'
<1> SUFFICES ASSUME NEW c \in Cards, NEW k \in DOMAIN Share(p, ann, c)
             PROVE  /\ Amount(Capacity, k) > 0
                    /\ Amount(nodeStatuses'[n][c], k) + Share(p, ann, c)[k] <= Amount(Capacity, k)
  BY DEF Fits
<1>1. k \in Resources /\ Share(p, ann, c)[k] \in Nat
  BY ShareType
<1>2. /\ Amount(nodeStatuses'[n][c], k) <= Amount(nodeStatuses[n][c], k)
      /\ Amount(nodeStatuses[n][c], k) + Share(p, ann, c)[k] <= Amount(Capacity, k)
      /\ Amount(Capacity, k) > 0
  BY <1>1 DEF Fits
<1>3. Amount(nodeStatuses[n][c], k) \in Nat /\ Amount(nodeStatuses'[n][c], k) \in Nat
          /\ Amount(Capacity, k) \in Nat
  BY AmountType, GasCacheAssumption DEF BooksType
<1>4. \A u, v, s, m \in Nat : u <= v /\ v + s <= m => u + s <= m
  OBVIOUS
<1>5. QED BY <1>1, <1>2, <1>3, <1>4

\* The worker handles an item: it releases an entry, or changes nothing.
LEMMA WorkGInv ==
    ASSUME GInv, IInv', PodWork
    PROVE  GInv'
<1>1. IInv /\ Lives /\ Seen
  BY DEF GInv
<1>2. PICK L : Ledger(L)
  BY DEF GInv
<1>3. Books(L) /\ Binds(L) /\ Owners(L) /\ Queued(L, Pipe) /\ DOMAIN L = annotatedPods
          /\ DOMAIN L \subseteq Pods
  BY <1>1, <1>2 DEF Ledger, Books, LedgerType, IInv, TypeOK, BooksType
<1>4. /\ api' = api /\ watch' = watch /\ lister' = lister /\ notify' = notify
      /\ rwmutex' = rwmutex /\ binder' = binder /\ podWorkQueue # <<>>
           /\ podWorkQueue' = Tail(podWorkQueue)
      /\ HandlePod(Head(podWorkQueue))
  BY DEF PodWork, apiVars, infVars, bindVars
<1>5. podWorkQueue \in Seq(Items) /\ notify \in Seq(Events) /\ watch \in Seq(Events)
  BY <1>1 DEF IInv, TypeOK, InformerType, ApiType
<1>6. Pipe' = PipeOf(Tail(podWorkQueue), notify, watch)
          /\ Pipe = PipeOf(podWorkQueue, notify, watch)
  BY <1>4 DEF Pipe
<1>7. Shorter(Pipe, Pipe', 1) /\ Pipe[1] = Head(podWorkQueue)
  BY <1>4, <1>5, <1>6, PipeWorked, Zenon
<1>8. PICK x, p : x = Head(podWorkQueue) /\ p = x.pod
  OBVIOUS
<1>9. x \in Items /\ p \in Pods /\ Pipe[1] = x /\ 1 \in DOMAIN Pipe
  <2>1. x \in Items
    BY <1>4, <1>5, <1>8
  <2>2. QED BY <1>7, <1>8, <2>1 DEF Items, Shorter
<1>10. Told(L, x) /\ Stage(x) \in 0..3
  BY <1>3, <1>9, StageType DEF Queued
<1>11. Lives' /\ Seen'
  BY <1>1, <1>4 DEF Lives, Life, Seen
<1>12. ASSUME UNCHANGED bookVars, Stage(x) = 2 => p \notin DOMAIN L PROVE GInv'
  <2>1. Books(L)' /\ Binds(L)' /\ Owners(L)'
    BY <1>3, <1>4, <1>12, BooksSame, BindsSame
  <2>2. Apart(L, L, p) /\ UNCHANGED <<api, binder>> /\ Pipe[1].pod = p
    BY <1>4, <1>8, <1>9 DEF Apart
  <2>3. p \in DOMAIN L => p \in DOMAIN L /\ L[p] = L[p] /\ Stage(Pipe[1]) # 2
    BY <1>9, <1>12
  <2>4. Queued(L, Pipe)'
    BY <1>3, <1>7, <1>9, <2>2, <2>3, QueuedShorter
  <2>5. QED BY <1>11, <2>1, <2>4 DEF GInv, Ledger
<1>13. CASE Stage(x) = 0
  <2>1. x.node = NoNode
    BY <1>13 DEF Stage
  <2>2. \A adj : ~CanAdjust(x.pod, adj, x.ann, x.node)
    BY <2>1 DEF CanAdjust
  <2>3. UNCHANGED bookVars
    BY <1>4, <1>8, <2>2 DEF HandlePod, AdjustPodResources
  <2>4. QED BY <1>12, <1>13, <2>3
<1>14. CASE Stage(x) = 1
  <2>1. x.action \notin {"podCompleted", "podDeleted"} /\ p \in annotatedPods
    BY <1>3, <1>8, <1>10, <1>14 DEF Stage, Told
  <2>2. UNCHANGED bookVars
    BY <1>4, <1>8, <2>1 DEF HandlePod
  <2>3. QED BY <1>12, <1>14, <2>2
<1>15. CASE Stage(x) = 3
  <2>1. p \notin annotatedPods
    <3>1. SUFFICES ASSUME p \in annotatedPods PROVE FALSE
      OBVIOUS
    <3>2. Ending(Pipe, p)
      BY <1>3, <1>8, <1>10, <1>15, <3>1 DEF Told, Queued
    <3>3. PICK j \in DOMAIN Pipe : Pipe[j].pod = p /\ Stage(Pipe[j]) = 2
      BY <3>2 DEF Ending
    <3>4. 1 < j
      <4>1. j # 1 /\ j \in Nat /\ j # 0
        BY <1>7, <1>9, <1>15, <3>3 DEF Shorter
      <4>2. QED BY <4>1
    <3>5. Stage(Pipe[1]) <= Stage(Pipe[j])
      BY <1>3, <1>8, <1>9, <1>15, <3>3, <3>4 DEF Queued, InOrder
    <3>6. QED BY <1>9, <1>15, <3>3, <3>5
  <2>2. x.action = "podDeleted"
    BY <1>15 DEF Stage
  <2>3. UNCHANGED bookVars
    BY <1>4, <1>8, <2>1, <2>2 DEF HandlePod
  <2>4. QED BY <1>12, <1>15, <2>3
<1>16. CASE Stage(x) = 2 /\ p \notin DOMAIN L
  <2>1. x.action = "podCompleted"
    BY <1>16 DEF Stage
  <2>2. UNCHANGED bookVars
    BY <1>3, <1>4, <1>8, <1>16, <2>1 DEF HandlePod
  <2>3. QED BY <1>12, <1>16, <2>2
<1>17. CASE Stage(x) = 2 /\ p \in DOMAIN L
  <2>1. x.action = "podCompleted" /\ ~InBind(p) /\ ~Using(p) /\ L[p] = Entry(x)
    BY <1>8, <1>10, <1>17 DEF Stage, Told
  <2>2. AdjustPodResources(p, "remove", L[p].ann, L[p].tiles, L[p].node)
    <3>1. L[p].ann = x.ann /\ L[p].tiles = x.tiles /\ L[p].node = x.node
      BY <2>1 DEF Entry
    <3>2. AdjustPodResources(x.pod, "remove", x.ann, x.tiles, x.node)
      BY <1>3, <1>4, <1>8, <1>17, <2>1 DEF HandlePod
    <3>3. QED BY <1>8, <3>1, <3>2
  <2>3. PICK M : M = Drop(L, p)
    OBVIOUS
  <2>4. BooksType /\ BooksType'
    BY <1>1 DEF IInv, TypeOK
  <2>5. /\ Books(Drop(L, p))'
        /\ \A m \in Nodes, c \in Cards, k \in Resources :
              Amount(nodeStatuses'[m][c], k) <= Amount(nodeStatuses[m][c], k)
        /\ \A m \in Nodes : nodeTileStatuses'[m] \subseteq nodeTileStatuses[m]
    BY <1>3, <1>17, <2>2, <2>4, BooksDischarged
  <2>6. Books(M)'
    BY <2>3, <2>5
  <2>7. Apart(L, M, p) /\ p \notin DOMAIN M
    BY <2>3 DEF Apart, Drop
  <2>8. OnlyAbout(p) /\ UNCHANGED <<api, binder>> /\ Pipe[1].pod = p
    BY <1>4, <1>8, <1>9 DEF OnlyAbout, InBind
  <2>9. Queued(M, Pipe)'
    <3>1. p \in DOMAIN L /\ p \notin DOMAIN M => 1 = 1 /\ Stage(Pipe[1]) = 2
      BY <1>9, <1>17
    <3>2. QED BY <1>3, <1>7, <1>9, <2>7, <2>8, <3>1, QueuedShorter
  <2>10. Owners(M)'
    <3>1. ~Using(p)'
      BY <1>4, <2>1 DEF Using, Bound, Live
    <3>2. QED BY <1>3, <1>9, <2>7, <2>8, <3>1, OwnersStep
  <2>11. Binds(M)'
    <3>1. ASSUME NEW b \in Binders, binder[b] # Idle PROVE BindFacts(M, b)'
      <4>1. BindFacts(L, b) /\ binder[b].pod # p
        BY <1>3, <2>1, <3>1 DEF Binds, InBind
      <4>2. PICK q, r : q = binder[b].pod /\ q \in Pods /\ r = binder[b] /\ r \in BinderRecord(q)
        BY <1>1, <3>1, BinderIsRecord DEF IInv, TypeOK
      <4>3. r.node \in Nodes /\ r.ann \in Annotations(q) \cup {EmptyAnnotation} /\ r.pod = q
        BY <4>2 DEF BinderRecord
      <4>4. Fits(q, r.node, r.ann) => Fits(q, r.node, r.ann)'
        BY <2>4, <2>5, <4>2, <4>3, StillFits
      <4>5. (q \in DOMAIN M <=> q \in DOMAIN L) /\ (q \in DOMAIN L => M[q] = L[q])
        BY <2>7, <4>1, <4>2 DEF Apart
      <4>6. nodeTileStatuses'[r.node] \subseteq nodeTileStatuses[r.node]
        BY <2>5, <4>3
      <4>7. binder'[b] = r /\ binder[b] = r /\ api' = api /\ rwmutex' = rwmutex
        BY <1>4, <4>2
      <4>8. /\ ~Bound(q) /\ r.uid = 1 /\ api[q].uid = 1
            /\ r.pc \in Locked => rwmutex = b
            /\ r.pc = "convert" => r.ann = EmptyAnnotation \/ Fits(q, r.node, r.ann)
            /\ r.pc = "adjust" => /\ Fits(q, r.node, r.ann)
                                  /\ r.tiles \cap nodeTileStatuses[r.node] = {}
                                  /\ Granted(q, r.ann, r.tiles)
            /\ r.pc \notin Charged => q \notin DOMAIN L
            /\ r.pc \in Charged => q \in DOMAIN L /\ L[q] = Entry(r)
            /\ r.pc = "bind" /\ Exists(q) => api[q].ann = r.ann /\ api[q].tiles = r.tiles
        BY <4>1, <4>3, <4>7 DEF BindFacts
      <4>9. (Bound(q)' <=> Bound(q)) /\ (Exists(q)' <=> Exists(q))
        BY <4>7 DEF Bound, Exists
      <4>10. /\ ~Bound(q)' /\ r.uid = 1 /\ api'[q].uid = 1
             /\ r.pc \in Locked => rwmutex' = b
             /\ r.pc = "convert" => r.ann = EmptyAnnotation \/ Fits(q, r.node, r.ann)'
             /\ r.pc = "adjust" => /\ Fits(q, r.node, r.ann)'
                                   /\ r.tiles \cap nodeTileStatuses'[r.node] = {}
                                   /\ Granted(q, r.ann, r.tiles)
             /\ r.pc \notin Charged => q \notin DOMAIN M
             /\ r.pc \in Charged => q \in DOMAIN M /\ M[q] = Entry(r)
             /\ r.pc = "bind" /\ Exists(q)' => api'[q].ann = r.ann /\ api'[q].tiles = r.tiles
        BY <4>4, <4>5, <4>6, <4>7, <4>8, <4>9
      <4>11. QED BY <4>3, <4>7, <4>10 DEF BindFacts, Fits, Granted, Entry
    <3>2. QED BY <1>3, <1>4, <3>1 DEF Binds
  <2>12. QED BY <1>11, <2>6, <2>9, <2>10, <2>11 DEF GInv, Ledger
<1>18. QED BY <1>10, <1>13, <1>14, <1>15, <1>16, <1>17

\* Nothing happens.
LEMMA StutterGInv ==
    ASSUME GInv, IInv', UNCHANGED vars
    PROVE  GInv'
<1>1. IInv /\ Lives /\ Seen
  BY DEF GInv
<1>2. PICK L : Ledger(L)
  BY DEF GInv
<1>3. /\ api' = api /\ watch' = watch /\ lister' = lister /\ notify' = notify
      /\ podWorkQueue' = podWorkQueue /\ UNCHANGED bookVars /\ rwmutex' = rwmutex
           /\ binder' = binder
      /\ UNCHANGED <<apiVars, infVars, podWorkQueue>>
  BY DEF vars, apiVars, infVars, bindVars
<1>4. Lives' /\ Seen'
  BY <1>1, <1>3 DEF Lives, Life, Seen
<1>5. Books(L)' /\ Binds(L)' /\ Owners(L)'
  BY <1>2, <1>3, BooksSame, BindsSame DEF Ledger
<1>6. Pipe' = Pipe
  BY <1>3, PipeSame
<1>7. Queued(L, Pipe)'
  BY <1>2, <1>3, <1>6 DEF Ledger, Queued, Told, InOrder, Ending, InBind, Using, Bound, Live, Exists
<1>8. QED BY <1>4, <1>5, <1>7 DEF GInv, Ledger

\* Every step keeps the invariant, when there are no faults and names are used once.
LEMMA NextGInv ==
    ASSUME Graceful, GInv, [Next]_vars
    PROVE  GInv'
<1>1. IInv'
  BY NextIInv DEF GInv
<1>2. ASSUME NEW p \in Pods, CreatePod(p) PROVE GInv'
  BY <1>1, <1>2, CreateGInv
<1>3. ASSUME NEW p \in Pods, StartPod(p) PROVE GInv'
  <2>1. Bound(p) /\ Exists(p) /\ api[p].status = "pending"
    BY <1>3 DEF StartPod, Exists
  <2>2. Store(p, [api[p] EXCEPT !.status = "running"], "update")
        /\ UNCHANGED <<infVars, podWorkQueue, bookVars, bindVars>>
    BY <1>3 DEF StartPod
  <2>3. QED BY <1>1, <2>1, <2>2, BoundMoves
<1>4. ASSUME NEW p \in Pods, EndPod(p) PROVE GInv'
  <2>1. Bound(p) /\ Exists(p)
    BY <1>4 DEF EndPod, Exists, Live
  <2>2. Store(p, [api[p] EXCEPT !.status = "ended"], "update")
        /\ UNCHANGED <<infVars, podWorkQueue, bookVars, bindVars>>
    BY <1>4 DEF EndPod
  <2>3. QED BY <1>1, <2>1, <2>2, BoundMoves
<1>5. ASSUME NEW p \in Pods, DeletePod(p) PROVE GInv'
  <2>1. Bound(p) /\ Exists(p)
    BY <1>5 DEF DeletePod, Exists, Live
  <2>2. Store(p, [api[p] EXCEPT !.status = "deleting"], "update")
        /\ UNCHANGED <<infVars, podWorkQueue, bookVars, bindVars>>
    BY <1>5 DEF DeletePod
  <2>3. QED BY <1>1, <2>1, <2>2, BoundMoves
<1>6. ASSUME NEW p \in Pods, RemovePod(p) PROVE GInv'
  BY <1>1, <1>6, RemoveGInv
<1>7. ASSUME NEW b \in Binders, NEW p \in Pods, NEW n \in Nodes, BindRequest(b, p, n) PROVE GInv'
  BY <1>1, <1>7, RequestGInv
<1>8. ASSUME NEW b \in Binders, BindStep(b) PROVE GInv'
  <2>1. CASE CheckForSpace(b)
    BY <1>1, <2>1, CheckGInv
  <2>2. CASE CheckFails(b)
    BY <1>1, <2>2, CheckFailsGInv
  <2>3. CASE ConvertToAnnotations(b)
    BY <1>1, <2>3, ConvertGInv
  <2>4. CASE NothingToAnnotate(b)
    BY <1>1, <2>4, NothingGInv
  <2>5. CASE ChargePod(b)
    BY <1>1, <2>5, ChargeGInv
  <2>6. CASE AnnotatePodBind(b)
    BY <1>1, <2>6, AnnotateGInv
  <2>7. CASE BindApi(b)
    BY <1>1, <2>7, BindApiGInv
  <2>8. CASE CallFails(b)
    BY <1>1, <2>8, CallFailsGInv
  <2>9. CASE Rollback(b)
    BY <1>1, <2>9, RollbackGInv
  <2>10. QED BY <1>8, <2>1, <2>2, <2>3, <2>4, <2>5, <2>6, <2>7, <2>8, <2>9 DEF BindStep
<1>9. CASE Deliver
  BY <1>1, <1>9, DeliverGInv
<1>10. CASE Handle
  BY <1>1, <1>10, HandleGInv
<1>11. CASE PodWork
  BY <1>1, <1>11, WorkGInv
<1>12. ~Restart /\ ~WatchGap
  BY DEF Restart, WatchGap, Graceful
<1>13. CASE UNCHANGED vars
  BY <1>1, <1>13, StutterGInv
<1>14. QED
  BY <1>2, <1>3, <1>4, <1>5, <1>6, <1>7, <1>8, <1>9, <1>10, <1>11, <1>12, <1>13 DEF Next

\* The books can always be explained by a ledger that the pods, the binds in
\* progress and the events on their way agree with.
THEOREM LedgerKept ==
    ASSUME Graceful
    PROVE  Spec => []GInv
<1>1. Init => GInv
  BY InitGInv
<1>2. GInv /\ [Next]_vars => GInv'
  BY NextGInv
<1>3. QED BY <1>1, <1>2, PTL DEF Spec

-----------------------------------------------------------------------------
(* What follows from the ledger. *)

\* What the running pods use is part of what the ledger adds up to, and all of it
\* when every entry is of a running pod.
LEMMA UsedIsCharged ==
    ASSUME GInv, NEW L, Ledger(L), NEW n \in Nodes, NEW c \in Cards, NEW k \in Resources
    PROVE  /\ Used(n, c, k) \in Nat
           /\ Used(n, c, k) <= Amount(nodeStatuses[n][c], k)
           /\ Amount(nodeStatuses[n][c], k) <= Amount(Capacity, k)
           /\ (\A p \in DOMAIN L : Using(p)) => Amount(nodeStatuses[n][c], k) = Used(n, c, k)
<1>1. PICK S : S = {p \in Pods : Using(p) /\ api[p].node = n}
  OBVIOUS
<1>2. PICK f : f = Part(L, n, c, k)
  OBVIOUS
<1>3. Books(L) /\ Owners(L) /\ WellTyped(L)
  BY DEF Ledger, Books, LedgerType, WellTyped, GInv, IInv, TypeOK, BooksType
<1>4. \A p \in Pods : f[p] \in Nat
  BY <1>2, <1>3, PartType
<1>5. S \in SUBSET Pods /\ IsFiniteSet(S) /\ IsFiniteSet(Pods)
  BY <1>1, PodSharesAssumption, FS_Subset
<1>6. ASSUME NEW p \in S PROVE f[p] = Amount(Share(p, api[p].ann, c), k)
  <2>1. p \in Pods /\ Using(p) /\ api[p].node = n /\ Bound(p)
    BY <1>1 DEF Using
  <2>2. p \in DOMAIN L /\ L[p] = Entry(api[p])
    BY <1>3, <2>1 DEF Owners
  <2>3. QED BY <1>2, <2>1, <2>2 DEF Part, Entry
<1>7. PICK g : g = [p \in S |-> Amount(Share(p, api[p].ann, c), k)]
  OBVIOUS
<1>8. \A p \in S : g[p] = f[p] /\ f[p] \in Nat
  BY <1>4, <1>5, <1>6, <1>7
<1>9. Used(n, c, k) = SumFunctionOnSet(g, S)
  BY <1>1, <1>7 DEF Used, UsedBy
<1>10. SumFunctionOnSet(g, S) = SumFunctionOnSet(f, S)
  BY <1>5, <1>8, SumAgree
<1>11. SumFunctionOnSet(f, S) <= SumFunctionOnSet(f, Pods) /\ SumFunctionOnSet(f, S) \in Nat
  BY <1>4, <1>5, <1>8, SumSubset, SumType
<1>12. /\ Amount(nodeStatuses[n][c], k) = SumFunctionOnSet(f, Pods)
       /\ Amount(nodeStatuses[n][c], k) <= Amount(Capacity, k)
  BY <1>2, <1>3 DEF Books, AmountsExact, Total
<1>13. ASSUME \A p \in DOMAIN L : Using(p) PROVE SumFunctionOnSet(f, Pods) = SumFunctionOnSet(f, S)
  <2>1. ASSUME NEW p \in Pods \ S PROVE f[p] = 0
    <3>1. SUFFICES ASSUME p \in DOMAIN L, L[p].node = n PROVE FALSE
      BY <1>2 DEF Part
    <3>2. Using(p) /\ Bound(p)
      BY <1>13, <3>1 DEF Using
    <3>3. L[p] = Entry(api[p])
      BY <1>3, <3>1, <3>2 DEF Owners
    <3>4. QED BY <1>1, <3>1, <3>2, <3>3 DEF Entry
  <2>2. QED BY <1>4, <1>5, <2>1, SumZeroOutside
<1>14. QED BY <1>9, <1>10, <1>11, <1>12, <1>13

\* For every number of pods, containers, cards, tiles, resources and binds: while
\* the API server, the watch and the process do not fail and no pod name is used
\* again, filter and bind never place more on a card than it has.
THEOREM NeverOvercommits ==
    ASSUME Graceful
    PROVE  Spec => []NoOvercommit
<1>1. ASSUME GInv PROVE NoOvercommit
  <2>1. PICK L : Ledger(L)
    BY <1>1 DEF GInv
  <2> SUFFICES ASSUME NEW n \in Nodes, NEW c \in Cards, NEW k \in Resources
               PROVE  Used(n, c, k) <= Amount(Capacity, k)
    BY DEF NoOvercommit
  <2>2. /\ Used(n, c, k) \in Nat /\ Used(n, c, k) <= Amount(nodeStatuses[n][c], k)
        /\ Amount(nodeStatuses[n][c], k) <= Amount(Capacity, k)
    BY <1>1, <2>1, UsedIsCharged
  <2>3. Amount(nodeStatuses[n][c], k) \in Nat /\ Amount(Capacity, k) \in Nat
    BY <1>1, AmountType, GasCacheAssumption DEF GInv, IInv, TypeOK, BooksType
  <2>4. QED BY <2>2, <2>3
<1>2. QED BY <1>1, LedgerKept, PTL

\* The books show at least what the running pods use.
THEOREM NeverUndercounts ==
    ASSUME Graceful
    PROVE  Spec => []NoUndercount
<1>1. ASSUME GInv PROVE NoUndercount
  <2>1. PICK L : Ledger(L)
    BY <1>1 DEF GInv
  <2>2. QED BY <1>1, <2>1, UsedIsCharged DEF NoUndercount
<1>2. QED BY <1>1, LedgerKept, PTL

\* No tile is given to two running pods of a node, and each is marked as used.
THEOREM TilesAreExclusive ==
    ASSUME Graceful
    PROVE  Spec => []TileExclusive
<1>1. ASSUME GInv PROVE TileExclusive
  <2>1. PICK L : Ledger(L)
    BY <1>1 DEF GInv
  <2>2. TilesExact(L) /\ Owners(L)
    BY <2>1 DEF Ledger, Books
  <2>3. ASSUME NEW p \in Pods, Using(p)
        PROVE  /\ p \in DOMAIN L /\ L[p].node = api[p].node /\ L[p].tiles = api[p].tiles
               /\ api[p].node \in Nodes /\ api[p].tiles \subseteq Cards \X Tiles
    <3>1. Bound(p) /\ p \in DOMAIN L /\ L[p] = Entry(api[p])
      BY <2>2, <2>3 DEF Owners, Using
    <3>2. api[p] \in PodObject(p)
      BY <1>1 DEF GInv, IInv, TypeOK, ApiType
    <3>3. QED BY <3>1, <3>2 DEF Entry, PodObject, TileSets, NodeNames, Bound
  <2>4. ASSUME NEW p \in Pods, Using(p) PROVE api[p].tiles \subseteq nodeTileStatuses[api[p].node]
    BY <2>2, <2>3, <2>4 DEF TilesExact
  <2>5. ASSUME NEW p \in Pods, NEW q \in Pods, p # q, Using(p), Using(q), api[p].node = api[q].node
        PROVE  api[p].tiles \cap api[q].tiles = {}
    BY <2>2, <2>3, <2>5 DEF TilesExact
  <2>6. QED BY <2>4, <2>5 DEF TileExclusive
<1>2. QED BY <1>1, LedgerKept, PTL

\* When nothing is on its way the books hold exactly what the running pods use.
THEOREM BooksAreBalanced ==
    ASSUME Graceful
    PROVE  Spec => []BooksBalanced
<1>1. ASSUME GInv PROVE BooksBalanced
  <2>1. PICK L : Ledger(L)
    BY <1>1 DEF GInv
  <2>2. TilesExact(L) /\ Owners(L) /\ Queued(L, Pipe) /\ DOMAIN L = annotatedPods
            /\ annotatedPods \subseteq Pods
        /\ nodeTileStatuses \in [Nodes -> TileSets]
    BY <1>1, <2>1 DEF Ledger, Books, LedgerType, GInv, IInv, TypeOK, BooksType
  <2> SUFFICES ASSUME Quiescent
               PROVE  /\ annotatedPods = {p \in Pods : Using(p)}
                      /\ \A n \in Nodes :
                            /\ nodeTileStatuses[n] =
                                  UNION {api[p].tiles : p \in {q \in Pods :
                                      Using(q) /\ api[q].node = n}}
                            /\ \A c \in Cards, k \in Resources :
                                  Amount(nodeStatuses[n][c], k) = Used(n, c, k)
    BY DEF BooksBalanced
  <2>3. \A p : ~InBind(p) /\ ~Ending(Pipe, p)
    <3>1. DOMAIN Pipe = {}
      BY DEF Quiescent, Pipe, PipeOf
    <3>2. QED BY <3>1 DEF Quiescent, InBind, Ending
  <2>4. \A p \in DOMAIN L : Using(p)
    BY <2>2, <2>3 DEF Queued
  <2>5. annotatedPods = {p \in Pods : Using(p)}
    BY <2>2, <2>4 DEF Owners
  <2>6. \A p \in DOMAIN L : p \in Pods /\ L[p].node = api[p].node /\ L[p].tiles = api[p].tiles
    <3>1. ASSUME NEW p \in DOMAIN L PROVE p \in Pods /\ Bound(p)
      BY <2>2, <2>4 DEF Using
    <3>2. \A p \in DOMAIN L : L[p] = Entry(api[p])
      BY <2>2, <3>1 DEF Owners
    <3>3. QED BY <3>1, <3>2 DEF Entry
  <2>7. ASSUME NEW n \in Nodes
        PROVE  nodeTileStatuses[n] =
                  UNION {api[p].tiles : p \in {q \in Pods : Using(q) /\ api[q].node = n}}
    <3>1. \A p \in Pods : api[p].tiles \subseteq Cards \X Tiles
      BY <1>1 DEF GInv, IInv, TypeOK, ApiType, PodObject, TileSets
    <3>2. nodeTileStatuses[n] \subseteq Cards \X Tiles
      BY <2>2 DEF TileSets
    <3>3. ASSUME NEW t \in nodeTileStatuses[n]
          PROVE  \E p \in {q \in Pods : Using(q) /\ api[q].node = n} : t \in api[p].tiles
      <4>1. PICK p \in DOMAIN L : L[p].node = n /\ t \in L[p].tiles
        BY <2>2, <3>2 DEF TilesExact
      <4>2. QED BY <2>4, <2>6, <4>1
    <3>4. ASSUME NEW p \in Pods, Using(p), api[p].node = n, NEW t \in api[p].tiles
          PROVE  t \in nodeTileStatuses[n]
      <4>1. p \in DOMAIN L
        BY <2>2, <2>5, <3>4
      <4>2. L[p].node = n /\ t \in L[p].tiles /\ t \in Cards \X Tiles
        BY <2>6, <3>1, <3>4, <4>1
      <4>3. QED BY <2>2, <4>1, <4>2 DEF TilesExact
    <3>5. QED BY <3>3, <3>4
  <2>8. \A n \in Nodes, c \in Cards, k \in Resources : Amount(nodeStatuses[n][c], k) = Used(n, c, k)
    BY <1>1, <2>1, <2>4, UsedIsCharged
  <2>9. QED BY <2>5, <2>7, <2>8
<1>2. QED BY <1>1, LedgerKept, PTL

-----------------------------------------------------------------------------
(* The refinement of GpuAllocator. *)

\* The operators of the instance are those of this module: amounts,
LEMMA SameAmount == \A rm, k : Allocator!Amount(rm, k) = Amount(rm, k)
BY DEF Amount, Allocator!Amount

\* sums,
LEMMA SameSum == \A f, S : Allocator!SumFunctionOnSet(f, S) = SumFunctionOnSet(f, S)
BY DEF SumFunctionOnSet, Allocator!SumFunctionOnSet, FoldFunctionOnSet,
       Allocator!FoldFunctionOnSet, MapThenFoldSet, Allocator!MapThenFoldSet

\* sizes of sets,
LEMMA SameCardinality == \A S : Allocator!Cardinality(S) = Cardinality(S)
BY DEF Cardinality, Allocator!Cardinality

\* the choices of cards a pod may be given,
LEMMA SameAnnotations == \A p : Allocator!Annotations(p) = Annotations(p)
BY SameCardinality
   DEF Annotations, Allocator!Annotations, Containers, Allocator!Containers,
       NumGPUReq, Allocator!NumGPUReq, Amount, Allocator!Amount

\* and what a choice takes of a card.
LEMMA SameShare == \A p, a, c : Allocator!Share(p, a, c) = Share(p, a, c)
<1> TAKE p, a, c
<1>1. \A i : Allocator!PerCard(p, a, i) = PerCard(p, a, i)
  BY SameCardinality DEF PerCard, Allocator!PerCard, Divide, Allocator!Divide
<1>2. Allocator!ContainersOn(a, c) = ContainersOn(a, c)
  BY DEF ContainersOn, Allocator!ContainersOn
<1> DEFINE on == ContainersOn(a, c)
<1> DEFINE D == UNION {DOMAIN Requests[p][i] : i \in on}
<1> DEFINE u(k) == [i \in on |-> Amount(PerCard(p, a, i), k)]
<1> DEFINE v(k) == [i \in on |-> Allocator!Amount(Allocator!PerCard(p, a, i), k)]
<1>3. \A k : u(k) = v(k)
  BY <1>1, SameAmount
<1>4. Share(p, a, c) = [k \in D |-> SumFunctionOnSet(u(k), on)]
  BY DEF Share
<1>5. Allocator!Share(p, a, c) = [k \in D |-> Allocator!SumFunctionOnSet(v(k), on)]
  BY <1>2 DEF Allocator!Share
<1> HIDE DEF u, v, D
<1>6. \A k : Allocator!SumFunctionOnSet(v(k), on) = SumFunctionOnSet(u(k), on)
  BY <1>3, SameSum
<1>7. QED BY <1>4, <1>5, <1>6

\* A running pod holds an allocation, others do not.
LEMMA HeldIs ==
    ASSUME GInv, NEW p \in Pods
    PROVE  /\ Using(p) => /\ Held[p] = Entry(api[p]) /\ Held[p] \in Entries(p)
                          /\ Held[p] # NoAnnotation /\ Held[p].node = api[p].node
                          /\ Held[p].ann = api[p].ann /\ Held[p].tiles = api[p].tiles
           /\ ~Using(p) => Held[p] = NoAnnotation
<1>1. CASE Using(p)
  <2>1. Held[p] = Entry(api[p])
    BY <1>1 DEF Held, Entry
  <2>2. api[p] \in PodObject(p) /\ api[p].node # NoNode /\ api[p].ann # NoAnnotation
    BY <1>1, Objects DEF GInv, Using, Bound, Life
  <2>3. Entry(api[p]) \in Entries(p)
    BY <2>2 DEF PodObject, Entry, Entries, PodAnnotations, NodeNames
  <2>4. NoAnnotation \notin Entries(p)
    BY GasCacheAssumption DEF Entries, TileSets
  <2>5. QED BY <1>1, <2>1, <2>3, <2>4 DEF Entry
<1>2. CASE ~Using(p)
  BY <1>2 DEF Held
<1>3. QED BY <1>1, <1>2

\* What is held of a card fits it.
HeldFits ==
    \A n \in Nodes, c \in Cards, k \in Resources :
        Allocator!Load(Held, n, c, k) <= Amount(Capacity, k)

\* The ledger bounds what is held.
LEMMA LoadFits == GInv => HeldFits
<1> SUFFICES ASSUME GInv, NEW n \in Nodes, NEW c \in Cards, NEW k \in Resources
             PROVE  Allocator!Load(Held, n, c, k) <= Amount(Capacity, k)
  BY DEF HeldFits
<1>1. PICK L : Ledger(L)
  BY DEF GInv
<1>2. PICK S : S = {p \in Pods : Using(p) /\ api[p].node = n}
  OBVIOUS
<1>3. S = {p \in Pods : Held[p] # NoAnnotation /\ Held[p].node = n}
  BY <1>2, HeldIs
<1>4. PICK f, g : /\ f = [p \in S |-> Amount(Share(p, api[p].ann, c), k)]
                  /\ g = [p \in S |-> Allocator!Amount(Allocator!Share(p, Held[p].ann, c), k)]
  OBVIOUS
<1>5. f = g
  <2>1. ASSUME NEW p \in S
        PROVE  Amount(Share(p, api[p].ann, c), k) =
                   Allocator!Amount(Allocator!Share(p, Held[p].ann, c), k)
    <3>1. Held[p].ann = api[p].ann
      BY <1>2, HeldIs
    <3>2. QED BY <3>1, SameAmount, SameShare
  <2>2. QED BY <1>4, <2>1
<1>6. Used(n, c, k) = SumFunctionOnSet(f, S)
  BY <1>2, <1>4 DEF Used, UsedBy
<1>7. Allocator!Load(Held, n, c, k) = Allocator!SumFunctionOnSet(g, S)
  BY <1>3, <1>4 DEF Allocator!Load
<1>8. Allocator!Load(Held, n, c, k) = Used(n, c, k)
  BY <1>5, <1>6, <1>7, SameSum
<1>9. /\ Used(n, c, k) \in Nat /\ Used(n, c, k) <= Amount(nodeStatuses[n][c], k)
      /\ Amount(nodeStatuses[n][c], k) <= Amount(Capacity, k)
  BY <1>1, UsedIsCharged
<1>10. Amount(nodeStatuses[n][c], k) \in Nat /\ Amount(Capacity, k) \in Nat
  BY AmountType, GasCacheAssumption DEF GInv, IInv, TypeOK, BooksType
<1>11. QED BY <1>8, <1>9, <1>10

\* A step of a pod that does not start to run keeps what is held, or releases it.
LEMMA HeldOrReleased ==
    ASSUME GInv, NEW p \in Pods, NEW obj, api' = [api EXCEPT ![p] = obj],
           Using(p)' => Using(p) /\ obj.node = api[p].node /\ obj.ann = api[p].ann
               /\ obj.tiles = api[p].tiles
    PROVE  Held' = Held \/ Allocator!Release(p)
<1>1. api'[p] = obj /\ \A q \in Pods \ {p} : api'[q] = api[q]
  BY DEF GInv, IInv, TypeOK, ApiType
<1>2. \A q \in Pods \ {p} : Held'[q] = Held[q]
  BY <1>1 DEF Held, Using, Bound, Live
<1>3. DOMAIN Held = Pods /\ DOMAIN Held' = Pods /\ Held = [q \in Pods |-> Held[q]]
          /\ Held' = [q \in Pods |-> Held'[q]]
  BY DEF Held
<1>4. CASE Using(p)'
  <2>1. Held'[p] = Held[p]
    BY <1>1, <1>4 DEF Held
  <2>2. QED BY <1>2, <1>3, <2>1
<1>5. CASE ~Using(p)' /\ ~Using(p)
  <2>1. Held'[p] = Held[p]
    BY <1>5 DEF Held
  <2>2. QED BY <1>2, <1>3, <2>1
<1>6. CASE ~Using(p)' /\ Using(p)
  <2>1. Held'[p] = NoAnnotation /\ Held[p] # NoAnnotation
    BY <1>6, HeldIs DEF Held
  <2>2. Held' = [Held EXCEPT ![p] = NoAnnotation]
    BY <1>2, <1>3, <2>1
  <2>3. QED BY <2>1, <2>2 DEF Allocator!Release
<1>7. QED BY <1>4, <1>5, <1>6

\* The bind that the API server applies is the allocation: the pod held nothing,
\* what it is given fits, with all the tiles it asked for and none of another's.
LEMMA BindAllocates ==
    ASSUME Graceful, GInv, HeldFits', NEW b \in Binders, BindApi(b)
    PROVE  Allocator!Next
<1>1. PICK L : Ledger(L)
  BY DEF GInv
<1>2. binder[b] # Idle /\ binder[b].pc = "bind" /\ binder[b].pc \in Charged
  BY DEF BindApi, At, Charged
<1>3. PICK p, r : p \in Pods /\ p = binder[b].pod /\ r = binder[b]
  BY <1>1, <1>2, BindKnows
<1>4. /\ BindFacts(L, b) /\ r \in BinderRecord(p) /\ r.ann \in Annotations(p) /\ r.pod = p
      /\ Books(L)
  BY <1>1, <1>2, <1>3, BindKnows
<1>5. Live(p) /\ Exists(p)
  BY <1>3 DEF BindApi, Live, Exists
<1>6. /\ ~Bound(p) /\ api[p].ann = r.ann /\ api[p].tiles = r.tiles
      /\ p \in DOMAIN L /\ L[p] = Entry(r)
  BY <1>2, <1>3, <1>4, <1>5 DEF BindFacts
<1>7. r.node \in Nodes /\ r.tiles \in TileSets /\ r.node # NoNode
  BY <1>4, GasCacheAssumption DEF BinderRecord
<1>8. PICK obj, x : obj = [api[p] EXCEPT !.node = r.node] /\ x = Entry(r)
  OBVIOUS
<1>9. api' = [api EXCEPT ![p] = obj]
  BY <1>3, <1>8 DEF BindApi, Store
<1>10. api'[p] = obj /\ \A q \in Pods \ {p} : api'[q] = api[q]
  BY <1>3, <1>9 DEF GInv, IInv, TypeOK, ApiType
<1>11. obj.node = r.node /\ obj.ann = r.ann /\ obj.tiles = r.tiles /\ obj.status = api[p].status
  BY <1>3, <1>6, <1>8, Objects DEF GInv, PodObject
<1>12. Using(p)' /\ ~Using(p)
  BY <1>5, <1>6, <1>7, <1>10, <1>11 DEF Using, Bound, Live
<1>13. Held[p] = NoAnnotation
  BY <1>3, <1>12 DEF Held
<1>14. Held' = [Held EXCEPT ![p] = x]
  <2>1. Held'[p] = x
    BY <1>3, <1>8, <1>10, <1>11, <1>12 DEF Held, Entry
  <2>2. \A q \in Pods \ {p} : Held'[q] = Held[q]
    BY <1>10 DEF Held, Using, Bound, Live
  <2>3. Held = [q \in Pods |-> Held[q]] /\ Held' = [q \in Pods |-> Held'[q]]
    BY DEF Held
  <2>4. QED BY <2>1, <2>2, <2>3
<1>15. \A c \in Cards, k \in Resources :
          Allocator!Load(Held', r.node, c, k) <= Allocator!Amount(Capacity, k)
  <2>1. \A c \in Cards, k \in Resources :
          Allocator!Load(Held', r.node, c, k) <= Amount(Capacity, k)
    BY <1>7 DEF HeldFits
  <2>2. QED BY <2>1, SameAmount
<1>16. TilesExact(L)
  BY <1>4 DEF Books
<1>17. Allocator!TilesGranted(p, r.ann, r.tiles)
  <2>1. Granted(p, r.ann, r.tiles)
    BY <1>6, <1>16 DEF TilesExact, Entry
  <2>2. ASSUME NEW c \in Cards
        PROVE  Allocator!Cardinality({t \in Tiles : <<c, t>> \in r.tiles})
                  = Allocator!Amount(Allocator!Share(p, r.ann, c), TileRes)
    BY <2>1, SameCardinality, SameAmount, SameShare DEF Granted, TilesOf
  <2>3. QED BY <2>2 DEF Allocator!TilesGranted
<1>18. ASSUME NEW q \in Pods \ {p}, Held[q] # NoAnnotation, Held[q].node = r.node
       PROVE  Held[q].tiles \cap r.tiles = {}
  <2>1. Using(q) /\ Held[q] = Entry(api[q])
    BY <1>18, HeldIs
  <2>2. q \in DOMAIN L /\ L[q] = Entry(api[q])
    BY <1>1, <2>1 DEF Ledger, Owners, Using
  <2>3. L[q].node = L[p].node
    BY <1>6, <1>18, <2>1, <2>2 DEF Entry
  <2>4. L[q].tiles \cap L[p].tiles = {}
    BY <1>6, <1>16, <2>2, <2>3 DEF TilesExact
  <2>5. QED BY <1>6, <2>1, <2>2, <2>4 DEF Entry
<1>19. x = [node |-> r.node, ann |-> r.ann, tiles |-> r.tiles]
  BY <1>8 DEF Entry
<1>20. Allocator!Allocate(p, r.node, r.ann, r.tiles)
  BY <1>13, <1>14, <1>15, <1>17, <1>18, <1>19 DEF Allocator!Allocate
<1>21. r.ann \in Allocator!Annotations(p) /\ r.tiles \in SUBSET (Cards \X Tiles)
  BY <1>4, <1>7, SameAnnotations DEF TileSets
<1>22. QED BY <1>3, <1>7, <1>20, <1>21 DEF Allocator!Next

\* A step that leaves the pods alone, or changes one without running it.
LEMMA StepReleases ==
    ASSUME GInv, NEW p \in Pods, NEW obj, api' = [api EXCEPT ![p] = obj],
           \/ obj.node = NoNode
           \/ obj.status \notin {"pending", "running"}
           \/ /\ Using(p) /\ obj.node = api[p].node
              /\ obj.ann = api[p].ann /\ obj.tiles = api[p].tiles
    PROVE  [Allocator!Next]_Held
<1>1. api'[p] = obj
  BY DEF GInv, IInv, TypeOK, ApiType
<1>2. Using(p)' => Using(p) /\ obj.node = api[p].node /\ obj.ann = api[p].ann
          /\ obj.tiles = api[p].tiles
  BY <1>1 DEF Using, Bound, Live
<1>3. Held' = Held \/ Allocator!Release(p)
  BY <1>2, HeldOrReleased
<1>4. QED BY <1>3 DEF Allocator!Next

\* Every step of the cache is a step of the allocator, or changes nothing that it
\* can see.
LEMMA StepImplements ==
    ASSUME Graceful, GInv, HeldFits', [Next]_vars
    PROVE  [Allocator!Next]_Held
<1>1. ASSUME api' = api PROVE [Allocator!Next]_Held
  BY <1>1 DEF Held, Using, Bound, Live
<1>2. ASSUME NEW p \in Pods, CreatePod(p) PROVE [Allocator!Next]_Held
  <2>1. PICK obj : obj = [Absent(api[p].uid + 1) EXCEPT !.status = "pending"]
    OBVIOUS
  <2>2. obj.node = NoNode
    BY <2>1 DEF Absent
  <2>3. QED BY <1>2, <2>1, <2>2, StepReleases DEF CreatePod, Store
<1>3. ASSUME NEW p \in Pods, StartPod(p) PROVE [Allocator!Next]_Held
  <2>1. PICK obj : obj = [api[p] EXCEPT !.status = "running"]
    OBVIOUS
  <2>2. /\ Using(p) /\ obj.node = api[p].node
        /\ obj.ann = api[p].ann /\ obj.tiles = api[p].tiles
    BY <1>3, <2>1, Objects DEF StartPod, Using, Live, GInv, PodObject
  <2>3. QED BY <1>3, <2>1, <2>2, StepReleases DEF StartPod, Store
<1>4. ASSUME NEW p \in Pods, EndPod(p) PROVE [Allocator!Next]_Held
  <2>1. PICK obj : obj = [api[p] EXCEPT !.status = "ended"]
    OBVIOUS
  <2>2. obj.status \notin {"pending", "running"}
    BY <2>1, Objects DEF GInv, PodObject
  <2>3. QED BY <1>4, <2>1, <2>2, StepReleases DEF EndPod, Store
<1>5. ASSUME NEW p \in Pods, DeletePod(p) PROVE [Allocator!Next]_Held
  <2>1. PICK obj : obj = [api[p] EXCEPT !.status = "deleting"]
    OBVIOUS
  <2>2. obj.status \notin {"pending", "running"}
    BY <2>1, Objects DEF GInv, PodObject
  <2>3. QED BY <1>5, <2>1, <2>2, StepReleases DEF DeletePod, Store
<1>6. ASSUME NEW p \in Pods, RemovePod(p) PROVE [Allocator!Next]_Held
  <2>1. PICK obj : obj = Absent(api[p].uid)
    OBVIOUS
  <2>2. obj.node = NoNode
    BY <2>1 DEF Absent
  <2>3. QED BY <1>6, <2>1, <2>2, StepReleases DEF RemovePod
<1>7. ASSUME NEW b \in Binders, BindStep(b) PROVE [Allocator!Next]_Held
  <2>1. CASE AnnotatePodBind(b)
    <3>1. binder[b] # Idle
      BY <2>1 DEF AnnotatePodBind, At
    <3>2. PICK L : Ledger(L)
      BY DEF GInv
    <3>3. PICK p : p \in Pods /\ p = binder[b].pod
      BY <3>1, <3>2, BindKnows
    <3>4. ~Bound(p)
      BY <3>1, <3>2, <3>3, BindKnows DEF BindFacts
    <3>0. PICK old \in KeptTiles(p) :
             Store(p, [api[p] EXCEPT !.ann = binder[b].ann,
                                     !.tiles = PatchedTiles(binder[b], old)], "update")
      BY <2>1, <3>3 DEF AnnotatePodBind
    <3>5. PICK obj : obj = [api[p] EXCEPT !.ann = binder[b].ann,
                               !.tiles = PatchedTiles(binder[b], old)]
      OBVIOUS
    <3>6. obj.node = NoNode
      BY <3>3, <3>4, <3>5, Objects DEF GInv, PodObject, Bound
    <3>7. QED BY <3>0, <3>3, <3>5, <3>6, StepReleases DEF Store
  <2>2. CASE BindApi(b)
    BY <2>2, BindAllocates
  <2>3. CASE /\ ~AnnotatePodBind(b) /\ ~BindApi(b)
    <3>1. api' = api
      BY <1>7, <2>3
         DEF BindStep, CheckForSpace, CheckFails, ConvertToAnnotations, NothingToAnnotate,
             ChargePod, CallFails, Rollback, apiVars
    <3>2. QED BY <1>1, <3>1
  <2>4. QED BY <2>1, <2>2, <2>3
<1>8. CASE \/ \E b \in Binders, p \in Pods, n \in Nodes : BindRequest(b, p, n)
           \/ Deliver \/ Handle \/ PodWork \/ UNCHANGED vars
  <2>1. api' = api
    BY <1>8 DEF BindRequest, Deliver, Handle, PodWork, vars, apiVars
  <2>2. QED BY <1>1, <2>1
<1>9. ~Restart /\ ~WatchGap
  BY DEF Restart, WatchGap, Graceful
<1>10. QED
  BY <1>2, <1>3, <1>4, <1>5, <1>6, <1>7, <1>8, <1>9 DEF Next

\* Without faults, and while no pod name is used twice, the cache, the bind
\* handler, the informer and the worker implement the allocator: a pod is given
\* its cards and tiles in one step, the apply of its binding, on top of what the
\* others hold, and keeps them unchanged until it stops.
THEOREM ImplementsAllocator ==
    ASSUME Graceful
    PROVE  Spec => AllocatorSpec
<1>1. Init => Allocator!Init
  BY DEF Init, Allocator!Init, Held, Using, Bound, Absent
<1>2. GInv /\ GInv' /\ [Next]_vars => [Allocator!Next]_Held
  <2>1. GInv' => HeldFits'
    BY LoadFits, PTL
  <2>2. QED BY <2>1, StepImplements
<1>3. QED
  BY <1>1, <1>2, LedgerKept, PTL DEF Spec, AllocatorSpec, Allocator!Spec

-----------------------------------------------------------------------------
(***************************************************************************)
(* With restarts, breaks of the watch and forced deletions the books are   *)
(* behind what runs until the worker has heard of it, and may for ever     *)
(* show more than that: nothing says who owes what a pod has left behind.  *)
(* So this ledger is not exact.  It keeps the entry of every pod that was  *)
(* charged or bound, and the books show at least the sum of the entries of *)
(* annotated pods.  What makes that enough is that no item that is still   *)
(* on its way discharges a pod that runs.                                  *)
(***************************************************************************)

\* The API server's replies arrive, and no pod takes the name of an earlier one.
Answered == MaxUid = 1 /\ "lostReply" \notin Faults

\* The integers are large enough for what is in the books and a pod that the worker
\* has yet to charge.
NoOverflow ==
    \A p \in Pods : Using(p) /\ p \notin annotatedPods =>
        \A c \in Cards : \A k \in DOMAIN Share(p, api[p].ann, c) :
            Amount(nodeStatuses[api[p].node][c], k) + Share(p, api[p].ann, c)[k] <= MaxInt

\* The entry of a pod, as a bind, an object or a work item states it, but for tiles.
Where(r) == [node |-> r.node, ann |-> r.ann, tiles |-> {}]

\* The entries of annotated pods.
On(L) == [p \in annotatedPods |-> L[p]]

Charges(L) ==
    /\ WellTyped(L) /\ annotatedPods \subseteq DOMAIN L
    /\ \A n \in Nodes, c \in Cards, k \in Resources :
          Total(On(L), n, c, k) <= Amount(nodeStatuses[n][c], k)

\* Bound pods have their entry.
Living(L) ==
    \A p \in Pods :
        /\ Exists(p) => api[p].uid = 1
        /\ Bound(p) => Exists(p) /\ p \in DOMAIN L /\ L[p] = Where(api[p])

\* The life of a pod after its binding.
WasBound(p) == ~InBind(p) /\ api[p].uid = 1 /\ (Exists(p) => Bound(p))

\* A bind is of a pod that is not bound, and what it has charged has its entry.
Request(L, b) ==
    LET r == binder[b]
    IN /\ ~Bound(r.pod) /\ r.uid = 1 /\ api[r.pod].uid = 1
       /\ r.pc \in Charged => r.pod \in annotatedPods /\ r.pod \in DOMAIN L /\ L[r.pod] = Where(r)
       /\ r.pc = "bind" /\ Exists(r.pod) => api[r.pod].ann = r.ann

Requested(L) ==
    /\ \A a, b \in Binders :
          binder[a] # Idle /\ binder[b] # Idle /\ binder[a].pod = binder[b].pod => a = b
    /\ \A b \in Binders : binder[b] # Idle => Request(L, b)

\* What is on its way to the worker.
Mail == Range(podWorkQueue) \cup {HandlerItem(e) : e \in Range(notify) \cup Range(watch)}

\* An item that handlePod can act on agrees with the entry, and if it discharges
\* a pod then that has ended.
News(L, x) ==
    x.node # NoNode =>
        /\ WasBound(x.pod)
        /\ IF x.action = "podDeleted" THEN x.ann = EmptyAnnotation
                                      ELSE x.pod \in DOMAIN L /\ L[x.pod] = Where(x)
        /\ x.action \in {"podCompleted", "podDeleted"} => ~Using(x.pod)

Mailed(L) == \A x \in Mail : News(L, x)

\* What the informer has, or is about to have, is about the only life of a pod.
Stores ==
    /\ \A p \in Pods : Listed(p) =>
          lister[p].uid = 1 /\ api[p].uid = 1 /\ (lister[p].node # NoNode => WasBound(p))
    /\ \A e \in Range(watch) : e.obj.uid = 1 /\ api[e.pod].uid = 1

\* A running pod is annotated, or an item that says so is on its way.
Heard == \A p \in Pods : Using(p) => p \in Unheard \/ p \in annotatedPods

Explained(L) == Charges(L) /\ Living(L) /\ Requested(L) /\ Mailed(L)

\* The inductive invariant.
CInv == IInv /\ Stores /\ Heard /\ \E L : Explained(L)

-----------------------------------------------------------------------------
(* The books. *)

\* Books that stay as they are.
LEMMA ChargesSame ==
    ASSUME NEW L, Charges(L), UNCHANGED bookVars
    PROVE  Charges(L)'
BY DEF Charges, bookVars, On

\* A restriction of a ledger has the type of one.
LEMMA OnTyped ==
    ASSUME NEW L, Charges(L)
    PROVE  /\ WellTyped(On(L)) /\ DOMAIN On(L) = annotatedPods
           /\ \A p \in annotatedPods : On(L)[p] = L[p]
BY DEF Charges, On, WellTyped

\* A pod that is charged gets an entry, or a new one.
LEMMA ChargesAdd ==
    ASSUME BooksType, NEW L, Charges(L), NEW p \in Pods, NEW x \in Entries(p),
           NEW tiles \in TileSets,
           CanAdjust(p, "add", x.ann, x.node), AdjustPodResources(p, "add", x.ann, tiles, x.node),
           NEW M, DOMAIN M = DOMAIN L \cup {p}, M[p] = x, \A q \in DOMAIN L \ {p} : M[q] = L[q]
    PROVE  Charges(M)'
<1>1. WellTyped(M) /\ x.node \in Nodes /\ x.ann \in Annotations(p)
  BY DEF Charges, WellTyped, Entries
<1>2. /\ \A m \in Nodes \ {x.node} : nodeStatuses'[m] = nodeStatuses[m]
      /\ \A c \in Cards :
            nodeStatuses'[x.node][c] = AddRM(nodeStatuses[x.node][c], Share(p, x.ann, c))
      /\ annotatedPods' = annotatedPods \cup {p}
  BY <1>1, Adjusted
<1>3. annotatedPods' \subseteq DOMAIN M
  BY <1>2 DEF Charges
<1> DEFINE R == [q \in annotatedPods \ {p} |-> L[q]]
<1>4. WellTyped(R) /\ DOMAIN R = annotatedPods \ {p} /\ p \notin DOMAIN R
  BY DEF Charges, WellTyped
<1>5. [q \in annotatedPods' |-> M[q]] = Put(R, p, x)
  BY <1>2, <1>4 DEF Put, Charges
<1>6. ASSUME NEW n \in Nodes, NEW c \in Cards, NEW k \in Resources
      PROVE  Total(Put(R, p, x), n, c, k) <= Amount(nodeStatuses'[n][c], k)
  <2> DEFINE share == Amount(Share(p, x.ann, c), k)
  <2>1. share \in Nat
    BY <1>1, ShareAmount
  <2>2. Total(R, n, c, k) \in Nat /\ Total(On(L), n, c, k) \in Nat
    BY <1>4, OnTyped, TotalType
  <2>3. Total(R, n, c, k) <= Total(On(L), n, c, k)
    <3>1. CASE p \in annotatedPods
      <4>1. Drop(On(L), p) = R
        BY <3>1 DEF Drop, On
      <4>2. p \in DOMAIN On(L) /\ On(L)[p] \in Entries(p)
        BY <3>1, OnTyped DEF WellTyped
      <4>3. Amount(Share(p, On(L)[p].ann, c), k) \in Nat
        BY <4>2, ShareAmount DEF Entries
      <4>4. Total(On(L), n, c, k) =
               Total(R, n, c, k)
                 + (IF On(L)[p].node = n THEN Amount(Share(p, On(L)[p].ann, c), k) ELSE 0)
        BY <4>1, <4>2, OnTyped, TotalDrop
      <4> HIDE DEF R
      <4>5. QED BY <2>2, <4>3, <4>4
    <3>2. CASE p \notin annotatedPods
      <4>1. On(L) = R
        BY <3>2 DEF On
      <4> HIDE DEF R
      <4>2. QED BY <2>2, <4>1
    <3>3. QED BY <3>1, <3>2
  <2>4. Total(Put(R, p, x), n, c, k) = Total(R, n, c, k) + (IF x.node = n THEN share ELSE 0)
    BY <1>4, TotalPut
  <2>5. Total(On(L), n, c, k) <= Amount(nodeStatuses[n][c], k)
    BY DEF Charges
  <2>6. nodeStatuses[n][c] \in ResourceMaps /\ Amount(nodeStatuses[n][c], k) \in Nat
    BY AmountType DEF BooksType
  <2>7. Amount(nodeStatuses'[n][c], k) =
           Amount(nodeStatuses[n][c], k) + (IF x.node = n THEN share ELSE 0)
    <3>1. CASE x.node = n
      <4>1. \A j \in DOMAIN Share(p, x.ann, c) : Share(p, x.ann, c)[j] \in Nat
        BY <1>1, ShareType
      <4>2. QED BY <1>2, <2>6, <3>1, <4>1, AddAmount
    <3>2. CASE x.node # n
      BY <1>2, <2>6, <3>2
    <3>3. QED BY <3>1, <3>2
  <2> HIDE DEF R, share
  <2>8. QED BY <2>1, <2>2, <2>3, <2>4, <2>5, <2>6, <2>7
<1> HIDE DEF R
<1>7. QED BY <1>1, <1>3, <1>5, <1>6 DEF Charges, On

\* subtractRM takes away no more than it is told to.
LEMMA SubtractAtMost ==
    ASSUME NEW rm \in ResourceMaps, NEW src, NEW k, \A j \in DOMAIN src : src[j] \in Nat
    PROVE  Amount(rm, k) <= Amount(SubtractRM(rm, src), k) + Amount(src, k)
<1>1. Amount(src, k) \in Nat /\ Amount(rm, k) \in Nat
  BY AmountType DEF Amount
<1>2. DOMAIN SubtractRM(rm, src) = DOMAIN rm
  BY DEF SubtractRM
<1>3. CASE k \in DOMAIN rm
  <2>1. SubtractRM(rm, src)[k] = LET left == rm[k] - Amount(src, k) IN IF left < 0 THEN 0 ELSE left
    BY <1>3 DEF SubtractRM
  <2>2. Amount(rm, k) = rm[k] /\ Amount(SubtractRM(rm, src), k) = SubtractRM(rm, src)[k]
    BY <1>2, <1>3 DEF Amount
  <2>3. QED BY <1>1, <2>1, <2>2
<1>4. CASE k \notin DOMAIN rm
  <2>1. Amount(rm, k) = 0 /\ Amount(SubtractRM(rm, src), k) = 0
    BY <1>2, <1>4 DEF Amount
  <2>2. QED BY <1>1, <2>1
<1>5. QED BY <1>3, <1>4

\* A pod that is discharged, of what its entry says or of nothing, leaves the others
\* covered.
LEMMA ChargesRemove ==
    ASSUME BooksType, BooksType', NEW L, Charges(L), NEW p \in annotatedPods, NEW ann, NEW tiles,
           NEW n \in Nodes,
           ann = EmptyAnnotation \/ (ann = L[p].ann /\ n = L[p].node),
           CanAdjust(p, "remove", ann, n), AdjustPodResources(p, "remove", ann, tiles, n)
    PROVE  Charges(L)' /\ annotatedPods' = annotatedPods \ {p}
<1>1. p \in Pods /\ L[p] \in Entries(p) /\ p \in DOMAIN L
  BY DEF Charges, WellTyped
<1>2. /\ \A m \in Nodes \ {n} : nodeStatuses'[m] = nodeStatuses[m]
      /\ \A c \in Cards : nodeStatuses'[n][c] = SubtractRM(nodeStatuses[n][c], Share(p, ann, c))
      /\ annotatedPods' = annotatedPods \ {p}
  BY DEF AdjustPodResources, BooksType
<1>3. [q \in annotatedPods' |-> L[q]] = Drop(On(L), p)
  BY <1>2, OnTyped DEF Drop
<1>4. ASSUME NEW m \in Nodes, NEW c \in Cards, NEW k \in Resources
      PROVE  Total(Drop(On(L), p), m, c, k) <= Amount(nodeStatuses'[m][c], k)
  <2> DEFINE due == IF L[p].node = m THEN Amount(Share(p, L[p].ann, c), k) ELSE 0
  <2>1. p \in DOMAIN On(L) /\ On(L)[p] = L[p] /\ WellTyped(On(L))
    BY OnTyped
  <2>2. /\ WellTyped(Drop(On(L), p))
        /\ Total(On(L), m, c, k) = Total(Drop(On(L), p), m, c, k) + due
    BY <2>1, TotalDrop
  <2>3. Total(Drop(On(L), p), m, c, k) \in Nat /\ due \in Nat
    BY <1>1, <2>2, TotalType, ShareAmount DEF Entries
  <2>4. Total(On(L), m, c, k) <= Amount(nodeStatuses[m][c], k)
    BY DEF Charges
  <2>5. nodeStatuses[m][c] \in ResourceMaps /\ nodeStatuses'[m][c] \in ResourceMaps
    BY DEF BooksType
  <2>6. Amount(nodeStatuses[m][c], k) \in Nat /\ Amount(nodeStatuses'[m][c], k) \in Nat
    BY <2>5, AmountType
  <2>7. Amount(nodeStatuses[m][c], k) <= Amount(nodeStatuses'[m][c], k) + due
    <3>1. CASE m # n
      <4>1. nodeStatuses'[m] = nodeStatuses[m]
        BY <1>2, <3>1
      <4> HIDE DEF due
      <4>2. QED BY <2>3, <2>6, <4>1
    <3>2. CASE m = n
      <4>1. ann \in Annotations(p) \cup {EmptyAnnotation}
        BY <1>1 DEF Entries
      <4>2. \A j \in DOMAIN Share(p, ann, c) : Share(p, ann, c)[j] \in Nat
        BY <1>1, <4>1, ShareType
      <4>3. Amount(nodeStatuses[n][c], k) <=
               Amount(nodeStatuses'[n][c], k) + Amount(Share(p, ann, c), k)
        BY <1>2, <2>5, <3>2, <4>2, SubtractAtMost
      <4>4. CASE ann = EmptyAnnotation
        <5>1. ContainersOn(ann, c) = {}
          BY <4>4 DEF EmptyAnnotation, ContainersOn
        <5>2. Amount(Share(p, ann, c), k) = 0
          BY <5>1 DEF Share, Amount
        <5> HIDE DEF due
        <5>3. QED BY <2>3, <2>6, <3>2, <4>3, <5>2
      <4>5. CASE ann = L[p].ann /\ n = L[p].node
        BY <3>2, <4>3, <4>5
      <4>6. QED BY <4>4, <4>5
    <3>3. QED BY <3>1, <3>2
  <2> HIDE DEF due
  <2>8. QED BY <2>2, <2>3, <2>4, <2>6, <2>7
<1>5. annotatedPods' \subseteq DOMAIN L /\ WellTyped(L)
  BY <1>2 DEF Charges
<1>6. QED BY <1>2, <1>3, <1>4, <1>5 DEF Charges, On

-----------------------------------------------------------------------------
(* What happens to a pod after its binding. *)

\* The phases of a pod that ends are final.
LEMMA EndsStay ==
    ASSUME IInv, [Next]_vars, NEW p \in Pods, api[p].status \in {"deleting", "ended"}
    PROVE  api'[p].status \in {"deleting", "ended", "absent"}
<1>1. \A q \in Pods : api[q] \in PodObject(q)
  BY DEF IInv, TypeOK, ApiType
<1>2. ASSUME NEW q \in Pods, NEW obj, api' = [api EXCEPT ![q] = obj],
             q # p \/ obj.status \in {"deleting", "ended", "absent"}
      PROVE  api'[p].status \in {"deleting", "ended", "absent"}
  BY <1>2 DEF IInv, TypeOK, ApiType
<1>3. ASSUME NEW q \in Pods, CreatePod(q)
      PROVE  api'[p].status \in {"deleting", "ended", "absent"}
  BY <1>2, <1>3 DEF CreatePod, Store, Exists
<1>4. ASSUME NEW q \in Pods, StartPod(q)
      PROVE  api'[p].status \in {"deleting", "ended", "absent"}
  BY <1>2, <1>4 DEF StartPod, Store
<1>5. ASSUME NEW q \in Pods, EndPod(q) \/ DeletePod(q)
      PROVE  api'[p].status \in {"deleting", "ended", "absent"}
  BY <1>1, <1>2, <1>5 DEF EndPod, DeletePod, Store, Live, PodObject
<1>6. ASSUME NEW q \in Pods, RemovePod(q)
      PROVE  api'[p].status \in {"deleting", "ended", "absent"}
  BY <1>2, <1>6 DEF RemovePod, Absent
<1>7. ASSUME NEW b \in Binders, AnnotatePodBind(b) \/ BindApi(b)
      PROVE  api'[p].status \in {"deleting", "ended", "absent"}
  <2>1. binder[b] # Idle
    BY <1>7 DEF AnnotatePodBind, BindApi, At
  <2>2. PICK q, r : q \in Pods /\ q = binder[b].pod /\ r = binder[b]
    BY <2>1, BinderIsRecord DEF IInv, TypeOK
  <2>3. CASE AnnotatePodBind(b)
    <3>1. PICK old \in KeptTiles(q) :
             api' = [api EXCEPT ![q] = [api[q] EXCEPT !.ann = r.ann,
                                           !.tiles = PatchedTiles(r, old)]]
      BY <2>2, <2>3 DEF AnnotatePodBind, Store
    <3>2. api'[q].status = api[q].status
      BY <1>1, <2>2, <3>1 DEF PodObject, IInv, TypeOK, ApiType
    <3>3. QED BY <2>2, <3>1, <3>2 DEF IInv, TypeOK, ApiType
  <2>4. CASE BindApi(b)
    <3>1. api' = [api EXCEPT ![q] = [api[q] EXCEPT !.node = r.node]]
      BY <2>2, <2>4 DEF BindApi, Store
    <3>2. api'[q].status = api[q].status
      BY <1>1, <2>2, <3>1 DEF PodObject, IInv, TypeOK, ApiType
    <3>3. QED BY <2>2, <3>1, <3>2 DEF IInv, TypeOK, ApiType
  <2>5. QED BY <1>7, <2>3, <2>4
<1>8. ASSUME NEW b \in Binders, BindStep(b), ~(AnnotatePodBind(b) \/ BindApi(b))
      PROVE  api' = api
  BY <1>8 DEF BindStep, CheckForSpace, CheckFails, ConvertToAnnotations, NothingToAnnotate,
              ChargePod, CallFails, Rollback, apiVars
<1>9. ASSUME \/ \E b \in Binders, q \in Pods, n \in Nodes : BindRequest(b, q, n)
             \/ Deliver \/ Handle \/ PodWork \/ Restart \/ WatchGap \/ UNCHANGED vars
      PROVE  api' = api
  BY <1>9 DEF BindRequest, Deliver, Handle, PodWork, Restart, WatchGap, vars, apiVars
<1>10. CASE api' = api
  BY <1>10
<1>11. QED BY <1>3, <1>4, <1>5, <1>6, <1>7, <1>8, <1>9, <1>10 DEF Next

\* A bind in progress is the one it was, or has just been requested.
LEMMA BindersMove ==
    ASSUME IInv, [Next]_vars, NEW b \in Binders, binder'[b] # Idle
    PROVE  \/ binder[b] # Idle /\ binder'[b].pod = binder[b].pod /\ binder'[b].uid = binder[b].uid
           \/ \E q \in Pods, m \in Nodes : BindRequest(b, q, m) /\ binder'[b].pod = q
<1> DEFINE Goal ==
        \/ binder[b] # Idle /\ binder'[b].pod = binder[b].pod /\ binder'[b].uid = binder[b].uid
        \/ \E q \in Pods, m \in Nodes : BindRequest(b, q, m) /\ binder'[b].pod = q
<1> SUFFICES Goal
  OBVIOUS
<1>1. binder \in [Binders -> BinderStates]
  BY DEF IInv, TypeOK, BindType
<1>2. CASE binder'[b] = binder[b]
  BY <1>2
<1>3. ASSUME NEW a \in Binders, BindStep(a) PROVE b = a => binder[b] # Idle
  BY <1>3 DEF BindStep, CheckForSpace, CheckFails, ConvertToAnnotations, NothingToAnnotate,
              ChargePod, AnnotatePodBind, BindApi, CallFails, Rollback, At
<1>4. ASSUME NEW a \in Binders, BindStep(a), binder'[b] # binder[b]
      PROVE  binder[b] # Idle /\ binder'[b].pod = binder[b].pod /\ binder'[b].uid = binder[b].uid
  <2>1. \/ \E pc \in {"annotate", "bind", "rollback"} : binder' = [binder EXCEPT ![a].pc = pc]
        \/ \E ann : binder' = [binder EXCEPT ![a].pc = "convert", ![a].ann = ann]
        \/ \E T : binder' = [binder EXCEPT ![a].pc = "adjust", ![a].tiles = T]
        \/ binder' = [binder EXCEPT ![a] = Idle]
    BY <1>4 DEF BindStep, CheckForSpace, CheckFails, ConvertToAnnotations, NothingToAnnotate,
                ChargePod, AnnotatePodBind, BindApi, CallFails, Rollback, Return
  <2>2. a = b
    BY <1>1, <1>4, <2>1
  <2>3. PICK r : r = binder[b] /\ r # Idle /\ r \in BinderRecord(r.pod)
    BY <1>3, <1>4, <2>2, BinderIsRecord DEF IInv, TypeOK
  <2>4. \/ \E pc \in {"annotate", "bind", "rollback"} : binder'[b] = [r EXCEPT !.pc = pc]
        \/ \E ann : binder'[b] = [r EXCEPT !.pc = "convert", !.ann = ann]
        \/ \E T : binder'[b] = [r EXCEPT !.pc = "adjust", !.tiles = T]
    BY <1>1, <2>1, <2>2, <2>3
  <2>5. binder'[b].pod = r.pod /\ binder'[b].uid = r.uid
    BY <2>3, <2>4 DEF BinderRecord
  <2>6. QED BY <2>3, <2>5
<1>5. ASSUME NEW a \in Binders, NEW p \in Pods, NEW n \in Nodes, BindRequest(a, p, n),
             binder'[b] # binder[b]
      PROVE  a = b /\ binder'[b].pod = p
  BY <1>1, <1>5 DEF BindRequest
<1>6. CASE Restart
  BY <1>6 DEF Restart
<1>7. ASSUME \/ \E p \in Pods : CreatePod(p) \/ StartPod(p) \/ EndPod(p) \/ DeletePod(p)
                   \/ RemovePod(p)
             \/ Deliver \/ Handle \/ PodWork \/ WatchGap \/ UNCHANGED vars
      PROVE  Goal
  BY <1>2, <1>7 DEF CreatePod, StartPod, EndPod, DeletePod, RemovePod, Deliver, Handle, PodWork,
             WatchGap, vars, bindVars
<1>8. ASSUME NEW a \in Binders, BindStep(a) PROVE Goal
  BY <1>2, <1>4, <1>8
<1>9. ASSUME NEW a \in Binders, NEW p \in Pods, NEW n \in Nodes, BindRequest(a, p, n) PROVE Goal
  <2>1. CASE binder'[b] = binder[b]
    BY <1>2, <2>1
  <2>2. CASE binder'[b] # binder[b]
    BY <1>5, <1>9, <2>2
  <2>3. QED BY <2>1, <2>2
<1> HIDE DEF Goal
<1>10. QED BY <1>6, <1>7, <1>8, <1>9 DEF Next

\* A pod of which the scheduler asks a bind exists and is not bound.
LEMMA AskedIsFree ==
    ASSUME Stores, NEW b \in Binders, NEW p \in Pods, NEW n \in Nodes, BindRequest(b, p, n)
    PROVE  /\ lister[p].uid = 1 /\ api[p].uid = 1 /\ Exists(p) /\ ~Bound(p)
           /\ \A a \in Binders : binder[a] # Idle => binder[a].pod # p \/ binder[a].uid # 1
BY DEF BindRequest, SchedulerMayBind, Stores, Listed

\* The only life of a pod: its uid stays 1.
LEMMA OnlyLife ==
    ASSUME Answered, IInv, IInv', [Next]_vars, NEW p \in Pods
    PROVE  /\ api[p].uid = 1 => api'[p].uid = 1
           /\ Moves(p) /\ api[p].uid \in 0..1 /\ api'[p].uid \in 0..1
<1>1. api[p].uid \in 0..1 /\ api'[p].uid \in 0..1
  BY DEF Answered, IInv, TypeOK, ApiType, PodObject
<1>2. Moves(p)
  BY PodsMove
<1>3. QED BY <1>1, <1>2 DEF Moves

\* A pod that was bound is not bound again, and does not run again once it has ended.
LEMMA PodsStay ==
    ASSUME Answered, IInv, IInv', Stores, [Next]_vars, NEW p \in Pods, WasBound(p)
    PROVE  WasBound(p)' /\ (~Using(p) => ~Using(p)')
<1>1. api[p].uid = 1 /\ api'[p].uid = 1
  BY OnlyLife DEF WasBound
<1>2. Exists(p)' => Exists(p) /\ Bound(p) /\ Bound(p)'
  BY <1>1, OnlyLife DEF Moves, Exists, Bound, WasBound
<1>3. ~InBind(p)'
  <2>1. SUFFICES ASSUME NEW b \in Binders, binder'[b] # Idle, binder'[b].pod = p PROVE FALSE
    BY DEF InBind
  <2>2. binder[b] = Idle \/ binder[b].pod # p
    BY DEF WasBound, InBind
  <2>3. PICK q \in Pods, n \in Nodes : BindRequest(b, q, n) /\ binder'[b].pod = q
    BY <2>1, <2>2, BindersMove
  <2>4. QED BY <2>1, <2>3, AskedIsFree DEF WasBound
<1>4. ASSUME Using(p)' PROVE Using(p)
  <2>1. Exists(p)' /\ api'[p].status \in {"pending", "running"}
    BY <1>4 DEF Using, Live, Exists
  <2>2. api[p].status \notin {"deleting", "ended"}
    BY <2>1, EndsStay
  <2>3. QED BY <1>2, <2>1, <2>2 DEF Using, Live, Exists, IInv, TypeOK, ApiType, PodObject
<1>5. QED BY <1>1, <1>2, <1>3, <1>4 DEF WasBound

-----------------------------------------------------------------------------
(* What stays as it is. *)

\* The item of an event.
LEMMA ItemIs ==
    ASSUME NEW p \in Pods, NEW kind \in {"add", "update", "delete"}, NEW obj \in PodObject(p),
           NEW e, e = [kind |-> kind, pod |-> p, obj |-> obj]
    PROVE  LET x == HandlerItem(e)
           IN /\ e \in Events /\ e.pod = p /\ e.kind = kind /\ e.obj = obj
              /\ x.pod = p /\ x.node = obj.node
              /\ kind = "delete" => x.action = "podDeleted" /\ x.ann = EmptyAnnotation
              /\ kind = "add" => x.action = "podAdded"
              /\ kind = "update" => x.action = IF obj.status \in {"deleting", "ended"}
                                               THEN "podCompleted" ELSE "podUpdated"
              /\ kind # "delete" => x.ann = obj.ann /\ Where(x) = Where(obj)
<1>1. e \in Events /\ e.pod = p /\ e.kind = kind /\ e.obj = obj
  BY DEF Events
<1>2. CASE kind = "add"
  BY <1>1, <1>2 DEF HandlerItem, WorkItem, Where
<1>3. CASE kind = "update"
  BY <1>1, <1>3 DEF HandlerItem, WorkItem, Where, isCompletedPod
<1>4. CASE kind = "delete"
  BY <1>1, <1>4 DEF HandlerItem, WorkItem, Where
<1>5. QED BY <1>2, <1>3, <1>4

\* The entries of queue, handlers and watch.
LEMMA MailTypes ==
    ASSUME IInv
    PROVE  /\ podWorkQueue \in Seq(Items) /\ Range(podWorkQueue) \subseteq Items
           /\ notify \in Seq(Events) /\ Range(notify) \subseteq Events
           /\ watch \in Seq(Events) /\ Range(watch) \subseteq Events
           /\ \A x \in Items : x.pod \in Pods
           /\ \A e \in Events : HandlerItem(e).pod = e.pod /\ e.pod \in Pods
           /\ \A x \in Mail : x.pod \in Pods
<1>1. podWorkQueue \in Seq(Items) /\ notify \in Seq(Events) /\ watch \in Seq(Events)
  BY DEF IInv, TypeOK, ApiType, InformerType
<1>2. /\ Range(podWorkQueue) \subseteq Items
      /\ Range(notify) \subseteq Events /\ Range(watch) \subseteq Events
  BY <1>1, EntriesTyped
<1>3. \A x \in Items : x.pod \in Pods
  BY DEF Items
<1>4. \A e \in Events : HandlerItem(e).pod = e.pod /\ e.pod \in Pods
  <2>1. TAKE e \in Events
  <2>2. e.kind \in {"add", "update", "delete"} /\ e.pod \in Pods
    BY EventType
  <2>3. QED BY <2>2 DEF HandlerItem, WorkItem
<1>5. QED BY <1>1, <1>2, <1>3, <1>4 DEF Mail

\* Items on their way stay true, whatever happens.
LEMMA MailedKept ==
    ASSUME Answered, IInv, IInv', Stores, [Next]_vars, NEW L, Mailed(L), NEW M,
           \A p \in DOMAIN L : WasBound(p) => p \in DOMAIN M /\ M[p] = L[p],
           NEW New, Mail' \subseteq Mail \cup New, \A x \in New : News(M, x)'
    PROVE  Mailed(M)'
<1>1. SUFFICES ASSUME NEW x \in Mail, x.node # NoNode PROVE News(M, x)'
  BY DEF Mailed, News
<1>2. x.pod \in Pods
  BY MailTypes
<1>3. News(L, x) /\ WasBound(x.pod)
  BY <1>1 DEF Mailed, News
<1>4. WasBound(x.pod)' /\ (~Using(x.pod) => ~Using(x.pod)')
  BY <1>2, <1>3, PodsStay
<1>5. QED BY <1>1, <1>3, <1>4 DEF News

\* So does what the informer knows.
LEMMA StoresKept ==
    ASSUME Answered, IInv, IInv', Stores, [Next]_vars,
           \A p \in Pods : \/ lister'[p] = lister[p]
                           \/ lister'[p].status = "absent"
                           \/ /\ lister'[p].uid = 1 /\ api'[p].uid = 1
                              /\ lister'[p].node # NoNode => WasBound(p)',
           NEW E, Range(watch') \subseteq Range(watch) \cup E,
           \A e \in E : e.obj.uid = 1 /\ api'[e.pod].uid = 1
    PROVE  Stores'
<1>1. ASSUME NEW p \in Pods, Listed(p)'
      PROVE  lister'[p].uid = 1 /\ api'[p].uid = 1 /\ (lister'[p].node # NoNode => WasBound(p)')
  <2>1. CASE lister'[p] = lister[p]
    <3>1. Listed(p)
      BY <1>1, <2>1 DEF Listed
    <3>2. lister[p].uid = 1 /\ api[p].uid = 1 /\ (lister[p].node # NoNode => WasBound(p))
      BY <3>1 DEF Stores
    <3>3. QED BY <2>1, <3>2, OnlyLife, PodsStay
  <2>2. QED BY <1>1, <2>1 DEF Listed
<1>2. ASSUME NEW e \in Range(watch) PROVE e.obj.uid = 1 /\ api'[e.pod].uid = 1
  BY <1>2, MailTypes, OnlyLife DEF Stores
<1>3. QED BY <1>1, <1>2 DEF Stores

\* Pods that the API server leaves alone.
LEMMA LivingSame ==
    ASSUME NEW L, Living(L), api' = api, NEW M,
           \A p \in DOMAIN L : Bound(p) => p \in DOMAIN M /\ M[p] = L[p]
    PROVE  Living(M)'
BY DEF Living, Exists, Bound

\* A bound pod has been bound.
LEMMA BoundWas ==
    ASSUME NEW L, Living(L), Requested(L), NEW p \in Pods, Bound(p)
    PROVE  WasBound(p) /\ Exists(p) /\ p \in DOMAIN L /\ L[p] = Where(api[p])
<1>1. Exists(p) /\ api[p].uid = 1 /\ p \in DOMAIN L /\ L[p] = Where(api[p])
  BY DEF Living
<1>2. ~InBind(p)
  BY DEF InBind, Requested, Request
<1>3. QED BY <1>1, <1>2 DEF WasBound

\* A new version of a pod, and the event that tells of it.
LEMMA StoredCInv ==
    ASSUME Answered, CInv, IInv', [Next]_vars, NEW L, Explained(L), NEW p \in Pods, NEW obj,
           NEW e \in Events, e.pod = p, e.obj.uid = 1,
           api' = [api EXCEPT ![p] = obj], obj.uid = 1, watch' = Append(watch, e),
           UNCHANGED <<infVars, podWorkQueue, bookVars>>,
           News(L, HandlerItem(e))',
           obj.node # NoNode =>
               obj.status # "absent" /\ p \in DOMAIN L /\ L[p] = Where(obj),
           Using(p)' => Using(p) \/ p \in annotatedPods,
           Requested(L)'
    PROVE  CInv'
<1>1. IInv /\ Stores /\ Heard /\ Charges(L) /\ Living(L) /\ Requested(L) /\ Mailed(L)
  BY DEF CInv, Explained
<1>2. \A q \in Pods : api'[q] = IF q = p THEN obj ELSE api[q]
  BY <1>1 DEF IInv, TypeOK, ApiType
<1>3. Range(watch') = Range(watch) \cup {e}
  BY <1>1, MailTypes, QueuedLast
<1>4. Mail' \subseteq Mail \cup {HandlerItem(e)}
  BY <1>3 DEF Mail, infVars
<1>5. Mailed(L)'
  <2>1. PICK New : New = {HandlerItem(e)}
    OBVIOUS
  <2>2. \A x \in New : News(L, x)'
    BY <2>1
  <2>3. QED BY <1>1, <1>4, <2>1, <2>2, MailedKept
<1>6. Charges(L)'
  BY <1>1, ChargesSame
<1>7. Living(L)'
  BY <1>1, <1>2 DEF Living, Exists, Bound
<1>8. Stores'
  <2>1. PICK E : E = {e}
    OBVIOUS
  <2>2. \A x \in E : x.obj.uid = 1 /\ api'[x.pod].uid = 1
    BY <1>2, <2>1
  <2>3. \A q \in Pods : lister'[q] = lister[q]
    BY DEF infVars
  <2>4. QED BY <1>1, <1>3, <2>1, <2>2, <2>3, StoresKept
<1>9. Heard'
  <2>1. Unheard' = Unheard /\ annotatedPods' = annotatedPods
    BY DEF Unheard, infVars, bookVars
  <2>2. \A q \in Pods : q # p => (Using(q)' <=> Using(q))
    BY <1>2 DEF Using, Bound, Live
  <2>3. QED BY <1>1, <2>1, <2>2 DEF Heard
<1>10. Explained(L)'
  BY <1>5, <1>6, <1>7 DEF Explained
<1>11. QED BY <1>8, <1>9, <1>10 DEF CInv

-----------------------------------------------------------------------------
(* The steps of the API server. *)

\* The object of a pod, with another phase.
LEMMA ObjectTypes ==
    ASSUME IInv, NEW p \in Pods
    PROVE  /\ api[p] \in PodObject(p) /\ api[p].uid \in Nat
           /\ \A s \in {"absent", "pending", "running", "deleting", "ended"} :
                 LET o == [api[p] EXCEPT !.status = s]
                 IN /\ o \in PodObject(p) /\ o.uid = api[p].uid /\ o.ann = api[p].ann
                    /\ o.node = api[p].node /\ o.status = s /\ Where(o) = Where(api[p])
           /\ LET o == Absent(api[p].uid)
              IN /\ o \in PodObject(p) /\ o.uid = api[p].uid /\ o.node = NoNode
                 /\ o.status = "absent"
<1>1. api[p] \in PodObject(p)
  BY DEF IInv, TypeOK, ApiType
<1>2. \A s \in {"absent", "pending", "running", "deleting", "ended"} :
         LET o == [api[p] EXCEPT !.status = s]
         IN /\ o \in PodObject(p) /\ o.uid = api[p].uid /\ o.ann = api[p].ann
            /\ o.node = api[p].node /\ o.status = s
  BY <1>1 DEF PodObject
<1>3. api[p].uid \in Nat
  BY <1>1, GasCacheAssumption DEF PodObject
<1>4. LET o == Absent(api[p].uid)
      IN o \in PodObject(p) /\ o.uid = api[p].uid /\ o.node = NoNode /\ o.status = "absent"
  BY <1>1 DEF Absent, PodObject, PodAnnotations, TileSets, NodeNames
<1>5. QED BY <1>1, <1>2, <1>3, <1>4 DEF Where

\* Requests are not about pods that are bound, and do not mind whether others exist.
LEMMA RequestsKept ==
    ASSUME IInv, NEW L, Requested(L), UNCHANGED <<binder, annotatedPods>>, NEW p \in Pods, NEW obj,
           api' = [api EXCEPT ![p] = obj],
           InBind(p) => obj.node = NoNode /\ obj.uid = api[p].uid /\ obj.status = "absent"
    PROVE  Requested(L)'
<1>1. ASSUME NEW b \in Binders, binder[b] # Idle PROVE Request(L, b)'
  <2>1. Request(L, b) /\ binder[b].pod \in Pods
    BY <1>1, BinderIsRecord DEF Requested, IInv, TypeOK
  <2>2. CASE binder[b].pod # p
    <3>1. api'[binder[b].pod] = api[binder[b].pod]
      BY <2>1, <2>2 DEF IInv, TypeOK, ApiType
    <3>2. QED BY <2>1, <3>1 DEF Request, Bound, Exists
  <2>3. CASE binder[b].pod = p
    <3>1. InBind(p) /\ api'[p] = obj
      BY <1>1, <2>3 DEF InBind, IInv, TypeOK, ApiType
    <3>2. QED BY <2>1, <2>3, <3>1 DEF Request, Bound, Exists
  <2>4. QED BY <2>2, <2>3
<1>2. QED BY <1>1 DEF Requested

\* A new pod has no events that its handlers heed.
LEMMA CreateCInv ==
    ASSUME Answered, CInv, IInv', NEW p \in Pods, CreatePod(p)
    PROVE  CInv'
<1>1. PICK L : Explained(L)
  BY DEF CInv
<1>2. PICK obj : obj = [Absent(api[p].uid + 1) EXCEPT !.status = "pending"]
  OBVIOUS
<1>3. PICK e : e = [kind |-> "add", pod |-> p, obj |-> obj]
  OBVIOUS
<1>4. IInv /\ Living(L) /\ Requested(L) /\ api[p] \in PodObject(p) /\ api[p].uid \in Nat
  BY <1>1, ObjectTypes DEF CInv, Explained
<1>5. api[p].uid = 0
  BY <1>4 DEF CreatePod, Answered
<1>6. obj.uid = 1 /\ obj.node = NoNode /\ obj \in PodObject(p)
  BY <1>2, <1>4, <1>5, GasCacheAssumption
     DEF Absent, PodObject, PodAnnotations, TileSets, NodeNames, Answered
<1>7. e \in Events /\ e.pod = p /\ e.obj = obj /\ HandlerItem(e).node = NoNode
  BY <1>3, <1>6, ItemIs
<1>8. /\ api' = [api EXCEPT ![p] = obj] /\ watch' = Append(watch, e)
      /\ UNCHANGED <<infVars, podWorkQueue, bookVars>>
      /\ UNCHANGED <<binder, annotatedPods>>
  BY <1>2, <1>3 DEF CreatePod, Store, bindVars, bookVars
<1>9. api'[p] = obj
  BY <1>4, <1>8 DEF IInv, TypeOK, ApiType
<1>10. ~Using(p)'
  BY <1>6, <1>9 DEF Using, Bound
<1>11. ~InBind(p)
  BY <1>4, <1>5 DEF InBind, Requested, Request
<1>12. Requested(L)'
  BY <1>4, <1>8, <1>11, RequestsKept
<1>13. News(L, HandlerItem(e))'
  BY <1>7 DEF News
<1>14. Next
  BY DEF Next
<1>15. QED BY <1>1, <1>6, <1>7, <1>8, <1>10, <1>12, <1>13, <1>14, StoredCInv

\* A bound pod starts, is told to stop, or ends.
LEMMA PhaseCInv ==
    ASSUME Answered, CInv, IInv', NEW p \in Pods, StartPod(p) \/ EndPod(p) \/ DeletePod(p)
    PROVE  CInv'
<1>1. PICK L : Explained(L)
  BY DEF CInv
<1>2. PICK s \in {"running", "deleting", "ended"} :
         /\ Store(p, [api[p] EXCEPT !.status = s], "update")
         /\ s = "running" => Live(p)
  BY DEF StartPod, EndPod, DeletePod, Live
<1>3. PICK obj : obj = [api[p] EXCEPT !.status = s]
  OBVIOUS
<1>4. PICK e : e = [kind |-> "update", pod |-> p, obj |-> obj]
  OBVIOUS
<1>5. IInv /\ Living(L) /\ Requested(L) /\ Bound(p)
  BY <1>1 DEF CInv, Explained, StartPod, EndPod, DeletePod
<1>6. WasBound(p) /\ Exists(p) /\ p \in DOMAIN L /\ L[p] = Where(api[p])
  BY <1>5, BoundWas
<1>7. /\ obj \in PodObject(p) /\ obj.uid = 1 /\ obj.node = api[p].node /\ obj.status = s
      /\ Where(obj) = Where(api[p])
  <2>1. s \in {"absent", "pending", "running", "deleting", "ended"} /\ api[p].uid = 1
    BY <1>6 DEF WasBound
  <2>2. QED BY <1>3, <1>5, <2>1, ObjectTypes
<1>8. /\ e \in Events /\ e.pod = p /\ e.obj = obj
      /\ HandlerItem(e).pod = p /\ HandlerItem(e).node = obj.node
      /\ Where(HandlerItem(e)) = Where(obj)
      /\ HandlerItem(e).action = IF s \in {"deleting", "ended"} THEN "podCompleted"
                                                                ELSE "podUpdated"
  BY <1>4, <1>7, ItemIs
<1>9. /\ api' = [api EXCEPT ![p] = obj] /\ watch' = Append(watch, e)
      /\ UNCHANGED <<infVars, podWorkQueue, bookVars>>
      /\ UNCHANGED <<binder, annotatedPods>>
  BY <1>2, <1>3, <1>4 DEF StartPod, EndPod, DeletePod, Store, bindVars, bookVars
<1>10. api'[p] = obj
  BY <1>5, <1>9 DEF IInv, TypeOK, ApiType
<1>11. Using(p)' => Using(p) /\ s = "running"
  BY <1>2, <1>5, <1>7, <1>10 DEF Using, Live
<1>12. Requested(L)'
  BY <1>5, <1>6, <1>9, RequestsKept DEF WasBound
<1>13. WasBound(p)'
  BY <1>5, <1>6, <1>7, <1>9, <1>10 DEF WasBound, InBind, Bound
<1>14. News(L, HandlerItem(e))'
  BY <1>6, <1>7, <1>8, <1>11, <1>13 DEF News
<1>15. Next
  BY DEF Next
<1>16. QED BY <1>1, <1>6, <1>7, <1>8, <1>9, <1>11, <1>12, <1>14, <1>15, StoredCInv

\* An object goes away.
LEMMA RemoveCInv ==
    ASSUME Answered, CInv, IInv', NEW p \in Pods, RemovePod(p)
    PROVE  CInv'
<1>1. PICK L : Explained(L)
  BY DEF CInv
<1>2. PICK obj : obj = Absent(api[p].uid)
  OBVIOUS
<1>3. PICK e : e = [kind |-> "delete", pod |-> p, obj |-> api[p]]
  OBVIOUS
<1>4. IInv /\ Living(L) /\ Requested(L) /\ Exists(p) /\ api[p].uid = 1
  BY <1>1 DEF CInv, Explained, RemovePod, Living
<1>5. obj.uid = 1 /\ obj.node = NoNode /\ obj.status = "absent" /\ api[p] \in PodObject(p)
  BY <1>2, <1>4, ObjectTypes
<1>6. /\ e \in Events /\ e.pod = p /\ e.obj = api[p]
      /\ HandlerItem(e).pod = p /\ HandlerItem(e).node = api[p].node
      /\ HandlerItem(e).ann = EmptyAnnotation /\ HandlerItem(e).action = "podDeleted"
  BY <1>3, <1>5, ItemIs
<1>7. /\ api' = [api EXCEPT ![p] = obj] /\ watch' = Append(watch, e)
      /\ UNCHANGED <<infVars, podWorkQueue, bookVars>>
      /\ UNCHANGED <<binder, annotatedPods>>
  BY <1>2, <1>3 DEF RemovePod, bindVars, bookVars
<1>8. api'[p] = obj
  BY <1>4, <1>7 DEF IInv, TypeOK, ApiType
<1>9. ~Using(p)' /\ ~Exists(p)'
  BY <1>5, <1>8 DEF Using, Bound, Exists
<1>10. Requested(L)'
  BY <1>4, <1>5, <1>7, RequestsKept
<1>11. Bound(p) => WasBound(p)'
  <2>1. Bound(p) => ~InBind(p)
    BY <1>4, BoundWas DEF WasBound
  <2>2. QED BY <1>5, <1>7, <1>8, <1>9, <2>1 DEF WasBound, InBind
<1>12. News(L, HandlerItem(e))'
  BY <1>6, <1>9, <1>11 DEF News, Bound
<1>13. Next
  BY DEF Next
<1>14. QED BY <1>1, <1>4, <1>5, <1>6, <1>7, <1>9, <1>10, <1>12, <1>13, StoredCInv

-----------------------------------------------------------------------------
(* The steps of bindNode. *)

\* A step that is about the books and the requests only.
LEMMA SameEvents ==
    ASSUME Answered, CInv, IInv', [Next]_vars, NEW L, Explained(L), NEW M,
           UNCHANGED <<apiVars, infVars, podWorkQueue>>,
           Charges(M)', Requested(M)',
           \A q \in DOMAIN L : WasBound(q) => q \in DOMAIN M /\ M[q] = L[q],
           \A q \in annotatedPods : Using(q) => q \in annotatedPods'
    PROVE  CInv'
<1>1. IInv /\ Stores /\ Heard /\ Charges(L) /\ Living(L) /\ Requested(L) /\ Mailed(L)
  BY DEF CInv, Explained
<1>2. api' = api /\ watch' = watch /\ lister' = lister /\ notify' = notify
      /\ podWorkQueue' = podWorkQueue
  BY DEF apiVars, infVars
<1>3. Mailed(M)'
  <2>1. PICK New : New = {}
    OBVIOUS
  <2>2. Mail' \subseteq Mail \cup New
    BY <1>2 DEF Mail
  <2>3. QED BY <1>1, <2>1, <2>2, MailedKept
<1>4. Living(M)'
  <2>1. \A q \in DOMAIN L : Bound(q) => q \in DOMAIN M /\ M[q] = L[q]
    BY <1>1, BoundWas DEF Charges, WellTyped
  <2>2. QED BY <1>1, <1>2, <2>1, LivingSame
<1>5. Stores'
  <2>1. PICK E : E = {}
    OBVIOUS
  <2>2. Range(watch') \subseteq Range(watch) \cup E /\ \A q \in Pods : lister'[q] = lister[q]
    BY <1>2
  <2>3. QED BY <1>1, <2>1, <2>2, StoresKept
<1>6. Heard'
  BY <1>1, <1>2 DEF Heard, Unheard, Using, Bound, Live
<1>7. Explained(M)'
  BY <1>3, <1>4 DEF Explained
<1>8. QED BY <1>5, <1>6, <1>7 DEF CInv

\* One request changes, the others are about other pods.
LEMMA OneRequest ==
    ASSUME IInv, NEW L, Requested(L), NEW M, NEW b \in Binders, NEW p \in Pods,
           \A a \in Binders \ {b} :
               binder'[a] = binder[a] /\ (binder[a] # Idle => binder[a].pod # p),
           binder'[b] # Idle => binder'[b].pod = p /\ Request(M, b)',
           \A q \in Pods \ {p} :
               /\ api'[q] = api[q]
               /\ q \in annotatedPods => q \in annotatedPods'
               /\ q \in DOMAIN L => q \in DOMAIN M /\ M[q] = L[q]
    PROVE  Requested(M)'
<1>1. ASSUME NEW a \in Binders \ {b}, binder[a] # Idle PROVE Request(M, a)'
  <2>1. Request(L, a) /\ binder'[a] = binder[a]
    BY <1>1 DEF Requested
  <2>2. PICK q \in Pods \ {p} : q = binder[a].pod
    BY <1>1, BinderIsRecord DEF IInv, TypeOK
  <2>3. /\ api'[q] = api[q]
        /\ q \in annotatedPods => q \in annotatedPods'
        /\ q \in DOMAIN L => q \in DOMAIN M /\ M[q] = L[q]
    OBVIOUS
  <2>4. QED BY <2>1, <2>2, <2>3 DEF Request, Bound, Exists
<1>2. \A a \in Binders : binder'[a] # Idle => Request(M, a)'
  BY <1>1
<1>3. ASSUME NEW a \in Binders, NEW d \in Binders,
             binder'[a] # Idle, binder'[d] # Idle, binder'[a].pod = binder'[d].pod
      PROVE  a = d
  BY <1>3 DEF Requested
<1>4. QED BY <1>2, <1>3 DEF Requested

\* The request that bindNode works on, and the requests of others.
LEMMA RequestKnown ==
    ASSUME CInv, NEW L, Explained(L), NEW b \in Binders, binder[b] # Idle
    PROVE  /\ binder[b].pod \in Pods /\ binder[b] \in BinderRecord(binder[b].pod)
           /\ Request(L, b)
           /\ \A a \in Binders \ {b} : binder[a] # Idle => binder[a].pod # binder[b].pod
BY BinderIsRecord DEF CInv, Explained, Requested, IInv, TypeOK

\* bindNode returns, having changed nothing else.
LEMMA ReturnCInv ==
    ASSUME Answered, CInv, IInv', [Next]_vars, NEW b \in Binders, binder[b] # Idle,
           binder' = [binder EXCEPT ![b] = Idle],
           UNCHANGED <<apiVars, infVars, podWorkQueue, bookVars>>
    PROVE  CInv'
<1>1. PICK L : Explained(L)
  BY DEF CInv
<1>2. IInv /\ Charges(L) /\ Requested(L)
  BY <1>1 DEF CInv, Explained
<1>3. api' = api /\ annotatedPods' = annotatedPods
  BY DEF apiVars, bookVars
<1>4. Requested(L)'
  <2>1. PICK p \in Pods :
           \A a \in Binders \ {b} : binder[a] # Idle => binder[a].pod # p
    BY <1>1, RequestKnown
  <2>2. \A a \in Binders : binder'[a] = IF a = b THEN Idle ELSE binder[a]
    BY <1>2 DEF IInv, TypeOK, BindType
  <2>3. QED BY <1>2, <1>3, <2>1, <2>2, OneRequest
<1>5. Charges(L)'
  BY <1>2, ChargesSame
<1>6. QED BY <1>1, <1>3, <1>4, <1>5, SameEvents

\* A request goes on, having changed nothing else.
LEMMA GoesOnCInv ==
    ASSUME Answered, CInv, IInv', [Next]_vars, NEW b \in Binders, binder[b] # Idle, NEW r,
           binder' = [binder EXCEPT ![b] = r], r # Idle,
           r.pod = binder[b].pod, r.uid = binder[b].uid, r.pc \in {"convert", "adjust", "rollback"},
           r.pc = "rollback" => binder[b].pc \in Charged /\ Where(r) = Where(binder[b]),
           UNCHANGED <<apiVars, infVars, podWorkQueue, bookVars>>
    PROVE  CInv'
<1>1. PICK L : Explained(L)
  BY DEF CInv
<1>2. IInv /\ Charges(L) /\ Requested(L) /\ Request(L, b)
  BY <1>1, RequestKnown DEF CInv, Explained
<1>3. api' = api /\ annotatedPods' = annotatedPods
  BY DEF apiVars, bookVars
<1>4. \A a \in Binders : binder'[a] = IF a = b THEN r ELSE binder[a]
  BY <1>2 DEF IInv, TypeOK, BindType
<1>5. Request(L, b)'
  BY <1>2, <1>3, <1>4 DEF Request, Bound, Charged
<1>6. \A a \in Binders \ {b} : binder[a] # Idle => binder[a].pod # r.pod
  BY <1>1, RequestKnown
<1>7. Requested(L)'
  <2>1. PICK p \in Pods : p = r.pod
    BY <1>1, RequestKnown
  <2>2. QED BY <1>2, <1>3, <1>4, <1>5, <1>6, <2>1, OneRequest
<1>8. Charges(L)'
  BY <1>2, ChargesSame
<1>9. QED BY <1>1, <1>3, <1>7, <1>8, SameEvents

\* The scheduler asks for a pod that is not bound and of which no bind is in progress.
LEMMA AskCInv ==
    ASSUME Answered, CInv, IInv', NEW b \in Binders, NEW p \in Pods, NEW n \in Nodes,
           BindRequest(b, p, n)
    PROVE  CInv'
<1>1. PICK L : Explained(L)
  BY DEF CInv
<1>2. IInv /\ Stores /\ Charges(L) /\ Requested(L)
  BY <1>1 DEF CInv, Explained
<1>3. PICK r : r = [pc |-> "check", pod |-> p, uid |-> lister[p].uid, node |-> n,
                    ann |-> EmptyAnnotation, tiles |-> {}]
  OBVIOUS
<1>4. r.pc = "check" /\ r.pod = p /\ r.uid = lister[p].uid
  BY <1>3
<1>5. /\ binder' = [binder EXCEPT ![b] = r]
      /\ UNCHANGED <<apiVars, infVars, podWorkQueue, bookVars>>
  BY <1>3 DEF BindRequest
<1>6. api' = api /\ annotatedPods' = annotatedPods
  BY <1>5 DEF apiVars, bookVars
<1>7. /\ lister[p].uid = 1 /\ api[p].uid = 1 /\ ~Bound(p)
      /\ \A a \in Binders : binder[a] # Idle => binder[a].pod # p \/ binder[a].uid # 1
  BY <1>2, AskedIsFree
<1>8. \A a \in Binders : binder[a] # Idle => binder[a].pod # p
  BY <1>2, <1>7 DEF Requested, Request
<1>9. \A a \in Binders : binder'[a] = IF a = b THEN r ELSE binder[a]
  BY <1>2, <1>5 DEF IInv, TypeOK, BindType
<1>10. Request(L, b)'
  BY <1>4, <1>6, <1>7, <1>9 DEF Request, Bound, Charged
<1>11. Requested(L)'
  BY <1>2, <1>4, <1>6, <1>8, <1>9, <1>10, OneRequest
<1>12. Charges(L)'
  BY <1>2, <1>5, ChargesSame
<1>13. Next
  BY DEF Next
<1>14. QED BY <1>1, <1>5, <1>6, <1>11, <1>12, <1>13, SameEvents

\* The lock is taken and the cards are chosen.
LEMMA CheckCInv ==
    ASSUME Answered, CInv, IInv', NEW b \in Binders, CheckForSpace(b)
    PROVE  CInv'
<1>1. PICK L : Explained(L)
  BY DEF CInv
<1>2. binder[b] # Idle /\ Next
  BY DEF CheckForSpace, At, Next, BindStep
<1>3. PICK ann : binder' = [binder EXCEPT ![b].pc = "convert", ![b].ann = ann]
  BY DEF CheckForSpace
<1>4. PICK r : r = [binder[b] EXCEPT !.pc = "convert", !.ann = ann]
  OBVIOUS
<1>5. binder' = [binder EXCEPT ![b] = r]
  BY <1>3, <1>4 DEF CInv, IInv, TypeOK, BindType
<1>6. r.pod = binder[b].pod /\ r.uid = binder[b].uid /\ r.pc = "convert"
  BY <1>1, <1>2, <1>4, RequestKnown DEF BinderRecord
<1>7. r # Idle
  BY <1>6 DEF Idle
<1>8. UNCHANGED <<apiVars, infVars, podWorkQueue, bookVars>>
  BY DEF CheckForSpace
<1>9. QED BY <1>2, <1>5, <1>6, <1>7, <1>8, GoesOnCInv

\* The tiles are chosen.
LEMMA ConvertCInv ==
    ASSUME Answered, CInv, IInv', NEW b \in Binders, ConvertToAnnotations(b)
    PROVE  CInv'
<1>1. PICK L : Explained(L)
  BY DEF CInv
<1>2. binder[b] # Idle /\ Next
  BY DEF ConvertToAnnotations, At, Next, BindStep
<1>3. PICK T : binder' = [binder EXCEPT ![b].pc = "adjust", ![b].tiles = T]
  BY DEF ConvertToAnnotations
<1>4. PICK r : r = [binder[b] EXCEPT !.pc = "adjust", !.tiles = T]
  OBVIOUS
<1>5. binder' = [binder EXCEPT ![b] = r]
  BY <1>3, <1>4 DEF CInv, IInv, TypeOK, BindType
<1>6. r.pod = binder[b].pod /\ r.uid = binder[b].uid /\ r.pc = "adjust"
  BY <1>1, <1>2, <1>4, RequestKnown DEF BinderRecord
<1>7. r # Idle
  BY <1>6 DEF Idle
<1>8. UNCHANGED <<apiVars, infVars, podWorkQueue, bookVars>>
  BY DEF ConvertToAnnotations
<1>9. QED BY <1>2, <1>5, <1>6, <1>7, <1>8, GoesOnCInv

\* A call of the API server fails.
LEMMA FailsCInv ==
    ASSUME Answered, CInv, IInv', NEW b \in Binders, CallFails(b)
    PROVE  CInv'
<1>1. PICK L : Explained(L)
  BY DEF CInv
<1>2. binder[b] # Idle /\ Next /\ binder[b].pc \in Charged
  BY DEF CallFails, At, Next, BindStep, Charged
<1>3. PICK r : r = [binder[b] EXCEPT !.pc = "rollback"]
  OBVIOUS
<1>4. binder' = [binder EXCEPT ![b] = r]
  BY <1>3 DEF CallFails
<1>5. /\ r.pod = binder[b].pod /\ r.uid = binder[b].uid /\ r.pc = "rollback"
      /\ r.ann = binder[b].ann /\ r.node = binder[b].node
  BY <1>1, <1>2, <1>3, RequestKnown DEF BinderRecord
<1>6. r # Idle
  BY <1>5 DEF Idle
<1>7. UNCHANGED <<apiVars, infVars, podWorkQueue, bookVars>>
  BY DEF CallFails
<1>8. QED BY <1>2, <1>4, <1>5, <1>6, <1>7, GoesOnCInv DEF Where

\* The charge: the pod has an entry, and the books cover it.
LEMMA ChargeCInv ==
    ASSUME Answered, CInv, IInv', NEW b \in Binders, ChargePod(b)
    PROVE  CInv'
<1>1. PICK L : Explained(L)
  BY DEF CInv
<1>2. binder[b] # Idle /\ binder[b].pc = "adjust" /\ Next
  BY DEF ChargePod, At, Next, BindStep
<1>3. PICK p, q : p = binder[b].pod /\ q = binder[b]
  OBVIOUS
<1>4. /\ p \in Pods /\ q \in BinderRecord(p) /\ Request(L, b)
      /\ \A a \in Binders \ {b} : binder[a] # Idle => binder[a].pod # p
  BY <1>1, <1>2, <1>3, RequestKnown
<1>5. IInv /\ Charges(L) /\ Living(L) /\ Requested(L) /\ BooksType
  BY <1>1 DEF CInv, Explained, IInv, TypeOK
<1>6. q.node \in Nodes /\ q.ann \in Annotations(p) /\ q.tiles \in TileSets /\ q.pod = p
  BY <1>2, <1>3, <1>4, <1>5 DEF BinderRecord, IInv, CardsChosen
<1>7. UNCHANGED <<apiVars, infVars, podWorkQueue>>
  BY DEF ChargePod
<1>8. CASE ~CanAdjust(p, "add", q.ann, q.node)
  <2>1. UNCHANGED bookVars /\ binder' = [binder EXCEPT ![b] = Idle]
    BY <1>3, <1>8 DEF ChargePod, AdjustPodResources, Return
  <2>2. QED BY <1>2, <1>7, <2>1, ReturnCInv
<1>9. CASE CanAdjust(p, "add", q.ann, q.node)
  <2>1. /\ binder' = [binder EXCEPT ![b].pc = "annotate"]
        /\ AdjustPodResources(p, "add", q.ann, q.tiles, q.node)
    BY <1>3, <1>9 DEF ChargePod
  <2>2. PICK r : r = [q EXCEPT !.pc = "annotate"]
    OBVIOUS
  <2>3. binder' = [binder EXCEPT ![b] = r]
    BY <1>3, <2>1, <2>2
  <2>4. /\ r.pc = "annotate" /\ r.pod = p /\ r.uid = q.uid
        /\ Where(r) = Where(q)
    BY <1>4, <1>6, <2>2 DEF BinderRecord, Where
  <2>5. \A a \in Binders : binder'[a] = IF a = b THEN r ELSE binder[a]
    BY <1>5, <2>3 DEF IInv, TypeOK, BindType
  <2>6. PICK x : x = Where(q)
    OBVIOUS
  <2>7. x \in Entries(p) /\ x.ann = q.ann /\ x.node = q.node
    BY <1>6, <2>6 DEF Where, Entries, TileSets
  <2>8. PICK M : M = Put(L, p, x)
    OBVIOUS
  <2>9. DOMAIN M = DOMAIN L \cup {p} /\ M[p] = x /\ \A j \in DOMAIN L \ {p} : M[j] = L[j]
    BY <2>8 DEF Put
  <2>10. Charges(M)'
    BY <1>4, <1>5, <1>6, <1>9, <2>1, <2>7, <2>9, ChargesAdd
  <2>11. annotatedPods' = annotatedPods \cup {p}
    BY <1>9, <2>1 DEF AdjustPodResources
  <2>12. api' = api
    BY <1>7 DEF apiVars
  <2>13. Request(M, b)'
    BY <1>3, <1>4, <2>4, <2>5, <2>6, <2>9, <2>11, <2>12 DEF Request, Bound
  <2>14. Requested(M)'
    <3>1. \A j \in Pods \ {p} :
             /\ api'[j] = api[j]
             /\ j \in annotatedPods => j \in annotatedPods'
             /\ j \in DOMAIN L => j \in DOMAIN M /\ M[j] = L[j]
      <4>1. TAKE j \in Pods \ {p}
      <4>2. api'[j] = api[j] /\ (j \in annotatedPods => j \in annotatedPods')
        BY <2>11, <2>12
      <4>3. j \in DOMAIN L => j \in DOMAIN M /\ M[j] = L[j]
        BY <2>9
      <4>4. QED BY <4>2, <4>3
    <3>2. QED BY <1>4, <1>5, <2>4, <2>5, <2>13, <3>1, OneRequest
  <2>15. \A j \in DOMAIN L : WasBound(j) => j \in DOMAIN M /\ M[j] = L[j]
    BY <1>2, <1>3, <2>9 DEF WasBound, InBind
  <2>16. QED BY <1>1, <1>2, <1>7, <2>10, <2>11, <2>14, <2>15, SameEvents
<1>10. QED BY <1>8, <1>9

\* The charge of a pod that is not bound is given back.
LEMMA RollbackCInv ==
    ASSUME Answered, CInv, IInv', NEW b \in Binders, Rollback(b)
    PROVE  CInv'
<1>1. PICK L : Explained(L)
  BY DEF CInv
<1>2. binder[b] # Idle /\ binder[b].pc \in Charged /\ Next
  BY DEF Rollback, At, Next, BindStep, Charged
<1>3. PICK p, q : p = binder[b].pod /\ q = binder[b]
  OBVIOUS
<1>4. /\ p \in Pods /\ q \in BinderRecord(p) /\ Request(L, b)
      /\ \A a \in Binders \ {b} : binder[a] # Idle => binder[a].pod # p
  BY <1>1, <1>2, <1>3, RequestKnown
<1>5. IInv /\ Charges(L) /\ Requested(L) /\ BooksType /\ BooksType'
  BY <1>1 DEF CInv, Explained, IInv, TypeOK
<1>6. q.node \in Nodes
  BY <1>4 DEF BinderRecord
<1>7. CanAdjust(p, "remove", q.ann, q.node)
  BY <1>2, <1>3, <1>5 DEF IInv, RollbackNeverFails
<1>8. /\ AdjustPodResources(p, "remove", q.ann, q.tiles, q.node)
      /\ binder' = [binder EXCEPT ![b] = Idle]
      /\ UNCHANGED <<apiVars, infVars, podWorkQueue>>
  BY <1>3 DEF Rollback, Return
<1>9. p \in annotatedPods /\ L[p].ann = q.ann /\ L[p].node = q.node /\ ~Bound(p)
  BY <1>2, <1>3, <1>4 DEF Request, Where
<1>10. Charges(L)' /\ annotatedPods' = annotatedPods \ {p}
  BY <1>5, <1>6, <1>7, <1>8, <1>9, ChargesRemove
<1>11. Requested(L)'
  <2>1. \A a \in Binders : binder'[a] = IF a = b THEN Idle ELSE binder[a]
    BY <1>5, <1>8 DEF IInv, TypeOK, BindType
  <2>2. \A j \in Pods \ {p} :
           api'[j] = api[j] /\ (j \in annotatedPods => j \in annotatedPods')
    BY <1>8, <1>10 DEF apiVars
  <2>3. QED BY <1>4, <1>5, <2>1, <2>2, OneRequest
<1>12. \A j \in annotatedPods : Using(j) => j \in annotatedPods'
  BY <1>9, <1>10 DEF Using
<1>13. QED BY <1>1, <1>2, <1>8, <1>10, <1>11, <1>12, SameEvents

\* A pod that is annotated has what it was charged for.
LEMMA AnnotateCInv ==
    ASSUME Answered, CInv, IInv', NEW b \in Binders, AnnotatePodBind(b)
    PROVE  CInv'
<1>1. PICK L : Explained(L)
  BY DEF CInv
<1>2. binder[b] # Idle /\ binder[b].pc = "annotate" /\ Next
  BY DEF AnnotatePodBind, At, Next, BindStep
<1>3. PICK p, q : p = binder[b].pod /\ q = binder[b]
  OBVIOUS
<1>4. /\ p \in Pods /\ q \in BinderRecord(p) /\ Request(L, b)
      /\ \A a \in Binders \ {b} : binder[a] # Idle => binder[a].pod # p
  BY <1>1, <1>2, <1>3, RequestKnown
<1>5. IInv /\ Charges(L) /\ Requested(L) /\ api[p] \in PodObject(p)
  BY <1>1, <1>4, ObjectTypes DEF CInv, Explained
<1>0. PICK old \in KeptTiles(p) :
         Store(p, [api[p] EXCEPT !.ann = q.ann, !.tiles = PatchedTiles(q, old)], "update")
  BY <1>3 DEF AnnotatePodBind
<1>6. q.ann \in Annotations(p) /\ PatchedTiles(q, old) \in TileSets
  <2>1. old \in TileSets
    BY <1>5 DEF KeptTiles, PodObject, TileSets
  <2>2. QED BY <1>2, <1>3, <1>4, <1>5, <2>1
            DEF BinderRecord, IInv, CardsChosen, Charged, PatchedTiles
<1>7. PICK obj : obj = [api[p] EXCEPT !.ann = q.ann, !.tiles = PatchedTiles(q, old)]
  OBVIOUS
<1>8. ~Bound(p) /\ api[p].uid = 1 /\ binder[b].uid = 1
  BY <1>3, <1>4 DEF Request
<1>9. obj \in PodObject(p) /\ obj.uid = 1 /\ obj.node = NoNode /\ obj.ann = q.ann
  BY <1>5, <1>6, <1>7, <1>8 DEF PodObject, PodAnnotations, Bound
<1>10. PICK e : e = [kind |-> "update", pod |-> p, obj |-> obj]
  OBVIOUS
<1>11. e \in Events /\ e.pod = p /\ e.obj = obj /\ HandlerItem(e).node = NoNode
  BY <1>4, <1>9, <1>10, ItemIs
<1>12. /\ api' = [api EXCEPT ![p] = obj] /\ watch' = Append(watch, e)
       /\ UNCHANGED <<infVars, podWorkQueue, bookVars>>
       /\ binder' = [binder EXCEPT ![b].pc = "bind"]
  BY <1>0, <1>3, <1>7, <1>10 DEF AnnotatePodBind, Store, Replies, Answered
<1>13. \A j \in Pods : api'[j] = IF j = p THEN obj ELSE api[j]
  BY <1>5, <1>12 DEF IInv, TypeOK, ApiType
<1>14. PICK r : r = [q EXCEPT !.pc = "bind"]
  OBVIOUS
<1>15. r.pc = "bind" /\ r.pod = p /\ r.uid = q.uid /\ r.ann = q.ann /\ Where(r) = Where(q)
  BY <1>4, <1>14 DEF BinderRecord, Where
<1>16. \A a \in Binders : binder'[a] = IF a = b THEN r ELSE binder[a]
  BY <1>3, <1>5, <1>12, <1>14 DEF IInv, TypeOK, BindType
<1>17. ~Bound(p)' /\ api'[p].ann = q.ann /\ api'[p].uid = 1 /\ annotatedPods' = annotatedPods
  BY <1>4, <1>9, <1>12, <1>13 DEF Bound, bookVars
<1>18. Request(L, b)'
  BY <1>2, <1>3, <1>4, <1>8, <1>15, <1>16, <1>17 DEF Request, Bound, Charged
<1>19. Requested(L)'
  BY <1>4, <1>5, <1>13, <1>15, <1>16, <1>17, <1>18, OneRequest
<1>20. News(L, HandlerItem(e))'
  BY <1>11 DEF News
<1>21. ~Using(p)'
  BY <1>17 DEF Using
<1>22. QED BY <1>1, <1>2, <1>4, <1>9, <1>11, <1>12, <1>19, <1>20, <1>21, StoredCInv

\* A pod is bound: it has an entry already, and the worker is told of it.
LEMMA BindCInv ==
    ASSUME Answered, CInv, IInv', NEW b \in Binders, BindApi(b)
    PROVE  CInv'
<1>1. PICK L : Explained(L)
  BY DEF CInv
<1>2. binder[b] # Idle /\ binder[b].pc = "bind" /\ Next
  BY DEF BindApi, At, Next, BindStep
<1>3. PICK p, q : p = binder[b].pod /\ q = binder[b]
  OBVIOUS
<1>4. /\ p \in Pods /\ q \in BinderRecord(p) /\ Request(L, b)
      /\ \A a \in Binders \ {b} : binder[a] # Idle => binder[a].pod # p
  BY <1>1, <1>2, <1>3, RequestKnown
<1>5. IInv /\ Charges(L) /\ Requested(L) /\ api[p] \in PodObject(p)
  BY <1>1, <1>4, ObjectTypes DEF CInv, Explained
<1>6. q.node \in Nodes /\ api[p].uid = 1 /\ Live(p)
  BY <1>3, <1>4 DEF BinderRecord, Request, BindApi
<1>7. p \in annotatedPods /\ p \in DOMAIN L /\ L[p] = Where(q) /\ api[p].ann = q.ann
  BY <1>2, <1>3, <1>4, <1>6 DEF Request, Charged, Exists, Live
<1>8. PICK obj : obj = [api[p] EXCEPT !.node = q.node]
  OBVIOUS
<1>9. /\ obj \in PodObject(p) /\ obj.uid = 1 /\ obj.node = q.node /\ obj.ann = q.ann
      /\ obj.status = api[p].status /\ q.node # NoNode
  BY <1>5, <1>6, <1>7, <1>8, GasCacheAssumption DEF PodObject, NodeNames
<1>10. PICK e : e = [kind |-> "update", pod |-> p, obj |-> obj]
  OBVIOUS
<1>11. /\ e \in Events /\ e.pod = p /\ e.obj = obj
       /\ HandlerItem(e).pod = p /\ HandlerItem(e).node = q.node
       /\ HandlerItem(e).action = "podUpdated" /\ Where(HandlerItem(e)) = Where(obj)
  BY <1>4, <1>6, <1>9, <1>10, ItemIs DEF Live
<1>12. /\ api' = [api EXCEPT ![p] = obj] /\ watch' = Append(watch, e)
       /\ UNCHANGED <<infVars, podWorkQueue, bookVars>>
       /\ binder' = [binder EXCEPT ![b] = Idle]
  BY <1>3, <1>8, <1>10 DEF BindApi, Store, Replies, Return, Answered
<1>13. \A j \in Pods : api'[j] = IF j = p THEN obj ELSE api[j]
  BY <1>5, <1>12 DEF IInv, TypeOK, ApiType
<1>14. \A a \in Binders : binder'[a] = IF a = b THEN Idle ELSE binder[a]
  BY <1>5, <1>12 DEF IInv, TypeOK, BindType
<1>15. annotatedPods' = annotatedPods
  BY <1>12 DEF bookVars
<1>16. Requested(L)'
  BY <1>4, <1>5, <1>13, <1>14, <1>15, OneRequest
<1>17. WasBound(p)'
  BY <1>4, <1>9, <1>13, <1>14 DEF WasBound, InBind, Bound
<1>18. L[p] = Where(obj)
  BY <1>7, <1>9 DEF Where
<1>19. News(L, HandlerItem(e))'
  BY <1>7, <1>11, <1>17, <1>18 DEF News
<1>20. obj.status # "absent"
  BY <1>6, <1>9 DEF Live
<1>21. QED BY <1>1, <1>2, <1>4, <1>7, <1>9, <1>11, <1>12, <1>16, <1>18, <1>19, <1>20, StoredCInv

-----------------------------------------------------------------------------
(* The steps of informer, handlers and worker. *)

\* Unheard pods, by what is queued for the handlers and for the worker.
LEMMA UnheardIs ==
    LET Tells(p, e) == e.kind = "add" /\ e.pod = p /\ e.obj.node # NoNode
        Due(p, x) == x.action = "podAdded" /\ x.pod = p /\ x.node # NoNode
    IN \A p \in Pods :
          /\ p \in Unheard <=> \/ \E e \in Range(notify) : Tells(p, e)
                               \/ \E x \in Range(podWorkQueue) : Due(p, x)
          /\ p \in Unheard' <=> \/ \E e \in Range(notify') : Tells(p, e)
                                \/ \E x \in Range(podWorkQueue') : Due(p, x)
BY DEF Unheard, Range

\* A step that is about the queues, and maybe the books.
LEMMA QueuesCInv ==
    ASSUME Answered, CInv, IInv', [Next]_vars, NEW L, Explained(L), UNCHANGED <<api, binder>>,
           Mail' \subseteq Mail, Range(watch') \subseteq Range(watch),
           \A p \in Pods : \/ lister'[p] = lister[p]
                           \/ lister'[p].status = "absent"
                           \/ /\ lister'[p].uid = 1 /\ api'[p].uid = 1
                              /\ lister'[p].node # NoNode => WasBound(p)',
           Charges(L)', \A p \in annotatedPods : InBind(p) => p \in annotatedPods', Heard'
    PROVE  CInv'
<1>1. IInv /\ Stores /\ Living(L) /\ Requested(L) /\ Mailed(L)
  BY DEF CInv, Explained
<1>2. Stores'
  <2>1. PICK E : E = {}
    OBVIOUS
  <2>2. /\ Range(watch') \subseteq Range(watch) \cup E
        /\ \A e \in E : e.obj.uid = 1 /\ api'[e.pod].uid = 1
    BY <2>1
  <2>3. QED BY <1>1, <2>2, StoresKept
<1>3. Mailed(L)'
  <2>1. PICK New : New = {}
    OBVIOUS
  <2>2. Mail' \subseteq Mail \cup New
    OBVIOUS
  <2>3. QED BY <1>1, <2>1, <2>2, MailedKept
<1>4. Living(L)'
  BY <1>1, LivingSame
<1>5. Requested(L)'
  <2>1. ASSUME NEW b \in Binders, binder[b] # Idle PROVE Request(L, b)'
    <3>1. Request(L, b) /\ InBind(binder[b].pod)
      BY <1>1, <2>1 DEF Requested, InBind
    <3>2. QED BY <3>1 DEF Request, Bound, Exists
  <2>2. QED BY <1>1, <2>1 DEF Requested
<1>6. Explained(L)'
  BY <1>3, <1>4, <1>5 DEF Explained
<1>7. QED BY <1>2, <1>6 DEF CInv

\* The informer's store gets what the watch has told.
LEMMA DeliverCInv ==
    ASSUME Answered, CInv, IInv', Deliver
    PROVE  CInv'
<1>1. PICK L : Explained(L)
  BY DEF CInv
<1>2. IInv /\ Stores /\ Heard /\ Charges(L) /\ Mailed(L) /\ Next
  BY <1>1 DEF CInv, Explained, Next
<1>3. PICK e : e = Head(watch)
  OBVIOUS
<1>4. /\ e \in Events /\ Range(watch) = {e} \cup Range(watch')
      /\ Range(notify') = Range(notify) \cup {e}
  <2>1. watch' = Tail(watch) /\ notify' = Append(notify, e) /\ watch # <<>>
    BY <1>3 DEF Deliver
  <2>2. QED BY <1>2, <1>3, <2>1, MailTypes, TakenFirst, QueuedLast
<1>5. /\ UNCHANGED <<api, binder>> /\ UNCHANGED bookVars /\ podWorkQueue' = podWorkQueue
      /\ lister' = [lister EXCEPT ![e.pod] = Stored(e)]
  BY <1>3 DEF Deliver, bindVars
<1>6. Mail' \subseteq Mail /\ Range(watch') \subseteq Range(watch)
  BY <1>4, <1>5 DEF Mail
<1>7. e.obj.uid = 1 /\ api[e.pod].uid = 1 /\ e.pod \in Pods
  BY <1>2, <1>4, EventType DEF Stores
<1>8. e.obj.node # NoNode => WasBound(e.pod)
  <2>1. HandlerItem(e) \in Mail
    BY <1>4 DEF Mail
  <2>2. HandlerItem(e).pod = e.pod /\ HandlerItem(e).node = e.obj.node
    BY <1>4, EventType DEF HandlerItem, WorkItem
  <2>3. QED BY <1>2, <2>1, <2>2 DEF Mailed, News
<1>9. ASSUME NEW p \in Pods
      PROVE  \/ lister'[p] = lister[p]
             \/ lister'[p].status = "absent"
             \/ /\ lister'[p].uid = 1 /\ api'[p].uid = 1
                /\ lister'[p].node # NoNode => WasBound(p)'
  <2>1. lister'[p] = IF p = e.pod THEN Stored(e) ELSE lister[p]
    BY <1>2, <1>5, <1>7 DEF IInv, TypeOK, InformerType
  <2>2. CASE p = e.pod /\ e.kind # "delete"
    <3>1. lister'[p] = e.obj
      BY <2>1, <2>2 DEF Stored
    <3>2. WasBound(p) => WasBound(p)'
      BY <1>2, PodsStay
    <3>3. QED BY <1>5, <1>7, <1>8, <2>2, <3>1, <3>2
  <2>3. CASE p = e.pod /\ e.kind = "delete"
    BY <2>1, <2>3 DEF Stored, Absent
  <2>4. QED BY <2>1, <2>2, <2>3
<1>10. Charges(L)'
  BY <1>2, <1>5, ChargesSame
<1>11. annotatedPods' = annotatedPods
  BY <1>5 DEF bookVars
<1>12. Heard'
  <2>1. \A p \in Pods : p \in Unheard => p \in Unheard'
    BY <1>4, <1>5, UnheardIs
  <2>2. \A p \in Pods : Using(p)' <=> Using(p)
    BY <1>5 DEF Using, Bound, Live
  <2>3. QED BY <1>2, <1>11, <2>1, <2>2 DEF Heard
<1>13. QED BY <1>1, <1>2, <1>5, <1>6, <1>9, <1>10, <1>11, <1>12, QueuesCInv

\* A handler queues what it has to: the event of a bound pod that was listed has an
\* annotation.
LEMMA HandleCInv ==
    ASSUME Answered, CInv, IInv', Handle
    PROVE  CInv'
<1>1. PICK L : Explained(L)
  BY DEF CInv
<1>2. IInv /\ Stores /\ Heard /\ Charges(L) /\ Mailed(L) /\ Next
  BY <1>1 DEF CInv, Explained, Next
<1>3. PICK e, x : e = Head(notify) /\ x = HandlerItem(e)
  OBVIOUS
<1>4. e \in Events /\ Range(notify) = {e} \cup Range(notify')
  <2>1. notify' = Tail(notify) /\ notify # <<>>
    BY DEF Handle
  <2>2. QED BY <1>2, <1>3, <2>1, MailTypes, TakenFirst
<1>5. /\ UNCHANGED <<api, binder>> /\ UNCHANGED bookVars /\ watch' = watch /\ lister' = lister
      /\ podWorkQueue' = IF HandlerQueues(e) THEN Append(podWorkQueue, x) ELSE podWorkQueue
  BY <1>3 DEF Handle, apiVars, bindVars
<1>6. /\ Range(podWorkQueue) \subseteq Range(podWorkQueue')
      /\ Range(podWorkQueue') \subseteq Range(podWorkQueue) \cup {x}
      /\ HandlerQueues(e) => x \in Range(podWorkQueue')
  <2>1. CASE HandlerQueues(e)
    <3>1. x \in Items
      BY <1>3, <1>4, <2>1, HandlerItemType
    <3>2. QED BY <1>2, <1>5, <2>1, <3>1, MailTypes, QueuedLast
  <2>2. QED BY <1>5, <2>1
<1>7. x \in Mail
  BY <1>3, <1>4 DEF Mail
<1>8. Mail' \subseteq Mail /\ Range(watch') \subseteq Range(watch)
  BY <1>4, <1>5, <1>6, <1>7 DEF Mail
<1>9. Charges(L)'
  BY <1>2, <1>5, ChargesSame
<1>10. annotatedPods' = annotatedPods
  BY <1>5 DEF bookVars
<1>11. ASSUME NEW p \in Pods, e.kind = "add", e.pod = p, e.obj.node # NoNode
       PROVE  x \in Range(podWorkQueue') /\ x.action = "podAdded" /\ x.pod = p /\ x.node # NoNode
  <2>1. /\ x.action = "podAdded" /\ x.pod = p /\ x.node = e.obj.node /\ x.ann = e.obj.ann
    BY <1>3, <1>11 DEF HandlerItem, WorkItem
  <2>2. p \in DOMAIN L /\ L[p] = Where(x)
    BY <1>2, <1>7, <1>11, <2>1 DEF Mailed, News
  <2>3. x.ann \in Annotations(p)
    BY <1>2, <2>2 DEF Charges, WellTyped, Entries, Where
  <2>4. HandlerQueues(e)
    BY <1>11, <2>1, <2>3, GasCacheAssumption DEF HandlerQueues
  <2>5. QED BY <1>6, <1>11, <2>1, <2>4
<1>12. Heard'
  <2>1. \A p \in Pods : p \in Unheard => p \in Unheard'
    BY <1>4, <1>6, <1>11, UnheardIs
  <2>2. \A p \in Pods : Using(p)' <=> Using(p)
    BY <1>5 DEF Using, Bound, Live
  <2>3. QED BY <1>2, <1>10, <2>1, <2>2 DEF Heard
<1>13. QED BY <1>1, <1>2, <1>5, <1>8, <1>9, <1>10, <1>12, QueuesCInv

\* The worker takes an item: what is to hold afterwards follows if the books cover the
\* ledger, and a pod is discharged only if it neither runs nor is being bound.
LEMMA WorkTaken ==
    ASSUME Answered, CInv, IInv', PodWork, NEW L, Explained(L), NEW x, x = Head(podWorkQueue),
           Charges(L)',
           \A q \in annotatedPods : q \in annotatedPods' \/ (~Using(q) /\ ~InBind(q)),
           Using(x.pod) /\ x.action = "podAdded" /\ x.node # NoNode => x.pod \in annotatedPods'
    PROVE  CInv'
<1>1. IInv /\ Heard /\ Next
  BY DEF CInv, Next
<1>2. Range(podWorkQueue) = {x} \cup Range(podWorkQueue')
  <2>1. podWorkQueue' = Tail(podWorkQueue) /\ podWorkQueue # <<>>
    BY DEF PodWork
  <2>2. QED BY <1>1, <2>1, MailTypes, TakenFirst
<1>3. UNCHANGED <<api, binder>> /\ watch' = watch /\ lister' = lister /\ notify' = notify
  BY DEF PodWork, apiVars, infVars, bindVars
<1>4. Mail' \subseteq Mail /\ Range(watch') \subseteq Range(watch)
  BY <1>2, <1>3 DEF Mail
<1>5. \A q \in Pods : q \in Unheard =>
         q \in Unheard' \/ (q = x.pod /\ x.action = "podAdded" /\ x.node # NoNode)
  BY <1>2, <1>3, UnheardIs
<1>6. ASSUME NEW q \in Pods, Using(q)' PROVE q \in Unheard' \/ q \in annotatedPods'
  <2>1. Using(q)
    BY <1>3, <1>6 DEF Using, Bound, Live
  <2>2. CASE q \in annotatedPods
    BY <2>1, <2>2
  <2>3. CASE q \in Unheard
    BY <1>5, <2>1, <2>3
  <2>4. QED BY <1>1, <2>1, <2>2, <2>3 DEF Heard
<1>7. Heard'
  BY <1>6 DEF Heard
<1>8. \A q \in annotatedPods : InBind(q) => q \in annotatedPods'
  OBVIOUS
<1>9. QED BY <1>1, <1>3, <1>4, <1>7, <1>8, QueuesCInv

\* The worker: handlePod charges a listed pod that runs, and discharges only pods that
\* do not.
LEMMA WorkCInv ==
    ASSUME Answered, CInv, IInv', NoOverflow, PodWork
    PROVE  CInv'
<1>1. PICK L : Explained(L)
  BY DEF CInv
<1>2. /\ IInv /\ Stores /\ Heard /\ Charges(L) /\ Living(L) /\ Requested(L) /\ Mailed(L) /\ Next
      /\ BooksType /\ BooksType'
  BY <1>1 DEF CInv, Explained, Next, IInv, TypeOK
<1>3. PICK x, p : x = Head(podWorkQueue) /\ p = x.pod
  OBVIOUS
<1>4. /\ x \in Items /\ p \in Pods
      /\ Range(podWorkQueue) = {x} \cup Range(podWorkQueue')
  <2>1. podWorkQueue' = Tail(podWorkQueue) /\ podWorkQueue # <<>>
    BY DEF PodWork
  <2>2. QED BY <1>2, <1>3, <2>1, MailTypes, TakenFirst
<1>5. /\ UNCHANGED <<api, binder>> /\ watch' = watch /\ lister' = lister /\ notify' = notify
      /\ HandlePod(x)
  BY <1>3 DEF PodWork, apiVars, infVars, bindVars
<1>6. Mail' \subseteq Mail /\ Range(watch') \subseteq Range(watch) /\ x \in Mail
  BY <1>4, <1>5 DEF Mail
<1>7. News(L, x) /\ x.tiles \in TileSets /\ x.node \in NodeNames
  BY <1>2, <1>4, <1>6 DEF Mailed, Items
<1>10. ASSUME p \in annotatedPods, x.action \in {"podCompleted", "podDeleted"},
              CanAdjust(p, "remove", x.ann, x.node)
       PROVE  CInv'
  <2>1. AdjustPodResources(p, "remove", x.ann, x.tiles, x.node)
    BY <1>3, <1>5, <1>10 DEF HandlePod
  <2>2. x.node \in Nodes /\ x.node # NoNode
    BY <1>7, <1>10 DEF CanAdjust, NodeNames
  <2>3. /\ WasBound(p) /\ ~Using(p)
        /\ x.ann = EmptyAnnotation \/ (x.ann = L[p].ann /\ x.node = L[p].node)
    BY <1>3, <1>7, <1>10, <2>2 DEF News, Where
  <2>4. Charges(L)' /\ annotatedPods' = annotatedPods \ {p}
    BY <1>2, <1>10, <2>1, <2>2, <2>3, ChargesRemove
  <2>5. \A q \in annotatedPods : q \in annotatedPods' \/ (~Using(q) /\ ~InBind(q))
    BY <2>3, <2>4 DEF WasBound
  <2>6. x.action # "podAdded"
    BY <1>10
  <2>7. QED BY <1>1, <1>3, <2>4, <2>5, <2>6, WorkTaken
<1>11. ASSUME p \notin annotatedPods, x.action \notin {"podCompleted", "podDeleted"},
              CanAdjust(p, "add", x.ann, x.node)
       PROVE  CInv'
  <2>1. AdjustPodResources(p, "add", x.ann, x.tiles, x.node)
    BY <1>3, <1>5, <1>11 DEF HandlePod
  <2>2. x.node # NoNode
    BY <1>11 DEF CanAdjust
  <2>3. p \in DOMAIN L /\ L[p] = Where(x)
    BY <1>3, <1>7, <1>11, <2>2 DEF News
  <2>4. L[p] \in Entries(p) /\ L[p].ann = x.ann /\ L[p].node = x.node
    <3>1. L[p] \in Entries(p)
      BY <1>2, <2>3 DEF Charges, WellTyped
    <3>2. QED BY <2>3, <3>1 DEF Where
  <2>5. DOMAIN L = DOMAIN L \cup {p}
    BY <2>3
  <2>6. CanAdjust(p, "add", L[p].ann, L[p].node)
        /\ AdjustPodResources(p, "add", L[p].ann, x.tiles, L[p].node)
    BY <1>11, <2>1, <2>4
  <2>7. Charges(L)'
    BY <1>2, <1>4, <1>7, <2>4, <2>5, <2>6, ChargesAdd
  <2>8. annotatedPods' = annotatedPods \cup {p}
    BY <1>11, <2>1 DEF AdjustPodResources
  <2>9. \A q \in annotatedPods : q \in annotatedPods'
    BY <2>8
  <2>10. p \in annotatedPods'
    BY <2>8
  <2>11. QED BY <1>1, <1>3, <2>7, <2>9, <2>10, WorkTaken
<1>12. ASSUME UNCHANGED bookVars, p \in annotatedPods \/ ~CanAdjust(p, "add", x.ann, x.node)
       PROVE  CInv'
  <2>1. Charges(L)' /\ annotatedPods' = annotatedPods
    BY <1>2, <1>12, ChargesSame DEF bookVars
  <2>2. ASSUME Using(p), x.action = "podAdded", x.node # NoNode, p \notin annotatedPods
        PROVE  FALSE
    <3>1. L[p] = Where(x) /\ L[p] = Where(api[p]) /\ L[p] \in Entries(p)
      BY <1>2, <1>3, <1>4, <1>7, <2>2 DEF News, Living, Using, Charges, WellTyped
    <3>2. x.ann = api[p].ann /\ x.node = api[p].node /\ x.ann \in Annotations(p)
      BY <3>1 DEF Where, Entries
    <3>3. CanAdjust(p, "add", x.ann, x.node)
      <4>1. Len(x.ann) = Len(Requests[p])
        BY <1>4, <3>2, AnnotationLen
      <4>2. \A c \in Cards : \A k \in DOMAIN Share(p, x.ann, c) :
               Amount(nodeStatuses[x.node][c], k) + Share(p, x.ann, c)[k] <= MaxInt
        BY <1>4, <2>2, <3>2 DEF NoOverflow
      <4>3. QED BY <2>2, <4>1, <4>2 DEF CanAdjust
    <3>4. QED BY <1>12, <2>2, <3>3
  <2>3. Using(p) /\ x.action = "podAdded" /\ x.node # NoNode => p \in annotatedPods'
    BY <2>1, <2>2
  <2>4. \A q \in annotatedPods : q \in annotatedPods'
    BY <2>1
  <2>5. QED BY <1>1, <1>3, <2>1, <2>3, <2>4, WorkTaken
<1>13. CASE x.action \in {"podCompleted", "podDeleted"}
  <2>1. CASE p \in annotatedPods /\ CanAdjust(p, "remove", x.ann, x.node)
    BY <1>10, <1>13, <2>1
  <2>2. CASE p \in annotatedPods /\ ~CanAdjust(p, "remove", x.ann, x.node)
    <3>1. UNCHANGED bookVars
      BY <1>3, <1>5, <1>13, <2>2 DEF HandlePod, AdjustPodResources
    <3>2. QED BY <1>12, <2>2, <3>1
  <2>3. CASE p \notin annotatedPods
    <3>1. UNCHANGED bookVars
      BY <1>3, <1>5, <1>13, <2>3 DEF HandlePod
    <3>2. Charges(L)' /\ annotatedPods' = annotatedPods
      BY <1>2, <3>1, ChargesSame DEF bookVars
    <3>3. \A q \in annotatedPods : q \in annotatedPods'
      BY <3>2
    <3>4. x.action # "podAdded"
      BY <1>13
    <3>5. QED BY <1>1, <1>3, <3>2, <3>3, <3>4, WorkTaken
  <2>4. QED BY <2>1, <2>2, <2>3
<1>14. CASE x.action \notin {"podCompleted", "podDeleted"}
  <2>1. CASE p \notin annotatedPods /\ CanAdjust(p, "add", x.ann, x.node)
    BY <1>11, <1>14, <2>1
  <2>2. CASE p \in annotatedPods \/ ~CanAdjust(p, "add", x.ann, x.node)
    <3>1. UNCHANGED bookVars
      BY <1>3, <1>5, <1>14, <2>2 DEF HandlePod, AdjustPodResources
    <3>2. QED BY <1>12, <2>2, <3>1
  <2>3. QED BY <2>1, <2>2
<1>15. QED BY <1>13, <1>14

\* Steps that change nothing of this.
LEMMA StutterCInv ==
    ASSUME Answered, CInv, IInv', UNCHANGED vars
    PROVE  CInv'
<1>1. PICK L : Explained(L)
  BY DEF CInv
<1>2. IInv /\ Heard /\ Charges(L)
  BY <1>1 DEF CInv, Explained
<1>3. /\ api' = api /\ watch' = watch /\ lister' = lister /\ notify' = notify
      /\ podWorkQueue' = podWorkQueue /\ UNCHANGED bookVars /\ annotatedPods' = annotatedPods
      /\ binder' = binder
  BY DEF vars, apiVars, infVars, bookVars, bindVars
<1>4. Charges(L)'
  BY <1>2, <1>3, ChargesSame
<1>5. Heard'
  BY <1>2, <1>3 DEF Heard, Unheard, Using, Bound, Live
<1>6. Mail' \subseteq Mail /\ Range(watch') \subseteq Range(watch)
  BY <1>3 DEF Mail
<1>7. QED BY <1>1, <1>3, <1>4, <1>5, <1>6, QueuesCInv

-----------------------------------------------------------------------------
(* Restarts and breaks of the watch. *)

\* An item that is true stays true.
LEMMA NewsKept ==
    ASSUME Answered, IInv, IInv', Stores, [Next]_vars, NEW L, NEW x, x.pod \in Pods, News(L, x)
    PROVE  News(L, x)'
<1>1. CASE x.node = NoNode
  BY <1>1 DEF News
<1>2. CASE x.node # NoNode
  <2>1. WasBound(x.pod)' /\ (~Using(x.pod) => ~Using(x.pod)')
    BY <1>2, PodsStay DEF News
  <2>2. QED BY <1>2, <2>1 DEF News
<1>3. QED BY <1>1, <1>2

\* What a list tells of a pod is true.
LEMMA ObjectNews ==
    ASSUME IInv, NEW L, Living(L), Requested(L), NEW p \in Pods, NEW kind \in {"add", "update"},
           NEW e, e = [kind |-> kind, pod |-> p, obj |-> api[p]]
    PROVE  /\ e \in Events /\ e.pod = p /\ e.kind = kind /\ e.obj = api[p]
           /\ HandlerItem(e).pod = p /\ News(L, HandlerItem(e))
<1>1. api[p] \in PodObject(p)
  BY ObjectTypes
<1>2. PICK x : x = HandlerItem(e)
  OBVIOUS
<1>3. /\ e \in Events /\ e.pod = p /\ e.kind = kind /\ e.obj = api[p]
      /\ x.pod = p /\ x.node = api[p].node /\ Where(x) = Where(api[p])
      /\ x.action # "podDeleted"
      /\ x.action = "podCompleted" => api[p].status \in {"deleting", "ended"}
  BY <1>1, <1>2, ItemIs
<1>4. CASE api[p].node = NoNode
  BY <1>2, <1>3, <1>4 DEF News
<1>5. CASE api[p].node # NoNode
  <2>1. WasBound(p) /\ p \in DOMAIN L /\ L[p] = Where(api[p])
    BY <1>5, BoundWas DEF Bound
  <2>2. api[p].status \in {"deleting", "ended"} => ~Using(p)
    BY DEF Using, Live
  <2>3. News(L, x)
    BY <1>3, <2>1, <2>2 DEF News
  <2>4. QED BY <1>2, <1>3, <2>3
<1>6. QED BY <1>4, <1>5

\* So is what a relist reports.
LEMMA RelistNews ==
    ASSUME IInv, Stores, NEW L, Living(L), Requested(L), NEW p \in Pods, Exists(p) \/ Listed(p)
    PROVE  ListEvent(p) \in Events /\ News(L, HandlerItem(ListEvent(p)))
<1>1. CASE Exists(p)
  <2>1. PICK kind \in {"add", "update"} :
           ListEvent(p) = [kind |-> kind, pod |-> p, obj |-> api[p]]
    BY <1>1 DEF ListEvent
  <2>2. QED BY <2>1, ObjectNews
<1>2. CASE ~Exists(p)
  <2>1. PICK e : e = [kind |-> "delete", pod |-> p, obj |-> lister[p]]
    OBVIOUS
  <2>2. ListEvent(p) = e
    BY <1>2, <2>1 DEF ListEvent
  <2>3. lister[p] \in PodObject(p)
    BY DEF IInv, TypeOK, InformerType
  <2>4. PICK x : x = HandlerItem(e)
    OBVIOUS
  <2>5. /\ e \in Events /\ x.pod = p /\ x.node = lister[p].node
        /\ x.action = "podDeleted" /\ x.ann = EmptyAnnotation
    BY <2>1, <2>3, <2>4, ItemIs
  <2>6. x.node # NoNode => WasBound(p)
    BY <1>2, <2>5 DEF Stores
  <2>7. ~Using(p)
    BY <1>2 DEF Using, Live, Exists
  <2>8. News(L, x)
    BY <2>5, <2>6, <2>7 DEF News
  <2>9. QED BY <2>2, <2>4, <2>5, <2>8
<1>3. QED BY <1>1, <1>2

\* A store that has just been filled by a list.
LEMMA StoresListed ==
    ASSUME Answered, IInv, IInv', Stores, [Next]_vars, NEW L, Living(L), Requested(L),
           lister' = api, watch' = <<>>
    PROVE  Stores'
<1>1. ASSUME NEW p \in Pods, Listed(p)'
      PROVE  lister'[p].uid = 1 /\ api'[p].uid = 1 /\ (lister'[p].node # NoNode => WasBound(p)')
  <2>1. Exists(p)
    BY <1>1 DEF Listed, Exists
  <2>2. api[p].uid = 1 /\ api'[p].uid = 1
    BY <2>1, OnlyLife DEF Living
  <2>3. Bound(p) => WasBound(p)'
    BY BoundWas, PodsStay
  <2>4. QED BY <2>2, <2>3 DEF Bound
<1>2. Range(watch') = {}
  BY NoEntries
<1>3. QED BY <1>1, <1>2 DEF Stores

\* A restart: the books are empty, and every running pod is in the list.
LEMMA RestartCInv ==
    ASSUME Answered, CInv, IInv', Restart
    PROVE  CInv'
<1>1. PICK L : Explained(L)
  BY DEF CInv
<1>2. /\ IInv /\ Stores /\ Charges(L) /\ Living(L) /\ Requested(L) /\ Mailed(L) /\ Next
  BY <1>1 DEF CInv, Explained, Next
<1>3. PICK S, q : S = {p \in Pods : Exists(p)} /\ q \in Orders(S) /\
         notify' = [i \in DOMAIN q |-> [kind |-> "add", pod |-> q[i], obj |-> api[q[i]]]]
  BY DEF Restart
<1>4. Range(q) = S
  <2>1. IsFiniteSet(S)
    BY <1>3, PodSharesAssumption, FS_Subset
  <2>2. QED BY <1>3, <2>1, AllListed DEF Orders
<1>5. PICK New : New = {[kind |-> "add", pod |-> p, obj |-> api[p]] : p \in S}
  OBVIOUS
<1>6. Range(notify') = New
  BY <1>3, <1>4, <1>5 DEF Range
<1>7. /\ api' = api /\ lister' = api /\ watch' = <<>> /\ podWorkQueue' = <<>>
      /\ annotatedPods' = {} /\ nodeStatuses' = NoStatuses
      /\ \A b \in Binders : binder'[b] = Idle
  BY DEF Restart
<1>8. Stores'
  BY <1>2, <1>7, StoresListed
<1>9. Heard'
  <2>1. SUFFICES ASSUME NEW p \in Pods, Using(p)' PROVE p \in Unheard'
    BY DEF Heard
  <2>2. Using(p) /\ Exists(p) /\ Bound(p)
    BY <1>7, <2>1 DEF Using, Bound, Live, Exists
  <2>3. PICK e : e = [kind |-> "add", pod |-> p, obj |-> api[p]]
    OBVIOUS
  <2>4. e \in Range(notify')
    BY <1>3, <1>5, <1>6, <2>2, <2>3
  <2>5. e.kind = "add" /\ e.pod = p /\ e.obj.node # NoNode
    BY <2>2, <2>3 DEF Bound
  <2>6. QED BY <2>4, <2>5, UnheardIs
<1>10. Charges(L)'
  <2>1. ASSUME NEW n \in Nodes, NEW c \in Cards, NEW k \in Resources
        PROVE  Total(On(L)', n, c, k) <= Amount(nodeStatuses'[n][c], k)
    <3>1. PICK M : M = On(L)' /\ DOMAIN M = {}
      BY <1>7 DEF On
    <3>2. Total(M, n, c, k) = 0
      BY <3>1, NothingOwed
    <3>3. Amount(nodeStatuses'[n][c], k) \in Nat
      BY <1>7, EmptyMapType, AmountType DEF NoStatuses
    <3>4. QED BY <3>1, <3>2, <3>3
  <2>2. QED BY <1>2, <1>7, <2>1 DEF Charges
<1>11. Mailed(L)'
  <2>1. PICK Added : Added = {HandlerItem(e) : e \in New}
    OBVIOUS
  <2>2. Range(podWorkQueue') = {} /\ Range(watch') = {}
    BY <1>7, NoEntries
  <2>3. Mail' \subseteq Mail \cup Added
    BY <1>6, <2>1, <2>2 DEF Mail
  <2>4. ASSUME NEW x \in Added PROVE News(L, x)'
    <3>1. PICK p \in S : x = HandlerItem([kind |-> "add", pod |-> p, obj |-> api[p]])
      BY <1>5, <2>1
    <3>2. p \in Pods
      BY <1>3
    <3>3. x.pod \in Pods /\ News(L, x)
      BY <1>2, <3>1, <3>2, ObjectNews
    <3>4. QED BY <1>2, <3>3, NewsKept
  <2>5. QED BY <1>2, <2>3, <2>4, MailedKept
<1>12. Living(L)'
  BY <1>2, <1>7, LivingSame
<1>13. Requested(L)'
  BY <1>7 DEF Requested
<1>14. Explained(L)'
  BY <1>10, <1>11, <1>12, <1>13 DEF Explained
<1>15. QED BY <1>8, <1>9, <1>14 DEF CInv

\* A break of the watch: what has been lost is told again, in the words of the list.
LEMMA WatchGapCInv ==
    ASSUME Answered, CInv, IInv', WatchGap
    PROVE  CInv'
<1>1. PICK L : Explained(L)
  BY DEF CInv
<1>2. /\ IInv /\ Stores /\ Heard /\ Charges(L) /\ Living(L) /\ Requested(L) /\ Mailed(L) /\ Next
  BY <1>1 DEF CInv, Explained, Next
<1>3. PICK S, q, r : /\ S = {p \in Pods : Exists(p) \/ Listed(p)} /\ q \in Orders(S)
                    /\ r = [i \in DOMAIN q |-> ListEvent(q[i])] /\ notify' = notify \o r
  BY DEF WatchGap
<1>4. Cardinality(S) \in Nat /\ Range(q) = S /\ q \in [1..Cardinality(S) -> S]
  <2>1. IsFiniteSet(S)
    BY <1>3, PodSharesAssumption, FS_Subset
  <2>2. QED BY <1>3, <2>1, AllListed DEF Orders
<1>5. ASSUME NEW p \in S
      PROVE  /\ p \in Pods /\ ListEvent(p) \in Events /\ HandlerItem(ListEvent(p)).pod \in Pods
             /\ News(L, HandlerItem(ListEvent(p)))
  <2>1. ListEvent(p) \in Events /\ News(L, HandlerItem(ListEvent(p))) /\ p \in Pods
    BY <1>2, <1>3, RelistNews
  <2>2. QED BY <1>2, <2>1, MailTypes
<1>6. r \in Seq(Events) /\ \A e \in Range(r) : \E p \in S : e = ListEvent(p)
  <2>1. r \in [1..Cardinality(S) -> Events]
    BY <1>3, <1>4, <1>5
  <2>2. QED BY <1>3, <1>4, <2>1, ListIsQueue DEF Range
<1>7. Range(notify') = Range(notify) \cup Range(r)
  <2>1. PICK m : m = notify /\ m \in Seq(Events)
    BY <1>2, MailTypes
  <2>2. QED BY <1>3, <1>6, <2>1, BothQueued
<1>8. /\ UNCHANGED <<api, binder, podWorkQueue>> /\ UNCHANGED bookVars
      /\ lister' = api /\ watch' = <<>>
  BY DEF WatchGap, bindVars
<1>9. Stores'
  BY <1>2, <1>8, StoresListed
<1>10. annotatedPods' = annotatedPods
  BY <1>8 DEF bookVars
<1>11. Heard'
  <2>1. \A p \in Pods : p \in Unheard => p \in Unheard'
    BY <1>7, <1>8, UnheardIs
  <2>2. \A p \in Pods : Using(p)' <=> Using(p)
    BY <1>8 DEF Using, Bound, Live
  <2>3. QED BY <1>2, <1>10, <2>1, <2>2 DEF Heard
<1>12. Charges(L)'
  BY <1>2, <1>8, ChargesSame
<1>13. Mailed(L)'
  <2>1. PICK New : New = {HandlerItem(e) : e \in Range(r)}
    OBVIOUS
  <2>2. Range(watch') = {}
    BY <1>8, NoEntries
  <2>3. Mail' \subseteq Mail \cup New
    BY <1>7, <1>8, <2>1, <2>2 DEF Mail
  <2>4. ASSUME NEW x \in New PROVE News(L, x)'
    <3>1. PICK p \in S : x = HandlerItem(ListEvent(p))
      BY <1>6, <2>1
    <3>2. x.pod \in Pods /\ News(L, x)
      BY <1>5, <3>1
    <3>3. QED BY <1>2, <3>2, NewsKept
  <2>5. QED BY <1>2, <2>3, <2>4, MailedKept
<1>14. Living(L)'
  BY <1>2, <1>8, LivingSame
<1>15. Requested(L)'
  <2>1. ASSUME NEW b \in Binders, binder[b] # Idle PROVE Request(L, b)'
    <3>1. Request(L, b)
      BY <1>2, <2>1 DEF Requested
    <3>2. QED BY <1>8, <1>10, <3>1 DEF Request, Bound, Exists
  <2>2. QED BY <1>2, <1>8, <2>1 DEF Requested
<1>16. Explained(L)'
  BY <1>12, <1>13, <1>14, <1>15 DEF Explained
<1>17. QED BY <1>9, <1>11, <1>16 DEF CInv

-----------------------------------------------------------------------------
(* The theorem. *)

\* At first there is nothing to explain.
LEMMA InitCInv == Init => CInv
<1> SUFFICES ASSUME Init PROVE CInv
  OBVIOUS
<1>1. IInv
  BY InitIInv
<1>2. PICK L : DOMAIN L = {}
  <2>1. DOMAIN [p \in {} |-> p] = {}
    OBVIOUS
  <2>2. QED BY <2>1
<1>3. /\ \A p \in Pods : ~Exists(p) /\ ~Bound(p) /\ ~Listed(p)
      /\ watch = <<>> /\ notify = <<>> /\ podWorkQueue = <<>> /\ annotatedPods = {}
      /\ \A b \in Binders : binder[b] = Idle
  BY DEF Init, Absent, Exists, Bound, Listed
<1>4. Range(watch) = {} /\ Range(notify) = {} /\ Range(podWorkQueue) = {}
  BY <1>3, NoEntries
<1>5. Stores /\ Heard
  BY <1>3, <1>4 DEF Stores, Heard, Using
<1>6. Charges(L)
  <2>1. ASSUME NEW n \in Nodes, NEW c \in Cards, NEW k \in Resources
        PROVE  Total(On(L), n, c, k) <= Amount(nodeStatuses[n][c], k)
    <3>1. PICK M : M = On(L) /\ DOMAIN M = {}
      BY <1>3 DEF On
    <3>2. Total(M, n, c, k) = 0
      BY <3>1, NothingOwed
    <3>3. Amount(nodeStatuses[n][c], k) \in Nat
      BY <1>1, AmountType DEF IInv, TypeOK, BooksType
    <3>4. QED BY <3>1, <3>2, <3>3
  <2>2. QED BY <1>2, <1>3, <2>1 DEF Charges, WellTyped
<1>7. Living(L) /\ Requested(L) /\ Mailed(L)
  BY <1>3, <1>4 DEF Living, Requested, Mailed, Mail
<1>8. QED BY <1>1, <1>5, <1>6, <1>7 DEF CInv, Explained

\* Every step keeps the invariant, action by action.
LEMMA NextCInv ==
    ASSUME Answered
    PROVE  CInv /\ NoOverflow /\ [Next]_vars => CInv'
<1> SUFFICES ASSUME CInv, NoOverflow, [Next]_vars PROVE CInv'
  OBVIOUS
<1>1. IInv'
  BY NextIInv DEF CInv
<1>2. ASSUME NEW p \in Pods, CreatePod(p) PROVE CInv'
  BY <1>1, <1>2, CreateCInv
<1>3. ASSUME NEW p \in Pods, StartPod(p) \/ EndPod(p) \/ DeletePod(p) PROVE CInv'
  BY <1>1, <1>3, PhaseCInv
<1>4. ASSUME NEW p \in Pods, RemovePod(p) PROVE CInv'
  BY <1>1, <1>4, RemoveCInv
<1>5. ASSUME NEW b \in Binders, NEW p \in Pods, NEW n \in Nodes, BindRequest(b, p, n)
      PROVE  CInv'
  BY <1>1, <1>5, AskCInv
<1>6. ASSUME NEW b \in Binders, BindStep(b) PROVE CInv'
  <2>1. CASE CheckForSpace(b)
    BY <1>1, <2>1, CheckCInv
  <2>2. CASE CheckFails(b) \/ NothingToAnnotate(b)
    <3>1. /\ binder[b] # Idle /\ binder' = [binder EXCEPT ![b] = Idle]
          /\ UNCHANGED <<apiVars, infVars, podWorkQueue, bookVars>>
      BY <2>2 DEF CheckFails, NothingToAnnotate, Return, At
    <3>2. QED BY <1>1, <3>1, ReturnCInv
  <2>3. CASE ConvertToAnnotations(b)
    BY <1>1, <2>3, ConvertCInv
  <2>4. CASE ChargePod(b)
    BY <1>1, <2>4, ChargeCInv
  <2>5. CASE AnnotatePodBind(b)
    BY <1>1, <2>5, AnnotateCInv
  <2>6. CASE BindApi(b)
    BY <1>1, <2>6, BindCInv
  <2>7. CASE CallFails(b)
    BY <1>1, <2>7, FailsCInv
  <2>8. CASE Rollback(b)
    BY <1>1, <2>8, RollbackCInv
  <2>9. QED BY <1>6, <2>1, <2>2, <2>3, <2>4, <2>5, <2>6, <2>7, <2>8 DEF BindStep
<1>7. CASE Deliver
  BY <1>1, <1>7, DeliverCInv
<1>8. CASE Handle
  BY <1>1, <1>8, HandleCInv
<1>9. CASE PodWork
  BY <1>1, <1>9, WorkCInv
<1>10. CASE Restart
  BY <1>1, <1>10, RestartCInv
<1>11. CASE WatchGap
  BY <1>1, <1>11, WatchGapCInv
<1>12. CASE UNCHANGED vars
  BY <1>1, <1>12, StutterCInv
<1>13. QED
  BY <1>2, <1>3, <1>4, <1>5, <1>6, <1>7, <1>8, <1>9, <1>10, <1>11, <1>12 DEF Next

\* What running pods use that the worker has heard of is in their entries.
LEMMA UseIsCovered == CInv => BooksCatchUp
<1> SUFFICES ASSUME CInv, NEW n \in Nodes, NEW c \in Cards, NEW k \in Resources
             PROVE  UsedBy(Pods \ Unheard, n, c, k) <= Amount(nodeStatuses[n][c], k)
  BY DEF BooksCatchUp
<1>1. PICK L : Explained(L)
  BY DEF CInv
<1>2. IInv /\ Heard /\ Charges(L) /\ Living(L)
  BY <1>1 DEF CInv, Explained
<1>3. PICK S : S = {p \in Pods \ Unheard : Using(p) /\ api[p].node = n}
  OBVIOUS
<1>4. PICK f : f = Part(On(L), n, c, k)
  OBVIOUS
<1>5. WellTyped(On(L)) /\ DOMAIN On(L) = annotatedPods
      /\ \A p \in annotatedPods : On(L)[p] = L[p]
  BY <1>2, OnTyped
<1>6. \A p \in Pods : f[p] \in Nat
  BY <1>4, <1>5, PartType
<1>7. S \in SUBSET Pods /\ IsFiniteSet(S) /\ IsFiniteSet(Pods)
  BY <1>3, PodSharesAssumption, FS_Subset
<1>8. ASSUME NEW p \in S PROVE f[p] = Amount(Share(p, api[p].ann, c), k)
  <2>1. p \in Pods /\ p \in annotatedPods /\ Bound(p) /\ api[p].node = n
    BY <1>2, <1>3 DEF Heard, Using
  <2>2. On(L)[p] = Where(api[p])
    BY <1>2, <1>5, <2>1 DEF Living
  <2>3. On(L)[p].node = n /\ On(L)[p].ann = api[p].ann
    BY <2>1, <2>2 DEF Where
  <2>4. QED BY <1>4, <1>5, <2>1, <2>3 DEF Part
<1>9. PICK g : g = [p \in S |-> Amount(Share(p, api[p].ann, c), k)]
  OBVIOUS
<1>10. \A p \in S : g[p] = f[p] /\ f[p] \in Nat
  BY <1>6, <1>7, <1>8, <1>9
<1>11. UsedBy(Pods \ Unheard, n, c, k) = SumFunctionOnSet(g, S)
  BY <1>3, <1>9 DEF UsedBy
<1>12. SumFunctionOnSet(g, S) = SumFunctionOnSet(f, S)
  BY <1>7, <1>10, SumAgree
<1>13. SumFunctionOnSet(f, S) <= SumFunctionOnSet(f, Pods)
  BY <1>6, <1>7, SumSubset
<1>14. SumFunctionOnSet(f, S) \in Nat /\ SumFunctionOnSet(f, Pods) \in Nat
  BY <1>6, <1>7, <1>10, SumType
<1>15. SumFunctionOnSet(f, Pods) <= Amount(nodeStatuses[n][c], k)
  BY <1>2, <1>4 DEF Charges, Total
<1>16. Amount(nodeStatuses[n][c], k) \in Nat
  BY <1>2, AmountType DEF IInv, TypeOK, BooksType
<1>17. QED BY <1>11, <1>12, <1>13, <1>14, <1>15, <1>16

\* Whatever restarts, breaks of the watch and forced deletions there were: the books
\* show at least what the running pods use, but for those that a list has found and the
\* worker has not charged yet.  It takes replies of the API server that arrive, pod names
\* that are used once, and amounts in the books that an int64 can hold.
THEOREM BooksCatchUpAfterFaults ==
    ASSUME Answered
    PROVE  Spec /\ []NoOverflow => []BooksCatchUp
<1>1. Init => CInv
  BY InitCInv
<1>2. CInv /\ NoOverflow /\ [Next]_vars => CInv'
  BY NextCInv
<1>3. CInv => BooksCatchUp
  BY UseIsCovered
<1>4. QED BY <1>1, <1>2, <1>3, PTL DEF Spec
==============================================================================
