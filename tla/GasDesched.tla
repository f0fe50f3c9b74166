------------------------------ MODULE GasDesched ------------------------------
(***************************************************************************)
(* GPU Aware Scheduling: the node worker, which turns deschedule labels of *)
(* a node into a deschedule label on each pod that uses a named card or    *)
(* tile, for one node.                                                     *)
(*                                                                         *)
(* The worker makes its API calls with the cache locked, so the pod worker *)
(* waits for it, but pods come and go meanwhile.  What it did to a pod it  *)
(* remembers in podDeschedStatuses, under the name of the pod without the  *)
(* namespace; the deschedule labels it has dealt with in                   *)
(* previousDeschedCards and previousDeschedTiles.  Both are lost when the  *)
(* process restarts.  Faults names what may happen:                        *)
(*   "apiError"   a list or patch fails                                    *)
(*   "restart"    the GAS process restarts                                 *)
(*   "start"      pods start while the node worker is at work              *)
(*   "return"     deschedule labels come back to what they were before      *)
(***************************************************************************)
EXTENDS Naturals, FiniteSets, Sequences, SequencesExt

CONSTANTS
    Pods,        \* namespaced pod names
    NameOf,      \* NameOf[p]: the name without the namespace
    Cards, Tiles,
    PciGroup,    \* PciGroup[c]: the cards of the PCI group of c, as the node labels say
    UseSets,     \* the sets of cards <<c>> and tiles <<c, t>> a pod may be given
    LabelSets,   \* sets of deschedule labels [policy, card, tile, value]
    InitUse,     \* InitUse[p]: what the pods that run from the start use
    NoTile,      \* the tile of a label that names a whole card
    None,        \* no entry for the node
    Faults,
    MaxStarts,   \* bound: incarnations of a pod
    MaxChanges,  \* bound: changes of node labels
    MaxFaults,   \* bound: faults
    MaxBacklog   \* bound: unhandled pod events beyond which pods do not change

ASSUME GasDeschedAssumption ==
    /\ \A L \in LabelSets : \A l \in L :
          l.card \in Cards /\ l.tile \in Tiles \cup {NoTile} /\ l.value \in {"true", "PCI_GROUP"}
    /\ PciGroup \in [Cards -> SUBSET Cards]
    /\ IsFiniteSet(Pods) /\ DOMAIN InitUse \subseteq Pods
    /\ MaxStarts \in Nat /\ MaxChanges \in Nat /\ MaxFaults \in Nat /\ MaxBacklog \in Nat

VARIABLES
    pod,            \* pod[p]: [status, use, label, starts], at the API server
    nodeLabels,     \* deschedule labels of the node, at the API server
    notify,         \* pod events for which no handler has run yet
    podWorkQueue,
    nodeWorkQueue,  \* node objects, reduced to their deschedule labels
    annotatedPods,
    previousDesched,     \* previousDeschedCards and previousDeschedTiles
    podDeschedStatuses,  \* a name without an entry reads as FALSE
    worker,         \* progress of handleNodeUpdated, which holds the cache's lock
    covered,        \* history: the pods of the last pass, if it was completed
    past,           \* history: what the node's labels asked for so far
    forgotten,      \* history: pods that a restart, or the podAdded item that
                    \* follows it, found with the label
    late,           \* history: pods that started after the last change of the labels
    returned,       \* history: the last change brought back labels of before
    changes, faults

podVars == <<notify, podWorkQueue, annotatedPods>>
excuses == <<late, returned>>
countVars == <<past, forgotten, excuses, changes, faults>>
vars == <<pod, nodeLabels, podVars, nodeWorkQueue, previousDesched, podDeschedStatuses,
          worker, covered, countVars>>

Idle == [pc |-> "idle"]
Names == {NameOf[p] : p \in Pods}

Gone(n) == [status |-> "absent", use |-> {}, label |-> FALSE, starts |-> n]
Running(u, n) == [status |-> "running", use |-> u, label |-> FALSE, starts |-> n]

-----------------------------------------------------------------------------
(* What the deschedule labels of a node ask for. *)

CardLabels(L) == {l \in L : l.tile = NoTile}

\* calculateCardsFromDescheduleLabels
DescheduledCards(L) ==
    {l.card : l \in CardLabels(L)}
        \cup UNION {PciGroup[l.card] : l \in {l \in CardLabels(L) : l.value = "PCI_GROUP"}}

\* calculateTilesFromDescheduleLabels: a list with one entry per label.
DescheduledTiles(L) ==
    [u \in {<<l.card, l.tile>> : l \in L \ CardLabels(L)} |->
        Cardinality({l \in L \ CardLabels(L) : <<l.card, l.tile>> = u})]

Descheduled(L) == [cards |-> DescheduledCards(L), tiles |-> DescheduledTiles(L)]

Units(d) == {<<c>> : c \in d.cards} \cup DOMAIN d.tiles

\* A process in service since the pods of InitUse were bound.
Init ==
    /\ pod = [p \in Pods |-> IF p \in DOMAIN InitUse THEN Running(InitUse[p], 1) ELSE Gone(0)]
    /\ nodeLabels = {}
    /\ notify = <<>> /\ podWorkQueue = <<>> /\ nodeWorkQueue = <<>>
    /\ annotatedPods = DOMAIN InitUse
    /\ previousDesched = None
    /\ podDeschedStatuses = [x \in Names |-> FALSE]
    /\ worker = Idle /\ covered = {}
    /\ past = {Descheduled({})} /\ forgotten = {} /\ late = {} /\ returned = FALSE
    /\ changes = 0 /\ faults = 0

Fault(f) == f \in Faults /\ faults < MaxFaults /\ faults' = faults + 1

-----------------------------------------------------------------------------
(* The API server, the kubelet and the bind handler (external). *)

RoomForEvents == Len(notify) + Len(podWorkQueue) < MaxBacklog

Send(kind, p) == notify' = Append(notify, [kind |-> kind, pod |-> p])

\* bindNode charges a pod and binds it, the kubelet runs it.
StartPod(p, u) ==
    /\ "start" \in Faults /\ RoomForEvents
    /\ pod[p].status = "absent" /\ pod[p].starts < MaxStarts
    /\ pod' = [pod EXCEPT ![p] = Running(u, @.starts + 1)]
    /\ annotatedPods' = annotatedPods \cup {p}
    /\ Send("update", p)
    /\ late' = late \cup {p}
    /\ UNCHANGED <<nodeLabels, podWorkQueue, nodeWorkQueue, previousDesched,
                   podDeschedStatuses, worker, covered, past, forgotten, returned, changes, faults>>

\* A pod gets a deletion timestamp and keeps the phase Running.
DeletePod(p) ==
    /\ RoomForEvents
    /\ pod[p].status = "running"
    /\ pod' = [pod EXCEPT ![p].status = "deleting"]
    /\ Send("completed", p)
    /\ UNCHANGED <<nodeLabels, podWorkQueue, annotatedPods, nodeWorkQueue, previousDesched,
                   podDeschedStatuses, worker, covered, countVars>>

RemovePod(p) ==
    /\ RoomForEvents
    /\ pod[p].status = "deleting"
    /\ pod' = [pod EXCEPT ![p] = Gone(@.starts)]
    /\ Send("delete", p)
    /\ covered' = covered \ {p} /\ forgotten' = forgotten \ {p} /\ late' = late \ {p}
    /\ UNCHANGED <<nodeLabels, podWorkQueue, annotatedPods, nodeWorkQueue, previousDesched,
                   podDeschedStatuses, worker, past, returned, changes, faults>>

LabelNode(L) ==
    /\ changes < MaxChanges /\ changes' = changes + 1
    /\ L # nodeLabels
    /\ Descheduled(L) \notin past \/ "return" \in Faults
    /\ nodeLabels' = L /\ past' = past \cup {Descheduled(L)}
    /\ late' = {} /\ returned' = (Descheduled(L) \in past)
    /\ nodeWorkQueue' = Append(nodeWorkQueue, [action |-> "nodeUpdated", labels |-> L])
    /\ UNCHANGED <<pod, podVars, previousDesched, podDeschedStatuses, worker, covered,
                   forgotten, faults>>

\* The kubelet reports the node's status from time to time.
ReportNode ==
    /\ nodeWorkQueue = <<>>
    /\ nodeWorkQueue' = <<[action |-> "nodeUpdated", labels |-> nodeLabels]>>
    /\ UNCHANGED <<pod, nodeLabels, podVars, previousDesched, podDeschedStatuses, worker,
                   covered, countVars>>

\* The node object is deleted and the kubelet registers the node again.
ReRegisterNode ==
    /\ changes < MaxChanges /\ changes' = changes + 1
    /\ nodeLabels' = {} /\ past' = {Descheduled({})}
    /\ late' = {} /\ returned' = FALSE
    /\ nodeWorkQueue' = nodeWorkQueue \o <<[action |-> "nodeDeleted", labels |-> nodeLabels],
                                           [action |-> "nodeAdded", labels |-> {}]>>
    /\ UNCHANGED <<pod, podVars, previousDesched, podDeschedStatuses, worker, covered,
                   forgotten, faults>>

-----------------------------------------------------------------------------
(* Pod events. *)

ItemOf(e) ==
    [action |-> CASE e.kind = "add"       -> "podAdded"
                  [] e.kind = "update"    -> "podUpdated"
                  [] e.kind = "completed" -> "podCompleted"
                  [] e.kind = "delete"    -> "podDeleted",
     pod |-> e.pod]

\* A deletion is queued for an annotated pod only.
HandlePodEvent ==
    /\ notify # <<>>
    /\ notify' = Tail(notify)
    /\ podWorkQueue' =
          IF Head(notify).kind = "delete" /\ Head(notify).pod \notin annotatedPods
          THEN podWorkQueue ELSE Append(podWorkQueue, ItemOf(Head(notify)))
    /\ UNCHANGED <<pod, nodeLabels, annotatedPods, nodeWorkQueue, previousDesched,
                   podDeschedStatuses, worker, covered, countVars>>

\* handlePod, reduced to the pods that are annotated and to podDeschedStatuses.
\* A podDeleted item has no annotation: for a pod of one container the adjustment
\* passes and removes its key, for any other it fails and the pod stays annotated.
PodWork ==
    /\ worker = Idle /\ podWorkQueue # <<>>
    /\ podWorkQueue' = Tail(podWorkQueue)
    /\ LET item == Head(podWorkQueue)
       IN /\ annotatedPods' \in CASE item.action = "podCompleted" -> {annotatedPods \ {item.pod}}
                                  [] item.action = "podDeleted"   ->
                                        {annotatedPods, annotatedPods \ {item.pod}}
                                  [] OTHER -> {annotatedPods \cup {item.pod}}
          /\ podDeschedStatuses' = IF item.action = "podUpdated" THEN podDeschedStatuses
                                   ELSE [podDeschedStatuses EXCEPT ![NameOf[item.pod]] = FALSE]
          /\ forgotten' = IF item.action = "podAdded" /\ pod[item.pod].label
                          THEN forgotten \cup {item.pod} ELSE forgotten
    /\ UNCHANGED <<pod, nodeLabels, notify, nodeWorkQueue, previousDesched, worker, covered,
                   past, excuses, changes, faults>>

-----------------------------------------------------------------------------
(* handleNode. *)

StartPass(d) ==
    IF d = previousDesched THEN UNCHANGED worker
    ELSE worker' = [pc |-> "list", desched |-> d]

TakeNode ==
    /\ worker = Idle /\ nodeWorkQueue # <<>>
    /\ nodeWorkQueue' = Tail(nodeWorkQueue)
    /\ IF Head(nodeWorkQueue).action = "nodeDeleted"
       THEN previousDesched' = None /\ UNCHANGED worker
       ELSE StartPass(Descheduled(Head(nodeWorkQueue).labels)) /\ UNCHANGED previousDesched
    /\ UNCHANGED <<pod, nodeLabels, podVars, podDeschedStatuses, covered, countVars>>

\* Pods of phase Running, with what their annotations say now.
ListPods ==
    /\ worker.pc = "list"
    /\ LET running == {p \in Pods : pod[p].status \in {"running", "deleting"}}
       IN worker' = [pc |-> "patch", desched |-> worker.desched, listed |-> running,
                     todo |-> running,
                     need |-> {p \in running : pod[p].use \cap Units(worker.desched) # {}}]
    /\ UNCHANGED <<pod, nodeLabels, podVars, nodeWorkQueue, previousDesched,
                   podDeschedStatuses, covered, countVars>>

ListFails ==
    /\ worker.pc = "list" /\ Fault("apiError")
    /\ worker' = Idle
    /\ UNCHANGED <<pod, nodeLabels, podVars, nodeWorkQueue, previousDesched,
                   podDeschedStatuses, covered, past, forgotten, excuses, changes>>

Todo == IF worker.pc = "patch" THEN worker.todo ELSE {}
Need(p) == p \in worker.need
Patches(p) == Need(p) # podDeschedStatuses[NameOf[p]]

SkipPod(p) ==
    /\ p \in Todo /\ ~Patches(p)
    /\ worker' = [worker EXCEPT !.todo = @ \ {p}]
    /\ UNCHANGED <<pod, nodeLabels, podVars, nodeWorkQueue, previousDesched,
                   podDeschedStatuses, covered, countVars>>

\* handlePodDescheduleLabeling: a pod that is gone is not patched, nor is a label
\* removed that is not there.
PatchApplies(p) == pod[p].status # "absent" /\ (Need(p) \/ pod[p].label)

\* Mutant: the pod is patched, but the need is not remembered when it ends.
RemembersAddsOnly(p) ==
    /\ p \in Todo /\ Patches(p) /\ PatchApplies(p)
    /\ pod' = [pod EXCEPT ![p].label = Need(p)]
    /\ podDeschedStatuses' = [podDeschedStatuses EXCEPT ![NameOf[p]] = @ \/ Need(p)]
    /\ worker' = [worker EXCEPT !.todo = @ \ {p}]
    /\ forgotten' = forgotten \ {p}
    /\ UNCHANGED <<nodeLabels, podVars, nodeWorkQueue, previousDesched, covered, past,
                   excuses, changes, faults>>

PatchPod(p) ==
    /\ p \in Todo /\ Patches(p) /\ PatchApplies(p)
    /\ pod' = [pod EXCEPT ![p].label = Need(p)]
    /\ podDeschedStatuses' = [podDeschedStatuses EXCEPT ![NameOf[p]] = Need(p)]
    /\ worker' = [worker EXCEPT !.todo = @ \ {p}]
    /\ forgotten' = forgotten \ {p}
    /\ UNCHANGED <<nodeLabels, podVars, nodeWorkQueue, previousDesched, covered, past,
                   excuses, changes, faults>>

\* Mutant: a failed pass counts as done.
PassDone ==
    /\ worker' = Idle /\ covered' = worker.listed
    /\ previousDesched' = worker.desched

\* The first error ends the pass.
PassFails ==
    /\ worker' = Idle /\ covered' = {}
    /\ UNCHANGED previousDesched

PatchRefused(p) ==
    /\ p \in Todo /\ Patches(p) /\ ~PatchApplies(p)
    /\ PassFails
    /\ UNCHANGED <<pod, nodeLabels, podVars, nodeWorkQueue, podDeschedStatuses, countVars>>

PatchFails(p) ==
    /\ p \in Todo /\ Patches(p) /\ Fault("apiError")
    /\ PassFails
    /\ UNCHANGED <<pod, nodeLabels, podVars, nodeWorkQueue, podDeschedStatuses, past,
                   forgotten, excuses, changes>>

FinishPass ==
    /\ worker.pc = "patch" /\ worker.todo = {}
    /\ worker' = Idle /\ previousDesched' = worker.desched /\ covered' = worker.listed
    /\ UNCHANGED <<pod, nodeLabels, podVars, nodeWorkQueue, podDeschedStatuses, countVars>>

-----------------------------------------------------------------------------
\* The informer lists all objects again, the pods in any order; pods without the
\* annotation are not queued.
Restart ==
    /\ Fault("restart")
    /\ \E order \in SetToSeqs({p \in Pods : pod[p].status # "absent"}) :
          notify' = [i \in DOMAIN order |-> [kind |-> "add", pod |-> order[i]]]
    /\ podWorkQueue' = <<>> /\ annotatedPods' = {}
    /\ nodeWorkQueue' = <<[action |-> "nodeAdded", labels |-> nodeLabels]>>
    /\ previousDesched' = None
    /\ podDeschedStatuses' = [x \in Names |-> FALSE]
    /\ worker' = Idle /\ covered' = {}
    /\ forgotten' = {p \in Pods : pod[p].label}
    /\ late' = {} /\ returned' = FALSE
    /\ UNCHANGED <<pod, nodeLabels, past, changes>>

-----------------------------------------------------------------------------
NodeWork ==
    \/ TakeNode \/ ListPods \/ ListFails \/ FinishPass
    \/ \E p \in Pods : SkipPod(p) \/ PatchPod(p) \/ PatchRefused(p) \/ PatchFails(p)

Next ==
    \/ \E p \in Pods : (\E u \in UseSets : StartPod(p, u)) \/ DeletePod(p) \/ RemovePod(p)
    \/ (\E L \in LabelSets : LabelNode(L)) \/ ReportNode \/ ReRegisterNode
    \/ HandlePodEvent \/ PodWork \/ NodeWork \/ Restart

Spec == Init /\ [][Next]_vars

\* The workers run, and the kubelet keeps reporting the status of the node.
FairSpec ==
    /\ Spec
    /\ WF_vars(HandlePodEvent) /\ SF_vars(PodWork)
    /\ WF_vars(NodeWork) /\ WF_vars(ReportNode)

-----------------------------------------------------------------------------
(* Properties *)

\* "change pod's descheduling label based on the need (if it doesn't exist vs. if
\* it does)": what the worker remembers of a running pod is what the pod carries,
\* so that the worker neither leaves a label behind nor fails to remove one.  The
\* exception are labels that were set before the last restart, or before the
\* podAdded item that follows it (node_resource_cache.go:1102).
StatusTruthful ==
    \A p \in Pods : pod[p].status = "running" =>
        IF podDeschedStatuses[NameOf[p]] THEN pod[p].label
                                         ELSE pod[p].label => p \in forgotten

\* A pass that was completed has labelled every pod it listed that uses a
\* descheduled card or tile, whatever restarts and failed passes came before, and
\* the label stays while no other pass is made.
PassComplete ==
    worker = Idle /\ previousDesched # None =>
        \A p \in covered :
            /\ pod[p].status = "running"
            /\ pod[p].use \cap Units(previousDesched) # {}
            => pod[p].label

Labelled(p) ==
    IF pod[p].use \cap Units(Descheduled(nodeLabels)) # {}
    THEN pod[p].label ELSE pod[p].label => p \in forgotten

\* "The node label gas-deschedule-pods-GPUNAME will result in GAS labeling the
\* Pods which use the named GPU": in the end the pods that carry the label are
\* those that use what the node's labels name, in spite of failed passes and
\* restarts.  The exceptions are labels of before a restart, pods that started
\* after the last change of the node's labels (node_resource_cache.go:1007), and
\* labels that returned to an earlier value (node_resource_cache.go:1035).
LabelsFollow ==
    <>[](returned \/ \A p \in Pods \ late : pod[p].status = "running" => Labelled(p))
=============================================================================
