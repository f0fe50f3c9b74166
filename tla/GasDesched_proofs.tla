-------------------------- MODULE GasDesched_proofs --------------------------
(***************************************************************************)
(* Theorems about GasDesched, for every set of pods, cards and labels,     *)
(* every combination of faults and every bound but one: OneLife.           *)
(***************************************************************************)
EXTENDS GasDesched, DataFacts

\* podDeschedStatuses has the names of pods without their namespaces, and an entry
\* outlives its pod until the podCompleted item is handled.  Of pods that share an
\* entry it can be true of one only, so the theorems are about clusters in which
\* no name is used twice.
OneLife ==
    /\ MaxStarts <= 1
    /\ \A p, q \in Pods : NameOf[p] = NameOf[q] => p = q

-----------------------------------------------------------------------------
(* The inductive invariant. *)

Uses == {{}} \cup UseSets \cup {InitUse[p] : p \in DOMAIN InitUse}
Object == [status : {"absent", "running", "deleting"}, use : Uses, label : BOOLEAN, starts : Nat]
Events == [kind : {"add", "update", "completed", "delete"}, pod : Pods]
Items == [action : {"podAdded", "podUpdated", "podCompleted", "podDeleted"}, pod : Pods]

WorkerShape ==
    \/ worker = Idle
    \/ worker.pc = "list" /\ DOMAIN worker = {"pc", "desched"}
    \/ /\ worker.pc = "patch" /\ DOMAIN worker = {"pc", "desched", "listed", "todo", "need"}
       /\ worker.listed \subseteq Pods /\ worker.todo \subseteq worker.listed

Shapes ==
    /\ pod \in [Pods -> Object]
    /\ notify \in Seq(Events) /\ podWorkQueue \in Seq(Items)
    /\ podDeschedStatuses \in [Names -> BOOLEAN]
    /\ WorkerShape

\* Of a pod that did not start yet nothing is remembered.
NotStarted ==
    \A p \in Pods : pod[p].starts = 0 =>
        /\ pod[p].status = "absent"
        /\ ~podDeschedStatuses[NameOf[p]]
        /\ p \notin covered
        /\ worker.pc = "patch" => p \notin worker.listed

\* Events that end a pod are about pods that do not run.
Ended(p) == pod[p].status # "running" /\ pod[p].starts # 0
EndsOnly ==
    /\ \A e \in Range(notify) : e.kind \in {"completed", "delete"} => Ended(e.pod)
    /\ \A i \in Range(podWorkQueue) : i.action \in {"podCompleted", "podDeleted"} => Ended(i.pod)

NeedsLabel(p, d) == pod[p].use \cap Units(d) # {}

\* A pass knows what the pods it listed need, and has given it to those it has
\* done with.
PassUnderWay ==
    worker.pc = "patch" =>
        \A p \in worker.listed : pod[p].status = "running" =>
            /\ Need(p) <=> NeedsLabel(p, worker.desched)
            /\ p \notin worker.todo /\ Need(p) => pod[p].label

\* The last pass that was completed, until the next one patches pods.
LastPass ==
    worker.pc # "patch" /\ previousDesched # None =>
        \A p \in covered :
            pod[p].status = "running" /\ NeedsLabel(p, previousDesched) => pod[p].label

IInv ==
    Shapes /\ NotStarted /\ EndsOnly /\ StatusTruthful /\ PassUnderWay /\ LastPass

\* A process in service, with pods that run and no deschedule label, satisfies it.
LEMMA InitIInv == Init => IInv
<1> SUFFICES ASSUME Init PROVE IInv
  OBVIOUS
<1>1. \A p \in Pods : /\ pod[p] \in Object /\ pod[p].starts = 0 => pod[p].status = "absent"
                      /\ ~pod[p].label
  BY GasDeschedAssumption DEF Init, Gone, Running, Object, Uses
<1>2. pod \in [Pods -> Object]
  <2>1. \A p \in Pods :
           (IF p \in DOMAIN InitUse THEN Running(InitUse[p], 1) ELSE Gone(0)) \in Object
    BY DEF Running, Gone, Object, Uses
  <2> QED BY <2>1 DEF Init
<1>3. notify \in Seq(Events) /\ podWorkQueue \in Seq(Items) /\ Range(notify) = {}
          /\ Range(podWorkQueue) = {}
  BY NoEntries DEF Init
<1>4. podDeschedStatuses \in [Names -> BOOLEAN] /\ \A p \in Pods : ~podDeschedStatuses[NameOf[p]]
  BY DEF Init, Names
<1>5. worker = Idle /\ worker.pc = "idle" /\ covered = {} /\ previousDesched = None
  BY DEF Init, Idle
<1> QED BY <1>1, <1>2, <1>3, <1>4, <1>5
        DEF IInv, Shapes, WorkerShape, NotStarted, EndsOnly, StatusTruthful, PassUnderWay, LastPass

\* A pod starts, or is ended or removed, and its event is sent: a pod that runs is
\* new to everyone, and only such a pod is not ended.
LEMMA PodMoves ==
    ASSUME OneLife, IInv, NEW p \in Pods, NEW x \in Object, NEW kind,
           [kind |-> kind, pod |-> p] \in Events,
           pod' = [pod EXCEPT ![p] = x], Send(kind, p),
           UNCHANGED <<podWorkQueue, previousDesched, podDeschedStatuses, worker>>,
           covered' \subseteq covered, \A q \in Pods : q # p /\ q \in forgotten => q \in forgotten',
           x.starts # 0,
           x.status = "running" => pod[p].starts = 0 /\ ~x.label /\ kind = "update"
    PROVE  IInv'
<1>1. pod' \in [Pods -> Object] /\ pod'[p] = x /\ \A q \in Pods : q # p => pod'[q] = pod[q]
  BY DEF IInv, Shapes
<1>2. notify' \in Seq(Events) /\ Range(notify') = Range(notify) \cup {[kind |-> kind, pod |-> p]}
  BY QueuedLast DEF IInv, Shapes, Send
<1>3. Shapes'
  BY <1>1, <1>2 DEF IInv, Shapes, WorkerShape
<1>4. NotStarted'
  BY <1>1 DEF IInv, NotStarted
<1>5. EndsOnly'
  <2>1. ASSUME NEW q \in Pods, Ended(q), q # p \/ x.status # "running" PROVE Ended(q)'
    BY <1>1, <2>1 DEF Ended
  <2>2. ASSUME NEW q \in Pods, Ended(q) PROVE Ended(q)'
    BY <2>1, <2>2 DEF Ended
  <2>3. Range(notify) \subseteq Events /\ Range(podWorkQueue) \subseteq Items
    BY EntriesTyped DEF IInv, Shapes
  <2>4. /\ \A e \in Range(notify) : e.pod \in Pods
        /\ \A i \in Range(podWorkQueue) : i.pod \in Pods
    BY <2>3 DEF Events, Items
  <2>5. kind \in {"completed", "delete"} => Ended(p)'
    BY <1>1 DEF Ended
  <2> QED BY <1>2, <2>2, <2>4, <2>5 DEF IInv, EndsOnly
<1>6. StatusTruthful'
  BY <1>1 DEF IInv, StatusTruthful, NotStarted
<1>7. PassUnderWay'
  BY <1>1 DEF IInv, PassUnderWay, NotStarted, Need, NeedsLabel, Units, Shapes, WorkerShape, Idle
<1>8. LastPass'
  BY <1>1 DEF IInv, LastPass, NotStarted, NeedsLabel, Units
<1> QED BY <1>3, <1>4, <1>5, <1>6, <1>7, <1>8 DEF IInv

\* Every step of the API server, of the handlers, of both workers and of a restart
\* keeps the invariant.
LEMMA StepIInv == ASSUME OneLife PROVE IInv /\ [Next]_vars => IInv'
<1> SUFFICES ASSUME IInv, [Next]_vars PROVE IInv'
  OBVIOUS
<1>0. pod \in [Pods -> Object]
  BY DEF IInv, Shapes
<1>1. ASSUME NEW p \in Pods, NEW u \in UseSets, StartPod(p, u) PROVE IInv'
  <2>0. \A n, m \in Nat : n < m /\ m <= 1 => n = 0
    OBVIOUS
  <2>a. pod[p].starts \in Nat
    BY <1>0 DEF Object
  <2>b. pod[p].starts < MaxStarts
    BY <1>1 DEF StartPod
  <2>1. pod[p].starts = 0
    BY <2>0, <2>a, <2>b, GasDeschedAssumption DEF OneLife
  <2>2. Running(u, pod[p].starts + 1) \in Object
    BY <2>1 DEF Running, Object, Uses
  <2>3. Running(u, pod[p].starts + 1).starts # 0 /\ ~Running(u, pod[p].starts + 1).label
    BY <2>1 DEF Running
  <2>4. [kind |-> "update", pod |-> p] \in Events
    BY DEF Events
  <2> QED BY <1>1, <2>1, <2>2, <2>3, <2>4, PodMoves DEF StartPod
<1>2. ASSUME NEW p \in Pods, DeletePod(p) PROVE IInv'
  <2>1. pod' = [pod EXCEPT ![p] = [pod[p] EXCEPT !.status = "deleting"]]
    BY <1>2 DEF DeletePod
  <2>2. /\ [pod[p] EXCEPT !.status = "deleting"] \in Object
        /\ [pod[p] EXCEPT !.status = "deleting"].status = "deleting"
        /\ [pod[p] EXCEPT !.status = "deleting"].starts = pod[p].starts
    BY <1>0 DEF Object
  <2>3. pod[p].starts # 0
    BY <1>2 DEF DeletePod, IInv, NotStarted
  <2> QED BY <1>2, <2>1, <2>2, <2>3, PodMoves DEF DeletePod, Events, countVars
<1>3. ASSUME NEW p \in Pods, RemovePod(p) PROVE IInv'
  <2>1. Gone(pod[p].starts) \in Object
    BY <1>0 DEF Gone, Object, Uses
  <2>2. pod[p].starts # 0
    BY <1>3 DEF RemovePod, IInv, NotStarted
  <2> QED BY <1>3, <2>1, <2>2, PodMoves DEF RemovePod, Gone, Events
<1> USE DEF IInv, Shapes, WorkerShape, NotStarted, EndsOnly, Ended, StatusTruthful, PassUnderWay,
            LastPass, NeedsLabel, Need
<1> USE DEF Object, Idle, Names, OneLife, podVars, countVars, excuses
<1>4. ASSUME NEW L \in LabelSets, LabelNode(L) PROVE IInv'
  BY <1>4 DEF LabelNode
<1>5. CASE ReportNode
  BY <1>5 DEF ReportNode
<1>6. CASE ReRegisterNode
  BY <1>6 DEF ReRegisterNode
<1>7. CASE HandlePodEvent
  <2> DEFINE e == Head(notify)
  <2>1. e \in Events /\ e \in Range(notify) /\ notify' \in Seq(Events)
            /\ Range(notify') \subseteq Range(notify)
    BY <1>7, TakenFirst DEF HandlePodEvent
  <2>2. ItemOf(e) \in Items /\ ItemOf(e).pod = e.pod
        /\ (ItemOf(e).action \in {"podCompleted", "podDeleted"} =>
             e.kind \in {"completed", "delete"})
    BY <2>1 DEF ItemOf, Events, Items
  <2>3. podWorkQueue' = podWorkQueue \/ podWorkQueue' = Append(podWorkQueue, ItemOf(e))
    BY <1>7 DEF HandlePodEvent
  <2>4. podWorkQueue' \in Seq(Items)
            /\ Range(podWorkQueue') \subseteq Range(podWorkQueue) \cup {ItemOf(e)}
    <3> HIDE DEF e
    <3>1. podWorkQueue \in Seq(Items)
      OBVIOUS
    <3>2. CASE podWorkQueue' = podWorkQueue
      BY <3>1, <3>2
    <3>3. CASE podWorkQueue' = Append(podWorkQueue, ItemOf(e))
      BY <2>2, <3>1, <3>3, QueuedLast
    <3> QED BY <2>3, <3>2, <3>3
  <2>5. UNCHANGED <<pod, previousDesched, podDeschedStatuses, worker, covered, forgotten>>
    BY <1>7 DEF HandlePodEvent
  <2> HIDE DEF e
  <2> USE <2>1, <2>2, <2>4, <2>5
  <2>6. (Shapes /\ NotStarted)'
    OBVIOUS
  <2>7. EndsOnly'
    OBVIOUS
  <2>8. (StatusTruthful /\ PassUnderWay /\ LastPass)'
    OBVIOUS
  <2> QED BY <2>6, <2>7, <2>8
<1>8. CASE PodWork
  <2> DEFINE i == Head(podWorkQueue)
  <2>1. i \in Items /\ i \in Range(podWorkQueue) /\ podWorkQueue' \in Seq(Items)
        /\ Range(podWorkQueue') \subseteq Range(podWorkQueue)
    BY <1>8, TakenFirst DEF PodWork
  <2>2. podDeschedStatuses' = IF i.action = "podUpdated" THEN podDeschedStatuses
                              ELSE [podDeschedStatuses EXCEPT ![NameOf[i.pod]] = FALSE]
    BY <1>8 DEF PodWork
  <2>3. forgotten' = IF i.action = "podAdded" /\ pod[i.pod].label
                     THEN forgotten \cup {i.pod} ELSE forgotten
    BY <1>8 DEF PodWork
  <2>4. UNCHANGED <<pod, notify, previousDesched, worker, covered>> /\ worker = Idle
    BY <1>8 DEF PodWork
  <2>5. i.pod \in Pods /\ i.action \in {"podAdded", "podUpdated", "podCompleted", "podDeleted"}
    BY <2>1 DEF Items
  <2> HIDE DEF i
  <2> USE <2>1, <2>2, <2>3, <2>4, <2>5
  <2>6. (Shapes /\ NotStarted)'
    OBVIOUS
  <2>7. EndsOnly'
    OBVIOUS
  <2>8. StatusTruthful'
    OBVIOUS
  <2>9. (PassUnderWay /\ LastPass)'
    OBVIOUS
  <2> QED BY <2>6, <2>7, <2>8, <2>9
<1>9. CASE TakeNode
  BY <1>9 DEF TakeNode, StartPass
<1>10. CASE ListPods
  BY <1>10 DEF ListPods
<1>11. CASE ListFails
  BY <1>11 DEF ListFails, Fault
<1>12. CASE FinishPass
  BY <1>12 DEF FinishPass
<1>13. ASSUME NEW p \in Pods, SkipPod(p) PROVE IInv'
  BY <1>13 DEF SkipPod, Todo, Patches
<1>14. ASSUME NEW p \in Pods, PatchPod(p) PROVE IInv'
  <2> HIDE DEF Object, NotStarted, EndsOnly, StatusTruthful, PassUnderWay, LastPass, Need
  <2>1. worker.pc = "patch" /\ p \in worker.todo /\ pod[p].status # "absent" /\ Need(p) \in BOOLEAN
    BY <1>14 DEF PatchPod, Todo, PatchApplies, Need
  <2> DEFINE x == [pod[p] EXCEPT !.label = Need(p)]
  <2>2. /\ x \in Object /\ (x.label <=> Need(p))
        /\ x.status = pod[p].status /\ x.starts = pod[p].starts /\ x.use = pod[p].use
    BY <2>1, <1>0 DEF Object, Need
  <2>3. pod' = [pod EXCEPT ![p] = x]
    BY <1>14 DEF PatchPod
  <2> HIDE DEF x
  <2>4. pod' \in [Pods -> Object] /\ pod'[p] = x /\ \A q \in Pods : q # p => pod'[q] = pod[q]
    BY <1>0, <2>2, <2>3
  <2>5. /\ podDeschedStatuses' \in [Names -> BOOLEAN] /\ podDeschedStatuses'[NameOf[p]] = Need(p)
        /\ \A q \in Pods : q # p => podDeschedStatuses'[NameOf[q]] = podDeschedStatuses[NameOf[q]]
    BY <1>14, <2>1 DEF PatchPod
  <2>6. worker' = [worker EXCEPT !.todo = @ \ {p}] /\ forgotten' = forgotten \ {p}
    BY <1>14 DEF PatchPod
  <2>7. /\ worker'.pc = "patch" /\ worker'.listed = worker.listed /\ worker'.need = worker.need
        /\ worker'.todo = worker.todo \ {p} /\ worker'.desched = worker.desched
        /\ DOMAIN worker' = DOMAIN worker
    BY <2>1, <2>6
  <2>8. UNCHANGED <<podVars, previousDesched, covered>>
    BY <1>14 DEF PatchPod
  <2>9. Shapes'
    BY <2>1, <2>4, <2>5, <2>7, <2>8
  <2>10. NotStarted'
    BY <2>1, <2>2, <2>4, <2>5, <2>7, <2>8 DEF NotStarted
  <2>11. EndsOnly'
    <3>1. \A q \in Pods : Ended(q) => Ended(q)'
      BY <2>2, <2>4
    <3>2. Range(notify) \subseteq Events /\ Range(podWorkQueue) \subseteq Items
      BY EntriesTyped
    <3>3. /\ \A e \in Range(notify) : e.pod \in Pods
          /\ \A i \in Range(podWorkQueue) : i.pod \in Pods
      BY <3>2 DEF Events, Items
    <3> HIDE DEF Ended
    <3> QED BY <2>8, <3>1, <3>3 DEF EndsOnly
  <2>12. StatusTruthful'
    BY <2>2, <2>4, <2>5, <2>6 DEF StatusTruthful
  <2>13. PassUnderWay'
    <3> SUFFICES ASSUME NEW q \in worker.listed, pod'[q].status = "running"
                 PROVE  /\ q \in worker.need <=> NeedsLabel(q, worker.desched)'
                        /\ q \notin worker.todo \ {p} /\ q \in worker.need => pod'[q].label
      BY <2>7 DEF PassUnderWay, Need
    <3>1. q \in Pods
      BY <2>1
    <3>2. CASE q = p
      BY <2>1, <2>2, <2>4, <2>7, <3>1, <3>2 DEF PassUnderWay, Need
    <3>3. CASE q # p
      BY <2>1, <2>4, <2>7, <3>1, <3>3 DEF PassUnderWay, Need
    <3> QED BY <3>2, <3>3
  <2>14. LastPass'
    BY <2>7 DEF LastPass
  <2> QED BY <2>9, <2>10, <2>11, <2>12, <2>13, <2>14
<1>15. ASSUME NEW p \in Pods, PatchRefused(p) \/ PatchFails(p) PROVE IInv'
  BY <1>15 DEF PatchRefused, PatchFails, PassFails, Fault
<1>16. CASE Restart
  <2> DEFINE S == {p \in Pods : pod[p].status # "absent"}
  <2>1. PICK order \in SetToSeqs(S) : notify' =
                 [i \in DOMAIN order |-> [kind |-> "add", pod |-> order[i]]]
    BY <1>16 DEF Restart
  <2>2. Cardinality(S) \in Nat
    BY FS_Subset, FS_CardinalityType, GasDeschedAssumption
  <2>3. order \in [1..Cardinality(S) -> S]
    BY DEF SetToSeqs
  <2>4. notify' \in Seq(Events) /\ \A e \in Range(notify') : e.kind = "add"
    <3>1. DOMAIN notify' = 1..Cardinality(S)
      BY <2>1, <2>3
    <3>2. \A i \in 1..Cardinality(S) : notify'[i] \in Events /\ notify'[i].kind = "add"
      BY <2>1, <2>3 DEF Events
    <3>3. notify' = [i \in 1..Cardinality(S) |-> notify'[i]]
      BY <2>1, <2>3
    <3>4. notify' \in [1..Cardinality(S) -> Events]
      BY <3>2, <3>3
    <3>5. notify' \in Seq(Events)
      BY <2>2, <3>4, ListIsQueue
    <3>6. \A e \in Range(notify') : e.kind = "add"
      BY <3>1, <3>2 DEF Range
    <3> QED BY <3>5, <3>6
  <2>5. /\ podWorkQueue' = <<>> /\ previousDesched' = None /\ worker' = Idle /\ covered' = {}
        /\ podDeschedStatuses' = [x \in Names |-> FALSE]
        /\ forgotten' = {p \in Pods : pod[p].label}
        /\ UNCHANGED pod
    BY <1>16 DEF Restart
  <2> QED BY <2>4, <2>5, NoEntries
<1>17. CASE UNCHANGED vars
  BY <1>17 DEF vars
<1> QED BY <1>1, <1>2, <1>3, <1>4, <1>5, <1>6, <1>7, <1>8, <1>9, <1>10, <1>11, <1>12, <1>13, <1>14,
           <1>15, <1>16, <1>17 DEF Next, NodeWork

-----------------------------------------------------------------------------
(* What is proved. *)

\* podDeschedStatuses says of every running pod what it carries, but for labels of
\* before a restart: handlePodDescheduleLabeling changes both, and what forgets the
\* status of a pod comes when the pod has ended.
THEOREM StatusesTruthful == ASSUME OneLife PROVE Spec => []StatusTruthful
<1>1. IInv => StatusTruthful
  BY DEF IInv
<1> QED BY InitIInv, StepIInv, <1>1, PTL DEF Spec

\* A pass of handleNodeUpdated that was completed leaves the label on every pod it
\* listed that uses a descheduled card or tile: a pod is skipped only when the
\* remembered status, which is true of it, says that it has the label.
THEOREM PassesComplete == ASSUME OneLife PROVE Spec => []PassComplete
<1>1. IInv => PassComplete
  BY DEF IInv, LastPass, NeedsLabel, PassComplete, Idle
<1> QED BY InitIInv, StepIInv, <1>1, PTL DEF Spec
=============================================================================
