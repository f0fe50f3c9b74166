-------------------------- MODULE TasEnforcer_proofs --------------------------
(***************************************************************************)
(* Theorems about TasEnforcer, for every set of nodes, metrics and         *)
(* strategies, and every number of changes.                                *)
(***************************************************************************)
EXTENDS TasEnforcer, TLAPS

\* Lists and patches do not fail: an error of Cleanup is logged and nobody tries
\* again, which leaves orphans.
ApiAnswers == "apiError" \notin Faults

-----------------------------------------------------------------------------
(* The inductive invariant. *)

\* Who holds the lock is at work, and nobody else is.
LockHeld ==
    /\ enf # Idle => lock = "enforcer"
    /\ lock = "controller" <=> removing # None
    /\ cleanup # None => removing # None
    /\ removing # None => removing \in Strategies

\* A policy has one strategy of a type, and a pass evaluates those registered.
Registry ==
    /\ registered \subseteq Strategies /\ DOMAIN labels = Nodes
    /\ \A r, s \in registered : r.type = s.type /\ r.policy = s.policy => r = s
    /\ enf.todo # {} => enf.active = OfType(enf.type)
    /\ \/ enf = Idle
       \/ DOMAIN enf = {"type", "rounds", "todo"} /\ enf.todo = {}
       \/ DOMAIN enf = {"type", "rounds", "todo", "snap", "seen", "active"}

\* The deschedule strategy sets one value only.
NameForm(n, x) ==
    \/ x = <<x[1]>> /\ labels[n][x] = "violating"
    \/ x = <<x[1], x[2]>>
LabelForm == \A n \in Nodes : \A x \in DOMAIN labels[n] : NameForm(n, x)

Owns(s, x) == s.policy = x[1] /\ (s.type = "deschedule") = (Len(x) = 1)

\* A label without a strategy is one of the strategy that is being removed, and its
\* Cleanup has yet to remove it.
OrphansCleaned ==
    \A n \in Nodes : \A x \in Orphans(n) :
        /\ removing # None /\ Owns(removing, x)
        /\ cleanup # None => <<n, x>> \in cleanup

\* LockInv is inductive by itself and holds whatever fails.
LockInv == LockHeld /\ Registry
IInv == LockInv /\ LabelForm /\ OrphansCleaned
-----------------------------------------------------------------------------
\* A label that is there after a patch was there before, or was set; one that was
\* there and was not dropped stays.
LEMMA PatchEffect ==
    ASSUME DOMAIN labels = Nodes, NEW n, NEW set, NEW drop, NEW expect, Patch(n, set, drop, expect)
    PROVE  /\ DOMAIN labels' = Nodes
           /\ \A m \in Nodes : m # n => labels'[m] = labels[m]
           /\ n \in Nodes => \A x \in DOMAIN labels'[n] :
                 \/ x \in DOMAIN labels[n] /\ labels'[n][x] = labels[n][x]
                 \/ x \in DOMAIN set /\ labels'[n][x] = set[x]
           /\ n \in Nodes => \A x \in DOMAIN labels[n] : x \notin drop => x \in DOMAIN labels'[n]
<1>1. CASE labels' = labels
  BY <1>1
<1>2. CASE labels' = [labels EXCEPT ![n] = Patched(labels[n], set, drop)]
  <2>1. DOMAIN labels' = Nodes /\ \A m \in Nodes : m # n => labels'[m] = labels[m]
    BY <1>2
  <2>2. n \in Nodes => labels'[n] = Patched(labels[n], set, drop)
    BY <1>2
  <2>3. /\ DOMAIN Patched(labels[n], set, drop) = (DOMAIN labels[n] \cup DOMAIN set) \ drop
        /\ \A x \in DOMAIN Patched(labels[n], set, drop) :
              Patched(labels[n], set, drop)[x] = IF x \in DOMAIN set THEN set[x] ELSE labels[n][x]
    BY DEF Patched
  <2> QED BY <2>1, <2>2, <2>3
<1> QED BY <1>1, <1>2 DEF Patch

\* What only removes labels leaves no new orphan.
LEMMA OnlyRemoves ==
    ASSUME IInv, DOMAIN labels' = Nodes,
           \A n \in Nodes : \A x \in DOMAIN labels'[n] :
              x \in DOMAIN labels[n] /\ labels'[n][x] = labels[n][x],
           UNCHANGED <<registered, removing>>
    PROVE  LabelForm' /\ \A n \in Nodes : Orphans(n)' \subseteq Orphans(n)
<1>1. LabelForm'
  BY DEF IInv, LabelForm, NameForm
<1>2. \A n \in Nodes : Orphans(n)' \subseteq Orphans(n)
  BY DEF Orphans
<1> QED BY <1>1, <1>2

\* A pass sets labels of registered strategies, in the form that Cleanup looks for.
LEMMA PassSets ==
    ASSUME IInv, NEW n \in Nodes, NEW set, NEW drop, NEW expect, Patch(n, set, drop, expect),
           lock = "enforcer", UNCHANGED <<registered, removing, cleanup>>,
           \A x \in DOMAIN set :
              /\ \E s \in registered : Owns(s, x)
              /\ (x = <<x[1]>> /\ set[x] = "violating") \/ x = <<x[1], x[2]>>
    PROVE  (LabelForm /\ OrphansCleaned)'
<1>1. /\ DOMAIN labels' = Nodes
      /\ \A m \in Nodes : m # n => labels'[m] = labels[m]
      /\ \A x \in DOMAIN labels'[n] :
            \/ x \in DOMAIN labels[n] /\ labels'[n][x] = labels[n][x]
            \/ x \in DOMAIN set /\ labels'[n][x] = set[x]
  BY PatchEffect DEF IInv, LockInv, Registry
<1>2. LabelForm'
  BY <1>1 DEF IInv, LabelForm, NameForm
<1>3. \A m \in Nodes : Orphans(m) = {}
  BY TasEnforcerAssumption DEF IInv, LockInv, OrphansCleaned, LockHeld
<1>4. \A m \in Nodes : Orphans(m)' = {}
  <2> SUFFICES ASSUME NEW m \in Nodes, NEW x \in DOMAIN labels'[m]
               PROVE  \E s \in registered : Owns(s, x)
    BY DEF Orphans, Owns
  <2>1. CASE x \in DOMAIN labels[m]
    BY <1>3, <2>1 DEF Orphans, Owns
  <2>2. CASE x \notin DOMAIN labels[m]
    BY <1>1, <2>2
  <2> QED BY <2>1, <2>2
<1> QED BY <1>2, <1>4 DEF OrphansCleaned

\* Nobody holds the lock at first, and there are no labels.
LEMMA InitIInv == Init => IInv
BY TasEnforcerAssumption
   DEF Init, IInv, LockInv, LockHeld, Registry, LabelForm, OrphansCleaned, Orphans, Idle

\* The lock keeps the enforcer and the controller apart.
LEMMA StepLockInv == LockInv /\ [Next]_vars => LockInv'
<1> SUFFICES ASSUME LockInv, [Next]_vars PROVE LockInv'
  OBVIOUS
<1> USE TasEnforcerAssumption DEF LockInv, LockHeld, Registry, OfType, Idle
<1>1. ASSUME NEW t \in Types, StartEnforce(t) PROVE LockInv'
  BY <1>1 DEF StartEnforce
<1>2. CASE ListNodes \/ ListFails
  BY <1>2 DEF ListNodes, ListFails, NextRound
<1>3. ASSUME NEW n \in Nodes,
             PatchDeschedule(n) \/ PatchLabeling(n) \/ LabelingRejected(n) \/ PatchFails(n)
      PROVE  LockInv'
  <2>1. DOMAIN labels' = Nodes
    BY <1>3 DEF PatchDeschedule, DeschedulePatch, PatchLabeling, LabelingPatch, LabelingRejected,
                PatchFails, Patch
  <2>2. enf' = [enf EXCEPT !.todo = enf.todo \ {n}] \/ enf' = [enf EXCEPT !.todo = {}]
    BY <1>3 DEF PatchDeschedule, PatchLabeling, LabelingRejected, PatchFails, NodeDone
  <2>3. UNCHANGED <<registered, lock, cleanup, removing>> /\ enf.todo # {}
    BY <1>3 DEF PatchDeschedule, PatchLabeling, LabelingRejected, PatchFails
  <2> QED BY <2>1, <2>2, <2>3
<1>4. CASE FinishEnforce
  BY <1>4 DEF FinishEnforce
<1>5. ASSUME NEW s \in Strategies, AddStrategy(s) PROVE LockInv'
  BY <1>5 DEF AddStrategy
<1>6. ASSUME NEW s \in Strategies, RemoveStrategy(s) PROVE LockInv'
  BY <1>6 DEF RemoveStrategy
<1>7. CASE StartCleanup \/ CleanupListFails \/ CleanupPatch \/ CleanupPatchFails
  BY <1>7 DEF StartCleanup, CleanupListFails, CleanupPatch, CleanupPatchFails, Cleaning, Patch
<1>8. CASE FinishRemove
  BY <1>8 DEF FinishRemove
<1>9. ASSUME NEW m \in Metrics, NEW n \in Nodes, NEW v \in Values \cup {None}, ChangeMetric(m, n, v)
      PROVE  LockInv'
  BY <1>9 DEF ChangeMetric
<1>10. ASSUME NEW n \in Nodes, EditLabel(n) PROVE LockInv'
  BY <1>10 DEF EditLabel
<1>11. CASE UNCHANGED vars
  BY <1>11 DEF vars
<1> QED BY <1>1, <1>2, <1>3, <1>4, <1>5, <1>6, <1>7, <1>8, <1>9, <1>10, <1>11
        DEF Next, Enforcing, Removing

\* Every step keeps the invariant, if no request fails.
LEMMA StepIInv == ASSUME ApiAnswers PROVE IInv /\ [Next]_vars => IInv'
<1> SUFFICES ASSUME IInv, [Next]_vars PROVE (LabelForm /\ OrphansCleaned)'
  BY StepLockInv DEF IInv
<1> USE DEF IInv, LockInv
<1>1. CASE UNCHANGED <<registered, labels, cleanup, removing>>
  BY <1>1 DEF LabelForm, NameForm, OrphansCleaned, Orphans, Owns
<1>2. ASSUME NEW n \in Nodes, PatchDeschedule(n) PROVE (LabelForm /\ OrphansCleaned)'
  <2>1. lock = "enforcer" /\ enf.active = OfType("deschedule")
    BY <1>2 DEF PatchDeschedule, LockHeld, Registry, Idle
  <2> DEFINE wanted == {<<s.policy>> : s \in {s \in enf.active : Violated(s, n, enf.seen)}}
             new == {x \in wanted : x \notin DOMAIN enf.snap[n] \/ enf.snap[n][x] # "violating"}
             set == [x \in new |-> "violating"]
  <2>2. Patch(n, set, NotViolated(n), {})
    BY <1>2 DEF PatchDeschedule, DeschedulePatch
  <2>3. ASSUME NEW x \in DOMAIN set
        PROVE  (\E s \in registered : Owns(s, x)) /\ x = <<x[1]>> /\ set[x] = "violating"
    BY <2>1 DEF Owns, OfType
  <2> HIDE DEF set
  <2> QED BY <1>2, <2>1, <2>2, <2>3, PassSets DEF PatchDeschedule
<1>3. ASSUME NEW n \in Nodes, PatchLabeling(n) PROVE (LabelForm /\ OrphansCleaned)'
  <2>1. lock = "enforcer" /\ enf.active = OfType("labeling")
    BY <1>3 DEF PatchLabeling, LockHeld, Registry, Idle
  <2>2. PICK visit \in Visits(n) : LabelingPatch(n, visit)
    BY <1>3 DEF PatchLabeling
  <2> DEFINE named == {l.name : l \in ViolatedLabels(n)}
             changed == {x \in named : Sets(n, visit, x) # {}}
             set == [x \in changed |-> ValueSet(n, visit, x)]
  <2>3. Patch(n, set, Cleanups(n), changed \cap DOMAIN enf.snap[n])
    BY <2>2 DEF LabelingPatch
  <2>4. ASSUME NEW x \in DOMAIN set
        PROVE  (\E s \in registered : Owns(s, x)) /\ x = <<x[1], x[2]>>
    <3>1. PICK l \in ViolatedLabels(n) : x = l.name
      OBVIOUS
    <3>2. PICK s \in enf.active : \E k : l.name = <<s.policy, k>>
      BY DEF ViolatedLabels, Label
    <3> QED BY <2>1, <3>1, <3>2 DEF Owns, OfType
  <2> HIDE DEF set
  <2> QED BY <1>3, <2>1, <2>3, <2>4, PassSets DEF PatchLabeling
<1>4. ASSUME NEW s \in Strategies, AddStrategy(s) PROVE (LabelForm /\ OrphansCleaned)'
  BY <1>4 DEF AddStrategy, LabelForm, NameForm, OrphansCleaned, Orphans, Owns
<1>5. ASSUME NEW s \in Strategies, RemoveStrategy(s) PROVE (LabelForm /\ OrphansCleaned)'
  BY <1>5, TasEnforcerAssumption
     DEF RemoveStrategy, LockHeld, LabelForm, NameForm, OrphansCleaned, Orphans, Owns
<1>6. CASE StartCleanup
  BY <1>6, TasEnforcerAssumption
     DEF StartCleanup, CleanupList, Has, Types, LockHeld, LabelForm, NameForm, OrphansCleaned,
         Orphans, Owns
<1>7. CASE CleanupPatch
  <2>1. PICK c \in cleanup : Patch(c[1], << >>, {c[2]}, {}) /\ cleanup' = cleanup \ {c}
    BY <1>7 DEF CleanupPatch
  <2>2. UNCHANGED <<registered, removing>> /\ cleanup # None
    BY <1>7 DEF CleanupPatch, Cleaning
  <2>3. DOMAIN labels' = Nodes /\ \A n \in Nodes : \A x \in DOMAIN labels'[n] :
           x \in DOMAIN labels[n] /\ labels'[n][x] = labels[n][x]
    <3>1. DOMAIN << >> = {}
      OBVIOUS
    <3> QED BY <2>1, <3>1, PatchEffect DEF Registry
  <2>4. \A n \in Nodes : \A x \in DOMAIN labels'[n] : <<n, x>> # c
    <3> SUFFICES ASSUME NEW n \in Nodes, NEW x \in DOMAIN labels'[n], c = <<n, x>> PROVE FALSE
      OBVIOUS
    <3>1. x \in DOMAIN labels[n]
      BY <2>3
    <3>2. labels' = [labels EXCEPT ![n] = Patched(labels[n], << >>, {x})]
      BY <2>1, <3>1 DEF Patch
    <3> QED BY <3>2 DEF Patched, Registry
  <2>5. LabelForm' /\ \A n \in Nodes : Orphans(n)' \subseteq Orphans(n)
    BY <2>2, <2>3, OnlyRemoves
  <2>6. \A n \in Nodes : Orphans(n)' \subseteq DOMAIN labels'[n]
    BY DEF Orphans
  <2> QED BY <2>1, <2>2, <2>4, <2>5, <2>6 DEF OrphansCleaned, Owns
<1>8. CASE FinishRemove
  BY <1>8, TasEnforcerAssumption
     DEF FinishRemove, LabelForm, NameForm, OrphansCleaned, Orphans, Owns
<1>9. ASSUME NEW n \in Nodes, EditLabel(n) PROVE (LabelForm /\ OrphansCleaned)'
  <2>1. PICK y \in DOMAIN labels[n] : labels' = [labels EXCEPT ![n] = Patched(@, << >>, {y})]
    BY <1>9 DEF EditLabel
  <2>2. UNCHANGED <<registered, removing, cleanup>>
    BY <1>9 DEF EditLabel
  <2>3. DOMAIN labels' = Nodes /\ \A m \in Nodes : \A x \in DOMAIN labels'[m] :
           x \in DOMAIN labels[m] /\ labels'[m][x] = labels[m][x]
    BY <2>1 DEF Patched, Registry
  <2>4. LabelForm' /\ \A m \in Nodes : Orphans(m)' \subseteq Orphans(m)
    BY <2>2, <2>3, OnlyRemoves
  <2> QED BY <2>2, <2>4 DEF OrphansCleaned, Owns
<1>10. CASE \/ CleanupListFails \/ CleanupPatchFails \/ ListFails
            \/ \E n \in Nodes : PatchFails(n)
  BY <1>10 DEF ApiAnswers, CleanupListFails, CleanupPatchFails, ListFails, PatchFails, Fault
<1>11. CASE \/ \E t \in Types : StartEnforce(t)
            \/ ListNodes \/ FinishEnforce \/ \E n \in Nodes : LabelingRejected(n)
            \/ \E m \in Metrics, n \in Nodes, v \in Values \cup {None} : ChangeMetric(m, n, v)
            \/ UNCHANGED vars
  BY <1>1, <1>11 DEF StartEnforce, ListNodes, FinishEnforce, LabelingRejected, ChangeMetric, vars
<1> QED BY <1>2, <1>3, <1>4, <1>5, <1>6, <1>7, <1>8, <1>9, <1>10, <1>11
        DEF Next, Enforcing, Removing

-----------------------------------------------------------------------------
(* What is proved. *)

\* No label survives the removal of its strategy: Enforce and RemoveStrategy hold
\* the lock, so no pass sets a label between the removal and the list of Cleanup.
THEOREM OrphansRemoved == ASSUME ApiAnswers PROVE Spec => []NoOrphanLabels
<1>1. IInv => NoOrphanLabels
  BY TasEnforcerAssumption DEF IInv, LockInv, OrphansCleaned, LockHeld, NoOrphanLabels
<1> QED BY InitIInv, StepIInv, <1>1, PTL DEF Spec

\* Whatever fails, a pass of the deschedule strategy never takes a label away from
\* a node that violates, in that very pass, a policy that asks for it: deschedule
\* removes labels of registered policies, of which each has one strategy, and
\* those are the ones that the pass has evaluated.
THEOREM DescheduleKeepsLabels ==
    Spec => [][Patching /\ enf.type = "deschedule" => WantedKept]_vars
<1>1. ASSUME LockInv, [Next]_vars, Patching, enf.type = "deschedule" PROVE WantedKept
  <2>1. PICK n \in Nodes : PatchDeschedule(n)
    BY <1>1 DEF Patching, Next, Enforcing, Removing, vars, StartEnforce, ListNodes, NextRound,
          ListFails, PatchLabeling, LabelingRejected, PatchFails, FinishEnforce, AddStrategy, RemoveStrategy,
          StartCleanup, CleanupListFails, CleanupPatch, CleanupPatchFails, FinishRemove,
          ChangeMetric, EditLabel
  <2>2. PICK set : Patch(n, set, NotViolated(n), {})
    BY <2>1 DEF PatchDeschedule, DeschedulePatch
  <2> SUFFICES ASSUME NEW m \in Nodes, NEW x \in DOMAIN labels[m], Wanted(m, x)
               PROVE  x \in DOMAIN labels'[m]
    BY DEF WantedKept
  <2>3. CASE m # n
    BY <1>1, <2>2, <2>3, PatchEffect DEF LockInv, Registry
  <2>4. CASE m = n
    <3>1. ASSUME x \in NotViolated(n) PROVE FALSE
      <4>1. PICK q \in OfType("deschedule") :
               x = <<q.policy>> /\ (q \notin enf.active \/ ~Violated(q, n, enf.seen))
        BY <3>1 DEF NotViolated
      <4>2. PICK s \in OfType("deschedule") : <<s.policy>> = x /\ Violated(s, n, enf.seen)
        BY <2>4, <4>1 DEF Wanted
      <4>3. q = s
        BY <1>1, <4>1, <4>2 DEF LockInv, Registry, OfType
      <4>4. enf.active = OfType("deschedule")
        BY <1>1, <2>1 DEF LockInv, Registry, PatchDeschedule
      <4> QED BY <4>1, <4>2, <4>3, <4>4
    <3> QED BY <1>1, <2>2, <2>4, <3>1, PatchEffect DEF LockInv, Registry
  <2> QED BY <2>3, <2>4
<1> QED BY InitIInv, StepLockInv, <1>1, PTL DEF Spec, IInv
=============================================================================
