# A TLA+ verification of Platform Aware Scheduling

The repository holds two extenders of the Kubernetes scheduler. *GPU Aware
Scheduling* (GAS) keeps books on the GPUs of every node and binds pods to cards
and tiles. *Telemetry Aware Scheduling* (TAS) watches metrics of the nodes and
filters, ranks or labels nodes by the rules of TASPolicy objects. Both are small
concurrent programs: HTTP handlers, informer callbacks, work queues and timers
share state under a few locks while the API server changes the same objects.
This directory models that state and how it is changed.

    tlc -workers 2 -config GasGraceful.cfg MCGasCache    # one of the runs below
    tlapm GasCache_proofs.tla                            # one of the modules of proofs

`PROJECT.json` lists the runs, the source lines each definition stands for, the
hazards and the findings. Paths below are relative to `src/`; `gas/` abbreviates
`gpu-aware-scheduling/pkg/gpuscheduler/` and `tas/` stands for
`telemetry-aware-scheduling/pkg/`.

## 1. Inventory

| component | state | operations | talks to |
|---|---|---|---|
| node resource cache, `gas/node_resource_cache.go` | `annotatedPods`, `nodeStatuses`, `nodeTileStatuses`, two work queues, `previousDeschedCards/Tiles`, `podDeschedStatuses` | informer handlers, `podWork`/`handlePod`, `nodeWork`/`handleNode`, `adjustPodResources` | API server by watch, list and patch; called by the bind handler |
| bind and filter handlers, `gas/scheduler.go` | the extender's mutex; nothing else of their own | `bindNode`, `filterNodes`, `checkForSpaceAndRetrieveCards`, `convertNodeCardsToAnnotations`, `annotatePodBind` | the cache; API server by patch and bind |
| resource maps, `gas/resource_map.go` | a map from resource name to `int64` | `add`, `subtract`, `addRM`, `subtractRM`, `divide` | used by both |
| GAS helpers, `gas/utils.go`, `gas/node_resource_cache.go` | none | parsing of labels and annotations, PCI groups | used by both |
| TAS controller, `tas/controller` | none | `onAdd`, `onUpdate`, `onDelete` | informer of TASPolicies; cache and enforcer |
| TAS cache, `tas/cache` | the map owned by goroutine `run`; `metricMap`, the mutex | requests over a channel; `WriteMetric`, `DeleteMetric`, `WritePolicy`, `PeriodicUpdate` | metrics API |
| TAS enforcer, `tas/strategies/core` | `RegisteredStrategies`, the mutex | `AddStrategy`, `RemoveStrategy`, `EnforceRegisteredStrategies` | strategies |
| TAS strategies, `tas/strategies/*` | node labels at the API server | `Violated`, `Enforce`, `Cleanup` | API server by list and patch; cache |
| TAS scheduler, `tas/telemetryscheduler` | locals of a request | `Filter`, `Prioritize`, `Bind` | cache; dontschedule and scheduleonmetric strategies |
| extender server, `extender/` | none | checks before a handler, routes, TLS set-up | both extenders |
| configurator, `configurator/` | files of the control plane, backup folders | `run`: checks, backups, certificates, config, deployments, manifest | kubelet, by the manifest |
| programs, `cmd/` | none | flags, wiring | |

What is hard in each, and what makes it correct:

* **GAS books.** A bind charges the books, patches the pod and binds it, three
  steps that fail one by one, while the pod worker releases other pods from
  events that are late, repeated or lost. Correct means: running pods never have
  more than the cards offer, no two have a tile in common, the books never fall
  behind what runs and hold exactly that when everything is handled.
* **GAS selection.** Shares, tiles, disabled and preferred tiles and cards, shared
  GPUs, links and NUMA nodes are counted on a scratch copy, in a loop with retries,
  once for the filter and once for the bind. Correct: what is selected fits, is
  allowed, linked and preferred where it should be, a pod is not refused though it
  fits, and a node that the filter offers takes the pod.
* **GAS descheduling.** A worker compares what it did before with what is asked
  for now, over API calls that fail and pods that come and go. Correct: labels
  of pods follow those of the node, and what is remembered is what is.
* **TAS controller and cache.** A handler registers, counts and writes while
  an updater fetches and writes the same keys. Correct: a metric is polled and
  kept exactly as long as a rule uses it; the registry is that of the policies.
* **TAS enforcement.** Passes over nodes interleave with removals, with edits by
  others and with failing calls. Correct: labels say what the rules say, and
  disappear with their policy.
* **TAS requests.** Handlers take no lock and read policy and metrics one by one
  while others change them. Correct: what is answered was true of one policy and of
  data of that time, and every rule takes effect in the end.
* **Configurator.** Files are rewritten in place, several per run, by runs that may
  die or be repeated. Correct: nothing is lost, the manifest that restarts the
  scheduler is written last, and a repeated run comes to the same end.

## 2. Modules

| module | models | state | actions |
|---|---|---|---|
| `ResourceMap` | `resource_map.go` | – | `AddRM`, `SubtractRM`, `Divide`, with the limit `MaxInt` of the integers |
| `PodShares` | what an annotation charges to a card | – | `Annotations`, `PerCard`, `Share` |
| `GpuAllocator` | *abstract*: what GAS promises its users | `held` | `Allocate`, `Release` |
| `GasCache` | informer, worker, books, `bindNode`, restarts | see module | one per step of `bindNode` between two points at which others can run; one per handler and worker step |
| `NodeLabels` | what the labels of a node and the annotations of a pod say: split labels, groups, tiles, links | – | operators |
| `CardSelect` | `filterNodes`, `checkForSpaceAndRetrieveCards`, `convertNodeCardsToAnnotations` | the answer of the filter, locals of the algorithm | one per turn of its loops |
| `GasDesched` | node events, `nodeWork`, `handleNodeUpdated` | memory of the worker, labels of node and pods | one per API call of a pass |
| `TasController` | policy handlers, metric cache, updater, registry | see module | one per send on the channel and per critical section |
| `TasEnforcer` | `EnforceRegisteredStrategies`, deschedule and labeling strategies | node labels, lock, progress of a pass | one per API call |
| `TasScheduler` | filter and prioritize requests, dontschedule and scheduleonmetric | locals of a request | one per read of the cache |
| `Configurator` | the configurator's `run` | files, folders of the certificate path, backup folders | one per file access and folder; two per write |
| `MC...` | instances for TLC | | |
| `GasCache_proofs`, `CardSelect_proofs`, `GasDesched_proofs`, `TasController_proofs`, `TasScheduler_proofs`, `TasEnforcer_proofs`, `Configurator_proofs` | theorems on the module of that name; the first has the books, with and without faults, and the refinement of `GpuAllocator` | | |
| `DataFacts` | lemmas on sequences, folds, finite sets and sums over them | | |

`GasCache` and `GpuAllocator` extend `PodShares`, which extends `ResourceMap`;
`CardSelect` uses the same operators, so that "fits" means the same for the
algorithm that selects and the cache that charges; it takes the meaning of labels
from `NodeLabels`. `GasCache` instantiates `GpuAllocator` as its abstract
specification. `TasScheduler` extends `TasController` and composes its requests with
the steps of the controller and the cache.

How the models correspond to the code where it is not obvious:

* *Locks.* `GASExtender.rwmutex` is held from the check to the end of `bindNode`
  and is the variable `rwmutex`. The cache's own lock is held within one call of
  the cache, so such a call is one step; the exception is `handleNodeUpdated`,
  which calls the API server with the lock held, and there the lock is `worker`
  in `GasDesched`. `filterNodes` takes the same locks, reads, and changes nothing,
  so it is no action of `GasCache`; what it found may be out of date when bind is
  called, and bind checks again. In `CardSelect`, where the books stay as they are,
  the bind that follows a filter must succeed.
* *Informer.* The API server sends events in order. One step puts an event into
  the store (`lister`), a later one runs the handler, as client-go does with its
  own queue in between; a bind reads the store. The resync interval is 0: events
  are not repeated, but the kubelet's status reports are node events.
  The work queues hold pointers to new items and never merge two of them.
* *Which cards.* In `GasCache` a bind takes any cards that fit, or fails.
  `CardSelect` shows that what the algorithm selects is one of those
  (`SelectionFits`), and has the tiles that are asked for (`TilesGranted`).
* *Annotations* are sequences of sets of cards. The empty string splits into one
  empty container, not into none, and `EmptyAnnotation` keeps that.
* *A deleted pod* is queued without its annotation (`deletePodFromCache` passes
  none). For a pod of one container the adjustment then passes, forgets the pod and
  gives nothing back; for any other it fails. What discharges a pod is `podCompleted`.
* *`retrievePod`* that fails changes nothing and is no step.
* *`GasDesched`* has the pods of one node; a name that `podDeschedStatuses` does
  not have reads as false. Pods without annotation do not reach the pod worker, so
  an add event reaches it only after a restart or relist.
* *Go maps* are iterated in any order: `NextStrategy`, `PatchLabeling`, `TilesFor`
  choose.
* *Unbuffered channel.* `concurrentCache.add` sends each write twice; a read or
  write is one step per send.
* *Registry.* A set of strategies. Two registered strategies that are equal are
  one in the code as well, since `AddStrategy` looks for an equal one first; two
  strategies without rules would differ in the code and are not in the instances.
* *Labels* are records (see `NodeLabels`). A split label is a sequence of chunks with
  the first character of each, since that is what `concatenateSplitLabel` looks at.
  Cards are numbers below 10, which sort alike as names and as numbers.
* *Panics* of a handler end the request, and the deferred unlock lets others go on:
  `SameGpuPanics`, `LabelPanics`, and `PodIsNil` of a TAS request without a pod.
* *Requests to TAS.* A handler shares nothing with other handlers and writes nothing,
  so one request at a time stands for all of them. `seen` is a history variable: the
  versions of the policy and of the metrics that were in the cache at the time.
  What may come into the cache during one request is bounded by `MaxOverlap`.
* *Writes of the configurator.* `os.WriteFile` truncates and then writes: two steps,
  between which a run can die. A truncated file does not parse. `Fail` stands for an
  error (recovered panic) as well as for the death of the process: neither undoes
  anything. `CheckFails` is a check that fails: `checkFileAccesses` notes it, goes on
  with the next check and panics at the end. `os.MkdirAll` makes one folder a step
  (`certDirs` of `Depth` are there), `os.RemoveAll` of a backup removes a file a step.
  The history `last` keeps the dry run that has ended, with what it had found.
* *The bind's patch.* When the pod in the store has no annotations the patch replaces
  all that it has at the API server: `KeptTiles` keeps its old tiles or drops them.
  `adjustPodResources` checks on a copy and then adjusts, with the same loop: one
  operator stands for both.
* *Xe-linked cards* that are given more than one tile each get any free ones, and these
  are entered into `currentlyAllocatingTilesMap`; the tile of a link is not.
* *Metrics* of an enforcement pass are read together with the list of nodes.
  The code reads them once per strategy; the controller cannot interfere because
  of the lock, the updater could.

## 3. Runs

Passing runs. Instances are small; the last column says what they must contain.

| run | checks | why the instance is large enough |
|---|---|---|
| `GasGraceful` | `TypeOK`, `NoOvercommit`, `NoUndercount`, `TileExclusive`, `BooksBalanced`, `AckedMeansBound`, without faults | two binds at once, three in all so that a failed one is retried; a pod over both cards and one that competes for a tile; a second container without GPU |
| `GasRestart` | `RollbackNeverFails`, `BooksCatchUp`, with restarts, watch gaps and forced deletions | requests of zero tiles, where a key exists with amount 0; a restart at each step of a bind, followed by a gap or a second restart |
| `GasLive` | `EndedIsReleased`, `BindReturns`, and `AllocatorSpec`, the refinement of `GpuAllocator` | two binds wait for one lock; two nodes, one with a malformed NUMA label |
| `CardSelection` | `SelectionFits`, `SelectionAllowed`, `TilesGranted`, `PreferredTilesFirst`, `XeLinkGranted`, `PreferredTruthful`, `RefusedOnlyIfFull`, `OfferedFits`, over all loads of three cards | pods of two GPUs, of three containers two of which may share a GPU, of tiles, of one and two linked pairs; disabled, used, preferred and non-existing tiles, a disabled PCI group, two labels that prefer different cards; a ring of links and a malformed one; a NUMA node that is too small and is searched first; split and malformed labels; one and two nodes; both orders of cards |
| `DeschedSafe` | `StatusTruthful`, `PassComplete`, with restarts, failing calls, pods that start and stop | two faults: a pass fails and the process restarts; node and pod worker start in either order |
| `DeschedLive` | `LabelsFollow`, with restarts, failing calls, pods that start late and labels that return | labels for card, tile and PCI group, and two policies for one tile; a pass that fails halfway, two changes of labels |
| `TasPolicies` | `TypeOK`, `UsedMetricKept`, `RegistrationsExact`, `NoResurrection`, `DataKept`, `PoliciesConverge` | two policies that share metrics, four changes: add both, update, delete; an updater always ready to take the lock again |
| `TasEnforceSafe` | `NoOrphanLabels`, `ViolationKeepsLabel` | two nodes, an allOf rule over two metrics, labels of both types, a label without value that ends a pass |
| `TasEnforceLive` | `HonoursWinner`, `LabelsConverge`, with failing calls and labels removed by others | rules that compete for a label, with the same and with different operators |
| `TasScheduling` | `VerdictExplained`, `RankingExplained`, `RulesTakeEffect` | a policy with all of two rules, with any of two, or with a preference, that is replaced and deleted during a request; two versions of the data, one without a node; a node that is not asked for; a request for each check of server and decoder, one without a pod; `MaxScore = 0`, so that the second of two nodes has a negative score, as the twelfth has in the code |
| `Configuration` | `BackupsComplete`, `DoneMeansConfigured`, `DryRunPure`, `ManifestLast`, `Idempotent` | three runs, with two failures, and a change between them; the certificate folder is there, missing, or missing with the folder above it; manifests with a flag and its value apart, of an old version, configured already, and refused at three different steps |

Bounds are constants with a comment: incarnations of a name (`MaxUid`,
`MaxStarts`), requests (`MaxBinds`), faults (`MaxFaults`, `MaxRestarts`), changes
(`MaxChanges`). `MaxBacklog` only delays new pod events; the events the code itself
causes are never held back. `CHECK_DEADLOCK FALSE` is set everywhere: an algorithm
ends, and a system whose bounded inputs are used up idles. Symmetry is used for
the concurrent binds in safety runs, never in liveness runs.

One run that TLC must find violated, where the documentation says one thing and the
code does another (`PROJECT.json` quotes the text):

| run | the code |
|---|---|
| `GasRestartOvercommit` | binds are served before the listed pods are charged |

### Cases the passing runs exclude

The properties hold with the exceptions below, each of which comes from the code.
The change of a configuration in the last column makes TLC show the case.

| what happens | where | how to see it |
|---|---|---|
| a pod removed without a deletion timestamp is never discharged | `gas/node_resource_cache.go:700` | `GasGraceful`, `Faults = {"forceDelete"}`: `BooksBalanced` |
| a second completion of a pod discharges its successor of the same name | `gas/node_resource_cache.go:815` | `GasRestartOvercommit`, `Faults = {}`, `MaxUid = 2`, `MaxBinds = 3`: `NoOvercommit` |
| an empty annotation is reported as a successful bind | `gas/scheduler.go:1332` | `GasLive`'s constants: `AckedMeansBound` |
| a bind that was applied but answered by an error is rolled back | `gas/scheduler.go:1310` | `GasRestartOvercommit`, `Faults = {"lostReply"}`: `NoOvercommit` |
| the patch of a bind goes to whichever pod has the name | `gas/scheduler.go:175` | `GasLive`, `Faults = {"staleBind"}`, `MaxUid = 2`, two cards: `AllocatorSpec` |
| usage of a failed search of one NUMA node stays and lets a later container fail | `gas/scheduler.go:947` | the conjunct on `Len(gpuMaps)` in `RefusedOnlyIfFull` |
| a tile disabled by two policies, or disabled and descheduled, is counted twice | `gas/scheduler.go:1156` | `CardSelection`, labels of policies a and b for one tile in `TasSets`: `RefusedOnlyIfFull` |
| a label prefers a card the node does not have: its first card counts as preferred | `gas/scheduler.go:689` | `CardSelection`, `preferGpu` of a card outside the books and the GPU list in `TasSets`: `PreferredTruthful` |
| two labels prefer different cards, or several links are free: bind may choose otherwise than filter, and fail | `gas/scheduler.go:366` | the condition `Determined` in `OfferedFits` |
| with a malformed NUMA label a bind reports success without binding | `gas/scheduler.go:833` | the last conjunct of `OfferedFits` |
| with more tiles than GPUs the tiles given are any free ones, not the linked one | `gas/scheduler.go:439` | `CardSelection`, a container of 2 GPUs and 4 tiles in a `Linked` pod: `XeLinkGranted` (the documentation asks for as many tiles as GPUs) |
| a pod that starts on a descheduled card is not labelled | `gas/node_resource_cache.go:1007` | the set `late` in `LabelsFollow` |
| statuses of pods are kept by name without namespace | `gas/node_resource_cache.go:1034` | `DeschedLive`, `NameOf <- SameName`: `LabelsFollow` |
| labels set before a restart are not removed after it | `gas/node_resource_cache.go:1102` | the set `forgotten` in `StatusTruthful`, `LabelsFollow` |
| a pod inherits the status of its predecessor of the same name | `gas/node_resource_cache.go:1098` | `DeschedSafe`, `MaxStarts = 2`: `PassComplete` |
| a half-done pass is not undone when the labels return to what they were | `gas/node_resource_cache.go:1035` | the flag `returned` in `LabelsFollow` |
| an update that drops a strategy leaves it registered and its metrics counted; the comment of `onUpdate` says it "unregisters strategies and metrics" | `tas/controller/controller.go:164` | `TasPolicies`, `Specs <- DroppingSpecs`: `RegistrationsExact` |
| deleting a partly registered policy evicts a metric of another | `tas/controller/controller.go:217` | `TasPolicies`, `Specs <- UnknownTypeSpecs`: `UsedMetricKept` |
| policies of one name in two namespaces remove each other's strategies | `tas/controller/controller.go:108` | `TasPolicies`, `NameOf <- SameName`: `RegistrationsExact` |
| when another rule wins a label, one patch replaces the label and removes it | `tas/strategies/labeling/enforce.go:166` | `TasEnforceSafe`, `Nodes = {n1}`, `Values = {1, 2}`, `Strategies <- Example`: `ViolationKeepsLabel` |
| a rule that wins one label also sets labels that another rule won | `tas/strategies/labeling/enforce.go:233` | `TasEnforceLive`, `Strategies <- Overlap`: `HonoursWinner` |
| a dry run leaves the folders above the certificate folder that were missing, though the flag promises "no real changes"; if the check of accesses fails or dies halfway, an empty config or an empty certificate folder too | `configurator/internal/cmd/main.go:249`, `:164` | the traces that `OnlyTraces` lists; `certDirs = r.before.certDirs` in its place fails in `Configuration`: `DryRunPure` |
| a failed cleanup is not repeated | `tas/strategies/deschedule/enforce.go:72` | `TasEnforceSafe`, `"apiError"` in `Faults`: `NoOrphanLabels` |

## 4. Fairness

* `GasCache`: weak fairness of `Deliver`, `Handle` and `PodWork` – three goroutines
  that loop for ever – and strong fairness of each accepted bind: it waits for a
  mutex, and Go's mutexes hand over to a waiter that starves. The API server is not
  assumed to accept anything: `CallFails` is always possible. Users, scheduler and
  kubelet need not do anything.
* `TasController`: the updater takes the mutex again in each period, so the handlers
  need strong fairness, for the same reason; the updater, once started, goes on.
* `TasScheduler`: a request is served to its end; controller and updater as above, the
  ticker fires again and again, and the metrics API does not fail for one metric for
  ever (`RulesTakeEffect` only).
* `TasEnforcer`: the goroutine that holds the lock goes on; each type's ticker
  fires again and again while the lock is sometimes taken by others.
* `GasDesched`: the two workers run, the pod worker although the node worker holds
  the lock over its API calls; `ReportNode` is the kubelet's status report,
  without which a failed pass is not repeated. Faults are bounded.

## 5. Proofs

The theorems hold for all values of the constants that satisfy the named assumptions
of the modules (shapes of sets and functions, finiteness, values such as `None` that
differ from the others), and under the hypotheses given here. The hypotheses exclude
the cases of the second table of section 3, in which the code does not have the
property, and malformed input; the paragraphs below give the reasons of the latter.

| theorem | property | hypothesis |
|---|---|---|
| `TypeCorrect`, `RollbackSafe` of `GasCache_proofs` | `TypeOK`, `RollbackNeverFails` | none: all faults |
| `AcksAreTruthful` | `AckedMeansBound` | `CardsAsked`: NUMA labels can be read and a pod of one container asks for a card; all faults, names used again |
| `NeverOvercommits`, `NeverUndercounts`, `TilesAreExclusive`, `BooksAreBalanced` of `GasCache_proofs` | `NoOvercommit`, `NoUndercount`, `TileExclusive`, `BooksBalanced` | `Graceful`: no fault, no name used twice |
| `ImplementsAllocator` | `AllocatorSpec`, the refinement | `Graceful` |
| `BooksCatchUpAfterFaults` | `BooksCatchUp` | `Answered`: no reply is lost, no name used twice; `[]NoOverflow`: an int64 holds what is in the books and the pod that is next; restarts, gaps of the watch and forced deletions |
| `CardsFit` of `CardSelect_proofs` | `SelectionFits` | none |
| `SelectionIsAllowed` | `SelectionAllowed` | `LabelsWhole`: labels that hold together |
| `PreferredIsTrue` | `PreferredTruthful` | `PreferredKnown`: labels prefer cards that the node has |
| `TilesAreGranted`, `LinksAreGranted` | `TilesGranted`, `XeLinkGranted` | `XeLinksSound`: links join tiles that exist, requests have as many tiles as GPUs; without xe-links none |
| `StatusesTruthful`, `PassesComplete` of `GasDesched_proofs` | `StatusTruthful`, `PassComplete` | `OneLife`: no name used twice |
| `NothingPutBack`, `DataIsKept` of `TasController_proofs` | `NoResurrection`, `DataKept` | none |
| `TypesCorrect`, `UsedMetricsKept`, `RegistrationsAreExact` | `TypeOK`, `UsedMetricKept`, `RegistrationsExact` | `ValidPolicies`: known types, at least one rule each, distinct names; `[]TypesKept`: updates keep the strategies |
| `VerdictsExplained`, `RankingsExplained` of `TasScheduler_proofs` | `VerdictExplained`, `RankingExplained` | none |
| `OrphansRemoved` of `TasEnforcer_proofs` | `NoOrphanLabels` | `ApiAnswers`: calls do not fail |
| `DescheduleKeepsLabels` | `ViolationKeepsLabel`, for passes of deschedule | none |
| `BackupsSafe`, `DryRunsPure`, `ManifestIsLast`, `Idempotence` of `Configurator_proofs` | `BackupsComplete`, `DryRunPure`, `ManifestLast`, `Idempotent` | none |
| `DoneIsConfigured` | `DoneMeansConfigured` | `ManifestsWhole`: in a command, the value of a dropped flag is with it or follows it |

The arguments:

* **Rollback.** `RollbackNeverFails` is not inductive. That the rollback passes the
  check needs that the keys the charge made are still in the books: `subtractRM`
  sets an amount to zero but never deletes a key, whatever pod is discharged meanwhile
  (`KeysKept`, which every step but a restart satisfies, and a restart ends all
  binds). And it needs that the charge was made with cards the pod could be given,
  which holds since the empty annotation returns before the charge (`CardsChosen`).
  The invariant is `TypeOK /\ CardsChosen /\ RollbackNeverFails`.
* **Acknowledgements.** `Acks`: a reported uid is at most that of the pod, and the pod
  with that uid is bound if it exists. uids only grow and nobody unbinds a pod
  (`Moves`). `Selected`: what leaves the check for space is a selection of cards, so
  `NothingToAnnotate`, which reports success without a binding, is not reached.
* **Books.** The books are sums, and a sum does not say of which pods. `GInv` says that
  there is a *ledger* `L` with an entry (node, cards, tiles) for each annotated pod such
  that (`Books`) the books are the sums of the entries, within capacity, the tiles of
  entries are disjoint and as many as were asked for; (`Binds`) a bind that has charged
  has its entry, one that has checked holds the lock and what it found stays true: the
  pod worker may meanwhile only release; (`Owners`) a bound pod's entry is what its
  object says; (`Queued`) the *pipe* - the work queue, then what the handlers, then what
  the informer will add to it - tells the life of a pod in order (bound, completed,
  deleted), and has an item that will release each entry whose pod is neither running
  nor being bound. The ledger is an existential witness: a charge puts an entry into it,
  a rollback or completion takes one out, all other steps keep it. `MaxUid = 1` cannot
  be dropped: for a second pod of a name `BooksBalanced` and `NoOvercommit` are
  violated, since a second completion of the first discharges it.
* **Catching up.** After faults no ledger is exact: a pod that was deleted by force leaves
  its amounts behind until a restart. `CInv` has a ledger with an entry for every pod that
  is charged or bound, and the books show *at least* the sum of the entries of annotated
  pods (`Charges`). What makes that enough is about the other direction: no item on its way
  to the worker discharges a pod that runs (`Mailed`), since an item with a node is of a
  pod that has been bound, and a bound pod is never bound again (`WasBound`, `PodsStay`).
  `Heard`: a running pod is annotated, or an item that says so is on its way. A relist or
  restart queues every pod the API server has, and the store never shows more than that
  (`Stores`). `Answered` is needed because after a lost reply the rollback discharges a
  pod that runs. `NoOverflow` is needed because a charge that would overflow is refused,
  which `handlePod` logs and does not retry; the amounts of the instance `GasRestart` stay
  within it.
* **Tiles.** `createTileAnnotation` gives a container no tiles when too few are
  left. That this does not happen (`AllTaken`, `TilesChosen`) needs that as many
  tiles are marked as the amounts say (`TilesCounted`), and that a card has as many
  tiles as its capacity says. The latter is an assumption of `GasCache`: `getFreeTiles`
  (`gas/scheduler.go:471`) numbers the tiles from 0 to that capacity.
* **Refinement.** `Held` is what the running pods have. Only the apply of a binding
  starts to run a pod; that it fits follows from `GInv` of the next state, the
  tiles from the ledger (`BindAllocates`). Ends of pods release; all other steps leave
  `Held` as it is, the patch too, because it goes to a pod that is not bound
  (`StepImplements`).
* **Selection.** `SearchInv` is about the scratch copy `used` of the books (`Fit`): on every
  card it is at least the books plus the shares of the containers placed so far and of the
  cards that the current one has (`Assigned`) - more, when a failed search of a NUMA node left
  usage behind - and within capacity wherever the pod gets something. `RequestInv` says what
  is known of a request before and between searches. `AllowInv`: the maps that are searched contain permitted cards
  only, and a container takes all its cards from one of them. `LabelsWhole` is needed for
  split labels (a continuation without its mark, or a NUMA label that names no node, leaves
  other maps than the label means) and because the PCI group of a card is the first one that
  has it. `PreferredKnown`: `gas/scheduler.go:688` takes the first card of the list for a
  preferred one without looking whether the preferred one is on the list. `PlainInv`,
  `XeInv`: cards with tiles have room for them, and pairs have two tiles reserved;
  `TilesInv`, `GrantInv`: the loop over containers that marks what it gives.
  `XeLinksSound` is what `gpu-aware-scheduling/docs/usage.md:227` asks of a pod. That a link joins
  two different tiles is part of what a label is (`NodeLabels`).
* **Sums.** What a fold computes needs induction over sets, and the library's induction
  theorems take an operator, which the provers cannot instantiate. `DataFacts` argues
  from the smallest counterexample instead: strict inclusion is well founded on the
  subsets of a finite set, so a nonempty set of counterexamples has a minimal one.
  The same works for the recursive function in `TilesTaken` (`TakenUnique`, `LeastNat`),
  and for `FoldLeft`: a run of the fold is a sequence of accumulators, of which there is one
  for each length (`FoldExists`), and a statement about every accumulator holds if no
  first one breaks it (`EveryRound`).
* **Descheduling.** `NotStarted` and `EndsOnly`: of a pod that has not started nothing is
  remembered, and events that forget a status are about pods that have ended.
  `PassUnderWay` says what a pass has done so far, `LastPass` what the last one has.
* **TAS controller.** `CountedFor(m)` is the set of rules that are counted at each moment
  of a handler, from how far it got (`Place`); each operation adds or removes one.
  `Chain`: the events that wait lead, per policy, from what the handlers have seen to
  what is stored, so the old object of an update is the one that was registered.
  `CacheInv`, for the two theorems on all policies, ties data, keys and the updater's
  lock.
* **TAS requests.** The properties are about a history, `seen`, so the invariant is too:
  at each read the history has what is in the cache (`BeforePolicy`, `Known`), and it only
  grows (`MoreSeen`). `Judged`: what the counters of a filter say after some rules -
  the count tells whether a node broke all of them, the set whether it broke any.
  `OrderOfSet`: an order of a finite set has each of its members once. Nothing depends on
  `MaxOverlap`, the bound on what changes during a request.
* **TAS enforcer.** `LockHeld`: pass and removal exclude each other. `OrphansCleaned`:
  a label without a strategy is one of the strategy that is being removed, and on the
  list of its cleanup once there is one.
* **Configurator.** `OwnFolder`, `Writing`, `CopyMade`, `Kept`: which file is written at
  which step, and that the folder of the run has a copy before. `DryInv` is `DryRunPure`
  step by step: what the check has made and not yet removed at each of its steps, and that
  a dry run comes to no step that writes. `CertsInDir`: certificates are only in a folder
  that exists, so the probe, which removes the folder that it has made with what is in it,
  never takes certificates away. `RunInv` adds what a run
  has written, step by step, and that the manifest it is about to write is `Modified(orig)`;
  `SettledInv`: what a complete run leaves is a fixed point of `Modified` (`SetCommand` of
  its own result drops the one `--config` and appends it again; likewise the volumes),
  and `TemplateInv` that the config still matches. `WholeInv`: every manifest, those in backup
  folders too, pairs dropped flags with values. Without that, `--config` as the last
  argument, or before another flag, makes `SetCommand` drop something else
  (`configurator/internal/cmd/main.go:506`), or leaves a value behind.

Only model-checked:

* liveness (`EndedIsReleased`, `BindReturns`, `LabelsFollow`, `PoliciesConverge`,
  `LabelsConverge`, `RulesTakeEffect`), which is out of the prover's reach;
* `HonoursWinner` and the labeling half of `ViolationKeepsLabel`, which are about lists of
  labels in the order of a Go map;
* `PreferredTilesFirst`: a label that names a preferred tile twice counts it twice
  (`gas/utils.go:346`), so it holds for labels without duplicates only, over every
  order in which they are read;
* `RefusedOnlyIfFull`: a tile that two labels disable is counted twice, as the table of
  section 3 says, so it holds for labels without such pairs only;
* `OfferedFits`, which compares two runs of the same search.

## 6. Not modelled

* The xe plugin resource (it takes the same paths as i915) and monitoring resources,
  other than that both are refused in containers that share a GPU.
* Parsing of text: labels, annotations and YAML are what comes out of it, or malformed.
  Cards from 10 on, whose names and numbers sort differently.
* `Equals` of the strategies compares metrics, targets, operators and labels, and not
  the logical operator; the models compare the rules as they are. They differ only for
  policies of one name in two namespaces, which the passing runs exclude. With fewer
  labels on one side `equalRules` indexes out of range (`tas/strategies/labeling/strategy.go:129`).
* Rules with an empty metric name, hence the entries with an empty name that the updater
  deletes (`tas/cache/autoupdating.go:62`); filter requests with an empty list of nodes.
* An empty continuation of a split label makes `concatenateSplitLabel` panic
  (`gas/utils.go:229`). The models have it for the GPU numbers only; `NodeLabels` assumes
  that the NUMA, PCI group and xe-link labels have none. A GPU list that is present but
  empty names one card with an empty name in the code, and none in the model.
* Amounts near the limit of an int64: the runs do not reach `MaxInt`; the theorems
  on rollback and on the types of the books hold for every `MaxInt`.
* TLS and the start of the servers, the command line programs, mocks, generated code,
  and the clients of the metrics and policy APIs, which keep no state: their results
  are inputs.
* The text of deployment files beyond whether the node role was renamed in them; they
  are rewritten without a backup. The configurator's exit status, which is 0 after an
  error too (`configurator/internal/cmd/main.go:767`).
* The client libraries and the API server, except for what the code sees of them.
* A lost reply of a label patch in `GasDesched`; the grace period in which a pod
  that was told to stop still uses its card (the books drop it at once, by design of
  `isCompletedPod`).

## 7. Plan

Done: `GasCache` with its composition and abstract specification, `NodeLabels` and
`CardSelect` from the filter request to the annotation, `GasDesched`,
`TasController`, `TasEnforcer`, `TasScheduler` composed with `TasController`,
`Configurator`, and the theorems of section 5. Left, in order:

1. `OfferedFits`: with `Determined`, the search of the bind takes the steps of the filter's.
2. `PreferredTilesFirst` and `RefusedOnlyIfFull` for labels that name a tile once.
