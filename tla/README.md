# TLA+ specifications of gpuscale

gpuscale is a Kubernetes controller that buys GPU instances from seven clouds,
boots a worker on each, and gives them back when nobody uses them. These
specifications model the parts of it that decide about instances, claims and
offers, check them with TLC on small instances, and prove the most important
facts with TLAPS for every instance.

## The system

`cmd/controller/main.go` starts one process (leader election) with the
controllers below. They share the Kubernetes API server (claims, pools, pods),
the informer cache that their reads go through, Dragonfly (a Redis server with
the demand, `loaded_models`, `gpuscale:workers` and `gpu_api:node:*` keys), and
the provider APIs.

| Part | State | Operations | Hard behaviour | Correct when |
|---|---|---|---|---|
| Claim reconciler (`reconciler.go`) | claim phase, `status.instanceID`, the instance annotation, finalizer | one handler per phase, deletion | reads a stale cache; a handler holds a copy across provider calls; updates conflict, patches do not; crash between purchase and record | a claim holds one instance; phases match it; drains, deletions end |
| Disruption controller (`disruptor.go`) | idle annotations | drain and destroy of idle nodes, floors `MinNodes`/`MinReplicas`, cooldown, billing cycle | races with the reconciler's own drain; counts on a cached list; read errors taken for "no demand" | a drain ends; busy and always-active models keep a node |
| Interruption controller (`interruption.go`) | none | poll providers, end lost claims, replace | works on an old list while claims move on | a lost instance is noticed |
| InstanceGC (`instancegc.go`) | orphan candidates of the last sweep | two-sweep collection | lists claims and instances at different moments while instances are being bought | no claimed instance is destroyed; every orphan is |
| Coordinator, cache, blacklist (`internal/coordinator`) | cached offers, blacklist, rate limiters | `ProvisionInstance`, `BlacklistOffer` | cached answers and blacklist entries age while offers come and go; five error categories | every call ends; retries see fresh offers; broken hosts are avoided, available ones are not |
| Provision trigger (`provisiontrigger.go`) | subscription, debounce | trigger → claim, queue reconciliation, consolidation | check, then create, on a cached list; lost messages | limits respected; demand is served |
| Provisioning controller (`provisioner.go`) | batch, provisioning locks | pod demand → claims, pool limits | locks that outlive their claim | limits respected; a pod is not forgotten |
| DemandStore (`demandstore.go`) | Dragonfly keys | demand, loaded models, queues, triggers, Verda volumes | unconditional deletes of shared keys; read errors | `loaded_models` is set exactly while a node serves |
| WorkerStore (`workerstore.go`) | `gpuscale:workers` | set, remove | called after the write of the phase | no entry without a claim |
| Bin packing, offer filter, pod matching | none | pure functions | rounding, ties, empty inputs | results fit and are minimal |
| Provider adapters (`pkg/provider/*`) | Verda volumes | search, create, get, destroy, list | different answers for an instance that is gone | a gone instance is reported as such |
| Postgres writer, metrics, scripts, health probe | – | I/O | – | – |

Calls go from the reconciler to the coordinator to the providers; the
disruption and interruption controllers and the GC call the providers directly.
Everything else goes through claims (watch events), Dragonfly keys, or a
re-trigger on a publish/subscribe channel.

## Modules

| Module | What it is |
|---|---|
| `ClaimLifecycle` | the life of claims and instances: reconciler, `destroyWorker` of the disruption controller, interruption, InstanceGC, worker store |
| `InstanceLedger` | the abstract specification: who pays for which instance; `ClaimLifecycle` implements it |
| `ClaimLifecycleInvariant` | the inductive invariants `IInv` and `LedgerInv` |
| `ClaimLifecycleTypes`, `ClaimLifecycleProofs` | the proof of `IInv` and the theorems that follow from it |
| `LedgerProofs` | the proof of `LedgerInv`, of the refinement of `InstanceLedger`, and of what the GC spares |
| `Coordinator` | `ProvisionInstance` with offer cache, blacklist and error categories |
| `CoordinatorProofs` | its invariants and theorems |
| `ModelServing` | which nodes serve which models and when a node is given up: idle detection, floors, consolidation drain, `loaded_models` |
| `ModelServingProofs` | its invariant and theorems |
| `NodeClaims` | what the two writers of claims share: claims, the cache that lags, requests |
| `ProvisionTrigger` | messages, bundling, the scan of the queues, consolidation |
| `PodProvisioner` | pod batches, provisioning locks, pool limits, merged requirements |
| `Scaling` | the composition of the two, with restarts and fairness |
| `Sums`, `SumsProofs` | sums over sets, and facts about sums, maxima and minima |
| `ScalingProofs` | its invariants and theorems |
| `VerdaVolumes` | Verda's OS volumes and their registry |
| `VerdaVolumesProofs` | its invariant and theorems |
| `MCClaimLifecycle`, `MCCoordinator`, `MCModelServing`, `MCScaling`, `MCVerdaVolumes` | instances for TLC |

A *mutant* in a module (an operator whose comment starts with "Mutant") is a
definition with a plausible mistake. No action uses it; put in the place of the
definition after it, it makes TLC find a property violated.

### ClaimLifecycle and the code

`api[c]` is the claim object (phase, `status.instanceID`, the instance
annotation, finalizer, deletion mark, provider), `cache[c]` the copy that
`r.Get` and `r.List` return, and `upToDate[c]` who holds its latest
resourceVersion: a `Status().Update` succeeds for a holder only (`UpdateOK`)
and conflicts otherwise (`UpdateErr`); a merge patch never conflicts. `rec`,
`dis` and `gc` say where the three workers are inside a handler.

Every handler is cut at its provider calls and at every write that another
actor can see. `handlePending` alone is `StartProvisioning` (claim and status
read, phase Provisioning written), `CreateInstance` / `LoseResponse` /
`ProvisionFailed`, `PatchAnnotation`, `RefetchClaim`, `RefetchAgain`,
`RecordInstance`, and for a claim that already has the annotation
`ReuseInstance`. `handleBootstrapping`, `handleReady`, `handleDraining` and
`handleDeletion` end in the shared tail `RecDestroy`, `WriteTerminated`,
`RemoveWorker`, `WriteLast`, whose `path` says which handler runs it.
`SetWorker` and `RemoveWorker` may fail as any other call; their errors are
logged or dropped. `workers[c]` is the claim's entry in `gpuscale:workers`:
`"none"`, `"entry"`, or `"missed"`, an entry that `handleDeletion` itself
failed to remove and for which nothing comes any more. A crash (`Crash`) throws away every worker and the GC's candidates and keeps the
API server, the providers and Dragonfly.

Which provider holds an instance shows only in three sets of constants:
`GoneReported` (GetInstance answers ErrInstanceNotFound for a missing instance:
all but Azure), `Redestroyable` (DestroyInstance of a missing instance is not an
error: GCP answers success to a 404, gcp/client.go:258) and `Listed` (ListInstances works).

### Coordinator and the code

`call` is the frame of `ProvisionInstance`: attempt, providers still to answer,
offers listed, the offer being created. `cached` and `blackLeft` count down with
`Elapse`, which `Sleep` and `Tick` use. `market` is what is on sale. `booting`,
`BootFailed`, `BootTimedOut` and `BootEnds` stand for the reconciler between two
calls. There is one call at a time because the reconciler has one worker, so
singleflight and the mutexes show no behaviour. Rate limiters only delay and a
`Tick` may come anywhere. `broken`, `blamed`, `available` and `tried` are
history variables that only properties read.

### ModelServing and the code

`claim[c]` is what matters here of a claim: its phase, `idleSince`, and the
consolidation-drain annotation (`mark`). `cache` and `upToDate` are as in
`ClaimLifecycle`. A pass of the disruption controller (`DisDecide`) or the
reconciler (`RecLook`) reads and decides in one step and leaves a list of steps
to do (`dis.todo`, `rec.todo`): `destroyWorker` is `<<"drain", "destroy", "end",
"keys">>`, `handleDraining` `<<"destroyOrRetry", "keys", "endOrRetry">>`. Other
workers act between any two of them. Reads of Dragonfly that fail are the sets
`broken`, with the answer the code takes them for. `registered`, `demand` and
`loaded` are the Dragonfly keys, which GPU API (external) sets.
`hurt` is a history variable: claims whose instance or tunnel was lost or looked
lost, or whose always-active flags could not be read.

### Scaling and the code

`ProvisionTrigger` is one goroutine: `StartUp` is the scan before the
subscription, `Tick` that of every minute, `ScanModel` and `ScanEnds` its
progress, `HandleMessage` a message, all through `TriggerOK` / `TriggerFails`
(`handleTrigger`). `inbox` is what the subscription holds; a message published
before it, or dropped by the debounce, is lost. `PodProvisioner` is a worker
(`Reconcile`) and a timer goroutine (`BatchFires`, `ProcessBatch`); `batch`,
`locks` and `timer` are `pendingBatch`, `provisioningFor` and `batchTimer`. Both
count claims in `cache`, which only `WatchDeliver` brings up to date, and write
`claim`. A restart keeps the claims, the requests and nothing else.

### VerdaVolumes and the code

`instance` and `volume` are Verda's, `keys` and `registry` Dragonfly's. `job` is
the reconciler (`CreateInstance`: look up, take or restore, create; and
`MarkVolumeReady`: read, write back), `destroy[d]` the goroutines that destroy
instances (register the volume, delete the instance, list the detached volumes,
trash them one by one). A claim may ask for no disk size (0), as those
made for pods do; Verda then chooses (`DefaultSize`), and nothing is recorded.
A size that is not recorded, or whose record is lost, counts as 0, which fits
every claim. `unsized` is a history variable: the volumes that were ever
registered with no size.

## Runs

| Run | Configuration | Question | Result |
|---|---|---|---|
| `lifecycle_safety` | 1 claim, 2 instances of different providers, 2 faults; 1.5 M states | do ids, phases, GC and Dragonfly stay consistent under every interleaving, conflict, crash and lost response; is the ledger implemented? | holds |
| `lifecycle_liveness` | 1 claim, 1 instance, 1 fault, fairness; 90 k states | are orphans destroyed, drains and deletions finished, dead instances noticed? | holds |
| `draining_stuck` | as above, provider not `Redestroyable` | does a drain end? | **no** |
| `finalizer_leak` | no faults | does the finalizer destroy the instance? | **no** |
| `terminated_revived` | no faults | is Terminated final? | **no** |
| `coordinator` | 2 providers with an offer each, 3 attempts, TTLs 2 / 4 / 5; 249 k states | do retries search again, are broken hosts avoided and available offers tried, does each call end? | holds |
| `shared_offer_id` | 2 offers with one OfferID | are available offers tried? | **no** |
| `model_serving` | a single-model node and a bundle that replaces it, second model always active, floor 1, 1 fault; 160 k states | do always-active nodes stay, does consolidation wait for the bundle and end, does no decision outlive the clearing of its idle timestamp, does the pool scale down? | holds |
| `keys_removed` | a node and the bundle that replaces it, no floor, no faults | does `loaded_models` stay while a node serves? | **no** |
| `scaling` | 2 models, 2 pods, 3 claims, 2 nodes allowed; 352 k states | are locks accounted for, pods claimed once and fitted, requests found, batches processed? | holds |
| `volumes` | 2 models, claims for no size and for two sizes, 2 instances, 1 destroyer, 1 fault; 4.2 M states | does an instance boot only from a volume that is ready, its model's, and, if its size was always recorded, large enough? | holds |
| `unsized_volume` | 2 models, claims for no size and for one above the default, no faults | is a volume large enough, whatever is known of it? | **no** |

The six violations are disagreements of the code with its comments or README:

- **draining_stuck**: `handleDraining` (reconciler.go:149-156) takes only
  `ErrInstanceNotFound` for "already gone", which no `DestroyInstance` returns.
  With RunPod, Vast.ai, Verda or TensorDock a drain whose instance is gone is
  retried for ever.
- **finalizer_leak**: `handleDeletion` (reconciler.go:1052) looks at
  `status.instanceID` only; an instance that is just in the annotation is left.
- **terminated_revived**: the reuse path of `handlePending` (reconciler.go:413-441)
  does not look at the phase again after its re-fetch.
- **shared_offer_id**: Verda offers of one instance type in several regions have
  the same OfferID (verda/provider.go:182), and the blacklist key is made of it:
  a broken host in one region hides every region for 30 minutes, and the call
  fails while another region is on sale.
- **keys_removed**: `RemoveModelLoaded` (demandstore.go:313) deletes the key
  whoever else serves the model, and `destroyWorker` and `handleInterruption`
  do not ask first; its comment says it does.
- **unsized_volume**: the volume of a claim with `MinDisk` 0 is registered with
  size 0 (verda/provider.go:268-270), which `FindVolumeForModel` lets pass for
  any claim (demandstore.go:563), although its comment promises "at least
  minDisk GB". Claims made for pods never set `MinDisk` (provisioner.go:246-251),
  a trigger's claim has 0 after a failed read (provisiontrigger.go:255-259).

Other disagreements met on the way, which no run shows:

- "fail-safe: don't destroy if we can't read" (disruptor.go:150): `hasModelDemand`
  then answers that there is no demand, and `isModelAlwaysActive` (171-175) that the
  model is not always-active, so that busy and always-active nodes are drained while
  Dragonfly cannot be read. The model does the same (`broken`); `AlwaysActiveKept`
  has to leave out the claims whose flags could not be read.
- types.go:94 calls the cooldown "the minimum idle time before destroying a node". A
  pass that finds the node in use, but works on a copy from before the idle timestamp,
  or whose update fails (disruptor.go:110-118, 125-133), leaves the timestamp, and the
  node may be destroyed by the cooldown of an earlier idle period. That is why
  `DrainedOnlyWhileIdle` speaks of timestamps that were cleared, and not of nodes that
  were in use.
- README.md:108 of the repository has offers that fail to bring up an instance
  blacklisted; `terminateTimedOut` (reconciler.go:968) blacklists nothing and
  re-triggers, so that the next call may buy the offer again (`BootTimedOut` of
  `Coordinator`).
- `handleDeletion` drops the error of "Clean up Dragonfly worker entry"
  (reconciler.go:1068-1071) and removes the finalizer: the entry then stays for ever.
  `RemovedLeavesNoWorker` excepts exactly that entry (`"missed"`).
- verda/provider.go:328 "Falls back to any detached OS volume" is an older comment;
  the next lines (329-331) and the code take only volumes that were marked.
- The claim made for a batch of pods has the GPUs, VRAM, GPU types and price of the
  merged requirement and drops its `CapacityType`, `MinDisk` and `MinRAM`
  (provisioner.go:207-212 fills in the latter two, 246-251 leaves them out).
- README.md:114-116 has the old nodes drained once the replacement serves
  traffic; the drain waits for `loaded_models`, which the old nodes keep set.
- In the ordinary order (registered when destroyed, marked when Ready) no Verda
  volume is marked after its registration, so none is ever reused, unlike
  demandstore.go:506-507 and provider.go:307-308.
- `nextDestroyIn` with a billing period ignores the cooldown (types.go:94-96).
- `MergeRequirements` is "one that satisfies all" for numbers, not for GPU
  types, which it unites.
- `countActiveNodes` (disruptor.go:352-364) counts nodes that are Draining, and on
  a cache that lags, so that two idle nodes in a row take the pool below
  `minNodes` (types.go:109).
- An interruption removes the key of the primary model only.
- Nothing scales a model up to `minReplicas`, which only keeps nodes from being
  destroyed, and nothing brings an always-active model back when the trigger
  for it was lost: the scan looks at demand.

### Bounds

`MaxFaults` bounds failed calls, lost answers and crashes together. Two are
enough for a purchase that is lost twice or a crash during the recovery from a
conflict; two instances for a replacement while an orphan still runs, which is
where GC, agent registration (by claim name) and ledger can go wrong. Claims
only meet in the single reconciler worker and in the GC's lists, and one claim
already fills both; with two claims the state space leaves TLC's reach, and the
theorems cover any number. The liveness run has one instance, so that a claim's
only instance is lost or orphaned; `draining_stuck` shows that its provider's
behaviour matters.

In the coordinator, times are scaled so that their order is the code's: cache
TTL (7 s) longer than the first sleep (2 s), blacklist TTL (60 s) longer than
all sleeps of a call (20 s), broken-host TTL (30 min) the longest; three
attempts have a first, a middle and a last one. One offer per provider is enough
for one to hide the other by cache or blacklist.

In `ModelServing`, a single-model node and a bundle of its model and an
always-active one are what consolidation, floors and the always-active check
need to meet; the bundle's primary model is not the always-active one. The
`MinReplicas` guard needs more than two nodes of a model and is not exercised.

In `Scaling`, `MaxEvents` bounds what happens to the controllers: a request
weighs 3, a pod, a failed call, a restart and the end of a node 2 each, so that
a run has two requests, or three of the others, or one request and one other.
Three claims with room for two nodes let the limit be reached and exceeded.
Two models fit one node; one of them may have two replicas, the other is always
active; one pod sets a VRAM and both set different prices.

In `VerdaVolumes`, two instances are one that leaves a volume and one that takes
it up; two models make a volume fit or not, and so do sizes: none, the default, and
one that is larger. The proofs cover any number.

`scaling`, `volumes` and `model_serving` are checked without deadlock checking:
where the events, instances or claims of the bound are used up, the models stop.

### Fairness

`ClaimLifecycle!Fairness`: a handler that was started goes on (`WF`), the
watch delivers, the GC ticks, and every claim is handled again and again, since
controller-runtime requeues on errors, on watch events and at the ten-hour
resync. `Handle` and `BootstrapTimedOut` have `SF`, as a conflicting write of the
disruption controller can disable them between two attempts. Users, agents,
preemption, idleness and faults have no fairness. `Coordinator!FairSpec`
assumes that every provider request has an answer or a timeout.

`ModelServing!Fairness`: steps in progress go on, the watch delivers, and the
work queues come back to every claim (each pass of an unfinished claim requeues
after 10 to 60 s). A pass that would destroy an idle or annotated node has `SF`,
as the worker may be busy or the cache behind in between. `ScalesDown` supposes
that requests stay away and that GPU API flags an idle node as idle long enough
to be seen.

`Scaling!Fairness`: `SF` for the scan, since Go's `select` takes the ticker's
case again and again although messages compete with it; `WF` for the watch, for the
armed timer, and for each batch, which has a goroutine of its own. Messages,
requests, pods, nodes and restarts have none, so that `DemandServed` holds by
the scan alone.

## Proofs

All theorems hold for any sets and numbers that satisfy the modules' `ASSUME`s.

**ClaimLifecycle.** No safety property is inductive: that a claim's two ids
agree depends on what the handler in progress read before other actors ran.
`IInv` has a part per place where knowledge is kept: `ClaimFacts` (the object,
its cached copy, and who holds the latest version: a copy may be old, but an
annotation or finalizer seen in it is still there), `RecFacts` (what the
reconciler's handler may rely on at each step), `DisFacts`, `WorkerFacts` (a
worker entry has a claim with a finalizer, which `handleDeletion` drops only
after it has tried to remove the entry). Almost every write by another actor
is "gentle": it keeps the annotation, the id and the finalizer, and `GentleRec`
shows that such a write keeps `RecFacts`. `StepFacts` goes through the actions.

| Theorem | Property |
|---|---|
| `Invariance` | `IInv` |
| `TypeCorrect` | `TypeOK` |
| `OneInstancePerClaim` | `IdsAgree` |
| `PhaseImpliesInstance` | `PhaseMatchesInstance` |
| `DeletionCleansDragonfly` | `RemovedLeavesNoWorker` |

**The ledger.** `InstanceLedger` lets an instance be bought, held by the claim it
was bought for, let go, and end; one that came loose is never held again. That
`ClaimLifecycle` keeps to this is not obvious: a claim is written from a copy read
long ago, and the reuse path takes up whatever id the annotation of that copy names.
`LedgerInv` adds to `IInv` what is needed:

- `AgeFacts`: a copy may be behind, but not by any distance (`Behind`). Who reads
  an early phase knows that the claim is at most Bootstrapping or removed, and who
  reads a claim that is not marked for deletion that it is not removed, so that the
  annotation it reads still belongs to a claim that can hold the instance.
- `OwnerFacts`: what a claim names was bought, for that claim.
- `HandlerFacts`: the id a handler is about to record or destroy was bought, and
  the claim it is to be recorded in has no other.
- `GCFacts`: what the GC lists was bought, and what it will destroy, or doom,
  whatever becomes of the claims (`Doomable`) is loose or has ended.

Every step then moves no instance or one, as the ledger allows (`NamesStay`,
`NamesGo`, `InstanceEnds`, `CreateAdvance`, `RecordAdvance`; `ReadAdvance` and
`WriteAdvance` do the rest of the work for all steps that read or write a claim).
`GCSparesClaimed` follows from the ledger, as a loose instance stays loose. It
assumes `WriterKeepsUp`, what the comment of the GC says of its interval
(instancegc.go:17-21): what one sweep sees unregistered is registered, and the watch
has delivered that, before the next. The configurations set it to `TRUE`; in
`LedgerInv` only the last part of `GCFacts` depends on it.

| Theorem | Property |
|---|---|
| `LedgerInvariance` | `LedgerInv` |
| `ClaimsImplementLedger` | `ImplementsLedger` |
| `ClaimedInstancesSpared` | `GCSparesClaimed` |

**Coordinator.** `BrokenHostsAvoided` rests on `broken[k] <= blackLeft[k]`: the
60 s entry of `Add` never replaces a 30 min entry, because the offers of a round
were filtered and nothing calls `BlacklistOffer` during a call. `RetriesSearch`
rests on a call that sleeps having no cached answer of the providers it will
ask; it assumes that the pool names its providers, as `invalidateProviders` does
nothing otherwise. `NoAvailableOfferSkipped` uses it: from the second attempt on,
an available offer is still to be heard of, listed, or tried. It assumes in
addition that there is a retry and that no two offers share a blacklist key, which is
what `shared_offer_id` shows to be needed.

| Theorem | Property |
|---|---|
| `TypeCorrect` | `TypeOK` |
| `BrokenHostsAvoided` | `BrokenNotTried` |
| `RetriesSearch` | `RetriesSeeFreshOffers` |
| `NoAvailableOfferSkipped` | `AvailableTried` |

**ModelServing.** A pass decides on copies and leaves steps to do, between which
the claims change. The invariant says what the two workers may rely on (`DisFacts`,
`RecFacts`): one that still holds the latest version of a claim finds it as it read
it, and the steps that are left belong to a decision that was right then.
`ReadyFacts` says that a Ready claim that nothing hurt runs and is connected, so that
only idleness or a consolidation drain can end it, and the bundle of a mark was Ready.
The proof assumes that there is a claim.

| Theorem | Property |
|---|---|
| `Invariance` | `IInv` of `ModelServingProofs` |
| `TypeCorrect` | `TypeOK` |
| `MarkedByReadyBundle` | `DrainsOnlyAfterReady` |
| `AlwaysActiveNeverDestroyed` | `AlwaysActiveKept` |
| `ClearedNodesStay` | `DrainedOnlyWhileIdle` |

**Scaling.** `LocksAccounted` is inductive with the fact that `claim` is a
function: the locks are the disjoint union of the pending batch, the batches in
progress and the pods served. `PodsAreClaimedOnce` follows, as `ProcessBatch`
takes a batch that is disjoint from `served`. The proof has a lemma per kind of
step; what leaves the provisioner's memory alone is one lemma.

Types and `ClaimFitsPods` need a second invariant, `FitInv`. `ClaimFitsPods` itself
is kept by every step because claims are made by two definitions only and change
nothing but their phase; what has to be shown is that the merged requirement of a
batch, which is never empty, satisfies all its pods (`MergedFits`). The types
rest on `Consolidate`, which adds up the VRAM of two claims found when the scan
began: `MergeMade` says that both were made for a model and still are, as
`CacheFollows` says that the cache is wrong about phases only.

GPUs and VRAM are sums over sets, which the community modules define by a recursive
function. `SumsProofs` proves what they compute for every finite set. The prover
cannot instantiate an induction theorem whose predicate is an operator;
`SubsetInduction` has a set for it and follows from the well-foundedness of strict
inclusion. With it: the recursive function exists (`SumsExist`), does not depend on
the set it was defined for (`SumsAgree`), nor on the order in which elements are
taken (`SumOverRemove`), and grows with the set (`SumOverMonotonic`). All of this
assumes that there are finitely many models and pods.

| Theorem | Property |
|---|---|
| `Invariance` | `IInv` of `ScalingProofs` |
| `LocksAreAccounted` | `LocksAccounted` |
| `PodsAreClaimedOnce` | `PodClaimedOnce` |
| `MergedFits` | – (`MergeRequirements` for all inputs) |
| `FitInvariance` | `FitInv` |
| `TypeCorrect` | `TypeOK` |
| `ClaimsFitTheirPods` | `ClaimFitsPods` |

**VerdaVolumes.** A volume is chosen several steps after its record was written,
by goroutines that overwrite each other's records. The invariant says what a
record may claim wherever it is kept (`Describes`): the instance it names was made
on the volume for its model, a mark means that an instance was Ready there, and a
size is one the volume has. `Persists` names what no step takes back, and
carries these facts over every step that does not write them.

| Theorem | Property |
|---|---|
| `Invariance` | `IInv` of `VerdaVolumesProofs` |
| `TypeCorrect` | `TypeOK` |
| `BootsFromReadyVolumes` | `BootsOnlyFromReady` |
| `SizedVolumesHaveRoom` | `SizedVolumesFit` |

All safety and action properties that the runs find to hold are proved. Only
model-checked is liveness (`OrphansDestroyed`, `DrainingEnds`,
`DeadInstanceNoticed`, `DeletionCompletes`, `CallEnds`, `ScalesDown`, `MarkedEnds`,
`DemandServed`, `BatchProcessed`), which is out of the proof system's reach together
with ENABLED.

## Not modelled

- Postgres rows, events to GPU API (`model_available`, `model_failed`), node
  objects and metrics: nothing in the controller reads them back.
- The phase Hibernated, which nothing sets any more.
- Moments: cooldown, billing cycle, backoff, grace periods and debounce may have
  expired or not whenever they are read; their arithmetic (`nextDestroyIn`,
  `backoffDuration`) is left out.
- The arithmetic of offer filtering and ranking (`Eligible` and `Rank` are
  constants), and which error text falls into which category.
- `maxCostPerHour`: prices are recorded after provisioning only.
- `CapacityType`, `MinDisk`, `MinRAM` and GPU types of pods: `ClaimFitsPods` is about
  GPUs, VRAM and price, and a claim does not carry the first three (see above).
- Several pools: there is one, and `findPool` finds it.
- Reading of requirements from pods, script generation, the health probe, and
  the HTTP clients but for Verda's volumes.
- Code that nothing calls: `internal/controller/binpacking.go`,
  `pkg/provider/selector.go`, and of `demandstore.go` `SetModelLoaded`,
  `SyncLoadedModels`, `GetModelDemand`, `GetGPUVRAM`, `UnregisterVolume`,
  `ListTrackedVolumes`.

## Plan

Modelled in this order: `ClaimLifecycle` with `InstanceLedger`, `Coordinator`,
`ModelServing`, `Scaling`, `VerdaVolumes`. Proved in this order: the safety properties
of each, then the refinement of the ledger and what InstanceGC spares. What could
come next:

1. Abstract specifications for the other components, as `InstanceLedger` is for
   claims: a call of the coordinator, the booking of a pod.
2. More of what holds between nodes and models, with the sums of `SumsProofs`: that a
   bundle is asked for with the VRAM of its models and within `maxBundleVRAMGB`.
