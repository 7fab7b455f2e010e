--------------------------- MODULE PodProvisioner ---------------------------
(***************************************************************************)
(* internal/controller/provisioner.go with internal/scheduler/matcher.go:  *)
(* a worker (Reconcile, one at a time) puts pending GPU pods into a batch  *)
(* and a timer goroutine (processBatch) turns a batch into one claim.      *)
(*                                                                         *)
(* Simplifications:                                                        *)
(*  1. A pod is pending once the scheduler has found it unschedulable, and *)
(*     its requirements do not change.                                     *)
(*  2. processBatch lists the claims and creates one in a single step, as  *)
(*     in ProvisionTrigger; batches are taken before, under the mutex.     *)
(*  3. The batch is a set: a pod is appended to it only with its lock.     *)
(*  4. A pod may be reconciled at any time: which event or requeue brings  *)
(*     it back is left out.                                                *)
(*  5. An instance has one GPU; prices are not added up.                   *)
(*  6. A requirement has GPUs, VRAM and a price.  processBatch copies them *)
(*     and the GPU types into the claim; it drops CapacityType, MinDisk    *)
(*     and MinRAM, which no claim made for pods has.                       *)
(***************************************************************************)
EXTENDS NodeClaims

CONSTANTS
    Requirement, \* gpus, vram and price (0: any) of each pod
    PoolVRAM,    \* requirements.minVRAM of the pool
    MaxGPUs      \* limits.maxGPUs of the pool; 0 means no limit

ASSUME PodsAssumption ==
    /\ Requirement \in [Pods -> [gpus : Nat, vram : Nat, price : Nat]]
    /\ PoolVRAM \in Nat /\ MaxGPUs \in Nat

VARIABLES
    pod,    \* state of each pod
    batch,  \* pendingBatch
    locks,  \* provisioningFor
    timer,  \* batchTimer # nil
    due,    \* the timer's callback has not run yet
    firing, \* batches that processBatch has taken
    served  \* pods this process has made a claim for (history)

provision == <<pod, batch, locks, timer, due, firing, served>>

Pending == {p \in Pods : pod[p] = "pending"}

PodsInit ==
    /\ pod = [p \in Pods |-> "absent"]
    /\ batch = {}
    /\ locks = {}
    /\ timer = FALSE
    /\ due = FALSE
    /\ firing = {}
    /\ served = {}

-----------------------------------------------------------------------------
(* Pods *)

PodArrives(p) ==
    /\ Event(2)
    /\ pod[p] = "absent"
    /\ pod' = [pod EXCEPT ![p] = "pending"]
    /\ UNCHANGED <<claims, demand, batch, locks, timer, due, firing, served>>

\* A pod is scheduled on some node, or deleted.
PodLeaves(p) ==
    /\ p \in Pending
    /\ pod' = [pod EXCEPT ![p] = "gone"]
    /\ UNCHANGED <<world, batch, locks, timer, due, firing, served>>

-----------------------------------------------------------------------------
(* Reconcile *)

\* countActiveClaims and countPendingGPUPods count 0 if the list fails.
SufficientClaims == CountNodes >= Cardinality(Pending)

AddToBatch(p) ==
    /\ batch' = batch \cup {p}
    /\ locks' = locks \cup {p}
    /\ timer' = TRUE
    /\ due' = (due \/ ~timer)

\* The other outcomes leave no trace.
Reconcile(p) ==
    /\ p \in Pending \ locks
    /\ IF SufficientClaims THEN Fault ELSE UNCHANGED events
    /\ AddToBatch(p)
    /\ UNCHANGED <<claims, demand, pod, firing, served>>

-----------------------------------------------------------------------------
(* processBatch *)

\* Mutant: batchTimer is not reset when the batch is taken.
BatchFiresKeepingTimer ==
    /\ due
    /\ due' = FALSE
    /\ firing' = IF batch = {} THEN firing ELSE firing \cup {batch}
    /\ batch' = {}
    /\ UNCHANGED <<world, pod, timer, locks, served>>

BatchFires ==
    /\ due
    /\ due' = FALSE
    /\ timer' = FALSE
    /\ firing' = IF batch = {} THEN firing ELSE firing \cup {batch}
    /\ batch' = {}
    /\ UNCHANGED <<world, pod, locks, served>>

\* The model with most requests, or an always-active one; none if the demands
\* cannot be read.
ModelForPods == IF Wanted \cup AlwaysActive = {} THEN {NoModel}
                                                 ELSE Wanted \cup AlwaysActive
ChooseModel == ModelForPods \cup {NoModel}

\* Otherwise a read failed: the demands are unknown, or no claim is counted.
CorrectReads(m) == IF m \in ModelForPods /\ ~SufficientClaims
                   THEN UNCHANGED events ELSE Fault

\* A claim's GPUs count once its instance is recorded, which a Live claim's may
\* be or not.
GPUsIn(phases) == Cardinality({i \in Ids : cache[i].phase \in phases})
PoolFull(gpus) == CountNodes >= MaxNodes \/ (MaxGPUs > 0 /\ gpus >= MaxGPUs)
PoolMayBeFull  == PoolFull(GPUsIn({"Live", "Ready", "Draining"}))
PoolHasRoom    == ~PoolFull(GPUsIn({"Ready", "Draining"}))

\* MergeRequirements: GPUs add up, the largest VRAM, the lowest price given.
GPUs      == [p \in Pods |-> Requirement[p].gpus]
Prices(b) == {Requirement[p].price : p \in b} \ {0}
\* Mutant: the highest price given.
MergedHighestPrice(b) ==
    [gpus  |-> SumOver(GPUs, b),
     vram  |-> Max({Requirement[p].vram : p \in b}),
     price |-> IF Prices(b) = {} THEN 0 ELSE Max(Prices(b))]

Merged(b) ==
    [gpus  |-> SumOver(GPUs, b),
     vram  |-> Max({Requirement[p].vram : p \in b}),
     price |-> IF Prices(b) = {} THEN 0 ELSE Min(Prices(b))]

\* Mutant: the pool's VRAM is taken off.
PodClaimNetOfPool(b, m) ==
    LET r == Merged(b)
    IN  [NoClaim EXCEPT !.phase = "Live", !.primary = m, !.models = {m} \ {NoModel},
                        !.pods = b, !.gpus = r.gpus, !.price = r.price,
                        !.vram = r.vram - PoolVRAM]

PodClaim(b, m) ==
    LET r == Merged(b)
    IN  [NoClaim EXCEPT !.phase = "Live", !.primary = m, !.models = {m} \ {NoModel},
                        !.pods = b, !.gpus = r.gpus, !.price = r.price,
                        !.vram = IF r.vram = 0 THEN PoolVRAM ELSE r.vram]

ReleaseProvisioningLocks(b) == locks' = locks \ b

\* Mutant: the locks are kept when the pool is full.
BatchFailsKeepingLocks(b) ==
    /\ \/ SufficientClaims /\ ReleaseProvisioningLocks(b) /\ UNCHANGED events
       \/ PoolMayBeFull /\ UNCHANGED <<locks, events>>
       \/ Refused /\ ReleaseProvisioningLocks(b)
    /\ UNCHANGED <<claim, served>>

BatchFails(b) ==
    /\ \/ (SufficientClaims \/ PoolMayBeFull) /\ UNCHANGED events
       \/ Refused
    /\ ReleaseProvisioningLocks(b)
    /\ UNCHANGED <<claim, served>>

\* Mutant: the locks are released after success as well.
BatchSucceedsUnlocking(b) ==
    /\ PoolHasRoom
    /\ \E m \in ChooseModel : CorrectReads(m) /\ Create(PodClaim(b, m))
    /\ served' = served \cup b
    /\ ReleaseProvisioningLocks(b)

BatchSucceeds(b) ==
    /\ PoolHasRoom
    /\ \E m \in ChooseModel : CorrectReads(m) /\ Create(PodClaim(b, m))
    /\ served' = served \cup b
    /\ UNCHANGED locks

ProcessBatch(b) ==
    /\ b \in firing
    /\ BatchFails(b) \/ BatchSucceeds(b)
    /\ firing' = firing \ {b}
    /\ UNCHANGED <<cache, demand, pod, batch, timer, due>>

BatchStep == BatchFires \/ \E b \in SUBSET Pods : ProcessBatch(b)

\* A new process knows of no batch and no lock.
ProvisionerRestarts ==
    /\ batch' = {}
    /\ locks' = {}
    /\ timer' = FALSE
    /\ due' = FALSE
    /\ firing' = {}
    /\ served' = {}
    /\ UNCHANGED pod

PodsTypeOK ==
    /\ pod \in [Pods -> {"absent", "pending", "gone"}]
    /\ batch \subseteq Pods
    /\ locks \subseteq Pods
    /\ timer \in BOOLEAN
    /\ due \in BOOLEAN
    /\ firing \subseteq SUBSET Pods
    /\ served \subseteq Pods

=============================================================================
