------------------------------- MODULE Scaling -------------------------------
(***************************************************************************)
(* ProvisionTrigger and ProvisioningController together: two writers of    *)
(* claims that know of each other only through a cache that lags, and      *)
(* lose all they hold in memory when the process restarts.                 *)
(***************************************************************************)
EXTENDS ProvisionTrigger, PodProvisioner

vars == <<world, trigger, provision>>

Init == NodeClaimsInit /\ TriggerInit /\ PodsInit

ClaimStep ==
    WatchDeliver \/ \E i \in Ids : ClaimReady(i) \/ ClaimDrains(i)

RequestStep == \E m \in Models : Forward(m) \/ Answered(m)

PodStep == \E p \in Pods : PodArrives(p) \/ PodLeaves(p)

Restart ==
    /\ Fault
    /\ cache' = claim
    /\ TriggerRestarts
    /\ ProvisionerRestarts
    /\ UNCHANGED <<claim, demand>>

Next ==
    \/ (ClaimStep \/ RequestStep) /\ UNCHANGED <<trigger, provision>>
    \/ \E m \in Models : RequestArrives(m) /\ UNCHANGED provision
    \/ \E i \in Ids : Retriggers(i) /\ UNCHANGED provision
    \/ TriggerStep /\ UNCHANGED provision
    \/ PodStep /\ UNCHANGED trigger
    \/ (\E p \in Pods : Reconcile(p)) /\ UNCHANGED trigger
    \/ BatchStep /\ UNCHANGED trigger
    \/ Restart

Scanning == StartUp \/ Tick \/ ScanEnds \/ \E m \in Models : ScanModel(m)

\* The ticker's case of the select loop is chosen again and again, watches
\* deliver, and a timer that is armed runs its callback to the end, each batch in
\* a goroutine of its own.  Nothing is assumed of requests, pods, messages or the work of other controllers.
Fairness ==
    /\ SF_vars(Scanning /\ UNCHANGED provision)
    /\ WF_vars(WatchDeliver /\ UNCHANGED <<trigger, provision>>)
    /\ WF_vars(BatchFires /\ UNCHANGED trigger)
    /\ \A b \in SUBSET Pods : WF_vars(ProcessBatch(b) /\ UNCHANGED trigger)

Spec == Init /\ [][Next]_vars /\ Fairness

-----------------------------------------------------------------------------

TypeOK == NodeClaimsTypeOK /\ TriggerTypeOK /\ PodsTypeOK

Batched == batch \cup UNION firing

\* A lock of provisioningFor is never left behind and never missing: the locked
\* pods are those of the pending batch, of the batches in progress and of the
\* claims made since the process started, no pod is in two of these, and a
\* batch that waits has a timer (provisioner.go:99-113, 129-259, 346-352).
LocksAccounted ==
    /\ locks = Batched \cup served
    /\ batch \cap UNION firing = {} /\ Batched \cap served = {}
    /\ \A b, c \in firing : b # c => b \cap c = {}
    /\ batch # {} => timer
    /\ timer = due

\* A process makes at most one claim for a pod, however often the pod is
\* reconciled and however late the cache (provisioner.go:97-106, 254-259).
PodClaimedOnce ==
    [][\A i \in Ids : claim'[i] # claim[i] /\ claim[i].phase = "Absent"
          => claim'[i].pods \cap served = {}]_vars

\* The node asked for fits every pod it is asked for: GPUs for all of them
\* together, no less VRAM than any needs, no price above what any allows
\* (matcher.go:93-146, provisioner.go:184-202).
Fits(c) ==
    /\ \A S \in SUBSET c.pods : c.gpus >= SumOver(GPUs, S)
    /\ \A p \in c.pods :
         /\ c.vram >= Requirement[p].vram
         /\ Requirement[p].price > 0 => c.price > 0 /\ c.price <= Requirement[p].price
ClaimFitsPods == \A i \in Ids : Fits(claim[i])

\* Requests for a model do not wait for ever without a node while the pool has
\* room: whatever messages are lost, calls fail or processes restart, the scan
\* of every minute finds them (provisiontrigger.go:54-60, 466-535).
DemandServed ==
    \A m \in Models :
      []<>(demand[m] = "none" \/ CountActive(m) > 0 \/ CountNodes >= MaxNodes
           \/ ~RoomForClaim)

\* A pod in a batch is in time claimed for or unlocked (provisioner.go:107-113,
\* 119-128): no pod is added to a batch that nobody will take.
BatchProcessed == \A p \in Pods : []<>(p \notin Batched)

=============================================================================
