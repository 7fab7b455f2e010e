---------------------------- MODULE ModelServing ----------------------------
(***************************************************************************)
(* Which nodes serve which models, and when a node is given up: the idle   *)
(* detection of internal/controller/disruptor.go, the consolidation drain  *)
(* and the health check of reconciler.go, interruption.go, and the keys    *)
(* they read and write in Dragonfly DB 3 (demandstore.go): demand:{model}, *)
(* gpu_api:model_config, gpu_api:node:{claim}, gpu_api:node_idle:{claim}   *)
(* and loaded_models:{model}.  GPU API, which sets most of these keys, is  *)
(* external.                                                               *)
(*                                                                         *)
(* Each controller has one worker.  A pass reads a claim from the cache,   *)
(* which lags the API server, decides, and then works through a list of    *)
(* steps, with the other workers between any two of them.  A status update *)
(* carries the resourceVersion of the copy that was read and fails with a  *)
(* conflict when it is not the latest (upToDate, as in ClaimLifecycle).    *)
(*                                                                         *)
(* Simplifications:                                                        *)
(*  1. Creation up to Bootstrapping, in ClaimLifecycle, is one phase       *)
(*     "Booting"; deletion of a claim is left out here.                    *)
(*  2. demand:{model} is one flag per model: GPU API counts a request in   *)
(*     it from the queue to its end, and only whether it is positive       *)
(*     matters.                                                            *)
(*  3. Timers (cooldown, billing tick, bootstrap timeout, grace period)    *)
(*     may have expired or not whenever they are read.                     *)
(*  4. Events to GPU API (model_available, model_failed) and provision     *)
(*     triggers change nothing here; Scaling has the triggers.             *)
(*  5. A pass reads its claim and decides in one step: the cache may be as *)
(*     old as the copy would be.  triggerConsolidationDrain lists the      *)
(*     claims and annotates them in one step.                              *)
(*  6. A pass whose provider lookup fails, which does nothing, is no step. *)
(***************************************************************************)
EXTENDS Naturals, Sequences, FiniteSets

CONSTANTS
    Claims,        \* GPUNodeClaims of one pool that may be created, each once
    Models,        \* model ids
    ModelsOf,      \* claimModelIDs of each claim; several for a bundle
    Primary,       \* spec.modelID of each claim
    AlwaysActive,  \* models configured with alwaysActive
    MinReplicas,   \* minReplicas of each model
    MinNodes,      \* scaling.minNodes of the pool
    MaxFaults      \* bound: failed calls, lost instances, lost tunnels, crashes

ASSUME ConstantsAssumption ==
    /\ Claims # {}
    /\ ModelsOf \in [Claims -> SUBSET Models]
    /\ Primary \in [Claims -> Models]
    /\ \A c \in Claims : Primary[c] \in ModelsOf[c]
    /\ AlwaysActive \subseteq Models
    /\ MinReplicas \in [Models -> Nat]
    /\ MinNodes \in Nat
    /\ MaxFaults \in Nat

VARIABLES
    claim,      \* phase, idleSince and drain annotation of each claim
    cache,      \* the informer cache's copy of each claim
    upToDate,   \* per claim, who holds its latest resourceVersion
    instance,   \* state of each claim's instance at its provider
    registered, \* claims with a gpu_api:node key
    demand,     \* models with queued or active requests
    loaded,     \* models with a loaded_models key
    dis,        \* the disruption controller's worker
    rec,        \* the claim reconciler's worker
    sweep,      \* claims the interruption controller is just ending
    faults,     \* faults so far
    hurt        \* history: claims that lost their instance or their tunnel, or
                \* seemed to, or whose always-active flags could not be read

kube    == <<claim, cache, upToDate>>
gpuAPI  == <<registered, demand>>
workers == <<dis, rec, sweep>>
vars == <<kube, instance, gpuAPI, loaded, workers, faults, hurt>>

-----------------------------------------------------------------------------
(* Claims, their copies and who may write them *)

Phases    == {"Absent", "Booting", "Ready", "Draining", "Terminated"}
Claim     == [phase : Phases, idle : BOOLEAN, mark : BOOLEAN]
Absent    == [phase |-> "Absent", idle |-> FALSE, mark |-> FALSE]
Holders   == {"cache", "dis", "rec"}

\* A worker: the claim it handles and the steps left.
Steps  == {"setIdle", "clearIdle", "drain", "destroy", "end", "keys", "ready",
           "endOrRetry", "destroyOrRetry"}
Worker == [claim : Claims, todo : Seq(Steps)]
NoWork == [claim |-> CHOOSE c \in Claims : TRUE, todo |-> <<>>]
Work(c, steps) == IF steps = <<>> THEN NoWork ELSE [claim |-> c, todo |-> steps]
At(w, s) == w.todo # <<>> /\ Head(w.todo) = s
Then(w)  == Work(w.claim, Tail(w.todo))

Init ==
    /\ claim = [c \in Claims |-> Absent]
    /\ cache = claim
    /\ upToDate = [c \in Claims |-> {"cache"}]
    /\ instance = [c \in Claims |-> "running"]
    /\ registered = {}
    /\ demand = {}
    /\ loaded = {}
    /\ dis = NoWork
    /\ rec = NoWork
    /\ sweep = {}
    /\ faults = 0
    /\ hurt = {}

Fault == faults < MaxFaults /\ faults' = faults + 1

\* A worker that has steps to do keeps the resourceVersion of the cached copy.
Hold(who, c, steps) ==
    upToDate' = [upToDate EXCEPT ![c] =
                    IF steps # <<>> /\ "cache" \in @ THEN @ \cup {who} ELSE @]

\* Status().Update by a worker, which then holds the new resourceVersion if it
\* goes on to update the claim again.
UpdateOK(who, c, new, again) ==
    /\ who \in upToDate[c]
    /\ claim' = [claim EXCEPT ![c] = new]
    /\ upToDate' = [upToDate EXCEPT ![c] = IF again THEN {who} ELSE {}]
    /\ UNCHANGED faults

\* The update fails: with a conflict, or because the call is lost.
UpdateErr(who, c) ==
    /\ IF who \in upToDate[c] THEN Fault ELSE UNCHANGED faults
    /\ upToDate' = [upToDate EXCEPT ![c] = @ \ {who}]
    /\ UNCHANGED claim

WatchDeliver(c) ==
    /\ "cache" \notin upToDate[c]
    /\ cache' = [cache EXCEPT ![c] = claim[c]]
    /\ upToDate' = [upToDate EXCEPT ![c] = @ \cup {"cache"}]
    /\ UNCHANGED <<claim, instance, gpuAPI, loaded, workers, faults, hurt>>

\* provisiontrigger.go creates a claim; the rest of the creation is elsewhere.
CreateClaim(c) ==
    /\ claim[c].phase = "Absent"
    /\ claim' = [claim EXCEPT ![c].phase = "Booting"]
    /\ upToDate' = [upToDate EXCEPT ![c] = {}]
    /\ UNCHANGED <<cache, instance, gpuAPI, loaded, workers, faults, hurt>>

-----------------------------------------------------------------------------
(* The providers and GPU API, external *)

\* The agent's tunnel connects: GPU API registers the node and its models.
AgentUp(c) ==
    /\ claim[c].phase # "Absent"
    /\ instance[c] = "running"
    /\ c \notin registered
    /\ registered' = registered \cup {c}
    /\ loaded' = loaded \cup ModelsOf[c]
    /\ UNCHANGED <<kube, instance, demand, workers, faults, hurt>>

\* The tunnel closes although the instance runs.
AgentDown(c) ==
    /\ c \in registered
    /\ Fault
    /\ registered' = registered \ {c}
    /\ hurt' = hurt \cup {c}
    /\ UNCHANGED <<kube, instance, demand, loaded, workers>>

\* An instance stops or is gone, and its tunnel with it.
Stops(c, state) ==
    /\ instance' = [instance EXCEPT ![c] = state]
    /\ registered' = registered \ {c}

\* A preemption or a crash of the host.
InstanceLost(c) ==
    /\ claim[c].phase # "Absent"
    /\ instance[c] = "running"
    /\ Fault
    /\ Stops(c, "stopped") \/ Stops(c, "gone")
    /\ hurt' = hurt \cup {c}
    /\ UNCHANGED <<kube, demand, loaded, workers>>

Wanted(c) == ModelsOf[c] \cap demand # {}

\* Requests for a model come or end; those for an always-active one make no
\* difference to its nodes.
Requests(m) ==
    /\ m \notin AlwaysActive
    /\ demand' = IF m \in demand THEN demand \ {m} ELSE demand \cup {m}
    /\ UNCHANGED <<kube, instance, registered, loaded, workers, faults, hurt>>
-----------------------------------------------------------------------------
(* What the disruption controller sees *)

\* Reads of Dragonfly that fail: the code takes the answer to be "no", or, for
\* the model config, leaves the MinReplicas check out.
Keys == {"active", "demand", "config"}
Reads(c, broken) ==
    IF broken = {} THEN UNCHANGED <<faults, hurt>>
    ELSE Fault /\ hurt' = IF "active" \in broken THEN hurt \cup {c} ELSE hurt

\* Mutant: only the primary model of a bundle is looked up.
IsPrimaryAlwaysActive(c, broken) ==
    "active" \notin broken /\ Primary[c] \in AlwaysActive

IsAnyAlwaysActive(c, broken) ==
    "active" \notin broken /\ ModelsOf[c] \cap AlwaysActive # {}
HasAnyDemand(c, broken) == "demand" \notin broken /\ Wanted(c)

\* countActiveNodes counts Draining claims too, countActiveClaimsForModel does
\* not; both read the cache.
CountActiveNodes ==
    Cardinality({c \in Claims : cache[c].phase \notin {"Absent", "Terminated"}})
CountActiveClaims(m) ==
    Cardinality({c \in Claims : /\ cache[c].phase \in {"Booting", "Ready"}
                                /\ m \in ModelsOf[c]})

\* Mutant: the node in question is not counted.
AtFloorOffByOne(c, broken) ==
    \/ CountActiveNodes - 1 <= MinNodes
    \/ LET m == Primary[c]
       IN  /\ "config" \notin broken
           /\ MinReplicas[m] > 1
           /\ CountActiveClaims(m) <= MinReplicas[m]

AtFloor(c, broken) ==
    \/ CountActiveNodes <= MinNodes
    \/ LET m == Primary[c]
       IN  /\ "config" \notin broken
           /\ MinReplicas[m] > 1
           /\ CountActiveClaims(m) <= MinReplicas[m]

\* The flag is only set for a node that is connected; streams may hold it back.
IsNodeIdle(c) == c \in registered

IsModelLoaded(m) == m \in loaded
RemoveModelLoaded(S) == loaded' = loaded \ S

DestroyWorker == <<"drain", "destroy", "end", "keys">>

-----------------------------------------------------------------------------
(* The disruption controller *)

\* A pass over a claim that is Ready in the cache goes on with these steps.
DisPass(c, steps) ==
    /\ dis = NoWork
    /\ cache[c].phase = "Ready"
    /\ dis' = Work(c, steps)
    /\ Hold("dis", c, steps)
    /\ UNCHANGED <<claim, cache, instance, gpuAPI, loaded, rec, sweep>>

DisInstanceStopped(c) ==
    /\ instance[c] = "stopped"
    /\ DisPass(c, DestroyWorker)
    /\ UNCHANGED <<faults, hurt>>

\* A pass that finds the instance running, with these reads failing.
DisLook(c, broken, steps) ==
    /\ instance[c] = "running"
    /\ Reads(c, broken)
    /\ DisPass(c, steps)

\* The node must stay, has requests or, as GPU API has set no
\* gpu_api:node_idle key for it, may have streams: an idle timestamp that the
\* copy has is cleared.  A pass on an outdated copy may see requests and clear
\* nothing, or try to and fail.
DisKeep(c, broken) ==
    /\ IsAnyAlwaysActive(c, broken) \/ ~cache[c].mark
    /\ DisLook(c, broken, IF cache[c].idle THEN <<"clearIdle">> ELSE <<>>)

\* Mutant: requests for the model hold a consolidation up.
DisDrainMarkedUnlessBusy(c, broken) ==
    /\ cache[c].mark
    /\ ~IsAnyAlwaysActive(c, broken)
    /\ ~HasAnyDemand(c, broken)
    /\ DisLook(c, broken, DestroyWorker)

DisDrainMarked(c, broken) ==
    /\ cache[c].mark
    /\ ~IsAnyAlwaysActive(c, broken)
    /\ DisLook(c, broken, DestroyWorker)

\* handleIdleClaim, for a claim that is neither marked nor busy and that GPU
\* API has flagged as idle
DisIdle(c, broken, steps) ==
    /\ ~cache[c].mark
    /\ ~IsAnyAlwaysActive(c, broken)
    /\ ~HasAnyDemand(c, broken)
    /\ IsNodeIdle(c)
    /\ DisLook(c, broken, steps)

DisBecomesIdle(c, broken) == ~cache[c].idle /\ DisIdle(c, broken, <<"setIdle">>)

\* The cooldown is over, or the billing period nearly so, and neither the pool
\* nor the model is at its floor.  Otherwise the pass does nothing.
DisDestroysIdle(c, broken) ==
    /\ cache[c].idle
    /\ ~AtFloor(c, broken)
    /\ DisIdle(c, broken, DestroyWorker)

DisDecide(c) ==
    \/ DisInstanceStopped(c)
    \/ \E broken \in SUBSET Keys :
          \/ DisKeep(c, broken)
          \/ DisDrainMarked(c, broken)
          \/ DisBecomesIdle(c, broken)
          \/ DisDestroysIdle(c, broken)

\* The two writes of idleSince; their errors are logged or dropped.
DisSetIdle ==
    LET c == dis.claim
    IN  /\ At(dis, "setIdle")
        /\ \/ UpdateOK("dis", c, [claim[c] EXCEPT !.idle = TRUE], FALSE)
           \/ UpdateErr("dis", c)
        /\ dis' = Then(dis)
        /\ UNCHANGED <<cache, instance, gpuAPI, loaded, rec, sweep, hurt>>

DisClearIdle ==
    LET c == dis.claim
    IN  /\ At(dis, "clearIdle")
        /\ \/ UpdateOK("dis", c, [claim[c] EXCEPT !.idle = FALSE], FALSE)
           \/ UpdateErr("dis", c)
        /\ dis' = Then(dis)
        /\ UNCHANGED <<cache, instance, gpuAPI, loaded, rec, sweep, hurt>>

\* destroyWorker: a failed update ends it, a failed DestroyInstance does not.
DisWrite(step, phase) ==
    LET c == dis.claim
    IN  /\ At(dis, step)
        /\ \/ /\ UpdateOK("dis", c, [claim[c] EXCEPT !.phase = phase], phase = "Draining")
              /\ dis' = Then(dis)
           \/ UpdateErr("dis", c) /\ dis' = NoWork
        /\ UNCHANGED <<cache, instance, gpuAPI, loaded, rec, sweep, hurt>>

\* Mutant: a phase that no controller handles here.
DisHibernate == DisWrite("drain", "Hibernated")

\* Mutant: the phase is patched, whatever the copy was.
DisPatchDraining ==
    LET c == dis.claim
    IN  /\ At(dis, "drain")
        /\ claim' = [claim EXCEPT ![c].phase = "Draining"]
        /\ upToDate' = [upToDate EXCEPT ![c] = {"dis"}]
        /\ dis' = Then(dis)
        /\ UNCHANGED <<cache, instance, gpuAPI, loaded, rec, sweep, faults, hurt>>

DisDrain == DisWrite("drain", "Draining")
DisEnd   == DisWrite("end", "Terminated")

DisDestroy ==
    /\ At(dis, "destroy")
    /\ \/ Stops(dis.claim, "gone") /\ UNCHANGED faults
       \/ Fault /\ UNCHANGED <<instance, registered>>
    /\ dis' = Then(dis)
    /\ UNCHANGED <<kube, demand, loaded, rec, sweep, hurt>>

\* RemoveModelLoaded for every model of the claim, whoever else serves it.
DisRemoveKeys ==
    /\ At(dis, "keys")
    /\ \/ RemoveModelLoaded(ModelsOf[dis.claim]) /\ UNCHANGED faults
       \/ Fault /\ UNCHANGED loaded
    /\ dis' = Then(dis)
    /\ UNCHANGED <<kube, instance, gpuAPI, rec, sweep, hurt>>

DisStep == \/ DisSetIdle
           \/ DisClearIdle
           \/ DisDrain
           \/ DisDestroy
           \/ DisEnd
           \/ DisRemoveKeys
-----------------------------------------------------------------------------
(* The claim reconciler *)

\* A pass over a claim that the cache has in this phase goes on with these
\* steps.
RecPass(c, phase, steps) ==
    /\ rec = NoWork
    /\ cache[c].phase = phase
    /\ rec' = Work(c, steps)
    /\ UNCHANGED <<cache, instance, gpuAPI, loaded, dis, sweep>>

\* A pass that writes nothing but, perhaps, in its later steps.
RecDecide(c, phase, steps) ==
    /\ RecPass(c, phase, steps)
    /\ Hold("rec", c, steps)
    /\ UNCHANGED claim

\* IsNodeRegistered answers "no" to a failed read as well.
NodeRegistered(c) == c \in registered /\ UNCHANGED <<faults, hurt>>
NodeNotRegistered(c) ==
    IF c \in registered THEN Fault /\ hurt' = hurt \cup {c}
                        ELSE UNCHANGED <<faults, hurt>>

\* handleBootstrapping: the instance failed; within the grace period the pass
\* does nothing.
RecBootFailed(c) ==
    /\ \/ instance[c] = "gone"    /\ RecDecide(c, "Booting", <<"endOrRetry">>)
       \/ instance[c] = "stopped" /\ RecDecide(c, "Booting", <<"destroy", "endOrRetry">>)
    /\ UNCHANGED <<faults, hurt>>

RecAgentConnected(c) ==
    /\ instance[c] = "running"
    /\ NodeRegistered(c)
    /\ RecDecide(c, "Booting", <<"ready">>)

\* terminateTimedOut; before the timeout the pass does nothing.
RecTimedOut(c) ==
    /\ instance[c] = "running"
    /\ NodeNotRegistered(c)
    /\ RecDecide(c, "Booting", <<"end", "destroy", "keys">>)

\* handleReady: the instance is gone or dead, or its tunnel looks closed.
RecReadyLost(c) ==
    \/ /\ instance[c] = "gone"
       /\ RecDecide(c, "Ready", <<"end", "keys">>)
       /\ UNCHANGED <<faults, hurt>>
    \/ /\ \/ instance[c] = "stopped" /\ UNCHANGED <<faults, hurt>>
          \/ instance[c] = "running" /\ NodeNotRegistered(c)
       /\ RecDecide(c, "Ready", <<"destroy", "end", "keys">>)

IsBundle(c) == Cardinality(ModelsOf[c]) > 1

\* triggerConsolidationDrain: the single-model claims that a bundle replaces.
ToDrain(bundle) ==
    {c \in Claims \ {bundle} : /\ cache[c].phase \in {"Booting", "Ready"}
                               /\ ~IsBundle(c)
                               /\ ModelsOf[c] \subseteq ModelsOf[bundle]
                               /\ ~cache[c].mark}

\* A healthy bundle annotates the claims it replaces, once every model has its
\* key; an annotation fails with a conflict on an outdated copy.
Consolidate(b, phase) ==
    LET drained == {c \in ToDrain(b) : "cache" \in upToDate[c]}
    IN  /\ IsBundle(b)
        /\ instance[b] = "running"
        /\ NodeRegistered(b)
        /\ \A m \in ModelsOf[b] : IsModelLoaded(m)
        /\ drained # {}
        /\ RecPass(b, phase, <<>>)
        /\ claim' = [c \in Claims |-> IF c \in drained
                                      THEN [claim[c] EXCEPT !.mark = TRUE]
                                      ELSE claim[c]]
        /\ upToDate' = [c \in Claims |-> IF c \in drained THEN {} ELSE upToDate[c]]

\* Mutant: as soon as the agent of the bundle is connected.
RecConsolidateEarly(b) == Consolidate(b, "Ready") \/ Consolidate(b, "Booting")

RecConsolidate(b) == Consolidate(b, "Ready")

\* handleDraining resumes a drain, or runs beside the one that is going on.
RecDraining(c) ==
    /\ RecDecide(c, "Draining", <<"destroyOrRetry", "keys", "endOrRetry">>)
    /\ UNCHANGED <<faults, hurt>>

RecLook(c) == \/ RecBootFailed(c)
              \/ RecAgentConnected(c)
              \/ RecTimedOut(c)
              \/ RecReadyLost(c)
              \/ RecConsolidate(c)
              \/ RecDraining(c)

RecReady ==
    LET c == rec.claim
    IN  /\ At(rec, "ready")
        /\ UpdateOK("rec", c, [claim[c] EXCEPT !.phase = "Ready"], FALSE) \/ UpdateErr("rec", c)
        /\ rec' = Then(rec)
        /\ UNCHANGED <<cache, instance, gpuAPI, loaded, dis, sweep, hurt>>

\* The error of the update is dropped by some handlers ("end") and ends others.
RecEnd ==
    LET c == rec.claim
    IN  /\ At(rec, "end") \/ At(rec, "endOrRetry")
        /\ \/ /\ UpdateOK("rec", c, [claim[c] EXCEPT !.phase = "Terminated"], FALSE)
              /\ rec' = Then(rec)
           \/ /\ UpdateErr("rec", c)
              /\ rec' = IF At(rec, "end") THEN Then(rec) ELSE NoWork
        /\ UNCHANGED <<cache, instance, gpuAPI, loaded, dis, sweep, hurt>>

\* An instance that is already gone is reported as destroyed or as not found.
RecDestroy ==
    LET c == rec.claim
    IN  /\ At(rec, "destroy") \/ At(rec, "destroyOrRetry")
        /\ \/ /\ Stops(c, "gone")
              /\ rec' = Then(rec)
              /\ UNCHANGED <<upToDate, faults>>
           \/ /\ Fault
              /\ IF At(rec, "destroy")
                 THEN rec' = Then(rec) /\ UNCHANGED upToDate
                 ELSE rec' = NoWork /\ upToDate' = [upToDate EXCEPT ![c] = @ \ {"rec"}]
              /\ UNCHANGED <<instance, registered>>
        /\ UNCHANGED <<claim, cache, demand, loaded, dis, sweep, hurt>>

HasOtherReadyClaims(m, c) ==
    \E o \in Claims \ {c} : cache[o].phase = "Ready" /\ m \in ModelsOf[o]

RecRemoveKeys ==
    LET c == rec.claim
    IN  /\ At(rec, "keys")
        /\ \/ /\ RemoveModelLoaded({m \in ModelsOf[c] : ~HasOtherReadyClaims(m, c)})
              /\ UNCHANGED faults
           \/ Fault /\ UNCHANGED loaded
        /\ rec' = Then(rec)
        /\ UNCHANGED <<kube, instance, gpuAPI, dis, sweep, hurt>>

RecStep == \/ RecReady
           \/ RecEnd
           \/ RecDestroy
           \/ RecRemoveKeys

-----------------------------------------------------------------------------
(* The interruption controller *)

\* checkForInterruptions finds a stopped instance and handleInterruption ends
\* its claim.  The list was read before the instances were asked for, so the
\* update may conflict; its error is logged.
SweepEnd(c) ==
    /\ sweep = {}
    /\ cache[c].phase \in {"Booting", "Ready"}
    /\ instance[c] = "stopped"
    /\ \/ UpdateOK("cache", c, [claim[c] EXCEPT !.phase = "Terminated"], FALSE)
       \/ UNCHANGED <<claim, upToDate, faults>>
    /\ sweep' = {c}
    /\ UNCHANGED <<cache, instance, gpuAPI, loaded, dis, rec, hurt>>

\* RemoveModelLoaded for spec.modelID, whoever else serves it.
SweepRemoveKey ==
    /\ sweep # {}
    /\ \/ RemoveModelLoaded({Primary[c] : c \in sweep}) /\ UNCHANGED faults
       \/ Fault /\ UNCHANGED loaded
    /\ sweep' = {}
    /\ UNCHANGED <<kube, instance, gpuAPI, dis, rec, hurt>>

-----------------------------------------------------------------------------
(* The process and the whole *)

\* The process restarts: no worker runs and the cache is listed anew.
Crash ==
    /\ Fault
    /\ cache' = claim
    /\ upToDate' = [c \in Claims |-> {"cache"}]
    /\ dis' = NoWork
    /\ rec' = NoWork
    /\ sweep' = {}
    /\ UNCHANGED <<claim, instance, gpuAPI, loaded, hurt>>

Next ==
    \/ \E c \in Claims :
          \/ CreateClaim(c) \/ WatchDeliver(c)
          \/ AgentUp(c) \/ AgentDown(c) \/ InstanceLost(c)
          \/ DisDecide(c) \/ RecLook(c) \/ SweepEnd(c)
    \/ \E m \in Models : Requests(m)
    \/ DisStep
    \/ RecStep
    \/ SweepRemoveKey
    \/ Crash

\* Steps in progress go on and the watch delivers.  The work queues come to the
\* claims again and again, as every pass of an unfinished claim asks for another
\* one and the informer resyncs; timers expire, and GPU API flags a node that
\* has no requests as idle for long enough to be seen (SF: a pass may find the
\* worker busy, the cache behind, or streams on the node, in between).
Fairness ==
    /\ WF_vars(DisStep)
    /\ WF_vars(RecStep \/ \E c \in Claims : RecLook(c))
    /\ WF_vars(SweepRemoveKey)
    /\ \A c \in Claims : WF_vars(WatchDeliver(c))
    /\ WF_vars(\E c \in Claims : DisBecomesIdle(c, {}))
    /\ SF_vars(\E c \in Claims : "cache" \in upToDate[c] /\ DisDestroysIdle(c, {}))
    /\ SF_vars(\E c \in Claims : "cache" \in upToDate[c] /\ DisDrainMarked(c, {}))

Spec == Init /\ [][Next]_vars /\ Fairness

-----------------------------------------------------------------------------
(* Properties *)

\* Types of the state, and the steps each worker can be at.
TypeOK ==
    /\ claim \in [Claims -> Claim]
    /\ cache \in [Claims -> Claim]
    /\ upToDate \in [Claims -> SUBSET Holders]
    /\ instance \in [Claims -> {"running", "stopped", "gone"}]
    /\ registered \subseteq Claims
    /\ demand \subseteq Models
    /\ loaded \subseteq Models
    /\ dis \in Worker
    /\ rec \in Worker
    /\ sweep \subseteq Claims
    /\ faults \in 0..MaxFaults
    /\ hurt \subseteq Claims

ServesAlwaysActive(c) == ModelsOf[c] \cap AlwaysActive # {}

\* "Nodes serving models marked always-active are never destroyed"
\* (README.md:112): a Ready claim with an always-active model, its primary one
\* or not, stays Ready whatever its idle timestamp, its drain annotation and
\* the other claims are and whatever writes fail - unless its instance or its
\* tunnel was lost or looked lost, or the always-active flags of its models
\* could not be read, which the code takes for "no" (disruptor.go:171-175).
AlwaysActiveKept ==
    [][\A c \in Claims : /\ claim[c].phase = "Ready"
                         /\ ServesAlwaysActive(c)
                         /\ c \notin hurt
                         => claim'[c].phase = "Ready"]_vars

\* A claim is only annotated for an immediate drain when a bundle with its
\* model has become Ready (reconciler.go:817-820), stale copies or not.
DrainsOnlyAfterReady ==
    \A c \in Claims : claim[c].mark =>
        \E b \in Claims : /\ IsBundle(b) /\ ModelsOf[c] \subseteq ModelsOf[b]
                          /\ claim[b].phase \notin {"Absent", "Booting"}

\* A drain for idleness, which the disruption controller may have decided on
\* with an old copy and some other passes ago, takes a running node down only
\* while idleSince is recorded: once a pass that found the node in use has got
\* its clearing of idleSince through, no decision made before stands, under
\* lost calls, failed reads and crashes too.  A pass that finds the node in use
\* and clears nothing (on a copy from before the timestamp), fails to, or reads
\* the demand in vain starts no new cooldown, whatever types.go:94 says.
DrainedOnlyWhileIdle ==
    [][\A c \in Claims :
          /\ claim[c].phase = "Ready" /\ claim'[c].phase = "Draining"
          /\ ~claim[c].mark
          /\ instance[c] = "running"
          => claim[c].idle]_vars

\* The nodes that may stay although nobody asks for their models.
MayStay(c) ==
    \/ ServesAlwaysActive(c)
    \/ CountActiveNodes <= MinNodes
    \/ MinReplicas[Primary[c]] > 1 /\ CountActiveClaims(Primary[c]) <= MinReplicas[Primary[c]]

\* Scale to the floor: when requests stay away, in the end every claim has
\* ended but those of always-active models and those the floors keep.
ScalesDown ==
    <>[](demand = {}) =>
        <>[](\A c \in Claims : claim[c].phase \in {"Absent", "Terminated"} \/ MayStay(c))

\* A consolidation ends: an annotated claim is drained to the end, unless it
\* serves an always-active model.
MarkedEnds ==
    []<>(\A c \in Claims : claim[c].mark /\ ~ServesAlwaysActive(c)
                             => claim[c].phase = "Terminated")

\* RemoveModelLoaded "Only deletes if no other Ready claims serve this model"
\* (demandstore.go:312): no step takes the key of a model away while a claim
\* that serves it is Ready, in the cache too, with its instance running and its
\* tunnel up.
KeyKeptWhileServed ==
    [][\A m \in loaded \ loaded' :
          ~\E c \in Claims : /\ claim[c].phase = "Ready"
                             /\ cache[c].phase = "Ready"
                             /\ instance[c] = "running"
                             /\ c \in registered
                             /\ m \in ModelsOf[c]]_vars
=============================================================================
