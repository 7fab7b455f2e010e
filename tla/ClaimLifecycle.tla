--------------------------- MODULE ClaimLifecycle ---------------------------
(***************************************************************************)
(* The life of GPUNodeClaims and of the provider instances bought for      *)
(* them: internal/controller/reconciler.go (ClaimReconciler),              *)
(* disruptor.go (destroyWorker), interruption.go and instancegc.go, four   *)
(* goroutines of one controller process that share the Kubernetes API      *)
(* server, an informer cache and the provider APIs.                        *)
(*                                                                         *)
(* What makes this hard is kept:                                           *)
(*  - r.Get and r.List read the informer cache, which lags the API server; *)
(*  - r.Update and r.Status().Update carry a resourceVersion and fail with *)
(*    a conflict when it is not the latest, r.Patch (a merge patch) cannot *)
(*    conflict;                                                            *)
(*  - a handler that calls a provider between two API calls is split there *)
(*    and every other actor may run in between;                            *)
(*  - an API write, a provider call or its response, or a write to         *)
(*    Dragonfly may fail, and the process may crash and restart, at most   *)
(*    MaxFaults times in total.                                            *)
(*                                                                         *)
(* Simplifications:                                                        *)
(*  1. A resourceVersion is only ever compared with the latest, so the     *)
(*     model keeps, per claim, who holds the latest version (upToDate).    *)
(*  2. The watch delivers the latest version of a claim, not every         *)
(*     intermediate one.                                                   *)
(*  3. A handler that reads a claim from the cache and writes it with no   *)
(*     external effect in between is one step: the write succeeds only if  *)
(*     nothing changed since the read.                                     *)
(*  4. Timers (grace period, bootstrap timeout, cooldown) may have expired *)
(*     or not whenever they are read.                                      *)
(*  5. Prices, GPU types, conditions and events carry no control and are   *)
(*     left out; what the handlers do to loaded_models, provision triggers *)
(*     and Postgres is not modelled here.                                  *)
(*  6. One controller process runs at a time (leader election).            *)
(***************************************************************************)
EXTENDS Naturals

CONSTANTS
    Claims,         \* GPUNodeClaims that may be created, each once
    Instances,      \* provider instances that may ever be created
    None,           \* "no instance id", "no claim"
    GoneReported,   \* instances of providers whose GetInstance returns
                    \* ErrInstanceNotFound for a destroyed instance
    Redestroyable,  \* instances of providers whose DestroyInstance returns
                    \* nil for a destroyed instance
    Listed,         \* instances of providers that implement ListInstances
    WriterKeepsUp,  \* TRUE: the reconciler registers an instance within one
                    \* GC interval (the assumption of instancegc.go:17-21)
    MaxFaults       \* bound: failed calls, lost responses and crashes

ASSUME ConstantsAssumption ==
    /\ None \notin Claims \cup Instances
    /\ GoneReported \subseteq Instances
    /\ Redestroyable \subseteq Instances
    /\ Listed \subseteq Instances
    /\ WriterKeepsUp \in BOOLEAN
    /\ MaxFaults \in Nat

VARIABLES
    api,        \* claim objects on the API server
    cache,      \* the informer cache's copy of each claim
    upToDate,   \* per claim, who holds its latest resourceVersion
    inst,       \* state of each instance at its provider
    owner,      \* the claim whose name an instance was bootstrapped with
    agent,      \* claims with a gpu_api:node:{claim} key in Dragonfly
    workers,    \* each claim's entry in the gpuscale:workers hash: "none",
                \* "entry", or "missed", an entry that the RemoveWorker of
                \* handleDeletion failed to remove
    rec,        \* the reconciler's worker: the handler it is in, and where
    dis,        \* the disruption controller's worker
    gc,         \* the sweep in progress
    candidates, \* InstanceGC.candidates
    faults      \* faults so far

vars == <<api, cache, upToDate, inst, owner, agent, workers, rec, dis, gc,
          candidates, faults>>
claimVars == <<api, cache, upToDate>>
cloudVars == <<inst, owner>>
gcVars    == <<gc, candidates>>

-----------------------------------------------------------------------------
(* Types *)

InstanceID == Instances \cup {None}
ClaimName  == Claims \cup {None}

\* "Unborn" and "Removed" stand for a claim that is not yet, or no longer, on
\* the API server; "New" is the empty phase of a claim just created.
LivePhases == {"New", "Pending", "Provisioning", "Bootstrapping", "Ready",
               "Draining"}
Phases     == LivePhases \cup {"Terminated", "Unborn", "Removed"}

Claim == [phase: Phases,
          instanceID: InstanceID,   \* status.instanceID
          annotation: InstanceID,   \* annotation gpuscale.io/instance-id
          deleting: BOOLEAN,        \* metadata.deletionTimestamp is set
          finalizer: BOOLEAN,
          provider: BOOLEAN]        \* spec.provider is set

InstanceStates == {"unborn", "up", "dead", "gone"}
Existing       == {"up", "dead"}

Readers  == {"cache", "rec", "dis"}
RecPCs   == {"idle", "admit", "provision", "created", "patched", "respec",
             "record", "publish", "destroy", "write", "cleanup"}
RecPaths == {"none", "bootFailed", "timedOut", "readyLost", "draining",
             "deleting"}
DisPCs   == {"idle", "destroy", "write", "cleanup"}

RecIdle == [pc |-> "idle", path |-> "none", claim |-> None, id |-> None]
DisIdle == [pc |-> "idle", claim |-> None, id |-> None]
GCIdle  == [pc |-> "idle", known |-> {}, doomed |-> {}, orphans |-> {}]

TypeOK ==
    /\ api \in [Claims -> Claim]
    /\ cache \in [Claims -> Claim]
    /\ upToDate \in [Claims -> SUBSET Readers]
    /\ inst \in [Instances -> InstanceStates]
    /\ owner \in [Instances -> ClaimName]
    /\ agent \subseteq Claims
    /\ workers \in [Claims -> {"none", "entry", "missed"}]
    /\ rec \in [pc: RecPCs, path: RecPaths, claim: ClaimName, id: InstanceID]
    /\ dis \in [pc: DisPCs, claim: ClaimName, id: InstanceID]
    /\ gc \in [pc: {"idle", "list", "sweep"}, known: SUBSET Instances,
               doomed: SUBSET Instances, orphans: SUBSET Instances]
    /\ candidates \subseteq Instances
    /\ faults \in 0..MaxFaults

Init ==
    /\ api = [c \in Claims |->
                [phase |-> "Unborn", instanceID |-> None,
                 annotation |-> None, deleting |-> FALSE,
                 finalizer |-> FALSE, provider |-> FALSE]]
    /\ cache = api
    /\ upToDate = [c \in Claims |-> {"cache"}]
    /\ inst = [i \in Instances |-> "unborn"]
    /\ owner = [i \in Instances |-> None]
    /\ agent = {}
    /\ workers = [c \in Claims |-> "none"]
    /\ rec = RecIdle
    /\ dis = DisIdle
    /\ gc = GCIdle
    /\ candidates = {}
    /\ faults = 0

-----------------------------------------------------------------------------
(* The API server, the informer cache and the providers *)

OnServer(claim) == claim.phase \notin {"Unborn", "Removed"}

\* The instances a claim object names.
Names(claim) == {claim.instanceID, claim.annotation} \ {None}

Fault == faults < MaxFaults /\ faults' = faults + 1

\* r.Get: who's copy of c is now the cache's, which may be out of date.
Refetch(who, c) ==
    upToDate' = [upToDate EXCEPT
        ![c] = IF "cache" \in @ THEN @ \cup {who} ELSE @ \ {who}]

\* An Update that carries the resourceVersion held by `by`; `keep` is who
\* still holds the claim afterwards, at the version the server returned.
UpdateOK(by, c, claim, keep) ==
    /\ by \in upToDate[c]
    /\ api' = [api EXCEPT ![c] = claim]
    /\ upToDate' = [upToDate EXCEPT ![c] = keep]
    /\ UNCHANGED <<cache, faults>>

\* An Update that fails: a conflict, or an error of the API server.
UpdateErr(by, c) ==
    /\ IF by \in upToDate[c] THEN Fault ELSE UNCHANGED faults
    /\ upToDate' = [upToDate EXCEPT ![c] = @ \ {"rec"}]
    /\ UNCHANGED <<api, cache>>

\* DestroyInstance. For an instance that is already gone it fails at the
\* providers that answer HTTP 404 with an error (runpod, vastai, verda,
\* tensordock), and never with ErrInstanceNotFound.
DestroyOK(i) ==
    /\ inst[i] \in Existing \/ i \in Redestroyable
    /\ inst' = [inst EXCEPT ![i] = "gone"]
    /\ UNCHANGED <<owner, faults>>

DestroyErr(i) ==
    /\ IF inst[i] \in Existing THEN Fault
       ELSE i \notin Redestroyable /\ UNCHANGED faults
    /\ UNCHANGED cloudVars

\* The watch brings the cache up to date with the API server.
WatchDeliver(c) ==
    /\ "cache" \notin upToDate[c]
    /\ cache' = [cache EXCEPT ![c] = api[c]]
    /\ upToDate' = [upToDate EXCEPT ![c] = @ \cup {"cache"}]
    /\ UNCHANGED <<api, cloudVars, agent, workers, rec, dis, gcVars, faults>>

\* A controller creates the claim, with its finalizer; a user may create one
\* without it, or with the provider already chosen.
CreateClaim(c) ==
    /\ api[c].phase = "Unborn"
    /\ \E finalizer, provider \in BOOLEAN :
         api' = [api EXCEPT ![c].phase = "New",
                            ![c].finalizer = finalizer,
                            ![c].provider = provider]
    /\ upToDate' = [upToDate EXCEPT ![c] = {}]
    /\ UNCHANGED <<cache, cloudVars, agent, workers, rec, dis, gcVars, faults>>

\* A user deletes the claim; with a finalizer it stays, marked.
DeleteClaim(c) ==
    /\ OnServer(api[c]) /\ ~api[c].deleting
    /\ api' = [api EXCEPT ![c].deleting = TRUE,
                          ![c].phase = IF api[c].finalizer THEN @
                                       ELSE "Removed"]
    /\ upToDate' = [upToDate EXCEPT ![c] = {}]
    /\ UNCHANGED <<cache, cloudVars, agent, workers, rec, dis, gcVars, faults>>

\* The provider preempts or loses an instance: it stops and stays listed, or
\* it disappears.
Preempt(i) ==
    /\ \/ inst[i] = "up" /\ inst' = [inst EXCEPT ![i] = "dead"]
       \/ inst[i] \in Existing /\ inst' = [inst EXCEPT ![i] = "gone"]
    /\ UNCHANGED <<claimVars, owner, agent, workers, rec, dis, gcVars, faults>>

\* gpu-agent on an instance opens its tunnel and GPU API registers the node
\* under the claim name it was bootstrapped with; the tunnel may close. (A read
\* of the key that fails counts as "not registered" in IsNodeRegistered: the
\* same as a tunnel that closes and opens again around the read.)
AgentUp(c) ==
    /\ c \notin agent
    /\ \E i \in Instances : inst[i] = "up" /\ owner[i] = c
    /\ agent' = agent \cup {c}
    /\ UNCHANGED <<claimVars, cloudVars, workers, rec, dis, gcVars, faults>>

AgentDown(c) ==
    /\ c \in agent
    /\ agent' = agent \ {c}
    /\ UNCHANGED <<claimVars, cloudVars, workers, rec, dis, gcVars, faults>>

\* The process dies and restarts: in-memory state is lost and the informer
\* lists every claim before the controllers start.
Crash ==
    /\ Fault
    /\ rec' = RecIdle /\ dis' = DisIdle /\ gc' = GCIdle /\ candidates' = {}
    /\ cache' = api
    /\ upToDate' = [c \in Claims |-> {"cache"}]
    /\ UNCHANGED <<api, cloudVars, agent, workers>>

Environment ==
    \/ \E c \in Claims : CreateClaim(c) \/ DeleteClaim(c) \/ AgentUp(c)
                         \/ AgentDown(c) \/ WatchDeliver(c)
    \/ \E i \in Instances : Preempt(i)
    \/ Crash

-----------------------------------------------------------------------------
(* ClaimReconciler *)

Reconciling(c, phase) ==
    /\ rec.pc = "idle"
    /\ cache[c].phase = phase
    /\ ~cache[c].deleting

\* GetInstance on the claim's instance answers, and the state is one of these.
InstanceIs(c, states) ==
    cache[c].instanceID # None /\ inst[cache[c].instanceID] \in states

\* ... or answers ErrInstanceNotFound.
InstanceNotFound(c) ==
    InstanceIs(c, {"gone"}) /\ cache[c].instanceID \in GoneReported

Goto(pc, path, c, i) ==
    rec' = [pc |-> pc, path |-> path, claim |-> c, id |-> i]

RecUnchanged == UNCHANGED <<dis, gcVars, agent>>

\* Reconcile on a new claim: add the finalizer ...
AddFinalizer(c) ==
    /\ Reconciling(c, "New") /\ ~cache[c].finalizer
    /\ UpdateOK("cache", c, [api[c] EXCEPT !.finalizer = TRUE], {"rec"})
    /\ Goto("admit", "none", c, None)
    /\ UNCHANGED <<cloudVars, workers>> /\ RecUnchanged

\* ... and set the phase, in the same pass or, after an error, in a later one.
SetPending(c) ==
    /\ \/ /\ rec.pc = "admit" /\ rec.claim = c
          /\ \/ UpdateOK("rec", c, [api[c] EXCEPT !.phase = "Pending"], {})
             \/ UpdateErr("rec", c)
       \/ /\ Reconciling(c, "New") /\ cache[c].finalizer
          /\ UpdateOK("cache", c, [api[c] EXCEPT !.phase = "Pending"], {})
    /\ rec' = RecIdle
    /\ UNCHANGED <<cloudVars, workers>> /\ RecUnchanged

\* handlePending, an earlier attempt's instance is in the annotation: reuse it.
ReuseInstance(c) ==
    /\ Reconciling(c, "Pending") /\ cache[c].annotation # None
    /\ Goto("patched", "none", c, cache[c].annotation)
    /\ UNCHANGED <<claimVars, cloudVars, workers, faults>> /\ RecUnchanged

\* Mutants: buy although an earlier attempt is in the annotation; buy without
\* moving to Provisioning first.
ProvisionAgain(c) ==
    /\ Reconciling(c, "Pending")
    /\ UpdateOK("cache", c, [api[c] EXCEPT !.phase = "Provisioning"], {"rec"})
    /\ Goto("provision", "none", c, None)
    /\ UNCHANGED <<cloudVars, workers>> /\ RecUnchanged

ProvisionUnclaimed(c) ==
    /\ Reconciling(c, "Pending") /\ cache[c].annotation = None
    /\ Goto("provision", "none", c, None)
    /\ UNCHANGED <<claimVars, cloudVars, workers, faults>> /\ RecUnchanged

\* handlePending, no instance yet: claim the right to buy one by moving to
\* Provisioning, which a stale read cannot do.
StartProvisioning(c) ==
    /\ Reconciling(c, "Pending") /\ cache[c].annotation = None
    /\ UpdateOK("cache", c, [api[c] EXCEPT !.phase = "Provisioning"], {"rec"})
    /\ Goto("provision", "none", c, None)
    /\ UNCHANGED <<cloudVars, workers>> /\ RecUnchanged

\* Coordinator.ProvisionInstance: an attempt reaches the provider, which
\* creates the instance ...
CreateInstance(i) ==
    /\ rec.pc = "provision"
    /\ inst[i] = "unborn"
    /\ inst' = [inst EXCEPT ![i] = "up"]
    /\ owner' = [owner EXCEPT ![i] = rec.claim]
    /\ Goto("created", "none", rec.claim, i)
    /\ UNCHANGED <<claimVars, workers, faults>> /\ RecUnchanged

\* ... but the response is lost (HTTP timeout): the coordinator counts the
\* attempt as failed and goes on to its next offer.
LoseResponse ==
    /\ rec.pc = "created"
    /\ Fault
    /\ Goto("provision", "none", rec.claim, None)
    /\ UNCHANGED <<claimVars, cloudVars, workers>> /\ RecUnchanged

\* ProvisionInstance returns an error: back to Pending on a re-read claim.
ProvisionFailed ==
    /\ rec.pc = "provision"
    /\ LET c == rec.claim IN
         \/ ~OnServer(cache[c]) /\ UNCHANGED <<claimVars, faults>>
         \/ OnServer(cache[c]) /\
              \/ UpdateOK("cache", c, [api[c] EXCEPT !.phase = "Pending"], {})
              \/ UpdateErr("cache", c)
    /\ rec' = RecIdle
    /\ UNCHANGED <<cloudVars, workers>> /\ RecUnchanged

\* The merge patch that persists the instance id cannot conflict, but it may
\* fail; the handler goes on either way.
PatchAnnotation ==
    /\ rec.pc = "created"
    /\ LET c == rec.claim IN
         \/ /\ OnServer(api[c])
            /\ api' = [api EXCEPT ![c].annotation = rec.id]
            /\ upToDate' = [upToDate EXCEPT ![c] = {}]
            /\ UNCHANGED <<cache, faults>>
         \/ /\ IF OnServer(api[c]) THEN Fault ELSE UNCHANGED faults
            /\ UNCHANGED claimVars
    /\ Goto("patched", "none", rec.claim, rec.id)
    /\ UNCHANGED <<cloudVars, workers>> /\ RecUnchanged

\* Re-fetch the claim, and write spec.provider if it is not set.
RefetchClaim ==
    /\ rec.pc = "patched"
    /\ LET c == rec.claim IN
         \/ /\ ~OnServer(cache[c])
            /\ rec' = RecIdle
            /\ UNCHANGED <<claimVars, faults>>
         \/ /\ OnServer(cache[c]) /\ cache[c].provider
            /\ Refetch("rec", c)
            /\ Goto("record", "none", c, rec.id)
            /\ UNCHANGED <<api, cache, faults>>
         \/ /\ OnServer(cache[c]) /\ ~cache[c].provider
            /\ \/ /\ UpdateOK("cache", c, [api[c] EXCEPT !.provider = TRUE], {})
                  /\ Goto("respec", "none", c, rec.id)
               \/ /\ UpdateErr("cache", c)
                  /\ rec' = RecIdle
    /\ UNCHANGED <<cloudVars, workers>> /\ RecUnchanged

\* The second re-fetch, after the spec update.
RefetchAgain ==
    /\ rec.pc = "respec"
    /\ LET c == rec.claim IN
         IF OnServer(cache[c])
         THEN Refetch("rec", c) /\ Goto("record", "none", c, rec.id)
         ELSE rec' = RecIdle /\ UNCHANGED upToDate
    /\ UNCHANGED <<api, cache, cloudVars, workers, faults>> /\ RecUnchanged

\* The status update that records the instance and moves to Bootstrapping.
RecordInstance ==
    /\ rec.pc = "record"
    /\ LET c == rec.claim IN
         \/ UpdateOK("rec", c, [api[c] EXCEPT !.phase = "Bootstrapping",
                                              !.instanceID = rec.id], {})
         \/ UpdateErr("rec", c)
    /\ rec' = RecIdle
    /\ UNCHANGED <<cloudVars, workers>> /\ RecUnchanged

\* Mutant: resume from the annotation without copying it to the status.
ResumeFromAnnotation(c) ==
    /\ Reconciling(c, "Provisioning")
    /\ UpdateOK("cache", c,
                [api[c] EXCEPT !.phase = IF Names(api[c]) # {}
                                         THEN "Bootstrapping" ELSE "Pending"],
                {})
    /\ rec' = RecIdle
    /\ UNCHANGED <<cloudVars, workers>> /\ RecUnchanged

\* handleProvisioning: an earlier pass did not finish. Resume from what it
\* left: the status, the annotation, or nothing (both lead to Pending).
HandleProvisioning(c) ==
    /\ Reconciling(c, "Provisioning")
    /\ UpdateOK("cache", c,
                [api[c] EXCEPT !.phase = IF api[c].instanceID # None
                                         THEN "Bootstrapping" ELSE "Pending"],
                {})
    /\ rec' = RecIdle
    /\ UNCHANGED <<cloudVars, workers>> /\ RecUnchanged

Terminate(claim) == [claim EXCEPT !.phase = "Terminated"]

\* handleBootstrapping, the provider no longer has the instance.
BootstrapGone(c) ==
    /\ Reconciling(c, "Bootstrapping")
    /\ InstanceNotFound(c)
    /\ UpdateOK("cache", c, Terminate(api[c]), {})
    /\ Goto("cleanup", "none", c, None)
    /\ UNCHANGED <<cloudVars, workers>> /\ RecUnchanged

\* handleBootstrapping, the instance failed (past the grace period, or with a
\* fatal error): destroy it first.
BootstrapFailed(c) ==
    /\ Reconciling(c, "Bootstrapping")
    /\ InstanceIs(c, {"dead"})
    /\ Refetch("rec", c)
    /\ Goto("destroy", "bootFailed", c, cache[c].instanceID)
    /\ UNCHANGED <<api, cache, faults, cloudVars, workers>> /\ RecUnchanged

\* terminateTimedOut sets Terminated, ignoring an error, and then destroys.
BootstrapTimedOut(c) ==
    /\ Reconciling(c, "Bootstrapping")
    /\ InstanceIs(c, {"up"}) /\ c \notin agent
    /\ \/ UpdateOK("cache", c, Terminate(api[c]), {})
       \/ UpdateErr("cache", c)
    /\ Goto("destroy", "timedOut", c, cache[c].instanceID)
    /\ UNCHANGED <<cloudVars, workers>> /\ RecUnchanged

\* handleBootstrappingStandalone: the agent is connected. Ready, then publish.
BecomeReady(c) ==
    /\ Reconciling(c, "Bootstrapping")
    /\ InstanceIs(c, {"up"}) /\ c \in agent
    /\ UpdateOK("cache", c, [api[c] EXCEPT !.phase = "Ready"], {})
    /\ Goto("publish", "none", c, None)
    /\ UNCHANGED <<cloudVars, workers>> /\ RecUnchanged

\* A failed HSET is logged.
SetWorker ==
    /\ rec.pc = "publish"
    /\ \/ workers' = [workers EXCEPT ![rec.claim] = "entry"] /\ UNCHANGED faults
       \/ Fault /\ UNCHANGED workers
    /\ rec' = RecIdle
    /\ UNCHANGED <<claimVars, cloudVars>> /\ RecUnchanged

\* Mutant: believe the agent's key rather than the provider.
ReadyGoneIfDisconnected(c) ==
    /\ Reconciling(c, "Ready") /\ c \notin agent
    /\ InstanceNotFound(c)
    /\ \/ UpdateOK("cache", c, Terminate(api[c]), {})
       \/ UpdateErr("cache", c)
    /\ Goto("cleanup", "none", c, None)
    /\ UNCHANGED <<cloudVars, workers>> /\ RecUnchanged

\* handleReady, the provider no longer has the instance. A failed status
\* update is ignored.
ReadyGone(c) ==
    /\ Reconciling(c, "Ready")
    /\ InstanceNotFound(c)
    /\ \/ UpdateOK("cache", c, Terminate(api[c]), {})
       \/ UpdateErr("cache", c)
    /\ Goto("cleanup", "none", c, None)
    /\ UNCHANGED <<cloudVars, workers>> /\ RecUnchanged

\* handleReady, the instance died or its agent is not connected: destroy it.
ReadyLost(c) ==
    /\ Reconciling(c, "Ready")
    /\ \/ InstanceIs(c, {"dead"})
       \/ InstanceIs(c, {"up"}) /\ c \notin agent
    /\ Refetch("rec", c)
    /\ Goto("destroy", "readyLost", c, cache[c].instanceID)
    /\ UNCHANGED <<api, cache, faults, cloudVars, workers>> /\ RecUnchanged

\* Mutant: resume a drain only while there is an instance to destroy.
ResumeDrainingIfUp(c) ==
    /\ Reconciling(c, "Draining") /\ InstanceIs(c, Existing)
    /\ Refetch("rec", c)
    /\ Goto("destroy", "draining", c, cache[c].instanceID)
    /\ UNCHANGED <<api, cache, faults, cloudVars, workers>> /\ RecUnchanged

\* handleDraining: resume a drain that was interrupted.
ResumeDraining(c) ==
    /\ Reconciling(c, "Draining")
    /\ Refetch("rec", c)
    /\ Goto(IF cache[c].instanceID = None THEN "cleanup" ELSE "destroy",
            "draining", c, cache[c].instanceID)
    /\ UNCHANGED <<api, cache, faults, cloudVars, workers>> /\ RecUnchanged

\* Mutants: drop the finalizer without the Dragonfly clean-up; wait for an
\* instance id before the finalizer is dropped.
HandleDeletionNoCleanup(c) ==
    /\ rec.pc = "idle"
    /\ OnServer(cache[c]) /\ cache[c].deleting
    /\ UpdateOK("cache", c, [api[c] EXCEPT !.finalizer = FALSE,
                                           !.phase = "Removed"], {})
    /\ UNCHANGED <<rec, cloudVars, workers>> /\ RecUnchanged

HandleDeletionOfInstance(c) ==
    /\ rec.pc = "idle"
    /\ OnServer(cache[c]) /\ cache[c].deleting /\ cache[c].instanceID # None
    /\ Refetch("rec", c)
    /\ Goto("destroy", "deleting", c, cache[c].instanceID)
    /\ UNCHANGED <<api, cache, faults, cloudVars, workers>> /\ RecUnchanged

\* handleDeletion: only status.instanceID is looked at.
HandleDeletion(c) ==
    /\ rec.pc = "idle"
    /\ OnServer(cache[c]) /\ cache[c].deleting
    /\ Refetch("rec", c)
    /\ Goto(IF cache[c].instanceID = None THEN "cleanup" ELSE "destroy",
            "deleting", c, cache[c].instanceID)
    /\ UNCHANGED <<api, cache, faults, cloudVars, workers>> /\ RecUnchanged

\* The provider call of those handlers. Only handleDraining stops on an
\* error (it requeues). terminateTimedOut has written the status already;
\* handleDraining and handleDeletion clean up first and write last.
AfterDestroy ==
    Goto(IF rec.path \in {"bootFailed", "readyLost"} THEN "write" ELSE "cleanup",
         rec.path, rec.claim, None)

RecDestroy ==
    /\ rec.pc = "destroy"
    /\ \/ DestroyOK(rec.id) /\ AfterDestroy
       \/ /\ DestroyErr(rec.id)
          /\ IF rec.path = "draining" THEN rec' = RecIdle ELSE AfterDestroy
    /\ UNCHANGED <<claimVars, workers>> /\ RecUnchanged

\* The status update after the destroy: Terminated, and then the Dragonfly
\* clean-up. handleBootstrapping retries on an error, handleReady ignores it.
WriteTerminated ==
    /\ rec.pc = "write" /\ rec.path \in {"bootFailed", "readyLost"}
    /\ LET c == rec.claim IN
         \/ /\ UpdateOK("rec", c, Terminate(api[c]), {})
            /\ Goto("cleanup", "none", c, None)
         \/ /\ UpdateErr("rec", c)
            /\ IF rec.path = "bootFailed" THEN rec' = RecIdle
               ELSE Goto("cleanup", "none", c, None)
    /\ UNCHANGED <<cloudVars, workers>> /\ RecUnchanged

\* The Dragonfly clean-up. A failed HDEL is dropped, and the handler goes on.
RemoveWorker ==
    /\ rec.pc = "cleanup"
    /\ LET c == rec.claim IN
         \/ workers' = [workers EXCEPT ![c] = "none"] /\ UNCHANGED faults
         \/ /\ Fault
            /\ workers' = [workers EXCEPT
                  ![c] = IF @ = "entry" /\ rec.path = "deleting" THEN "missed" ELSE @]
    /\ IF rec.path \in {"draining", "deleting"}
       THEN Goto("write", rec.path, rec.claim, None)
       ELSE rec' = RecIdle
    /\ UNCHANGED <<claimVars, cloudVars>> /\ RecUnchanged

\* The last write of handleDraining and handleDeletion.
WriteLast ==
    /\ rec.pc = "write" /\ rec.path \in {"draining", "deleting"}
    /\ LET c    == rec.claim
           done == IF rec.path = "draining" THEN Terminate(api[c])
                   ELSE [api[c] EXCEPT !.finalizer = FALSE,
                                       !.phase = "Removed"]
       IN  UpdateOK("rec", c, done, {}) \/ UpdateErr("rec", c)
    /\ rec' = RecIdle
    /\ UNCHANGED <<cloudVars, workers>> /\ RecUnchanged

Handle(c) ==
    \/ AddFinalizer(c) \/ SetPending(c)
    \/ ReuseInstance(c) \/ StartProvisioning(c) \/ HandleProvisioning(c)
    \/ BootstrapGone(c) \/ BootstrapFailed(c) \/ BecomeReady(c)
    \/ ReadyGone(c) \/ ReadyLost(c) \/ ResumeDraining(c) \/ HandleDeletion(c)

ContinueHandler ==
    \/ \E i \in Instances : CreateInstance(i)
    \/ LoseResponse \/ ProvisionFailed \/ PatchAnnotation \/ RefetchClaim
    \/ RefetchAgain \/ RecordInstance \/ SetWorker \/ RecDestroy
    \/ WriteTerminated \/ RemoveWorker \/ WriteLast

ClaimReconciler ==
    \/ \E c \in Claims : Handle(c) \/ BootstrapTimedOut(c)
    \/ ContinueHandler

-----------------------------------------------------------------------------
(* DisruptionController *)

DisUnchanged == UNCHANGED <<rec, gcVars, agent>>

\* reconcileStandalone on a Ready claim whose instance exists: a write of
\* status.idleSince, that only moves the resourceVersion ...
TouchIdleSince(c) ==
    /\ dis.pc = "idle" /\ cache[c].phase = "Ready"
    /\ InstanceIs(c, {"up"})
    /\ UpdateOK("cache", c, api[c], {})
    /\ UNCHANGED <<cloudVars, workers, dis>> /\ DisUnchanged

\* Mutant: stop the instance and keep it, as the Hibernated policy once did.
StartHibernating(c) ==
    /\ dis.pc = "idle" /\ cache[c].phase = "Ready"
    /\ InstanceIs(c, Existing)
    /\ UpdateOK("cache", c, [api[c] EXCEPT !.phase = "Hibernated"], {"dis"})
    /\ dis' = [pc |-> "destroy", claim |-> c, id |-> cache[c].instanceID]
    /\ UNCHANGED <<cloudVars, workers>> /\ DisUnchanged

\* ... or destroyWorker: the instance died, a consolidation drain was asked
\* for, or the node was idle long enough. Draining comes first.
StartDraining(c) ==
    /\ dis.pc = "idle" /\ cache[c].phase = "Ready"
    /\ InstanceIs(c, Existing)
    /\ UpdateOK("cache", c, [api[c] EXCEPT !.phase = "Draining"], {"dis"})
    /\ dis' = [pc |-> "destroy", claim |-> c, id |-> cache[c].instanceID]
    /\ UNCHANGED <<cloudVars, workers>> /\ DisUnchanged

\* An error of the provider is logged and ignored.
DisDestroy ==
    /\ dis.pc = "destroy"
    /\ DestroyOK(dis.id) \/ DestroyErr(dis.id)
    /\ dis' = [dis EXCEPT !.pc = "write"]
    /\ UNCHANGED <<claimVars, workers>> /\ DisUnchanged

\* Terminated with the copy held since Draining; an error ends the pass.
DisWriteTerminated ==
    /\ dis.pc = "write"
    /\ LET c == dis.claim IN
         \/ /\ UpdateOK("dis", c, Terminate(api[c]), {})
            /\ dis' = [dis EXCEPT !.pc = "cleanup"]
         \/ /\ IF "dis" \in upToDate[c] THEN Fault ELSE UNCHANGED faults
            /\ upToDate' = [upToDate EXCEPT ![c] = @ \ {"dis"}]
            /\ dis' = DisIdle
            /\ UNCHANGED <<api, cache>>
    /\ UNCHANGED <<cloudVars, workers>> /\ DisUnchanged

DisRemoveWorker ==
    /\ dis.pc = "cleanup"
    /\ \/ workers' = [workers EXCEPT ![dis.claim] = "none"] /\ UNCHANGED faults
       \/ Fault /\ UNCHANGED workers
    /\ dis' = DisIdle
    /\ UNCHANGED <<claimVars, cloudVars>> /\ DisUnchanged

ContinueDraining == DisDestroy \/ DisWriteTerminated \/ DisRemoveWorker

DisruptionController ==
    \/ \E c \in Claims : TouchIdleSince(c) \/ StartDraining(c)
    \/ ContinueDraining

-----------------------------------------------------------------------------
(* InterruptionController: the instance is there but no longer running. It   *)
(* neither destroys the instance nor removes the worker entry.               *)

Interrupt(c) ==
    /\ cache[c].phase \in {"Ready", "Bootstrapping", "Provisioning"}
    /\ InstanceIs(c, {"dead"})
    /\ UpdateOK("cache", c, Terminate(api[c]), {})
    /\ UNCHANGED <<cloudVars, workers, rec, dis, gcVars, agent>>

-----------------------------------------------------------------------------
(* InstanceGC *)

GCUnchanged == UNCHANGED <<claimVars, agent, workers, rec, dis>>

Live(claim) == OnServer(claim) /\ claim.phase # "Terminated"

\* The instances named by a claim that is not Terminated.
NamedIn(view) == UNION {Names(view[c]) : c \in {d \in Claims : Live(view[d])}}

\* Where the reconciler still has to record the instance it holds.
RecordingPCs == {"created", "patched", "respec", "record"}

\* The timing argument of instancegc.go:17-21: between two sweeps the
\* reconciler has had the time to write, and the watch to deliver, the
\* annotation of an instance that the first of them saw.
GraceElapsed ==
    \A i \in candidates :
        /\ ~(rec.pc \in RecordingPCs /\ rec.id = i)
        /\ i \in NamedIn(api) => i \in NamedIn(cache)

\* sweep: collect the known instances from the cache ...
GCCollectKnown ==
    /\ gc.pc = "idle"
    /\ WriterKeepsUp => GraceElapsed
    /\ gc' = [GCIdle EXCEPT !.pc = "list", !.known = NamedIn(cache)]
    /\ UNCHANGED <<cloudVars, candidates, faults>> /\ GCUnchanged

\* Mutant: destroy what is unknown in the first sweep that sees it.
GCSweepOnce ==
    /\ gc.pc = "list"
    /\ gc' = [GCIdle EXCEPT
                 !.pc = "sweep",
                 !.doomed = {i \in Listed : inst[i] \in Existing} \ gc.known]
    /\ UNCHANGED <<cloudVars, candidates, faults>> /\ GCUnchanged

\* ... then list the providers: an unknown instance is doomed if it was a
\* candidate, and else a candidate for the next sweep. A provider that
\* cannot be listed is skipped.
GCListInstances ==
    /\ gc.pc = "list"
    /\ LET unknown == {i \in Listed : inst[i] \in Existing} \ gc.known IN
         \/ /\ gc' = [GCIdle EXCEPT !.pc = "sweep",
                                    !.doomed = unknown \cap candidates,
                                    !.orphans = unknown \ candidates]
            /\ UNCHANGED faults
         \/ /\ Fault
            /\ gc' = [GCIdle EXCEPT !.pc = "sweep"]
    /\ UNCHANGED <<cloudVars, candidates>> /\ GCUnchanged

\* Destroy a doomed instance, or keep it as a candidate on an error.
GCDestroy(i) ==
    /\ gc.pc = "sweep" /\ i \in gc.doomed
    /\ \/ DestroyOK(i) /\ gc' = [gc EXCEPT !.doomed = @ \ {i}]
       \/ DestroyErr(i) /\ gc' = [gc EXCEPT !.doomed = @ \ {i},
                                            !.orphans = @ \cup {i}]
    /\ UNCHANGED candidates /\ GCUnchanged

\* Mutant: the candidates are not advanced.
GCForget ==
    /\ gc.pc = "sweep" /\ gc.doomed = {}
    /\ gc' = GCIdle
    /\ UNCHANGED <<cloudVars, candidates, faults>> /\ GCUnchanged

GCFinish ==
    /\ gc.pc = "sweep" /\ gc.doomed = {}
    /\ candidates' = gc.orphans
    /\ gc' = GCIdle
    /\ UNCHANGED <<cloudVars, faults>> /\ GCUnchanged

InstanceGC ==
    \/ GCCollectKnown \/ GCListInstances \/ GCFinish
    \/ \E i \in Instances : GCDestroy(i)

-----------------------------------------------------------------------------

Next ==
    \/ Environment
    \/ ClaimReconciler
    \/ DisruptionController
    \/ \E c \in Claims : Interrupt(c)
    \/ InstanceGC

Spec == Init /\ [][Next]_vars

(* A worker finishes the handler it started; the watch delivers; every claim *)
(* is reconciled again and again (requeue, watch event, resync); the GC      *)
(* ticks. Nothing is assumed of users, agents, preemption, idleness or       *)
(* faults. SF where the two controllers' writes can make each other conflict.*)
Fairness ==
    /\ \A c \in Claims :
         /\ WF_vars(WatchDeliver(c))
         /\ SF_vars(Handle(c))
         /\ SF_vars(BootstrapTimedOut(c))
    /\ WF_vars(ContinueHandler)
    /\ WF_vars(ContinueDraining)
    /\ WF_vars(GCCollectKnown)
    /\ WF_vars(GCListInstances)
    /\ WF_vars(\E i \in Instances : GCDestroy(i))
    /\ WF_vars(GCFinish)

FairSpec == Spec /\ Fairness

-----------------------------------------------------------------------------
(* Properties *)

\* The instance is running and the reconciler still has to record it.
BeingRecorded(i) == rec.pc \in RecordingPCs /\ rec.id = i

(* The annotation and the status of a claim never name two different         *)
(* instances: a retry of handlePending takes up the instance of the attempt  *)
(* before it instead of recording another one.                               *)
IdsAgree ==
    \A c \in Claims :
        \/ api[c].instanceID = None
        \/ api[c].annotation = None
        \/ api[c].instanceID = api[c].annotation

(* Exactly the phases from Bootstrapping on have an instance in the status,  *)
(* whatever the order in which updates, patches and conflicts came: the      *)
(* controllers that skip a claim without status.instanceID skip no claim     *)
(* that reached Bootstrapping, and a claim with one never buys again.        *)
PhaseMatchesInstance ==
    \A c \in Claims :
        /\ api[c].phase \in {"Bootstrapping", "Ready", "Draining"} =>
             api[c].instanceID # None
        /\ api[c].phase \in {"New", "Pending", "Provisioning"} =>
             api[c].instanceID = None

(* InstanceGC never has a running instance on its list to destroy while a    *)
(* live claim names it or the reconciler is about to record it, as long as   *)
(* the reconciler registers instances within one GC interval: two sweeps are *)
(* enough (instancegc.go:17-21).                                             *)
GCSparesClaimed ==
    \A i \in gc.doomed :
        inst[i] = "up" => i \notin NamedIn(api) /\ ~BeingRecorded(i)

(* The finalizer cleans Dragonfly: whatever failed, crashed, was lost or     *)
(* raced with the disruption controller before, a claim that is gone from    *)
(* the API server has left no entry in gpuscale:workers but one that the     *)
(* RemoveWorker of handleDeletion itself failed to remove.  Such an entry    *)
(* stays: reconciler.go:1069-1071 drops the error and lets the claim go.     *)
RemovedLeavesNoWorker ==
    \A c \in Claims : api[c].phase = "Removed" => workers[c] # "entry"

\* A live claim names the instance.
Held(i) ==
    \E c \in Claims :
        Live(api[c]) /\ (api[c].instanceID = i \/ api[c].annotation = i)

\* Where InstanceLedger sees an instance.
LedgerState(i) ==
    CASE inst[i] = "unborn" -> "unborn"
      [] inst[i] \in {"dead", "gone"} -> "ended"
      [] OTHER -> IF Held(i) THEN "held"
                  ELSE IF BeingRecorded(i) THEN "buying"
                  ELSE "loose"

ledgerState == [i \in Instances |-> LedgerState(i)]

(* Refinement: the claims and their instances implement InstanceLedger.      *)
Ledger == INSTANCE InstanceLedger WITH state <- ledgerState, owner <- owner
ImplementsLedger == Ledger!Spec

(* What README.md:91 draws: Terminated is where a claim's life ends.         *)
TerminatedIsFinal ==
    [][\A c \in Claims :
          api[c].phase = "Terminated" =>
              api'[c].phase \in {"Terminated", "Removed"}]_vars

(* What reconciler.go:98 says of the finalizer: when no call fails, a claim  *)
(* that is gone from the API server has left no instance running.            *)
FinalizerDestroys ==
    \A c \in Claims :
        api[c].phase = "Removed" =>
            \A i \in Names(api[c]) : inst[i] \notin Existing

(* Every instance that no live claim names and nobody will record is         *)
(* destroyed in the end, whatever left it behind: a crash between the        *)
(* purchase and the patch, a lost response, a deletion that did not know of  *)
(* it, a destroy that failed (instancegc.go:14-16).                          *)
OrphansDestroyed ==
    \A i \in Instances :
        [](inst[i] \in Existing /\ i \notin NamedIn(api) /\ ~BeingRecorded(i)
           => <>(inst[i] = "gone" \/ i \in NamedIn(api)))

(* A drain comes to its end even when the process died in the middle of it:  *)
(* handleDraining "ensures ... the claim reaches Terminated".                *)
DrainingEnds ==
    \A c \in Claims : api[c].phase = "Draining" ~> api[c].phase # "Draining"

(* A claim does not keep an instance that is gone: lost updates and stale    *)
(* reads only delay the move to Terminated.                                  *)
DeadInstanceNoticed ==
    \A c \in Claims :
        /\ api[c].phase \in {"Bootstrapping", "Ready"}
        /\ inst[api[c].instanceID] = "gone"
        ~> api[c].phase \in {"Terminated", "Removed"}

(* A deletion is never blocked for ever by the finalizer (reconciler.go:1059 *)
(* "Don't block deletion forever").                                          *)
DeletionCompletes ==
    \A c \in Claims : api[c].deleting ~> api[c].phase = "Removed"
=============================================================================
