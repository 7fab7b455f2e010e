------------------------ MODULE ClaimLifecycleProofs ------------------------
(***************************************************************************)
(* ClaimLifecycle keeps its inductive invariant IInv, and so its safety    *)
(* properties, for any number of claims and instances, any provider        *)
(* behaviour and any number of faults. A write is Gentle when it leaves to *)
(* the other actors what they rely on; all writes are, but the two that    *)
(* record an instance id and the one that drops the finalizer.             *)
(***************************************************************************)
EXTENDS ClaimLifecycleTypes, ClaimLifecycleInvariant

-----------------------------------------------------------------------------
(* What the single API calls keep of the invariant.                          *)

\* The claim object a written as r: what every write keeps, and what every
\* write but the last of a deletion keeps.
Follows(a, r) ==
    /\ a.annotation \in {None, r.annotation}
    /\ a.phase # "Unborn" => r.phase # "Unborn"
    /\ a.phase = "Removed" => r.phase = "Removed"
    /\ a.finalizer => r.finalizer \/ r.phase = "Removed"

Gentle(a, r) ==
    /\ Follows(a, r)
    /\ r.instanceID = a.instanceID /\ r.annotation = a.annotation
    /\ OnServer(a) /\ a.finalizer => OnServer(r) /\ r.finalizer

(* A write of one claim keeps what relates the API server to the cache.      *)
LEMMA WriteFacts ==
    ASSUME ClaimsOK, ClaimFacts, NEW c \in Claims, NEW r, NEW keep,
           api' = [api EXCEPT ![c] = r], cache' = cache,
           upToDate' = [upToDate EXCEPT ![c] = keep],
           Sound(r), Follows(api[c], r), "cache" \notin keep,
           keep \cap {"rec", "dis"} # {} => OnServer(r) /\ r.finalizer
    PROVE  ClaimFacts'
<1> SUFFICES ASSUME NEW d \in Claims
             PROVE  /\ Sound(api'[d])
                    /\ CopyOf(cache'[d], api'[d])
                    /\ HoldersOf(upToDate'[d], cache'[d], api'[d])
  BY DEF ClaimFacts
<1>1. CASE d # c
  BY <1>1 DEF ClaimsOK, ClaimFacts
<1>2. CASE d = c
  <2>1. api'[d] = r /\ cache'[d] = cache[c] /\ upToDate'[d] = keep
    BY <1>2 DEF ClaimsOK
  <2>2. CopyOf(cache[c], r)
    BY DEF ClaimFacts, CopyOf, Follows
  <2>3. HoldersOf(keep, cache[c], r)
    BY DEF HoldersOf
  <2> QED  BY <2>1, <2>2, <2>3
<1> QED  BY <1>1, <1>2

(* Losing a version, or reading one, keeps it too.                           *)
LEMMA ReadFacts ==
    ASSUME ClaimsOK, ClaimFacts, api' = api, cache' = cache,
           \A d \in Claims :
               \/ upToDate'[d] \subseteq upToDate[d]
               \/ /\ upToDate'[d] \subseteq upToDate[d] \cup {"rec"}
                  /\ OnServer(api[d]) /\ api[d].finalizer
    PROVE  ClaimFacts'
<1> SUFFICES ASSUME NEW d \in Claims
             PROVE  HoldersOf(upToDate'[d], cache[d], api[d])
  BY DEF ClaimFacts
<1> QED  BY DEF ClaimFacts, HoldersOf

\* r.Get keeps it when the claim read is on the server with its finalizer.
LEMMA RefetchFacts ==
    ASSUME ClaimsOK, ClaimFacts, NEW c \in Claims, Refetch("rec", c),
           api' = api, cache' = cache,
           "cache" \in upToDate[c] => OnServer(api[c]) /\ api[c].finalizer
    PROVE  ClaimFacts'
<1>1. ASSUME NEW d \in Claims, d # c  PROVE upToDate'[d] = upToDate[d]
  BY <1>1 DEF Refetch, ClaimsOK
<1>2. upToDate'[c] = IF "cache" \in upToDate[c] THEN upToDate[c] \cup {"rec"}
                     ELSE upToDate[c] \ {"rec"}
  BY DEF Refetch, ClaimsOK
<1>3. \A d \in Claims :
          \/ upToDate'[d] \subseteq upToDate[d]
          \/ /\ upToDate'[d] \subseteq upToDate[d] \cup {"rec"}
             /\ OnServer(api[d]) /\ api[d].finalizer
  BY <1>1, <1>2
<1> QED  BY <1>3, ReadFacts

\* A conflict or an error of the API server keeps it.
LEMMA UpdateErrFacts ==
    ASSUME ClaimsOK, ClaimFacts, NEW c \in Claims, NEW by, UpdateErr(by, c)
    PROVE  ClaimFacts'
<1>1. \A d \in Claims : upToDate'[d] \subseteq upToDate[d]
  BY DEF UpdateErr, ClaimsOK
<1> QED  BY <1>1, ReadFacts DEF UpdateErr

(* What a write by another actor leaves to the handler in progress.          *)
LEMMA GentleRec ==
    ASSUME ClaimsOK, RecFacts, NEW c \in Claims, NEW r, NEW keep,
           api' = [api EXCEPT ![c] = r], rec' = rec,
           upToDate' = [upToDate EXCEPT ![c] = keep],
           Gentle(api[c], r), "rec" \notin keep
    PROVE  RecFacts'
<1> SUFFICES ASSUME rec.pc # "idle"
             PROVE  HandlerOf(rec, api'[rec.claim], upToDate'[rec.claim])
  BY DEF RecFacts
<1>1. rec.claim \in Claims /\ HandlerOf(rec, api[rec.claim], upToDate[rec.claim])
  BY DEF RecFacts
<1>2. CASE rec.claim # c
  BY <1>1, <1>2 DEF ClaimsOK
<1>3. CASE rec.claim = c
  <2>1. api'[rec.claim] = r /\ upToDate'[rec.claim] = keep
    BY <1>3 DEF ClaimsOK
  <2>2. HandlerOf(rec, r, keep)
    BY <1>1, <1>3 DEF HandlerOf, Gentle, Follows, OnServer
  <2> QED  BY <2>1, <2>2
<1> QED  BY <1>2, <1>3

\* The reconciler stays where it is, or goes anywhere but to the write with
\* which handleDeletion drops the finalizer.
Calm == rec' = rec \/ ~(rec'.pc = "write" /\ rec'.path = "deleting")

\* ... and to gpuscale:workers.
LEMMA GentleWorkers ==
    ASSUME ClaimsOK, WorkerFacts, NEW c \in Claims, NEW r,
           api' = [api EXCEPT ![c] = r], workers' = workers, Calm,
           Gentle(api[c], r)
    PROVE  WorkerFacts'
  BY DEF ClaimsOK, WorkerFacts, Gentle, Calm

\* A step that leaves the API server alone leaves the handler what it knows.
LEMMA SameRec ==
    ASSUME RecFacts, rec' = rec, api' = api,
           \A d \in Claims : upToDate'[d] \cap {"rec"} \subseteq upToDate[d]
    PROVE  RecFacts'
<1> SUFFICES ASSUME rec.pc # "idle"
             PROVE  HandlerOf(rec, api[rec.claim], upToDate'[rec.claim])
  BY DEF RecFacts
<1> QED  BY DEF RecFacts, HandlerOf

\* ... and the worker entries their claims.
LEMMA SameWorkers ==
    ASSUME WorkerFacts, workers' = workers, api' = api, Calm
    PROVE  WorkerFacts'
  BY DEF WorkerFacts, Calm

(* The writes.                                                               *)
LEMMA PhaseWrite ==
    ASSUME NEW a \in Claim, NEW p \in LivePhases \cup {"Terminated"}, Sound(a),
           OnServer(a), a.finalizer,
           p \in {"Bootstrapping", "Ready", "Draining"} => a.instanceID # None,
           p \in {"New", "Pending", "Provisioning"} => a.instanceID = None
    PROVE  LET r == [a EXCEPT !.phase = p] IN
             /\ Sound(r) /\ Gentle(a, r) /\ Follows(a, r)
             /\ OnServer(r) /\ r.finalizer
<1> DEFINE r == [a EXCEPT !.phase = p]
<1>1. /\ r.phase = p /\ r.instanceID = a.instanceID
      /\ r.annotation = a.annotation /\ r.deleting = a.deleting
      /\ r.finalizer = a.finalizer
  BY DEF Claim
<1>2. p # "Unborn" /\ p # "Removed"
  BY DEF LivePhases
<1> HIDE DEF r
<1>3. Sound(r) /\ OnServer(r) /\ r.finalizer
  BY <1>1, <1>2 DEF Sound, OnServer
<1>4. Gentle(a, r) /\ Follows(a, r)
  BY <1>1, <1>2, <1>3 DEF Gentle, Follows, OnServer
<1> QED  BY <1>3, <1>4 DEF r

\* Writing a claim back unchanged is gentle.
LEMMA SameWrite == ASSUME NEW a PROVE Gentle(a, a) /\ Follows(a, a)
  BY DEF Gentle, Follows

(* A claim that a handler read, whatever happened to it since.               *)
LEMMA ReadClaim ==
    ASSUME ClaimFacts, NEW c \in Claims, OnServer(cache[c]),
           cache[c].phase # "New" \/ cache[c].deleting
    PROVE  /\ api[c].phase # "Unborn"
           /\ OnServer(api[c]) => api[c].finalizer
           /\ "cache" \in upToDate[c] => /\ cache[c] = api[c]
                                         /\ OnServer(api[c])
                                         /\ api[c].finalizer
  BY DEF ClaimFacts, CopyOf, HoldersOf, OnServer

\* A reconciler at rest relies on nothing.
LEMMA IdleRec == ASSUME rec' = RecIdle PROVE RecFacts'
  BY DEF RecFacts, RecIdle

\* A handler that is about to destroy, write or clean up relies on little.
LEMMA PlainRec ==
    ASSUME NEW c \in Claims, NEW pc \in {"cleanup", "destroy", "write"},
           NEW path, NEW i, Goto(pc, path, c, i),
           api'[c].phase # "Unborn",
           OnServer(api'[c]) => api'[c].finalizer
    PROVE  RecFacts'
<1>1. rec'.pc = pc /\ rec'.claim = c
  BY DEF Goto
<1>2. HandlerOf(rec', api'[c], upToDate'[c])
  BY <1>1 DEF HandlerOf, RecordingPCs
<1> QED  BY <1>1, <1>2 DEF RecFacts

-----------------------------------------------------------------------------
(* Every step preserves the inductive invariant: first the actors other than *)
(* the reconciler, whose writes are gentle.                                  *)
LEMMA EnvironmentFacts ==
    ASSUME IInv, Environment
    PROVE  ClaimFacts' /\ RecFacts' /\ DisFacts' /\ WorkerFacts'
<1> USE DEF claimVars, cloudVars, gcVars
<1>t. ClaimsOK
  BY DEF IInv, TypeOK, ClaimsOK
<1>i. ClaimFacts /\ RecFacts /\ DisFacts /\ WorkerFacts
  BY DEF IInv
<1>1. ASSUME NEW c \in Claims, CreateClaim(c)
      PROVE  ClaimFacts' /\ RecFacts' /\ DisFacts' /\ WorkerFacts'
  <2>0. PICK f \in BOOLEAN, p \in BOOLEAN :
          api' = [api EXCEPT ![c].phase = "New", ![c].finalizer = f,
                             ![c].provider = p]
    BY <1>1 DEF CreateClaim
  <2> DEFINE r == [api[c] EXCEPT !.phase = "New", !.finalizer = f,
                                 !.provider = p]
  <2>1. api' = [api EXCEPT ![c] = r] /\ api[c] \in Claim
    BY <2>0, <1>t DEF ClaimsOK, Claim
  <2>2. /\ r.phase = "New" /\ r.instanceID = api[c].instanceID
        /\ r.annotation = api[c].annotation /\ r.deleting = api[c].deleting
    BY <2>1 DEF Claim
  <2>3. Sound(api[c]) /\ api[c].phase = "Unborn"
    BY <1>1, <1>i DEF CreateClaim, ClaimFacts
  <2>4. /\ upToDate' = [upToDate EXCEPT ![c] = {}] /\ cache' = cache
        /\ rec' = rec /\ dis' = dis /\ workers' = workers
    BY <1>1 DEF CreateClaim
  <2> HIDE DEF r
  <2>5. Gentle(api[c], r) /\ Follows(api[c], r) /\ Sound(r)
    BY <2>2, <2>3 DEF Gentle, Follows, OnServer, Sound
  <2> QED  BY <1>t, <1>i, <2>1, <2>4, <2>5, WriteFacts, GentleRec,
              GentleWorkers DEF DisFacts, Calm
<1>2. ASSUME NEW c \in Claims, DeleteClaim(c)
      PROVE  ClaimFacts' /\ RecFacts' /\ DisFacts' /\ WorkerFacts'
  <2> DEFINE p == IF api[c].finalizer THEN api[c].phase ELSE "Removed"
             r == [api[c] EXCEPT !.deleting = TRUE, !.phase = p]
  <2>1. api' = [api EXCEPT ![c] = r] /\ api[c] \in Claim
    BY <1>2, <1>t DEF DeleteClaim, ClaimsOK, Claim
  <2>2. /\ r.phase = p /\ r.instanceID = api[c].instanceID
        /\ r.annotation = api[c].annotation
        /\ r.finalizer = api[c].finalizer
    BY <2>1 DEF Claim
  <2>3. Sound(api[c]) /\ OnServer(api[c])
    BY <1>2, <1>i DEF DeleteClaim, ClaimFacts
  <2>4. /\ upToDate' = [upToDate EXCEPT ![c] = {}] /\ cache' = cache
        /\ rec' = rec /\ dis' = dis /\ workers' = workers
    BY <1>2 DEF DeleteClaim
  <2> HIDE DEF r
  <2>5. Gentle(api[c], r) /\ Follows(api[c], r) /\ Sound(r)
    BY <2>2, <2>3 DEF Gentle, Follows, OnServer, Sound
  <2> QED  BY <1>t, <1>i, <2>1, <2>4, <2>5, WriteFacts, GentleRec,
              GentleWorkers DEF DisFacts, Calm
<1>3. ASSUME NEW c \in Claims, AgentUp(c) \/ AgentDown(c)
      PROVE  ClaimFacts' /\ RecFacts' /\ DisFacts' /\ WorkerFacts'
  BY <1>3, <1>i
  DEF AgentUp, AgentDown, ClaimFacts, RecFacts, DisFacts, WorkerFacts
<1>4. ASSUME NEW c \in Claims, WatchDeliver(c)
      PROVE  ClaimFacts' /\ RecFacts' /\ DisFacts' /\ WorkerFacts'
  <2>1. /\ api' = api /\ rec' = rec /\ dis' = dis /\ workers' = workers
        /\ cache' = [cache EXCEPT ![c] = api[c]]
        /\ upToDate' = [upToDate EXCEPT ![c] = upToDate[c] \cup {"cache"}]
    BY <1>4 DEF WatchDeliver
  <2>2. CopyOf(api[c], api[c])
    BY <1>i DEF CopyOf, ClaimFacts, Sound
  <2>3. HoldersOf(upToDate[c] \cup {"cache"}, api[c], api[c])
    BY <1>i DEF HoldersOf, ClaimFacts
  <2>4. ClaimFacts'
    <3> SUFFICES ASSUME NEW d \in Claims
                 PROVE  /\ CopyOf(cache'[d], api[d])
                        /\ HoldersOf(upToDate'[d], cache'[d], api[d])
      BY <1>i, <2>1 DEF ClaimFacts
    <3>1. CASE d = c
      BY <1>t, <2>1, <2>2, <2>3, <3>1 DEF ClaimsOK
    <3>2. CASE d # c
      BY <1>t, <1>i, <2>1, <3>2 DEF ClaimsOK, ClaimFacts
    <3> QED  BY <3>1, <3>2
  <2>5. \A d \in Claims : upToDate'[d] \cap {"rec"} \subseteq upToDate[d]
    BY <1>t, <2>1 DEF ClaimsOK
  <2> QED  BY <1>i, <2>1, <2>4, <2>5, SameRec, SameWorkers
           DEF DisFacts, Calm
<1>5. ASSUME NEW i \in Instances, Preempt(i)
      PROVE  ClaimFacts' /\ RecFacts' /\ DisFacts' /\ WorkerFacts'
  BY <1>5, <1>i DEF Preempt, ClaimFacts, RecFacts, DisFacts, WorkerFacts
<1>6. ASSUME Crash
      PROVE  ClaimFacts' /\ RecFacts' /\ DisFacts' /\ WorkerFacts'
  <2>1. ClaimFacts'
    BY <1>6, <1>i DEF Crash, ClaimFacts, CopyOf, HoldersOf, Sound
  <2> QED  BY <1>6, <1>i, <2>1, IdleRec, SameWorkers
           DEF Crash, DisFacts, DisIdle, Calm, RecIdle
<1> QED
  BY <1>1, <1>2, <1>3, <1>4, <1>5, <1>6 DEF Environment

\* The disruption and the interruption controller.
LEMMA DisruptionFacts ==
    ASSUME IInv, DisruptionController \/ \E c \in Claims : Interrupt(c)
    PROVE  ClaimFacts' /\ RecFacts' /\ DisFacts' /\ WorkerFacts'
<1> USE DEF claimVars, cloudVars, gcVars, DisUnchanged
<1>t. ClaimsOK
  BY DEF IInv, TypeOK, ClaimsOK
<1>i. ClaimFacts /\ RecFacts /\ DisFacts /\ WorkerFacts
  BY DEF IInv
\* The writes of these actors: a new phase, or none, on the latest version.
<1>w. ASSUME NEW c \in Claims, NEW by, NEW keep \in SUBSET {"dis"},
             NEW p \in {"Draining", "Terminated"}, NEW r,
             r \in {api[c], [api[c] EXCEPT !.phase = p]},
             UpdateOK(by, c, r, keep),
             OnServer(api[c]), api[c].finalizer,
             p = "Draining" => api[c].instanceID # None,
             rec' = rec, workers' = workers
      PROVE  ClaimFacts' /\ RecFacts' /\ WorkerFacts'
  <2>1. /\ Sound(r) /\ Gentle(api[c], r) /\ Follows(api[c], r)
        /\ OnServer(r) /\ r.finalizer
    <3>1. Sound(api[c]) /\ api[c] \in Claim
      BY <1>t, <1>i DEF ClaimFacts, ClaimsOK
    <3>2. p \in LivePhases \cup {"Terminated"}
      BY DEF LivePhases
    <3> QED  BY <1>w, <3>1, <3>2, PhaseWrite, SameWrite
  <2>2. /\ api' = [api EXCEPT ![c] = r] /\ cache' = cache
        /\ upToDate' = [upToDate EXCEPT ![c] = keep]
    BY <1>w DEF UpdateOK
  <2> QED  BY <1>t, <1>i, <1>w, <2>1, <2>2, WriteFacts, GentleRec,
              GentleWorkers DEF Calm
<1>r. ASSUME NEW c \in Claims,
             OnServer(cache[c]), cache[c].phase # "New",
             "cache" \in upToDate[c]
      PROVE  cache[c] = api[c] /\ OnServer(api[c]) /\ api[c].finalizer
  BY <1>i, <1>r, ReadClaim
<1>1. ASSUME NEW c \in Claims, TouchIdleSince(c)
      PROVE  ClaimFacts' /\ RecFacts' /\ DisFacts' /\ WorkerFacts'
  <2>1. OnServer(api[c]) /\ api[c].finalizer
    BY <1>1, <1>r DEF TouchIdleSince, UpdateOK, OnServer
  <2> QED  BY <1>1, <1>i, <1>w, <2>1 DEF TouchIdleSince, DisFacts
<1>2. ASSUME NEW c \in Claims, StartDraining(c)
      PROVE  ClaimFacts' /\ RecFacts' /\ DisFacts' /\ WorkerFacts'
  <2>1. OnServer(api[c]) /\ api[c].finalizer /\ api[c].instanceID # None
    BY <1>2, <1>r DEF StartDraining, UpdateOK, OnServer, InstanceIs
  <2> QED  BY <1>2, <1>i, <1>w, <2>1 DEF StartDraining, DisFacts
<1>3. CASE DisDestroy
  <2>1. DisFacts'
    BY <1>3, <1>i DEF DisDestroy, DisFacts, IInv, TypeOK
  <2> QED  BY <1>3, <1>i, <2>1
           DEF DisDestroy, ClaimFacts, RecFacts, WorkerFacts
<1>4. CASE DisWriteTerminated
  <2> DEFINE c == dis.claim
  <2>1. c \in Claims /\ rec' = rec /\ workers' = workers
    BY <1>4, <1>i DEF DisWriteTerminated, DisFacts
  <2>2. DisFacts'
    BY <1>4, <2>1 DEF DisWriteTerminated, DisFacts, DisIdle, IInv, TypeOK
  <2>3. CASE UpdateOK("dis", c, Terminate(api[c]), {})
    <3>1. OnServer(api[c]) /\ api[c].finalizer
      BY <1>i, <2>1, <2>3 DEF UpdateOK, ClaimFacts, HoldersOf
    <3> QED  BY <1>w, <2>1, <2>2, <2>3, <3>1 DEF Terminate
  <2>4. CASE /\ upToDate' = [upToDate EXCEPT ![c] = @ \ {"dis"}]
             /\ UNCHANGED <<api, cache>>
    <3>1. \A d \in Claims : upToDate'[d] \subseteq upToDate[d]
      BY <1>t, <2>1, <2>4 DEF ClaimsOK
    <3> QED  BY <1>t, <1>i, <2>1, <2>2, <2>4, <3>1, ReadFacts, SameRec,
                SameWorkers DEF Calm
  <2> QED  BY <1>4, <2>3, <2>4 DEF DisWriteTerminated
<1>5. CASE DisRemoveWorker
  <2>1. /\ UNCHANGED <<api, cache, upToDate, rec>> /\ dis' = DisIdle
        /\ \A c \in Claims : workers'[c] = "entry" => workers[c] = "entry"
    BY <1>5 DEF DisRemoveWorker, IInv, TypeOK
  <2>2. WorkerFacts'
    BY <1>i, <2>1 DEF WorkerFacts, RecFacts
  <2> QED  BY <1>i, <2>1, <2>2 DEF ClaimFacts, RecFacts, DisFacts, DisIdle
<1>6. ASSUME NEW c \in Claims, Interrupt(c)
      PROVE  ClaimFacts' /\ RecFacts' /\ DisFacts' /\ WorkerFacts'
  <2>1. OnServer(api[c]) /\ api[c].finalizer
    BY <1>6, <1>r DEF Interrupt, UpdateOK, OnServer
  <2> QED  BY <1>6, <1>i, <1>w, <2>1 DEF Interrupt, Terminate, DisFacts
<1> QED
  BY <1>1, <1>2, <1>3, <1>4, <1>5, <1>6
  DEF DisruptionController, ContinueDraining

\* The garbage collector touches no claim.
LEMMA InstanceGCFacts ==
    ASSUME IInv, InstanceGC
    PROVE  ClaimFacts' /\ RecFacts' /\ DisFacts' /\ WorkerFacts'
<1>1. UNCHANGED <<api, cache, upToDate, workers, rec, dis>>
  BY DEF InstanceGC, GCCollectKnown, GCListInstances, GCDestroy, GCFinish,
         GCUnchanged, claimVars
<1> QED
  BY <1>1 DEF IInv, ClaimFacts, RecFacts, DisFacts, WorkerFacts

(* A handler that begins: it acts on a claim that it read from the cache.    *)
LEMMA HandleFacts ==
    ASSUME IInv, NEW c \in Claims, Handle(c) \/ BootstrapTimedOut(c)
    PROVE  ClaimFacts' /\ RecFacts' /\ WorkerFacts'
<1> USE DEF claimVars, cloudVars, gcVars, RecUnchanged
<1>t. ClaimsOK /\ api[c] \in Claim
  BY DEF IInv, TypeOK, ClaimsOK
<1>i. ClaimFacts /\ RecFacts /\ WorkerFacts
  BY DEF IInv
<1>s. Sound(api[c])
  BY <1>i DEF ClaimFacts
<1>c. Calm
  BY DEF Handle, AddFinalizer, SetPending, ReuseInstance, StartProvisioning,
         HandleProvisioning, BootstrapGone, BootstrapFailed, BecomeReady,
         ReadyGone, ReadyLost, ResumeDraining, HandleDeletion,
         BootstrapTimedOut, Goto, RecIdle, Calm
\* A new phase, written on the latest version.
<1>w. ASSUME NEW by, NEW keep \in SUBSET {"rec"},
             NEW p \in LivePhases \cup {"Terminated"},
             UpdateOK(by, c, [api[c] EXCEPT !.phase = p], keep),
             OnServer(api[c]), api[c].finalizer, workers' = workers,
             p \in {"Bootstrapping", "Ready", "Draining"} =>
                 api[c].instanceID # None,
             p \in {"New", "Pending", "Provisioning"} =>
                 api[c].instanceID = None
      PROVE  /\ ClaimFacts' /\ WorkerFacts'
             /\ api'[c] = [api[c] EXCEPT !.phase = p]
             /\ OnServer(api'[c]) /\ api'[c].finalizer
             /\ api'[c].phase # "Unborn"
  <2> DEFINE r == [api[c] EXCEPT !.phase = p]
  <2>1. /\ Sound(r) /\ Gentle(api[c], r) /\ Follows(api[c], r)
        /\ OnServer(r) /\ r.finalizer
    BY <1>t, <1>s, <1>w, PhaseWrite
  <2>2. /\ api' = [api EXCEPT ![c] = r] /\ cache' = cache
        /\ upToDate' = [upToDate EXCEPT ![c] = keep] /\ api'[c] = r
    BY <1>w, <1>t DEF UpdateOK, ClaimsOK
  <2> HIDE DEF r
  <2>3. ClaimFacts' /\ WorkerFacts'
    BY <1>t, <1>i, <1>c, <1>w, <2>1, <2>2, WriteFacts, GentleWorkers
  <2> QED  BY <2>1, <2>2, <2>3 DEF OnServer, r
\* What is known of a claim that is past "New", or deleted, in the cache.
<1>r. ASSUME OnServer(cache[c]), cache[c].phase # "New" \/ cache[c].deleting
      PROVE  /\ api[c].phase # "Unborn"
             /\ OnServer(api[c]) => api[c].finalizer
             /\ "cache" \in upToDate[c] => /\ cache[c] = api[c]
                                           /\ OnServer(api[c])
                                           /\ api[c].finalizer
  BY <1>i, <1>r, ReadClaim
<1>1. CASE AddFinalizer(c)
  <2> DEFINE r == [api[c] EXCEPT !.finalizer = TRUE]
  <2>1. cache[c] = api[c] /\ api[c].phase = "New"
    BY <1>1, <1>i DEF AddFinalizer, Reconciling, UpdateOK, ClaimFacts, HoldersOf
  <2>2. /\ r.phase = "New" /\ r.instanceID = api[c].instanceID
        /\ r.annotation = api[c].annotation /\ r.finalizer = TRUE
    BY <1>t, <2>1 DEF Claim
  <2>3. /\ api' = [api EXCEPT ![c] = r] /\ cache' = cache /\ api'[c] = r
        /\ upToDate' = [upToDate EXCEPT ![c] = {"rec"}]
        /\ workers' = workers
    BY <1>1, <1>t DEF AddFinalizer, UpdateOK, ClaimsOK
  <2> HIDE DEF r
  <2>4. Sound(r) /\ Gentle(api[c], r) /\ Follows(api[c], r) /\ OnServer(r)
    BY <1>s, <2>1, <2>2 DEF Sound, Gentle, Follows, OnServer
  <2>5. ClaimFacts' /\ WorkerFacts'
    BY <1>t, <1>i, <1>c, <2>2, <2>3, <2>4, WriteFacts, GentleWorkers
  <2>6. rec'.pc = "admit" /\ rec'.claim = c
    BY <1>1 DEF AddFinalizer, Goto
  <2>7. HandlerOf(rec', r, upToDate'[c])
    BY <2>2, <2>6 DEF HandlerOf, RecordingPCs
  <2> QED  BY <2>3, <2>5, <2>6, <2>7 DEF RecFacts
<1>2. CASE SetPending(c)
  <2>1. RecFacts'
    BY <1>2, IdleRec DEF SetPending
  <2>2. workers' = workers
    BY <1>2 DEF SetPending
  <2>3. "Pending" \in LivePhases \cup {"Terminated"}
    BY DEF LivePhases
  <2>4. CASE /\ rec.pc = "admit" /\ rec.claim = c
             /\ UpdateOK("rec", c, [api[c] EXCEPT !.phase = "Pending"], {})
    <3>1. /\ OnServer(api[c]) /\ api[c].finalizer /\ api[c].phase = "New"
      BY <1>i, <2>4 DEF RecFacts, HandlerOf, UpdateOK, ClaimFacts, HoldersOf
    <3> QED  BY <1>s, <1>w, <2>1, <2>2, <2>3, <2>4, <3>1 DEF Sound
  <2>5. CASE UpdateErr("rec", c)
    BY <1>t, <1>i, <1>c, <2>1, <2>2, <2>5, UpdateErrFacts, SameWorkers
    DEF UpdateErr
  <2>6. CASE /\ Reconciling(c, "New") /\ cache[c].finalizer
             /\ UpdateOK("cache", c, [api[c] EXCEPT !.phase = "Pending"], {})
    <3>1. /\ OnServer(api[c]) /\ api[c].finalizer /\ api[c].phase = "New"
      BY <1>i, <2>6
      DEF Reconciling, UpdateOK, ClaimFacts, HoldersOf, OnServer
    <3> QED  BY <1>s, <1>w, <2>1, <2>2, <2>3, <2>6, <3>1 DEF Sound
  <2> QED  BY <1>2, <2>4, <2>5, <2>6 DEF SetPending
<1>3. CASE ReuseInstance(c)
  <2>1. /\ rec'.pc = "patched" /\ rec'.claim = c
        /\ rec'.id = cache[c].annotation /\ cache[c].annotation # None
    BY <1>3 DEF ReuseInstance, Goto
  <2>2. UNCHANGED <<api, cache, upToDate, workers>>
    BY <1>3 DEF ReuseInstance
  <2>3. cache[c].annotation \in Instances
    BY <1>t, <2>1 DEF ClaimsOK, Claim, InstanceID
  <2>4. cache[c].annotation = api[c].annotation
    BY <1>i, <2>1 DEF ClaimFacts, CopyOf
  <2>5. api[c].phase # "Unborn" /\ (OnServer(api[c]) => api[c].finalizer)
    BY <1>3, <1>r DEF ReuseInstance, Reconciling, OnServer
  <2>6. HandlerOf(rec', api[c], upToDate[c])
    BY <2>1, <2>3, <2>4, <2>5 DEF HandlerOf
  <2> QED  BY <1>i, <1>c, <2>1, <2>2, <2>6, SameWorkers
           DEF RecFacts, ClaimFacts
<1>4. CASE StartProvisioning(c)
  <2>1. /\ OnServer(api[c]) /\ api[c].finalizer /\ api[c].instanceID = None
        /\ api[c].annotation = None
    BY <1>4, <1>r, <1>s
    DEF StartProvisioning, Reconciling, UpdateOK, OnServer, Sound
  <2>2. "Provisioning" \in LivePhases \cup {"Terminated"}
    BY DEF LivePhases
  <2>3. /\ ClaimFacts' /\ WorkerFacts'
        /\ api'[c] = [api[c] EXCEPT !.phase = "Provisioning"]
        /\ OnServer(api'[c]) /\ api'[c].finalizer /\ api'[c].phase # "Unborn"
    BY <1>4, <1>w, <2>1, <2>2 DEF StartProvisioning
  <2>4. api'[c].instanceID = None /\ api'[c].annotation = None
    BY <1>t, <2>1, <2>3 DEF Claim
  <2>5. rec'.pc = "provision" /\ rec'.claim = c
    BY <1>4 DEF StartProvisioning, Goto
  <2>6. HandlerOf(rec', api'[c], upToDate'[c])
    BY <2>3, <2>4, <2>5 DEF HandlerOf, RecordingPCs
  <2> QED  BY <2>3, <2>5, <2>6 DEF RecFacts
<1>5. CASE HandleProvisioning(c)
  <2> DEFINE p == IF api[c].instanceID # None
                  THEN "Bootstrapping" ELSE "Pending"
  <2>1. OnServer(api[c]) /\ api[c].finalizer
    BY <1>5, <1>r DEF HandleProvisioning, Reconciling, UpdateOK, OnServer
  <2>2. p \in LivePhases \cup {"Terminated"}
    BY DEF LivePhases
  <2>3. /\ p \in {"Bootstrapping", "Ready", "Draining"} =>
             api[c].instanceID # None
        /\ p \in {"New", "Pending", "Provisioning"} =>
             api[c].instanceID = None
    OBVIOUS
  <2>4. /\ UpdateOK("cache", c, [api[c] EXCEPT !.phase = p], {})
        /\ rec' = RecIdle /\ workers' = workers
    BY <1>5 DEF HandleProvisioning
  <2> HIDE DEF p
  <2> QED  BY <1>w, <2>1, <2>2, <2>3, <2>4, IdleRec
<1>6. CASE BootstrapGone(c)
  <2>1. OnServer(api[c]) /\ api[c].finalizer
    BY <1>6, <1>r DEF BootstrapGone, Reconciling, UpdateOK, OnServer
  <2>2. /\ ClaimFacts' /\ WorkerFacts'
        /\ api'[c].finalizer /\ api'[c].phase # "Unborn"
    BY <1>6, <1>w, <2>1 DEF BootstrapGone, Terminate
  <2> QED  BY <1>6, <2>2, PlainRec DEF BootstrapGone
<1>7. CASE BecomeReady(c)
  <2>1. OnServer(api[c]) /\ api[c].finalizer /\ api[c].instanceID # None
    BY <1>7, <1>r
    DEF BecomeReady, Reconciling, UpdateOK, OnServer, InstanceIs
  <2>2. "Ready" \in LivePhases \cup {"Terminated"}
    BY DEF LivePhases
  <2>3. /\ ClaimFacts' /\ WorkerFacts' /\ OnServer(api'[c])
        /\ api'[c].finalizer /\ api'[c].phase # "Unborn"
    BY <1>7, <1>w, <2>1, <2>2 DEF BecomeReady
  <2>4. rec'.pc = "publish" /\ rec'.claim = c
    BY <1>7 DEF BecomeReady, Goto
  <2>5. HandlerOf(rec', api'[c], upToDate'[c])
    BY <2>3, <2>4 DEF HandlerOf, RecordingPCs
  <2> QED  BY <2>3, <2>4, <2>5 DEF RecFacts
<1>8. CASE ReadyGone(c) \/ BootstrapTimedOut(c)
  <2>1. PICK pc \in {"cleanup", "destroy", "write"}, path \in RecPaths,
             i \in InstanceID : Goto(pc, path, c, i)
    BY <1>8, <1>t
    DEF ReadyGone, BootstrapTimedOut, RecPaths, ClaimsOK, Claim, InstanceID
  <2>2. OnServer(cache[c]) /\ cache[c].phase # "New" /\ workers' = workers
    BY <1>8 DEF ReadyGone, BootstrapTimedOut, Reconciling, OnServer
  <2>3. CASE UpdateOK("cache", c, Terminate(api[c]), {})
    <3>1. OnServer(api[c]) /\ api[c].finalizer
      BY <1>r, <2>2, <2>3 DEF UpdateOK
    <3>2. /\ ClaimFacts' /\ WorkerFacts'
          /\ api'[c].finalizer /\ api'[c].phase # "Unborn"
      BY <1>w, <2>2, <2>3, <3>1 DEF Terminate
    <3> QED  BY <2>1, <3>2, PlainRec
  <2>4. CASE UpdateErr("cache", c)
    <3>1. api' = api
      BY <2>4 DEF UpdateErr
    <3>2. ClaimFacts' /\ WorkerFacts'
      BY <1>t, <1>i, <1>c, <2>2, <2>4, <3>1, UpdateErrFacts, SameWorkers
    <3> QED  BY <1>r, <2>1, <2>2, <3>1, <3>2, PlainRec
  <2> QED  BY <1>8, <2>3, <2>4 DEF ReadyGone, BootstrapTimedOut
<1>9. CASE \/ BootstrapFailed(c) \/ ReadyLost(c) \/ ResumeDraining(c)
           \/ HandleDeletion(c)
  <2>1. PICK pc \in {"cleanup", "destroy", "write"}, path \in RecPaths,
             i \in InstanceID : Goto(pc, path, c, i)
    BY <1>9, <1>t
    DEF BootstrapFailed, ReadyLost, ResumeDraining, HandleDeletion, RecPaths,
        ClaimsOK, Claim
  <2>2. /\ OnServer(cache[c]) /\ (cache[c].phase # "New" \/ cache[c].deleting)
        /\ Refetch("rec", c) /\ UNCHANGED <<api, cache, workers>>
    BY <1>9
    DEF BootstrapFailed, ReadyLost, ResumeDraining, HandleDeletion,
        Reconciling, OnServer
  <2>3. ClaimFacts' /\ WorkerFacts'
    BY <1>t, <1>i, <1>c, <1>r, <2>2, RefetchFacts, SameWorkers
  <2> QED  BY <1>r, <2>1, <2>2, <2>3, PlainRec
<1> QED
  BY <1>1, <1>2, <1>3, <1>4, <1>5, <1>6, <1>7, <1>8, <1>9 DEF Handle

(* A handler that goes on.                                                   *)
LEMMA ContinueHandlerFacts ==
    ASSUME IInv, ContinueHandler
    PROVE  ClaimFacts' /\ RecFacts' /\ WorkerFacts'
<1> USE DEF claimVars, cloudVars, gcVars, RecUnchanged
<1> DEFINE c == rec.claim
<1>t. ClaimsOK /\ workers \in [Claims -> {"none", "entry", "missed"}]
  BY DEF IInv, TypeOK, ClaimsOK
<1>i. ClaimFacts /\ RecFacts /\ WorkerFacts
  BY DEF IInv
<1>h. rec.pc # "idle" =>
        /\ c \in Claims /\ api[c] \in Claim /\ Sound(api[c])
        /\ HandlerOf(rec, api[c], upToDate[c])
        /\ "cache" \in upToDate[c] => cache[c] = api[c]
        /\ "rec" \in upToDate[c] => OnServer(api[c]) /\ api[c].finalizer
  BY <1>t, <1>i DEF RecFacts, ClaimsOK, ClaimFacts, HoldersOf
\* Only the Dragonfly clean-up leads to the last write of a deletion.
<1>c. rec.pc # "cleanup" => Calm
  BY DEF ContinueHandler, CreateInstance, LoseResponse, ProvisionFailed,
         PatchAnnotation, RefetchClaim, RefetchAgain, RecordInstance,
         SetWorker, RecDestroy, AfterDestroy, WriteTerminated, RemoveWorker,
         WriteLast, Goto, RecIdle, Calm
\* A new phase, written on the latest version of a claim on the server.
<1>w. ASSUME rec.pc # "idle", NEW by, NEW r,
             UpdateOK(by, c, r, {}), OnServer(api[c]), api[c].finalizer,
             Sound(r), Gentle(api[c], r), workers' = workers,
             rec.pc # "cleanup"
      PROVE  /\ ClaimFacts' /\ WorkerFacts' /\ api'[c] = r
             /\ api'[c].phase # "Unborn" /\ api'[c].finalizer
  <2>1. /\ api' = [api EXCEPT ![c] = r] /\ cache' = cache
        /\ upToDate' = [upToDate EXCEPT ![c] = {}] /\ api'[c] = r
    BY <1>w, <1>t, <1>h DEF UpdateOK, ClaimsOK
  <2>2. ClaimFacts' /\ WorkerFacts'
    BY <1>t, <1>i, <1>c, <1>h, <1>w, <2>1, WriteFacts, GentleWorkers
    DEF Gentle
  <2> QED  BY <1>w, <2>1, <2>2 DEF Gentle, OnServer
<1>e. ASSUME rec.pc # "idle", NEW by, UpdateErr(by, c), workers' = workers,
             rec.pc # "cleanup"
      PROVE  ClaimFacts' /\ WorkerFacts' /\ api' = api
  BY <1>e, <1>t, <1>i, <1>c, <1>h, UpdateErrFacts, SameWorkers DEF UpdateErr
<1>1. ASSUME NEW i \in Instances, CreateInstance(i)
      PROVE  ClaimFacts' /\ RecFacts' /\ WorkerFacts'
  <2>1. /\ rec.pc = "provision" /\ rec'.pc = "created" /\ rec'.claim = c
        /\ rec'.id = i /\ UNCHANGED <<api, cache, upToDate, workers>>
    BY <1>1 DEF CreateInstance, Goto
  <2>2. HandlerOf(rec', api[c], upToDate[c])
    BY <1>h, <2>1 DEF HandlerOf
  <2> QED  BY <1>h, <1>i, <2>1, <2>2 DEF RecFacts, ClaimFacts, WorkerFacts
<1>2. CASE LoseResponse
  <2>1. /\ rec.pc = "created" /\ rec'.pc = "provision" /\ rec'.claim = c
        /\ UNCHANGED <<api, cache, upToDate, workers>>
    BY <1>2 DEF LoseResponse, Goto
  <2>2. HandlerOf(rec', api[c], upToDate[c])
    BY <1>h, <2>1 DEF HandlerOf, RecordingPCs
  <2> QED  BY <1>h, <1>i, <2>1, <2>2 DEF RecFacts, ClaimFacts, WorkerFacts
<1>3. CASE ProvisionFailed
  <2>1. RecFacts' /\ workers' = workers /\ rec.pc = "provision"
    BY <1>3, IdleRec DEF ProvisionFailed
  <2>2. CASE UNCHANGED claimVars
    BY <1>i, <1>c, <2>1, <2>2, SameWorkers DEF ClaimFacts
  <2>3. CASE /\ OnServer(cache[c])
             /\ UpdateOK("cache", c, [api[c] EXCEPT !.phase = "Pending"], {})
    <3>1. OnServer(api[c]) /\ api[c].finalizer /\ api[c].instanceID = None
      BY <1>h, <2>1, <2>3 DEF UpdateOK, HandlerOf
    <3>2. "Pending" \in LivePhases \cup {"Terminated"}
      BY DEF LivePhases
    <3>3. /\ Sound([api[c] EXCEPT !.phase = "Pending"])
          /\ Gentle(api[c], [api[c] EXCEPT !.phase = "Pending"])
      BY <1>h, <2>1, <3>1, <3>2, PhaseWrite
    <3> QED  BY <1>w, <2>1, <2>3, <3>1, <3>3
  <2>4. CASE UpdateErr("cache", c)
    BY <1>e, <2>1, <2>4
  <2> QED  BY <1>3, <2>2, <2>3, <2>4 DEF ProvisionFailed
<1>4. CASE PatchAnnotation
  <2>1. /\ rec.pc = "created" /\ workers' = workers
        /\ rec'.pc = "patched" /\ rec'.claim = c /\ rec'.id = rec.id
    BY <1>4 DEF PatchAnnotation, Goto
  <2>2. /\ c \in Claims /\ api[c] \in Claim /\ rec.id \in Instances
        /\ api[c].instanceID = None /\ api[c].annotation = None
        /\ api[c].phase # "Unborn" /\ (OnServer(api[c]) => api[c].finalizer)
    BY <1>h, <2>1 DEF HandlerOf, RecordingPCs
  <2>3. CASE UNCHANGED claimVars
    <3>1. HandlerOf(rec', api[c], upToDate[c])
      BY <2>1, <2>2 DEF HandlerOf, RecordingPCs
    <3> QED  BY <1>i, <2>1, <2>2, <2>3, <3>1
             DEF RecFacts, ClaimFacts, WorkerFacts
  <2>4. CASE /\ OnServer(api[c])
             /\ api' = [api EXCEPT ![c].annotation = rec.id]
             /\ upToDate' = [upToDate EXCEPT ![c] = {}]
             /\ UNCHANGED cache
    <3> DEFINE r == [api[c] EXCEPT !.annotation = rec.id]
    <3>1. api' = [api EXCEPT ![c] = r] /\ api'[c] = r
      BY <1>t, <2>2, <2>4 DEF ClaimsOK
    <3>2. /\ r.phase = api[c].phase /\ r.instanceID = None
          /\ r.annotation = rec.id /\ r.deleting = api[c].deleting
          /\ r.finalizer = api[c].finalizer
      BY <2>2 DEF Claim
    <3> HIDE DEF r
    <3>3. Sound(r) /\ Follows(api[c], r) /\ OnServer(r) /\ r.finalizer
      BY <1>h, <2>1, <2>2, <2>4, <3>2 DEF Sound, Follows, OnServer
    <3>4. ClaimFacts'
      BY <1>t, <1>i, <2>2, <2>4, <3>1, <3>3, WriteFacts
    <3>5. WorkerFacts'
      BY <1>t, <1>i, <1>c, <2>1, <2>2, <3>1, <3>3
      DEF WorkerFacts, ClaimsOK, Calm
    <3>6. HandlerOf(rec', r, {})
      BY <2>1, <2>2, <3>2, <3>3 DEF HandlerOf, RecordingPCs, OnServer
    <3>7. upToDate'[c] = {}
      BY <1>t, <2>2, <2>4 DEF ClaimsOK
    <3> QED  BY <2>1, <2>2, <3>1, <3>4, <3>5, <3>6, <3>7 DEF RecFacts
  <2> QED  BY <1>4, <2>3, <2>4 DEF PatchAnnotation
<1>5. CASE RefetchClaim
  <2>1. rec.pc = "patched" /\ workers' = workers
    BY <1>5 DEF RefetchClaim
  <2>2. /\ c \in Claims /\ api[c] \in Claim /\ rec.id \in Instances
        /\ api[c].annotation \in {None, rec.id}
        /\ api[c].phase # "Unborn" /\ (OnServer(api[c]) => api[c].finalizer)
    BY <1>h, <2>1 DEF HandlerOf, RecordingPCs
  <2>3. CASE rec' = RecIdle /\ UNCHANGED claimVars
    BY <1>i, <1>c, <2>1, <2>3, IdleRec, SameWorkers DEF ClaimFacts
  <2>4. CASE /\ OnServer(cache[c]) /\ Refetch("rec", c)
             /\ Goto("record", "none", c, rec.id)
             /\ UNCHANGED <<api, cache>>
    <3>1. ClaimFacts'
      BY <1>t, <1>i, <1>h, <2>1, <2>2, <2>4, RefetchFacts
    <3>2. HandlerOf(rec', api[c], upToDate'[c])
      BY <2>2, <2>4 DEF HandlerOf, RecordingPCs, Goto
    <3> QED  BY <1>i, <1>c, <2>1, <2>2, <2>4, <3>1, <3>2, SameWorkers
             DEF RecFacts, Goto
  <2>5. CASE /\ OnServer(cache[c])
             /\ UpdateOK("cache", c, [api[c] EXCEPT !.provider = TRUE], {})
             /\ Goto("respec", "none", c, rec.id)
    <3> DEFINE r == [api[c] EXCEPT !.provider = TRUE]
    <3>1. /\ r.phase = api[c].phase /\ r.instanceID = api[c].instanceID
          /\ r.annotation = api[c].annotation /\ r.deleting = api[c].deleting
          /\ r.finalizer = api[c].finalizer
      BY <2>2 DEF Claim
    <3> HIDE DEF r
    <3>2. OnServer(api[c]) /\ api[c].finalizer
      BY <1>h, <2>1, <2>2, <2>5 DEF UpdateOK
    <3>3. Sound(r) /\ Gentle(api[c], r)
      BY <1>h, <2>1, <3>1 DEF Sound, Gentle, Follows, OnServer
    <3>4. /\ ClaimFacts' /\ WorkerFacts' /\ api'[c] = r
          /\ api'[c].phase # "Unborn" /\ api'[c].finalizer
      BY <1>w, <2>1, <2>5, <3>2, <3>3 DEF r
    <3>5. HandlerOf(rec', api'[c], upToDate'[c])
      BY <2>2, <2>5, <3>1, <3>4 DEF HandlerOf, RecordingPCs, Goto
    <3> QED  BY <2>2, <2>5, <3>4, <3>5 DEF RecFacts, Goto
  <2>6. CASE UpdateErr("cache", c) /\ rec' = RecIdle
    BY <1>e, <2>1, <2>6, IdleRec
  <2> QED  BY <1>5, <2>3, <2>4, <2>5, <2>6 DEF RefetchClaim
<1>6. CASE RefetchAgain
  <2>1. /\ rec.pc = "respec" /\ workers' = workers
        /\ UNCHANGED <<api, cache>>
    BY <1>6 DEF RefetchAgain
  <2>2. /\ c \in Claims /\ rec.id \in Instances
        /\ api[c].annotation \in {None, rec.id}
        /\ api[c].phase # "Unborn" /\ (OnServer(api[c]) => api[c].finalizer)
    BY <1>h, <2>1 DEF HandlerOf, RecordingPCs
  <2>3. CASE rec' = RecIdle /\ UNCHANGED upToDate
    BY <1>i, <1>c, <2>1, <2>3, IdleRec, SameWorkers DEF ClaimFacts
  <2>4. CASE /\ OnServer(cache[c]) /\ Refetch("rec", c)
             /\ Goto("record", "none", c, rec.id)
    <3>1. ClaimFacts'
      BY <1>t, <1>i, <1>h, <2>1, <2>2, <2>4, RefetchFacts
    <3>2. HandlerOf(rec', api[c], upToDate'[c])
      BY <2>2, <2>4 DEF HandlerOf, RecordingPCs, Goto
    <3> QED  BY <1>i, <1>c, <2>1, <2>2, <2>4, <3>1, <3>2, SameWorkers
             DEF RecFacts, Goto
  <2> QED  BY <1>6, <2>3, <2>4 DEF RefetchAgain
<1>7. CASE RecordInstance
  <2> DEFINE r == [api[c] EXCEPT !.phase = "Bootstrapping",
                                 !.instanceID = rec.id]
  <2>1. RecFacts' /\ workers' = workers /\ rec.pc = "record"
    BY <1>7, IdleRec DEF RecordInstance
  <2>2. CASE UpdateOK("rec", c, r, {})
    <3>1. /\ OnServer(api[c]) /\ api[c].finalizer /\ rec.id \in Instances
          /\ api[c].annotation \in {None, rec.id}
      BY <1>h, <2>1, <2>2 DEF UpdateOK, HandlerOf, RecordingPCs
    <3>2. /\ r.phase = "Bootstrapping" /\ r.instanceID = rec.id
          /\ r.annotation = api[c].annotation /\ r.finalizer = TRUE
      BY <1>h, <2>1, <3>1 DEF Claim
    <3>3. /\ c \in Claims /\ api' = [api EXCEPT ![c] = r] /\ cache' = cache
          /\ upToDate' = [upToDate EXCEPT ![c] = {}] /\ api'[c] = r
      BY <1>t, <1>h, <2>1, <2>2 DEF UpdateOK, ClaimsOK
    <3> HIDE DEF r
    <3>4. Sound(r) /\ Follows(api[c], r) /\ OnServer(r)
      BY <3>1, <3>2, ConstantsAssumption DEF Sound, Follows, OnServer
    <3>5. ClaimFacts'
      BY <1>t, <1>i, <3>3, <3>4, WriteFacts
    <3>6. WorkerFacts'
      BY <1>t, <1>i, <1>c, <2>1, <3>2, <3>3, <3>4
      DEF WorkerFacts, ClaimsOK, Calm
    <3> QED  BY <2>1, <3>5, <3>6
  <2>3. CASE UpdateErr("rec", c)
    BY <1>e, <2>1, <2>3
  <2> QED  BY <1>7, <2>2, <2>3 DEF RecordInstance
<1>8. CASE SetWorker
  <2>1. /\ rec.pc = "publish" /\ rec' = RecIdle /\ UNCHANGED claimVars
        /\ workers' \in {workers, [workers EXCEPT ![c] = "entry"]}
    BY <1>8 DEF SetWorker
  <2>2. OnServer(api[c]) /\ api[c].finalizer
    BY <1>h, <2>1 DEF HandlerOf
  <2>3. WorkerFacts'
    BY <1>i, <1>t, <2>1, <2>2 DEF WorkerFacts, RecIdle
  <2> QED  BY <1>i, <2>1, <2>3, IdleRec DEF ClaimFacts
<1>9. CASE RemoveWorker
  <2>1. rec.pc = "cleanup" /\ UNCHANGED claimVars
    BY <1>9 DEF RemoveWorker
  <2>2. /\ \A d \in Claims : workers'[d] = "entry" => workers[d] = "entry"
        /\ rec.path = "deleting" => workers'[c] # "entry"
    BY <1>9, <1>t, <1>h, <2>1 DEF RemoveWorker
  <2>3. rec' = RecIdle \/ Goto("write", rec.path, c, None)
    BY <1>9 DEF RemoveWorker
  <2>4. WorkerFacts'
    BY <1>i, <2>1, <2>2, <2>3 DEF WorkerFacts, RecIdle, Goto
  <2>5. api'[c].phase # "Unborn" /\ (OnServer(api'[c]) => api'[c].finalizer)
    BY <1>h, <2>1 DEF HandlerOf
  <2>6. RecFacts'
    BY <1>h, <2>1, <2>3, <2>5, IdleRec, PlainRec
  <2> QED  BY <1>i, <2>1, <2>4, <2>6 DEF ClaimFacts
<1>10. CASE RecDestroy
  <2>1. /\ rec.pc = "destroy" /\ UNCHANGED <<api, cache, upToDate, workers>>
    BY <1>10 DEF RecDestroy
  <2>2. RecFacts'
    <3>1. CASE AfterDestroy
      <4>1. api'[c].phase # "Unborn" /\ (OnServer(api'[c]) => api'[c].finalizer)
        BY <1>h, <2>1 DEF HandlerOf
      <4>2. PICK pc \in {"cleanup", "write"} : Goto(pc, rec.path, c, None)
        BY <3>1 DEF AfterDestroy
      <4> QED  BY <1>h, <2>1, <4>1, <4>2, PlainRec
    <3> QED  BY <1>10, <3>1, IdleRec DEF RecDestroy
  <2> QED  BY <1>i, <1>c, <2>1, <2>2, SameWorkers DEF ClaimFacts
<1>11. CASE WriteTerminated
  <2>1. rec.pc = "write" /\ workers' = workers
    BY <1>11 DEF WriteTerminated
  <2>2. CASE /\ UpdateOK("rec", c, Terminate(api[c]), {})
             /\ Goto("cleanup", "none", c, None)
    <3>1. OnServer(api[c]) /\ api[c].finalizer
      BY <1>h, <2>1, <2>2 DEF UpdateOK
    <3>2. Sound(Terminate(api[c])) /\ Gentle(api[c], Terminate(api[c]))
      BY <1>h, <2>1, <3>1, PhaseWrite DEF Terminate
    <3>3. /\ ClaimFacts' /\ WorkerFacts'
          /\ api'[c].phase # "Unborn" /\ api'[c].finalizer
      BY <1>w, <2>1, <2>2, <3>1, <3>2
    <3> QED  BY <1>h, <2>1, <2>2, <3>3, PlainRec
  <2>3. CASE /\ UpdateErr("rec", c)
             /\ rec' = RecIdle \/ Goto("cleanup", "none", c, None)
    <3>1. ClaimFacts' /\ WorkerFacts' /\ api' = api
      BY <1>e, <2>1, <2>3
    <3>2. api'[c].phase # "Unborn" /\ (OnServer(api'[c]) => api'[c].finalizer)
      BY <1>h, <2>1, <3>1 DEF HandlerOf
    <3> QED  BY <1>h, <2>1, <2>3, <3>1, <3>2, PlainRec, IdleRec
  <2> QED  BY <1>11, <2>2, <2>3 DEF WriteTerminated
<1>12. CASE WriteLast
  <2>1. /\ rec.pc = "write" /\ workers' = workers /\ RecFacts'
    BY <1>12, IdleRec DEF WriteLast
  <2>2. CASE UpdateOK("rec", c, Terminate(api[c]), {})
    <3>1. OnServer(api[c]) /\ api[c].finalizer
      BY <1>h, <2>1, <2>2 DEF UpdateOK
    <3>2. Sound(Terminate(api[c])) /\ Gentle(api[c], Terminate(api[c]))
      BY <1>h, <2>1, <3>1, PhaseWrite DEF Terminate
    <3> QED  BY <1>w, <2>1, <2>2, <3>1, <3>2
  <2>3. CASE /\ rec.path # "draining"
             /\ UpdateOK("rec", c, [api[c] EXCEPT !.finalizer = FALSE,
                                                  !.phase = "Removed"], {})
    <3> DEFINE r == [api[c] EXCEPT !.finalizer = FALSE, !.phase = "Removed"]
    <3>1. /\ c \in Claims /\ api' = [api EXCEPT ![c] = r] /\ cache' = cache
          /\ upToDate' = [upToDate EXCEPT ![c] = {}]
      BY <1>h, <2>1, <2>3 DEF UpdateOK
    <3>2. /\ r.phase = "Removed" /\ r.instanceID = api[c].instanceID
          /\ r.annotation = api[c].annotation
      BY <1>h, <2>1 DEF Claim
    <3> HIDE DEF r
    <3>3. Sound(r) /\ Follows(api[c], r)
      BY <1>h, <2>1, <3>2 DEF Sound, Follows, OnServer
    <3>4. ClaimFacts'
      BY <1>t, <1>i, <3>1, <3>3, WriteFacts
    <3>5. WorkerFacts'
      <4>1. rec' = RecIdle /\ workers[c] # "entry"
        BY <1>12, <1>i, <2>3 DEF WriteLast, WorkerFacts
      <4> QED  BY <1>t, <1>i, <2>1, <3>1, <4>1
               DEF WorkerFacts, ClaimsOK, RecIdle
    <3> QED  BY <2>1, <3>4, <3>5
  <2>4. CASE UpdateErr("rec", c)
    BY <1>e, <2>1, <2>4
  <2> QED  BY <1>12, <2>2, <2>3, <2>4 DEF WriteLast
<1> QED
  BY <1>1, <1>2, <1>3, <1>4, <1>5, <1>6, <1>7, <1>8, <1>9, <1>10, <1>11,
     <1>12
  DEF ContinueHandler

-----------------------------------------------------------------------------
(* The results.                                                              *)

\* IInv holds initially,
LEMMA InitFacts == Init => IInv
<1> SUFFICES ASSUME Init PROVE IInv
  OBVIOUS
<1>1. TypeOK
  BY InitTyped
<1>2. \A c \in Claims :
        /\ api[c].phase = "Unborn" /\ api[c].instanceID = None
        /\ api[c].annotation = None /\ api[c].deleting = FALSE
        /\ api[c].finalizer = FALSE /\ cache[c] = api[c]
        /\ upToDate[c] = {"cache"}
  <2>1. api = [c \in Claims |->
                 [phase |-> "Unborn", instanceID |-> None,
                  annotation |-> None, deleting |-> FALSE,
                  finalizer |-> FALSE, provider |-> FALSE]]
    BY DEF Init
  <2>2. cache = api /\ upToDate = [c \in Claims |-> {"cache"}]
    BY DEF Init
  <2> QED  BY <2>1, <2>2
<1>3. ClaimFacts
  BY <1>2 DEF ClaimFacts, Sound, CopyOf, HoldersOf, OnServer
<1> QED
  BY <1>1, <1>3
  DEF Init, IInv, RecFacts, DisFacts, WorkerFacts, RecIdle, DisIdle

\* and every step, of any actor, preserves it.
LEMMA StepFacts == IInv /\ [Next]_vars => IInv'
<1> SUFFICES ASSUME IInv, [Next]_vars PROVE IInv'
  OBVIOUS
<1>t. ClaimsOK /\ CloudOK /\ WorkersOK
  BY TypeParts DEF IInv
<1>p. (ClaimsOK /\ CloudOK /\ WorkersOK)' => TypeOK'
  BY DEF TypeOK, ClaimsOK, CloudOK, WorkersOK, RecType, DisType, GCType
<1>d. /\ rec.pc # "idle" => rec.claim \in Claims
      /\ dis.pc # "idle" => dis.claim \in Claims
  BY DEF IInv, RecFacts, DisFacts
<1>1. CASE Environment
  BY <1>1, EnvironmentTyped, EnvironmentFacts DEF IInv
<1>2. ASSUME NEW c \in Claims, Handle(c) \/ BootstrapTimedOut(c)
      PROVE  IInv'
  <2>1. dis' = dis
    BY <1>2
    DEF Handle, AddFinalizer, SetPending, ReuseInstance, StartProvisioning,
        HandleProvisioning, BootstrapGone, BootstrapFailed, BecomeReady,
        ReadyGone, ReadyLost, ResumeDraining, HandleDeletion,
        BootstrapTimedOut, RecUnchanged
  <2> QED  BY <1>2, <1>t, <1>p, <2>1, HandleTyped, HandleFacts
           DEF IInv, DisFacts
<1>3. CASE ContinueHandler
  <2>1. dis' = dis
    BY <1>3
    DEF ContinueHandler, CreateInstance, LoseResponse, ProvisionFailed,
        PatchAnnotation, RefetchClaim, RefetchAgain, RecordInstance,
        SetWorker, RecDestroy, WriteTerminated, WriteLast,
        RemoveWorker, RecUnchanged
  <2> QED  BY <1>3, <1>t, <1>p, <1>d, <2>1, ContinueHandlerTyped,
              ContinueHandlerFacts DEF IInv, DisFacts
<1>4. CASE DisruptionController \/ \E c \in Claims : Interrupt(c)
  BY <1>4, <1>t, <1>p, <1>d, DisruptionTyped, DisruptionFacts DEF IInv
<1>5. CASE InstanceGC
  BY <1>5, <1>t, <1>p, InstanceGCTyped, InstanceGCFacts DEF IInv
<1>6. CASE UNCHANGED vars
  BY <1>6
  DEF IInv, TypeOK, ClaimFacts, RecFacts, DisFacts, WorkerFacts, vars
<1> QED
  BY <1>1, <1>2, <1>3, <1>4, <1>5, <1>6 DEF Next, ClaimReconciler

(* The inductive invariant holds in every reachable state.                   *)
THEOREM Invariance == Spec => []IInv
<1> QED  BY InitFacts, StepFacts, PTL DEF Spec

(* Every state of the four controllers, the cache and the providers is of    *)
(* its type: no claim object, handler or sweep names an instance or a claim  *)
(* that does not exist, and the fault bound is kept.                         *)
THEOREM TypeCorrect == Spec => []TypeOK
<1>1. IInv => TypeOK
  BY DEF IInv
<1> QED  BY <1>1, Invariance, PTL

(* The annotation and the status never name two different instances: a       *)
(* retry of handlePending (reconciler.go:298-335) takes up the instance that *)
(* the attempt before it bought.                                             *)
THEOREM OneInstancePerClaim == Spec => []IdsAgree
<1>1. IInv => IdsAgree
  BY DEF IInv, ClaimFacts, Sound, IdsAgree
<1> QED  BY <1>1, Invariance, PTL

(* Exactly the phases from Bootstrapping on have an instance in the status.  *)
THEOREM PhaseImpliesInstance == Spec => []PhaseMatchesInstance
<1>1. IInv => PhaseMatchesInstance
  BY DEF IInv, ClaimFacts, Sound, PhaseMatchesInstance
<1> QED  BY <1>1, Invariance, PTL

(* A claim that is gone has left no entry in gpuscale:workers but one that   *)
(* the HDEL of handleDeletion failed to remove (reconciler.go:1069-1071      *)
(* drops that error): handleDeletion drops the finalizer only after trying,  *)
(* no other failure, crash or conflict lets it skip the attempt, and no      *)
(* other actor puts an entry back.                                           *)
THEOREM DeletionCleansDragonfly == Spec => []RemovedLeavesNoWorker
<1>1. IInv => RemovedLeavesNoWorker
  BY DEF IInv, WorkerFacts, OnServer, RemovedLeavesNoWorker
<1> QED  BY <1>1, Invariance, PTL
=============================================================================
