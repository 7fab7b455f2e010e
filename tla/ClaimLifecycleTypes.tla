------------------------- MODULE ClaimLifecycleTypes -------------------------
(***************************************************************************)
(* Every action of ClaimLifecycle keeps the type invariant. The lemmas are *)
(* grouped as the actions are; two of them assume what only the inductive  *)
(* invariant of ClaimLifecycleInvariant provides, that a handler in        *)
(* progress has a claim.                                                   *)
(***************************************************************************)
EXTENDS ClaimLifecycle, TLAPS

-----------------------------------------------------------------------------
(* Type correctness, in three parts that different actions disturb.          *)

ClaimsOK ==
    /\ api \in [Claims -> Claim]
    /\ cache \in [Claims -> Claim]
    /\ upToDate \in [Claims -> SUBSET Readers]

CloudOK ==
    /\ inst \in [Instances -> InstanceStates]
    /\ owner \in [Instances -> ClaimName]
    /\ agent \subseteq Claims
    /\ workers \in [Claims -> {"none", "entry", "missed"}]
    /\ faults \in 0..MaxFaults

RecType == [pc: RecPCs, path: RecPaths, claim: ClaimName, id: InstanceID]
DisType == [pc: DisPCs, claim: ClaimName, id: InstanceID]
GCType  == [pc: {"idle", "list", "sweep"}, known: SUBSET Instances,
            doomed: SUBSET Instances, orphans: SUBSET Instances]

WorkersOK ==
    /\ rec \in RecType
    /\ dis \in DisType
    /\ gc \in GCType
    /\ candidates \subseteq Instances

\* TypeOK is the three parts.
LEMMA TypeParts == TypeOK <=> ClaimsOK /\ CloudOK /\ WorkersOK
  BY DEF TypeOK, ClaimsOK, CloudOK, WorkersOK, RecType, DisType, GCType

(* The claim records the handlers write.                                     *)
LEMMA SetPhase ==
    ASSUME NEW r \in Claim, NEW p \in Phases
    PROVE  /\ [r EXCEPT !.phase = p] \in Claim
           /\ [r EXCEPT !.finalizer = FALSE, !.phase = p] \in Claim
  BY DEF Claim

\* ... the record of an instance, in the status or in the annotation,
LEMMA SetInstance ==
    ASSUME NEW r \in Claim, NEW p \in Phases, NEW i \in InstanceID
    PROVE  /\ [r EXCEPT !.phase = p, !.instanceID = i] \in Claim
           /\ [r EXCEPT !.annotation = i] \in Claim
  BY DEF Claim

\* ... the finalizer, the provider and the deletion mark.
LEMMA SetFlags ==
    ASSUME NEW r \in Claim, NEW p \in Phases
    PROVE  /\ [r EXCEPT !.finalizer = TRUE] \in Claim
           /\ [r EXCEPT !.provider = TRUE] \in Claim
           /\ [r EXCEPT !.deleting = TRUE, !.phase = p] \in Claim
  BY DEF Claim

(* The API calls.                                                            *)
LEMMA FaultOK == ASSUME CloudOK, Fault PROVE faults' \in 0..MaxFaults
  BY ConstantsAssumption DEF CloudOK, Fault

\* An update that succeeds writes a claim,
LEMMA UpdateOKTyped ==
    ASSUME ClaimsOK, NEW c \in Claims, NEW by, NEW r \in Claim,
           NEW keep \in SUBSET Readers, UpdateOK(by, c, r, keep)
    PROVE  ClaimsOK'
  BY DEF ClaimsOK, UpdateOK

\* one that fails changes only who holds the latest version,
LEMMA UpdateErrTyped ==
    ASSUME ClaimsOK, CloudOK, NEW c \in Claims, NEW by, UpdateErr(by, c)
    PROVE  ClaimsOK' /\ faults' \in 0..MaxFaults
  BY FaultOK DEF ClaimsOK, CloudOK, UpdateErr

\* and so does a read.
LEMMA RefetchTyped ==
    ASSUME ClaimsOK, NEW c \in Claims, NEW who \in Readers, Refetch(who, c)
    PROVE  upToDate' \in [Claims -> SUBSET Readers]
  BY DEF ClaimsOK, Refetch

\* The handler goes to a place of the reconciler's code.
LEMMA GotoTyped ==
    ASSUME NEW pc \in RecPCs, NEW path \in RecPaths, NEW c \in ClaimName,
           NEW i \in InstanceID, Goto(pc, path, c, i)
    PROVE  rec' \in RecType
  BY DEF Goto, RecType

\* The three workers at rest.
LEMMA IdleTyped ==
    /\ RecIdle \in RecType
    /\ DisIdle \in DisType
    /\ GCIdle \in GCType
  BY DEF RecIdle, RecType, DisIdle, DisType, GCIdle, GCType, RecPCs, RecPaths,
         DisPCs, ClaimName, InstanceID

\* DestroyInstance leaves every instance in one of its states.
LEMMA DestroyTyped ==
    ASSUME CloudOK, NEW i, DestroyOK(i) \/ DestroyErr(i)
    PROVE  /\ inst' \in [Instances -> InstanceStates]
           /\ owner' \in [Instances -> ClaimName]
           /\ faults' \in 0..MaxFaults
  BY FaultOK DEF CloudOK, DestroyOK, DestroyErr, InstanceStates, cloudVars

-----------------------------------------------------------------------------
(* Every step preserves the types.                                           *)

\* The initial state: no claim and no instance exists.
LEMMA InitTyped == Init => TypeOK
  BY ConstantsAssumption
  DEF Init, TypeOK, Claim, Phases, LivePhases, InstanceID, ClaimName,
      InstanceStates, Readers, RecPCs, RecPaths, DisPCs, RecIdle, DisIdle,
      GCIdle

\* The API server, users, agents, providers and crashes.
LEMMA EnvironmentTyped == TypeOK /\ Environment => TypeOK'
<1> SUFFICES ASSUME ClaimsOK, CloudOK, WorkersOK, Environment
             PROVE  ClaimsOK' /\ CloudOK' /\ WorkersOK'
  BY TypeParts DEF TypeOK, ClaimsOK, CloudOK, WorkersOK, RecType, DisType, GCType
<1> USE DEF claimVars, cloudVars, gcVars
<1>1. ASSUME NEW c \in Claims, CreateClaim(c)
      PROVE  ClaimsOK' /\ CloudOK' /\ WorkersOK'
  <2>0. PICK f \in BOOLEAN, p \in BOOLEAN :
          api' = [api EXCEPT ![c].phase = "New", ![c].finalizer = f,
                             ![c].provider = p]
    BY <1>1 DEF CreateClaim
  <2>1. [api[c] EXCEPT !.phase = "New", !.finalizer = f, !.provider = p]
          \in Claim
    BY DEF ClaimsOK, Claim, Phases, LivePhases
  <2>2. api' = [api EXCEPT ![c] = [api[c] EXCEPT !.phase = "New",
                                                !.finalizer = f,
                                                !.provider = p]]
    BY <2>0 DEF ClaimsOK, Claim
  <2>3. ClaimsOK'
    BY <1>1, <2>1, <2>2 DEF CreateClaim, ClaimsOK
  <2> QED  BY <1>1, <2>3 DEF CreateClaim, CloudOK, WorkersOK
<1>2. ASSUME NEW c \in Claims, DeleteClaim(c)
      PROVE  ClaimsOK' /\ CloudOK' /\ WorkersOK'
  <2> DEFINE p == IF api[c].finalizer THEN api[c].phase ELSE "Removed"
  <2>1. p \in Phases
    BY DEF ClaimsOK, Claim, Phases
  <2>2. [api[c] EXCEPT !.deleting = TRUE, !.phase = p] \in Claim
    BY <2>1, SetFlags DEF ClaimsOK
  <2>3. api' = [api EXCEPT ![c] = [api[c] EXCEPT !.deleting = TRUE,
                                                !.phase = p]]
    BY <1>2 DEF DeleteClaim, ClaimsOK, Claim
  <2>4. ClaimsOK'
    BY <1>2, <2>2, <2>3 DEF DeleteClaim, ClaimsOK
  <2> QED  BY <1>2, <2>4 DEF DeleteClaim, CloudOK, WorkersOK
<1>3. ASSUME NEW c \in Claims, AgentUp(c) \/ AgentDown(c)
      PROVE  ClaimsOK' /\ CloudOK' /\ WorkersOK'
  BY <1>3 DEF AgentUp, AgentDown, ClaimsOK, CloudOK, WorkersOK
<1>4. ASSUME NEW c \in Claims, WatchDeliver(c)
      PROVE  ClaimsOK' /\ CloudOK' /\ WorkersOK'
  <2>1. ClaimsOK'
    BY <1>4 DEF WatchDeliver, ClaimsOK, Readers
  <2> QED  BY <1>4, <2>1 DEF WatchDeliver, CloudOK, WorkersOK
<1>5. ASSUME NEW i \in Instances, Preempt(i)
      PROVE  ClaimsOK' /\ CloudOK' /\ WorkersOK'
  BY <1>5 DEF Preempt, ClaimsOK, CloudOK, WorkersOK, InstanceStates
<1>6. ASSUME Crash
      PROVE  ClaimsOK' /\ CloudOK' /\ WorkersOK'
  BY <1>6, FaultOK, IdleTyped
  DEF Crash, ClaimsOK, CloudOK, WorkersOK, Readers
<1> QED
  BY <1>1, <1>2, <1>3, <1>4, <1>5, <1>6 DEF Environment

\* A handler step that reads or writes claims, and moves the handler.
LEMMA FieldsTyped ==
    ASSUME ClaimsOK, NEW c \in Claims
    PROVE  /\ api[c] \in Claim /\ cache[c] \in Claim
           /\ cache[c].annotation \in InstanceID
           /\ cache[c].instanceID \in InstanceID
           /\ c \in ClaimName /\ None \in InstanceID
  BY DEF ClaimsOK, Claim, ClaimName, InstanceID

\* A handler of the reconciler that begins.
LEMMA HandleTyped ==
    ASSUME ClaimsOK, CloudOK, WorkersOK, NEW c \in Claims,
           Handle(c) \/ BootstrapTimedOut(c)
    PROVE  ClaimsOK' /\ CloudOK' /\ WorkersOK'
<1> USE DEF claimVars, cloudVars, gcVars, RecUnchanged
<1>f. /\ api[c] \in Claim /\ cache[c] \in Claim
      /\ cache[c].annotation \in InstanceID
      /\ cache[c].instanceID \in InstanceID
      /\ c \in ClaimName /\ None \in InstanceID
  BY FieldsTyped
<1>r. {} \in SUBSET Readers /\ {"rec"} \in SUBSET Readers
      /\ "rec" \in Readers
  BY DEF Readers
<1>t. Terminate(api[c]) \in Claim
  BY <1>f, SetPhase DEF Terminate, Phases
<1>p. RecIdle \in RecType
  BY IdleTyped
<1>1. CASE AddFinalizer(c)
  <2>1. ClaimsOK'
    BY <1>1, <1>f, <1>r, SetFlags, UpdateOKTyped DEF AddFinalizer, Phases
  <2>2. rec' \in RecType
    BY <1>1, <1>f, GotoTyped DEF AddFinalizer, RecPCs, RecPaths
  <2> QED  BY <1>1, <2>1, <2>2
           DEF AddFinalizer, UpdateOK, CloudOK, WorkersOK
<1>2. CASE SetPending(c)
  <2>1. [api[c] EXCEPT !.phase = "Pending"] \in Claim
    BY <1>f, SetPhase DEF Phases, LivePhases
  <2>2. ClaimsOK' /\ faults' \in 0..MaxFaults
    BY <1>2, <2>1, <1>r, UpdateOKTyped, UpdateErrTyped
    DEF SetPending, UpdateOK, CloudOK
  <2> QED  BY <1>2, <1>p, <2>2 DEF SetPending, CloudOK, WorkersOK
<1>3. CASE ReuseInstance(c)
  <2>1. rec' \in RecType
    BY <1>3, <1>f, GotoTyped DEF ReuseInstance, RecPCs, RecPaths
  <2> QED  BY <1>3, <2>1 DEF ReuseInstance, ClaimsOK, CloudOK, WorkersOK
<1>4. CASE StartProvisioning(c)
  <2>1. [api[c] EXCEPT !.phase = "Provisioning"] \in Claim
    BY <1>f, SetPhase DEF Phases, LivePhases
  <2>2. ClaimsOK'
    BY <1>4, <2>1, <1>r, UpdateOKTyped DEF StartProvisioning
  <2>3. rec' \in RecType
    BY <1>4, <1>f, GotoTyped DEF StartProvisioning, RecPCs, RecPaths
  <2> QED  BY <1>4, <2>2, <2>3
           DEF StartProvisioning, UpdateOK, CloudOK, WorkersOK
<1>5. CASE HandleProvisioning(c)
  <2> DEFINE p == IF api[c].instanceID # None
                  THEN "Bootstrapping" ELSE "Pending"
  <2>1. [api[c] EXCEPT !.phase = p] \in Claim
    BY <1>f, SetPhase DEF Phases, LivePhases
  <2>2. ClaimsOK'
    BY <1>5, <2>1, <1>r, UpdateOKTyped DEF HandleProvisioning
  <2> QED  BY <1>5, <1>p, <2>2
           DEF HandleProvisioning, UpdateOK, CloudOK, WorkersOK
<1>6. CASE BootstrapGone(c)
  <2>1. ClaimsOK'
    BY <1>6, <1>t, <1>r, UpdateOKTyped DEF BootstrapGone
  <2>2. rec' \in RecType
    BY <1>6, <1>f, GotoTyped DEF BootstrapGone, RecPCs, RecPaths
  <2> QED  BY <1>6, <2>1, <2>2 DEF BootstrapGone, UpdateOK, CloudOK, WorkersOK
<1>7. CASE BecomeReady(c)
  <2>1. [api[c] EXCEPT !.phase = "Ready"] \in Claim
    BY <1>f, SetPhase DEF Phases, LivePhases
  <2>2. ClaimsOK'
    BY <1>7, <2>1, <1>r, UpdateOKTyped DEF BecomeReady
  <2>3. rec' \in RecType
    BY <1>7, <1>f, GotoTyped DEF BecomeReady, RecPCs, RecPaths
  <2> QED  BY <1>7, <2>2, <2>3 DEF BecomeReady, UpdateOK, CloudOK, WorkersOK
<1>8. CASE ReadyGone(c)
  <2>1. ClaimsOK' /\ faults' \in 0..MaxFaults
    BY <1>8, <1>t, <1>r, UpdateOKTyped, UpdateErrTyped
    DEF ReadyGone, UpdateOK, CloudOK
  <2>2. rec' \in RecType
    BY <1>8, <1>f, GotoTyped DEF ReadyGone, RecPCs, RecPaths
  <2> QED  BY <1>8, <2>1, <2>2 DEF ReadyGone, CloudOK, WorkersOK
<1>9. CASE BootstrapTimedOut(c)
  <2>1. ClaimsOK' /\ faults' \in 0..MaxFaults
    BY <1>9, <1>t, <1>r, UpdateOKTyped, UpdateErrTyped
    DEF BootstrapTimedOut, UpdateOK, CloudOK
  <2>2. rec' \in RecType
    BY <1>9, <1>f, GotoTyped DEF BootstrapTimedOut, RecPCs, RecPaths
  <2> QED  BY <1>9, <2>1, <2>2 DEF BootstrapTimedOut, CloudOK, WorkersOK
<1>10. CASE \/ BootstrapFailed(c) \/ ReadyLost(c) \/ ResumeDraining(c)
            \/ HandleDeletion(c)
  <2>1. upToDate' \in [Claims -> SUBSET Readers]
    BY <1>10, <1>r, RefetchTyped
    DEF BootstrapFailed, ReadyLost, ResumeDraining, HandleDeletion
  <2>2. rec' \in RecType
    BY <1>10, <1>f, GotoTyped
    DEF BootstrapFailed, ReadyLost, ResumeDraining, HandleDeletion, RecPCs,
        RecPaths
  <2> QED
    BY <1>10, <2>1, <2>2
    DEF BootstrapFailed, ReadyLost, ResumeDraining, HandleDeletion, ClaimsOK,
        CloudOK, WorkersOK
<1> QED
  BY <1>1, <1>2, <1>3, <1>4, <1>5, <1>6, <1>7, <1>8, <1>9, <1>10 DEF Handle

\* A handler of the reconciler that goes on.
LEMMA ContinueHandlerTyped ==
    ASSUME ClaimsOK, CloudOK, WorkersOK, ContinueHandler,
           rec.pc # "idle" => rec.claim \in Claims
    PROVE  ClaimsOK' /\ CloudOK' /\ WorkersOK'
<1> USE DEF claimVars, cloudVars, gcVars, RecUnchanged
<1> DEFINE c == rec.claim
<1>f. /\ c \in ClaimName /\ rec.id \in InstanceID /\ rec.path \in RecPaths
      /\ None \in InstanceID
  BY DEF WorkersOK, RecType, InstanceID
<1>g. rec.pc # "idle" => c \in Claims /\ api[c] \in Claim
  BY DEF ClaimsOK
<1>r. {} \in SUBSET Readers /\ "rec" \in Readers
  BY DEF Readers
<1>p. RecIdle \in RecType
  BY IdleTyped
<1>1. ASSUME NEW i \in Instances, CreateInstance(i)
      PROVE  ClaimsOK' /\ CloudOK' /\ WorkersOK'
  <2>1. rec' \in RecType
    BY <1>1, <1>f, GotoTyped
    DEF CreateInstance, RecPCs, RecPaths, InstanceID
  <2> QED
    BY <1>1, <1>f, <2>1
    DEF CreateInstance, ClaimsOK, CloudOK, WorkersOK, InstanceStates
<1>2. CASE LoseResponse
  <2>1. rec' \in RecType
    BY <1>2, <1>f, GotoTyped DEF LoseResponse, RecPCs, RecPaths
  <2> QED  BY <1>2, <2>1, FaultOK
           DEF LoseResponse, ClaimsOK, CloudOK, WorkersOK
<1>3. CASE ProvisionFailed
  <2>1. c \in Claims /\ [api[c] EXCEPT !.phase = "Pending"] \in Claim
    BY <1>3, <1>g, SetPhase DEF ProvisionFailed, Phases, LivePhases
  <2>2. ClaimsOK' /\ faults' \in 0..MaxFaults
    <3>1. CASE UNCHANGED <<claimVars, faults>>
      BY <3>1 DEF ClaimsOK, CloudOK
    <3>2. CASE UpdateOK("cache", c, [api[c] EXCEPT !.phase = "Pending"], {})
      BY <3>2, <2>1, <1>r, UpdateOKTyped DEF UpdateOK, CloudOK
    <3>3. CASE UpdateErr("cache", c)
      BY <3>3, <2>1, UpdateErrTyped
    <3> QED  BY <1>3, <3>1, <3>2, <3>3 DEF ProvisionFailed
  <2> QED  BY <1>3, <1>p, <2>2 DEF ProvisionFailed, CloudOK, WorkersOK
<1>4. CASE PatchAnnotation
  <2>1. c \in Claims /\ [api[c] EXCEPT !.annotation = rec.id] \in Claim
    BY <1>4, <1>f, <1>g, SetInstance DEF PatchAnnotation, Phases
  <2>2. rec' \in RecType
    BY <1>4, <1>f, GotoTyped DEF PatchAnnotation, RecPCs, RecPaths
  <2>3. ClaimsOK'
    <3>1. CASE UNCHANGED claimVars
      BY <3>1 DEF ClaimsOK
    <3>2. CASE /\ api' = [api EXCEPT ![c].annotation = rec.id]
               /\ upToDate' = [upToDate EXCEPT ![c] = {}]
               /\ UNCHANGED cache
      <4>1. api' = [api EXCEPT ![c] = [api[c] EXCEPT !.annotation = rec.id]]
        BY <3>2 DEF ClaimsOK
      <4> QED  BY <3>2, <4>1, <2>1 DEF ClaimsOK
    <3> QED  BY <1>4, <3>1, <3>2 DEF PatchAnnotation
  <2>4. faults' \in 0..MaxFaults
    BY <1>4, FaultOK DEF PatchAnnotation, CloudOK
  <2> QED  BY <1>4, <2>2, <2>3, <2>4 DEF PatchAnnotation, CloudOK, WorkersOK
<1>5. CASE RefetchClaim
  <2>1. c \in Claims /\ [api[c] EXCEPT !.provider = TRUE] \in Claim
    BY <1>5, <1>g, SetFlags DEF RefetchClaim, Phases
  <2>2. rec' \in RecType
    BY <1>5, <1>f, <1>p, GotoTyped DEF RefetchClaim, RecPCs, RecPaths
  <2>3. ClaimsOK' /\ faults' \in 0..MaxFaults
    <3>1. CASE UNCHANGED <<claimVars, faults>>
      BY <3>1 DEF ClaimsOK, CloudOK
    <3>2. CASE Refetch("rec", c) /\ UNCHANGED <<api, cache, faults>>
      BY <3>2, <2>1, <1>r, RefetchTyped DEF ClaimsOK, CloudOK
    <3>3. CASE UpdateOK("cache", c, [api[c] EXCEPT !.provider = TRUE], {})
      BY <3>3, <2>1, <1>r, UpdateOKTyped DEF UpdateOK, CloudOK
    <3>4. CASE UpdateErr("cache", c)
      BY <3>4, <2>1, UpdateErrTyped
    <3> QED  BY <1>5, <3>1, <3>2, <3>3, <3>4 DEF RefetchClaim
  <2> QED  BY <1>5, <2>2, <2>3 DEF RefetchClaim, CloudOK, WorkersOK
<1>6. CASE RefetchAgain
  <2>1. rec' \in RecType
    BY <1>6, <1>f, <1>p, GotoTyped DEF RefetchAgain, RecPCs, RecPaths
  <2>2. upToDate' \in [Claims -> SUBSET Readers]
    BY <1>6, <1>g, <1>r, RefetchTyped DEF RefetchAgain, ClaimsOK
  <2> QED  BY <1>6, <2>1, <2>2 DEF RefetchAgain, ClaimsOK, CloudOK, WorkersOK
<1>7. CASE RecordInstance
  <2> DEFINE r == [api[c] EXCEPT !.phase = "Bootstrapping",
                                 !.instanceID = rec.id]
  <2>1. c \in Claims /\ r \in Claim
    BY <1>7, <1>f, <1>g, SetInstance DEF RecordInstance, Phases, LivePhases
  <2>2. ClaimsOK' /\ faults' \in 0..MaxFaults
    <3>1. CASE UpdateOK("rec", c, r, {})
      BY <3>1, <2>1, <1>r, UpdateOKTyped DEF UpdateOK, CloudOK
    <3>2. CASE UpdateErr("rec", c)
      BY <3>2, <2>1, UpdateErrTyped
    <3> QED  BY <1>7, <3>1, <3>2 DEF RecordInstance
  <2> QED  BY <1>7, <1>p, <2>2 DEF RecordInstance, CloudOK, WorkersOK
<1>8. CASE SetWorker
  <2>1. /\ workers' \in [Claims -> {"none", "entry", "missed"}]
        /\ faults' \in 0..MaxFaults
    BY <1>8, FaultOK DEF SetWorker, CloudOK
  <2> QED  BY <1>8, <1>p, <2>1 DEF SetWorker, ClaimsOK, CloudOK, WorkersOK
<1>9. CASE RemoveWorker
  <2>1. /\ workers' \in [Claims -> {"none", "entry", "missed"}]
        /\ faults' \in 0..MaxFaults
    BY <1>9, FaultOK DEF RemoveWorker, CloudOK
  <2>2. rec' \in RecType
    BY <1>9, <1>f, <1>p, GotoTyped DEF RemoveWorker, RecPCs, RecPaths
  <2> QED
    BY <1>9, <2>1, <2>2 DEF RemoveWorker, ClaimsOK, CloudOK, WorkersOK
<1>10. CASE RecDestroy
  <2>1. rec' \in RecType
    <3>1. CASE AfterDestroy
      BY <3>1, <1>f, GotoTyped DEF AfterDestroy, RecPCs, RecPaths
    <3> QED  BY <1>10, <1>p, <3>1 DEF RecDestroy
  <2> QED  BY <1>10, <2>1, DestroyTyped
           DEF RecDestroy, ClaimsOK, CloudOK, WorkersOK
<1>11. CASE WriteTerminated
  <2>1. c \in Claims /\ Terminate(api[c]) \in Claim
    BY <1>11, <1>g, SetPhase DEF WriteTerminated, Terminate, Phases
  <2>2. rec' \in RecType
    BY <1>11, <1>f, <1>p, GotoTyped DEF WriteTerminated, RecPCs, RecPaths
  <2>3. ClaimsOK' /\ faults' \in 0..MaxFaults
    <3>1. CASE UpdateOK("rec", c, Terminate(api[c]), {})
      BY <3>1, <2>1, <1>r, UpdateOKTyped DEF UpdateOK, CloudOK
    <3>2. CASE UpdateErr("rec", c)
      BY <3>2, <2>1, UpdateErrTyped
    <3> QED  BY <1>11, <3>1, <3>2 DEF WriteTerminated
  <2> QED  BY <1>11, <2>2, <2>3 DEF WriteTerminated, CloudOK, WorkersOK
<1>12. CASE WriteLast
  <2> DEFINE r == IF rec.path = "draining" THEN Terminate(api[c])
                  ELSE [api[c] EXCEPT !.finalizer = FALSE,
                                      !.phase = "Removed"]
  <2>1. c \in Claims /\ r \in Claim
    BY <1>12, <1>g, SetPhase DEF WriteLast, Terminate, Phases
  <2>2. ClaimsOK' /\ faults' \in 0..MaxFaults
    <3>1. CASE UpdateOK("rec", c, r, {})
      BY <3>1, <2>1, <1>r, UpdateOKTyped DEF UpdateOK, CloudOK
    <3>2. CASE UpdateErr("rec", c)
      BY <3>2, <2>1, UpdateErrTyped
    <3> QED  BY <1>12, <3>1, <3>2 DEF WriteLast
  <2> QED  BY <1>12, <1>p, <2>2 DEF WriteLast, CloudOK, WorkersOK
<1> QED
  BY <1>1, <1>2, <1>3, <1>4, <1>5, <1>6, <1>7, <1>8, <1>9, <1>10, <1>11, <1>12
  DEF ContinueHandler

\* The disruption and the interruption controller.
LEMMA DisruptionTyped ==
    ASSUME ClaimsOK, CloudOK, WorkersOK,
           DisruptionController \/ \E c \in Claims : Interrupt(c),
           dis.pc # "idle" => dis.claim \in Claims
    PROVE  ClaimsOK' /\ CloudOK' /\ WorkersOK'
<1> USE DEF claimVars, cloudVars, gcVars, DisUnchanged
<1>r. {} \in SUBSET Readers /\ {"dis"} \in SUBSET Readers
  BY DEF Readers
<1>p. DisIdle \in DisType
  BY IdleTyped
<1>1. ASSUME NEW c \in Claims, TouchIdleSince(c)
      PROVE  ClaimsOK' /\ CloudOK' /\ WorkersOK'
  <2>1. ClaimsOK'
    BY <1>1, <1>r, FieldsTyped, UpdateOKTyped DEF TouchIdleSince
  <2> QED  BY <1>1, <2>1 DEF TouchIdleSince, UpdateOK, CloudOK, WorkersOK
<1>2. ASSUME NEW c \in Claims, StartDraining(c)
      PROVE  ClaimsOK' /\ CloudOK' /\ WorkersOK'
  <2>1. [api[c] EXCEPT !.phase = "Draining"] \in Claim
    BY FieldsTyped, SetPhase DEF Phases, LivePhases
  <2>2. ClaimsOK'
    BY <1>2, <2>1, <1>r, UpdateOKTyped DEF StartDraining
  <2>3. dis' \in DisType
    BY <1>2, FieldsTyped DEF StartDraining, DisType, DisPCs
  <2> QED  BY <1>2, <2>2, <2>3 DEF StartDraining, UpdateOK, CloudOK, WorkersOK
<1>3. CASE DisDestroy
  <2>1. dis' \in DisType
    BY <1>3 DEF DisDestroy, WorkersOK, DisType, DisPCs
  <2> QED  BY <1>3, <2>1, DestroyTyped
           DEF DisDestroy, ClaimsOK, CloudOK, WorkersOK
<1>4. CASE DisWriteTerminated
  <2> DEFINE c == dis.claim
  <2>1. c \in Claims /\ Terminate(api[c]) \in Claim
    BY <1>4, FieldsTyped, SetPhase DEF DisWriteTerminated, Terminate, Phases
  <2>2. dis' \in DisType
    BY <1>4, <1>p DEF DisWriteTerminated, WorkersOK, DisType, DisPCs
  <2>3. ClaimsOK' /\ faults' \in 0..MaxFaults
    <3>1. CASE UpdateOK("dis", c, Terminate(api[c]), {})
      BY <3>1, <2>1, <1>r, UpdateOKTyped DEF UpdateOK, CloudOK
    <3>2. CASE /\ IF "dis" \in upToDate[c] THEN Fault ELSE UNCHANGED faults
               /\ upToDate' = [upToDate EXCEPT ![c] = @ \ {"dis"}]
               /\ UNCHANGED <<api, cache>>
      BY <3>2, <2>1, FaultOK DEF ClaimsOK, CloudOK
    <3> QED  BY <1>4, <3>1, <3>2 DEF DisWriteTerminated
  <2> QED  BY <1>4, <2>2, <2>3 DEF DisWriteTerminated, CloudOK, WorkersOK
<1>5. CASE DisRemoveWorker
  <2>1. /\ workers' \in [Claims -> {"none", "entry", "missed"}]
        /\ faults' \in 0..MaxFaults
    BY <1>5, FaultOK DEF DisRemoveWorker, CloudOK
  <2> QED
    BY <1>5, <1>p, <2>1 DEF DisRemoveWorker, ClaimsOK, CloudOK, WorkersOK
<1>6. ASSUME NEW c \in Claims, Interrupt(c)
      PROVE  ClaimsOK' /\ CloudOK' /\ WorkersOK'
  <2>1. Terminate(api[c]) \in Claim
    BY FieldsTyped, SetPhase DEF Terminate, Phases
  <2>2. ClaimsOK'
    BY <1>6, <2>1, <1>r, UpdateOKTyped DEF Interrupt
  <2> QED  BY <1>6, <2>2 DEF Interrupt, UpdateOK, CloudOK, WorkersOK
<1> QED
  BY <1>1, <1>2, <1>3, <1>4, <1>5, <1>6
  DEF DisruptionController, ContinueDraining

\* Claims name existing instances only.
LEMMA NamedTyped == ClaimsOK => NamedIn(cache) \subseteq Instances
  BY DEF ClaimsOK, NamedIn, Names, Claim, InstanceID

\* The garbage collector.
LEMMA InstanceGCTyped ==
    ASSUME ClaimsOK, CloudOK, WorkersOK, InstanceGC
    PROVE  ClaimsOK' /\ CloudOK' /\ WorkersOK'
<1> USE DEF claimVars, cloudVars, gcVars, GCUnchanged
<1>1. ClaimsOK'
  BY DEF InstanceGC, GCCollectKnown, GCListInstances, GCDestroy, GCFinish,
         ClaimsOK
<1>2. CloudOK'
  <2>1. ASSUME NEW i \in Instances, GCDestroy(i)  PROVE CloudOK'
    BY <2>1, DestroyTyped DEF GCDestroy, CloudOK
  <2> QED
    BY <2>1, FaultOK
    DEF InstanceGC, GCCollectKnown, GCListInstances, GCFinish, CloudOK
<1>3. gc' \in GCType /\ candidates' \subseteq Instances
  <2>1. CASE GCCollectKnown
    BY <2>1, NamedTyped DEF GCCollectKnown, GCIdle, GCType, WorkersOK
  <2>2. CASE GCListInstances
    <3> DEFINE unknown == {i \in Listed : inst[i] \in Existing} \ gc.known
    <3>1. unknown \in SUBSET Instances
      BY ConstantsAssumption
    <3>2. /\ unknown \cap candidates \in SUBSET Instances
          /\ unknown \ candidates \in SUBSET Instances
      BY <3>1
    <3> HIDE DEF unknown
    <3>3. gc' \in GCType
      <4>1. ASSUME NEW doomed \in SUBSET Instances,
                   NEW orphans \in SUBSET Instances
            PROVE  [GCIdle EXCEPT !.pc = "sweep", !.doomed = doomed,
                                  !.orphans = orphans] \in GCType
        BY DEF GCIdle, GCType
      <4>2. [GCIdle EXCEPT !.pc = "sweep"] \in GCType
        BY DEF GCIdle, GCType
      <4> QED  BY <2>2, <3>2, <4>1, <4>2 DEF GCListInstances, unknown
    <3> QED  BY <2>2, <3>3 DEF GCListInstances, WorkersOK
  <2>3. ASSUME NEW i \in Instances, GCDestroy(i)
        PROVE  gc' \in GCType /\ candidates' \subseteq Instances
    <3>1. /\ gc \in GCType
          /\ gc.doomed \ {i} \in SUBSET Instances
          /\ gc.orphans \cup {i} \in SUBSET Instances
      BY DEF WorkersOK, GCType
    <3>2. ASSUME NEW doomed \in SUBSET Instances,
                 NEW orphans \in SUBSET Instances
          PROVE  /\ [gc EXCEPT !.doomed = doomed] \in GCType
                 /\ [gc EXCEPT !.doomed = doomed, !.orphans = orphans]
                      \in GCType
      BY <3>1 DEF GCType
    <3> QED  BY <2>3, <3>1, <3>2 DEF GCDestroy, WorkersOK
  <2>4. CASE GCFinish
    BY <2>4, IdleTyped DEF GCFinish, GCType, WorkersOK
  <2> QED  BY <2>1, <2>2, <2>3, <2>4 DEF InstanceGC
<1> QED
  BY <1>1, <1>2, <1>3
  DEF InstanceGC, GCCollectKnown, GCListInstances, GCDestroy, GCFinish,
      WorkersOK
=============================================================================
