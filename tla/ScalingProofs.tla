---------------------------- MODULE ScalingProofs ----------------------------
(***************************************************************************)
(* The bookkeeping of ProvisioningController is right for any pods, models *)
(* and limits: no lock is lost or left behind, no batch is left without a  *)
(* timer, a process claims at most once for a pod, and what it claims      *)
(* fits the pods. The types of both writers of claims are proved with the  *)
(* last of these.                                                          *)
(***************************************************************************)
EXTENDS Scaling, SumsProofs

\* LocksAccounted is inductive by itself; that claim is a function is all that
\* has to be known of the claims.
IInv == LocksAccounted /\ claim = [i \in Ids |-> claim[i]]

\* A claim made in this step is for no pod that has had one.
NewClaimsFresh ==
    \A i \in Ids : claim'[i] # claim[i] /\ claim[i].phase = "Absent"
        => claim'[i].pods \cap served = {}

LEMMA InitInvariant == Init => IInv
BY DEF Init, NodeClaimsInit, TriggerInit, PodsInit, IInv, LocksAccounted, Batched

\* What leaves the provisioner's memory alone leaves LocksAccounted alone.
LEMMA BookkeepingUntouched ==
    ASSUME LocksAccounted, UNCHANGED <<batch, locks, timer, due, firing, served>>
    PROVE  LocksAccounted'
BY DEF LocksAccounted, Batched

-----------------------------------------------------------------------------
(* Writes of claims *)

\* A claim made by Create leaves the others as they are.
LEMMA CreateFacts ==
    ASSUME claim = [i \in Ids |-> claim[i]], NEW new, Create(new),
           new.pods \cap served = {}
    PROVE  claim' = [i \in Ids |-> claim'[i]] /\ NewClaimsFresh
<1>1. PICK i \in Ids : NextId(i) /\ claim' = [claim EXCEPT ![i] = new]
  BY DEF Create
<1>2. \A j \in Ids : claim'[j] = IF j = i THEN new ELSE claim[j]
  BY <1>1
<1>3. claim' = [j \in Ids |-> claim'[j]]
  BY <1>1
<1>4. NewClaimsFresh
  BY <1>2 DEF NewClaimsFresh
<1> QED  BY <1>3, <1>4

\* A change of phase makes no claim.
LEMMA SetPhaseFacts ==
    ASSUME claim = [i \in Ids |-> claim[i]], NEW i \in Ids, NEW from, NEW to,
           from # "Absent", SetPhase(i, from, to)
    PROVE  claim' = [j \in Ids |-> claim'[j]] /\ NewClaimsFresh
<1>1. claim[i].phase = from /\ claim' = [claim EXCEPT ![i].phase = to]
  BY DEF SetPhase
<1>2. \A j \in Ids : j # i => claim'[j] = claim[j]
  BY <1>1
<1>3. claim' = [j \in Ids |-> claim'[j]]
  BY <1>1
<1>4. NewClaimsFresh
  BY <1>1, <1>2 DEF NewClaimsFresh
<1> QED  BY <1>3, <1>4

\* No claim that ProvisionTrigger makes is for a pod.
LEMMA ModelClaimHasNoPods ==
    ASSUME NEW m, NEW models, NEW bundle, NEW vram
    PROVE  ModelClaim(m, models, bundle, vram).pods \cap served = {}
BY DEF ModelClaim, NoClaim

LEMMA PodClaimPods ==
    ASSUME NEW b, NEW m
    PROVE  PodClaim(b, m).pods = b
BY DEF PodClaim, NoClaim

LEMMA ClaimUntouched ==
    ASSUME IInv, UNCHANGED claim
    PROVE  claim' = [j \in Ids |-> claim'[j]] /\ NewClaimsFresh
BY DEF IInv, NewClaimsFresh

-----------------------------------------------------------------------------
(* One lemma per kind of step *)

LEMMA ClaimStepKeeps ==
    ASSUME IInv, ClaimStep, UNCHANGED provision
    PROVE  IInv' /\ NewClaimsFresh
<1>1. LocksAccounted'
  BY BookkeepingUntouched DEF IInv, provision
<1>2. CASE WatchDeliver
  BY <1>1, <1>2, ClaimUntouched DEF WatchDeliver, IInv
<1>3. ASSUME NEW i \in Ids, ClaimReady(i) \/ ClaimDrains(i)
      PROVE  claim' = [j \in Ids |-> claim'[j]] /\ NewClaimsFresh
  BY <1>3, SetPhaseFacts DEF ClaimReady, ClaimDrains, IInv
<1> QED  BY <1>1, <1>2, <1>3 DEF ClaimStep, IInv

LEMMA RetriggersKeeps ==
    ASSUME IInv, NEW i \in Ids, Retriggers(i), UNCHANGED provision
    PROVE  IInv' /\ NewClaimsFresh
<1>1. LocksAccounted'
  BY BookkeepingUntouched DEF IInv, provision
<1>2. claim' = [j \in Ids |-> claim'[j]] /\ NewClaimsFresh
  BY SetPhaseFacts DEF Retriggers, ClaimEnds, IInv
<1> QED  BY <1>1, <1>2 DEF IInv

LEMMA HandleTriggerKeeps ==
    ASSUME IInv, NEW m \in Models, TriggerOK(m) \/ TriggerFails(m)
    PROVE  claim' = [j \in Ids |-> claim'[j]] /\ NewClaimsFresh
<1>1. CASE UNCHANGED claim
  BY <1>1, ClaimUntouched
<1>2. CASE TriggerCreates(m)
  <2>1. PICK S : Create(ModelClaim(m, S \cup {m}, S # {}, TotalVRAM(S \cup {m})))
    BY <1>2 DEF TriggerCreates
  <2> QED  BY <2>1, CreateFacts, ModelClaimHasNoPods DEF IInv
<1> QED  BY <1>1, <1>2 DEF TriggerOK, TriggerFails

LEMMA TriggerStepKeeps ==
    ASSUME IInv, TriggerStep, UNCHANGED provision
    PROVE  IInv' /\ NewClaimsFresh
<1>1. LocksAccounted'
  BY BookkeepingUntouched DEF IInv, provision
<1>2. CASE StartUp \/ Tick
  BY <1>1, <1>2, ClaimUntouched DEF StartUp, Tick, claims, IInv
<1>3. CASE Consolidate
  <2>1. CASE UNCHANGED claim
    BY <1>1, <2>1, ClaimUntouched DEF IInv
  <2>2. CASE \E m, models, vram : Create(ModelClaim(m, models, TRUE, vram))
    BY <1>1, <2>2, CreateFacts, ModelClaimHasNoPods DEF IInv
  <2> QED  BY <1>3, <2>1, <2>2 DEF Consolidate
<1>4. CASE ScanEnds
  <2>1. CASE UNCHANGED claim
    BY <1>1, <2>1, ClaimUntouched DEF IInv
  <2> QED  BY <1>3, <1>4, <2>1 DEF ScanEnds
<1>5. ASSUME NEW m \in Models, ScanModel(m)
      PROVE  IInv' /\ NewClaimsFresh
  BY <1>1, <1>5, HandleTriggerKeeps DEF ScanModel, IInv
<1>6. ASSUME NEW m \in Models, HandleMessage(m)
      PROVE  IInv' /\ NewClaimsFresh
  BY <1>1, <1>6, HandleTriggerKeeps, ClaimUntouched DEF HandleMessage, IInv
<1> QED  BY <1>2, <1>4, <1>5, <1>6 DEF TriggerStep

LEMMA ReconcileKeeps ==
    ASSUME IInv, NEW p \in Pods, Reconcile(p)
    PROVE  IInv' /\ NewClaimsFresh
<1>1. claim' = [j \in Ids |-> claim'[j]] /\ NewClaimsFresh
  BY ClaimUntouched DEF Reconcile, claims
<1>2. /\ p \notin locks
      /\ batch' = batch \cup {p} /\ locks' = locks \cup {p}
      /\ timer' = TRUE /\ due' = (due \/ ~timer)
      /\ firing' = firing /\ served' = served
  BY DEF Reconcile, AddToBatch
<1>3. p \notin UNION firing /\ p \notin served
  BY <1>2 DEF IInv, LocksAccounted, Batched
<1>4. Batched' = Batched \cup {p}
  BY <1>2 DEF Batched
<1>5. /\ locks' = Batched' \cup served'
      /\ batch' \cap UNION firing' = {} /\ Batched' \cap served' = {}
      /\ \A b, c \in firing' : b # c => b \cap c = {}
  BY <1>2, <1>3, <1>4 DEF IInv, LocksAccounted
<1>6. timer' = due'
  BY <1>2, Zenon DEF IInv, LocksAccounted
<1> QED  BY <1>1, <1>2, <1>5, <1>6 DEF IInv, LocksAccounted

LEMMA BatchFiresKeeps ==
    ASSUME IInv, BatchFires
    PROVE  IInv' /\ NewClaimsFresh
<1>1. claim' = [j \in Ids |-> claim'[j]] /\ NewClaimsFresh
  BY ClaimUntouched DEF BatchFires, world
<1>2. /\ batch' = {} /\ timer' = FALSE /\ due' = FALSE
      /\ firing' = IF batch = {} THEN firing ELSE firing \cup {batch}
      /\ locks' = locks /\ served' = served
  BY DEF BatchFires
<1>3. UNION firing' = Batched
  BY <1>2 DEF Batched
<1>4. Batched' = Batched
  BY <1>2, <1>3 DEF Batched
<1>5. \A b \in firing : b \subseteq UNION firing
  OBVIOUS
<1>6. \A b, c \in firing' : b # c => b \cap c = {}
  BY <1>2, <1>5 DEF IInv, LocksAccounted
<1> QED  BY <1>1, <1>2, <1>4, <1>6 DEF IInv, LocksAccounted

LEMMA ProcessBatchKeeps ==
    ASSUME IInv, NEW b, ProcessBatch(b)
    PROVE  IInv' /\ NewClaimsFresh
<1>1. /\ b \in firing /\ firing' = firing \ {b}
      /\ batch' = batch /\ timer' = timer /\ due' = due
  BY DEF ProcessBatch
<1>2. b \subseteq Batched
  BY <1>1 DEF Batched
<1>3. UNION firing' = (UNION firing) \ b
  BY <1>1 DEF IInv, LocksAccounted
<1>4. Batched' = Batched \ b
  BY <1>1, <1>3 DEF Batched, IInv, LocksAccounted
<1>5. \A c, d \in firing' : c # d => c \cap d = {}
  BY <1>1 DEF IInv, LocksAccounted
<1>6. CASE BatchFails(b)
  <2>1. locks' = locks \ b /\ served' = served /\ claim' = claim
    BY <1>6 DEF BatchFails, ReleaseProvisioningLocks
  <2> QED  BY <1>1, <1>2, <1>3, <1>4, <1>5, <2>1, ClaimUntouched DEF IInv, LocksAccounted
<1>7. CASE BatchSucceeds(b)
  <2>1. locks' = locks /\ served' = served \cup b
    BY <1>7 DEF BatchSucceeds
  <2>2. PICK m : Create(PodClaim(b, m))
    BY <1>7 DEF BatchSucceeds
  <2>3. PodClaim(b, m).pods \cap served = {}
    BY <1>2, PodClaimPods DEF IInv, LocksAccounted
  <2>4. claim' = [j \in Ids |-> claim'[j]] /\ NewClaimsFresh
    BY <2>2, <2>3, CreateFacts DEF IInv
  <2> QED  BY <1>1, <1>2, <1>3, <1>4, <1>5, <2>1, <2>4 DEF IInv, LocksAccounted
<1> QED  BY <1>6, <1>7 DEF ProcessBatch

LEMMA RestartKeeps ==
    ASSUME IInv, Restart
    PROVE  IInv' /\ NewClaimsFresh
<1>1. claim' = [j \in Ids |-> claim'[j]] /\ NewClaimsFresh
  BY ClaimUntouched DEF Restart
<1>2. LocksAccounted'
  BY DEF Restart, ProvisionerRestarts, LocksAccounted, Batched
<1> QED  BY <1>1, <1>2 DEF IInv

-----------------------------------------------------------------------------
(* The theorems *)

LEMMA StepKeeps ==
    ASSUME IInv, [Next]_vars
    PROVE  IInv' /\ [NewClaimsFresh]_vars
<1>1. CASE UNCHANGED vars
  BY <1>1 DEF vars, world, provision, IInv, LocksAccounted, Batched
<1>2. CASE UNCHANGED <<claim, provision>>
  <2>1. LocksAccounted'
    BY <1>2, BookkeepingUntouched DEF IInv, provision
  <2> QED  BY <1>2, <2>1, ClaimUntouched DEF IInv
<1>3. CASE Next
  <2>1. CASE ClaimStep /\ UNCHANGED <<trigger, provision>>
    BY <2>1, ClaimStepKeeps
  <2>2. CASE RequestStep /\ UNCHANGED <<trigger, provision>>
    BY <2>2, <1>2 DEF RequestStep, Forward, Answered, claims
  <2>3. CASE \E m \in Models : RequestArrives(m) /\ UNCHANGED provision
    BY <2>3, <1>2 DEF RequestArrives, claims
  <2>4. CASE \E i \in Ids : Retriggers(i) /\ UNCHANGED provision
    BY <2>4, RetriggersKeeps
  <2>5. CASE TriggerStep /\ UNCHANGED provision
    BY <2>5, TriggerStepKeeps
  <2>6. CASE PodStep
    <3>1. UNCHANGED <<claim, batch, locks, timer, due, firing, served>>
      BY <2>6 DEF PodStep, PodArrives, PodLeaves, claims, world
    <3> QED  BY <3>1, BookkeepingUntouched, ClaimUntouched DEF IInv
  <2>7. CASE \E p \in Pods : Reconcile(p)
    BY <2>7, ReconcileKeeps
  <2>8. CASE BatchStep
    BY <2>8, BatchFiresKeeps, ProcessBatchKeeps DEF BatchStep
  <2>9. CASE Restart
    BY <2>9, RestartKeeps
  <2> QED  BY <1>3, <2>1, <2>2, <2>3, <2>4, <2>5, <2>6, <2>7, <2>8, <2>9 DEF Next
<1> QED  BY <1>1, <1>3

\* The invariant holds in every state (provisioner.go:97-128, 346-352).
THEOREM Invariance == Spec => []IInv
<1>1. IInv /\ [Next]_vars => IInv'
  BY StepKeeps
<1> QED  BY InitInvariant, <1>1, PTL DEF Spec

\* Locks, batches and claims agree whatever pods there are and however calls
\* fail: the run's LocksAccounted for every value of the constants.
THEOREM LocksAreAccounted == Spec => []LocksAccounted
<1>1. IInv => LocksAccounted
  BY DEF IInv
<1> QED  BY Invariance, <1>1, PTL

\* No process claims twice for a pod, for every value of the constants.
THEOREM PodsAreClaimedOnce == Spec => PodClaimedOnce
<1>1. IInv /\ [Next]_vars => [NewClaimsFresh]_vars
  BY StepKeeps
<1>2. [NewClaimsFresh]_vars =>
        [\A i \in Ids : claim'[i] # claim[i] /\ claim[i].phase = "Absent"
           => claim'[i].pods \cap served = {}]_vars
  BY DEF NewClaimsFresh
<1> QED  BY Invariance, <1>1, <1>2, PTL DEF Spec, PodClaimedOnce

-----------------------------------------------------------------------------
(* Types, and nodes that fit their pods                                      *)

\* What a claim is made of does not change once it is made, so that the cache,
\* and a scan that began some time ago, are wrong about phases only.
MadeOf(c) == <<c.primary, c.models>>

HasPrimary(c) == c.models # {} => c.primary \in Models

CacheFollows ==
    \A i \in Ids : cache[i].phase # "Absent" =>
        claim[i].phase # "Absent" /\ MadeOf(cache[i]) = MadeOf(claim[i])

MergeMade ==
    \A i \in scan.merge : claim[i].phase # "Absent" /\ claim[i].primary \in Models

FitInv ==
    /\ TypeOK
    /\ {} \notin firing
    /\ ClaimFitsPods
    /\ \A i \in Ids : HasPrimary(claim[i])
    /\ CacheFollows
    /\ MergeMade

\* A claim as the two writers make it.
Made(c) == c \in Claim /\ c.phase # "Absent" /\ HasPrimary(c) /\ Fits(c)

\* What a step does to the claims.
ClaimsMove ==
    /\ claim' \in [Ids -> Claim]
    /\ \A i \in Ids :
         /\ HasPrimary(claim'[i]) /\ Fits(claim'[i])
         /\ claim[i].phase # "Absent" =>
              claim'[i].phase # "Absent" /\ MadeOf(claim'[i]) = MadeOf(claim[i])

\* A step moves the claims by leaving them alone,
LEMMA ClaimsStay ==
    ASSUME FitInv, UNCHANGED claim
    PROVE  ClaimsMove
BY DEF FitInv, TypeOK, NodeClaimsTypeOK, ClaimFitsPods, ClaimsMove

\* by making one,
LEMMA CreateMoves ==
    ASSUME FitInv, NEW new, Made(new), Create(new)
    PROVE  ClaimsMove
<1>1. PICK i \in Ids : claim[i].phase = "Absent" /\ claim' = [claim EXCEPT ![i] = new]
  BY DEF Create, NextId
<1>2. claim \in [Ids -> Claim] /\ new \in Claim
  BY DEF FitInv, TypeOK, NodeClaimsTypeOK, Made
<1>3. /\ claim' \in [Ids -> Claim]
      /\ \A j \in Ids : claim'[j] = IF j = i THEN new ELSE claim[j]
  BY <1>1, <1>2
<1> QED  BY <1>1, <1>3 DEF ClaimsMove, FitInv, ClaimFitsPods, Made

\* or by a change of phase.
LEMMA SetPhaseMoves ==
    ASSUME FitInv, NEW i \in Ids, NEW from, NEW to \in Phases \ {"Absent"},
           from # "Absent", SetPhase(i, from, to)
    PROVE  ClaimsMove
<1>1. claim \in [Ids -> Claim]
  BY DEF FitInv, TypeOK, NodeClaimsTypeOK
<1>2. claim' = [claim EXCEPT ![i].phase = to]
  BY DEF SetPhase
<1>3. /\ claim'[i] \in Claim /\ claim'[i].phase = to
      /\ MadeOf(claim'[i]) = MadeOf(claim[i])
      /\ HasPrimary(claim'[i]) <=> HasPrimary(claim[i])
      /\ Fits(claim'[i]) <=> Fits(claim[i])
  <2>1. claim'[i] = [claim[i] EXCEPT !.phase = to] /\ claim[i] \in Claim
    BY <1>1, <1>2
  <2>2. /\ claim'[i].primary = claim[i].primary /\ claim'[i].models = claim[i].models
        /\ claim'[i].pods = claim[i].pods /\ claim'[i].gpus = claim[i].gpus
        /\ claim'[i].vram = claim[i].vram /\ claim'[i].price = claim[i].price
        /\ claim'[i].phase = to /\ claim'[i] \in Claim
    BY <2>1 DEF Claim
  <2> QED  BY <2>2 DEF MadeOf, HasPrimary, Fits
<1>4. /\ claim' \in [Ids -> Claim]
      /\ \A j \in Ids : j # i => claim'[j] = claim[j]
  BY <1>1, <1>2, <1>3
<1> QED  BY <1>3, <1>4 DEF ClaimsMove, FitInv, ClaimFitsPods

\* Whatever the claims do, the cache has a copy of then or of now.
LEMMA ClaimsAfter ==
    ASSUME FitInv, ClaimsMove, cache' = cache \/ cache' = claim'
    PROVE  /\ claim' \in [Ids -> Claim] /\ cache' \in [Ids -> Claim]
           /\ ClaimFitsPods'
           /\ \A i \in Ids : HasPrimary(claim'[i])
           /\ CacheFollows'
<1>1. claim' \in [Ids -> Claim] /\ cache' \in [Ids -> Claim]
  BY DEF FitInv, TypeOK, NodeClaimsTypeOK, ClaimsMove
<1>2. ClaimFitsPods' /\ \A i \in Ids : HasPrimary(claim'[i])
  BY DEF ClaimsMove, ClaimFitsPods, Fits
<1>3. CacheFollows'
  BY DEF CacheFollows, FitInv, ClaimsMove
<1> QED  BY <1>1, <1>2, <1>3

\* A scan that goes on remains right about the claims it is to merge.
LEMMA MergeAfter ==
    ASSUME FitInv, ClaimsMove, scan'.merge \subseteq scan.merge
    PROVE  MergeMade'
<1>1. scan.merge \subseteq Ids
  BY DEF FitInv, TypeOK, TriggerTypeOK, Scan
<1> QED  BY <1>1 DEF MergeMade, FitInv, ClaimsMove, MadeOf

-----------------------------------------------------------------------------
(* What the two writers make                                                 *)

\* Sums over models and pods are numbers.
LEMMA VRAMTyped ==
    ASSUME NEW S \in SUBSET Models
    PROVE  TotalVRAM(S) \in Nat
BY NodeClaimsAssumption, SumOverNat DEF TotalVRAM

LEMMA GPUsTyped ==
    /\ IsFiniteSet(Pods)
    /\ \A p \in Pods : GPUs[p] \in Nat
BY NodeClaimsAssumption, PodsAssumption DEF GPUs

\* For no pods any node will do.
LEMMA ModelClaimMade ==
    ASSUME NEW m \in Models, NEW models \in SUBSET Models, NEW bundle \in BOOLEAN,
           NEW vram \in Nat
    PROVE  Made(ModelClaim(m, models, bundle, vram))
<1>1. PICK c : c = ModelClaim(m, models, bundle, vram)
  OBVIOUS
<1>2. /\ c.phase = "Live" /\ c.primary = m /\ c.models = models
      /\ c.pods = {} /\ c.gpus = 0
  BY <1>1 DEF ModelClaim, NoClaim
<1>3. c \in Claim
  BY <1>1 DEF ModelClaim, NoClaim, Claim, Phases
<1>4. Fits(c)
  BY <1>2, SumOverEmpty DEF Fits
<1> QED  BY <1>1, <1>2, <1>3, <1>4 DEF Made, HasPrimary

\* The numbers a batch asks for.
LEMMA NumbersOf ==
    ASSUME NEW b \in SUBSET Pods, b # {}
    PROVE  /\ LET V == {Requirement[p].vram : p \in b}
              IN  IsFiniteSet(V) /\ V \subseteq Nat /\ V # {}
           /\ Prices(b) \subseteq Nat \ {0}
<1>1. \A p \in b : Requirement[p] \in [gpus : Nat, vram : Nat, price : Nat]
  BY PodsAssumption
<1>2. Prices(b) \subseteq Nat \ {0}
  BY <1>1 DEF Prices
<1> DEFINE V == {Requirement[p].vram : p \in b}
           f == [p \in b |-> Requirement[p].vram]
<1>3. f \in Surjection(b, V)
  BY DEF Surjection
<1>4. IsFiniteSet(b)
  BY NodeClaimsAssumption, FS_Subset
<1>5. IsFiniteSet(V)
  <2> HIDE DEF f, V
  <2> QED  BY <1>3, <1>4, FS_Surjection
<1> QED  BY <1>1, <1>2, <1>5

\* MergeRequirements returns one requirement that satisfies all pods of a batch,
\* whatever theirs are: GPUs for all of them together, the VRAM that any
\* needs, and a price no higher than any allows (matcher.go:93-146).
THEOREM MergedFits ==
    ASSUME NEW b \in SUBSET Pods, b # {}
    PROVE  /\ Merged(b) \in [gpus : Nat, vram : Nat, price : Nat]
           /\ \A S \in SUBSET b : Merged(b).gpus >= SumOver(GPUs, S)
           /\ \A p \in b :
                /\ Merged(b).vram >= Requirement[p].vram
                /\ Requirement[p].price > 0 =>
                     /\ Merged(b).price > 0
                     /\ Merged(b).price <= Requirement[p].price
<1> DEFINE V == {Requirement[p].vram : p \in b}
<1>1. \A p \in b : Requirement[p] \in [gpus : Nat, vram : Nat, price : Nat]
  BY PodsAssumption
<1>2. IsFiniteSet(b)
  BY NodeClaimsAssumption, FS_Subset
<1>3. SumOver(GPUs, b) \in Nat /\ \A S \in SUBSET b : SumOver(GPUs, S) \in Nat
  BY <1>2, GPUsTyped, SumOverNat
<1>4. \A S \in SUBSET b : SumOver(GPUs, b) >= SumOver(GPUs, S)
  <2> TAKE S \in SUBSET b
  <2>1. SumOver(GPUs, S) <= SumOver(GPUs, b)
    BY <1>2, GPUsTyped, SumOverMonotonic
  <2> QED  BY <1>3, <2>1
<1>5. Max(V) \in Nat /\ \A p \in b : Max(V) >= Requirement[p].vram
  <2>1. Max(V) \in V /\ \A y \in V : Max(V) >= y
    <3> HIDE DEF V
    <3>1. IsFiniteSet(V) /\ V \subseteq Nat /\ V # {}
      BY NumbersOf DEF V
    <3> QED  BY <3>1, MaxOfNumbers
  <2>2. \A p \in b : Requirement[p].vram \in V
    OBVIOUS
  <2> HIDE DEF V
  <2>3. V \subseteq Nat
    BY NumbersOf DEF V
  <2> QED  BY <2>1, <2>2, <2>3
<1> DEFINE price == IF Prices(b) = {} THEN 0 ELSE Min(Prices(b))
<1>6. /\ price \in Nat
      /\ \A p \in b : Requirement[p].price > 0 =>
                        price > 0 /\ price <= Requirement[p].price
  <2>1. CASE Prices(b) = {}
    <3>1. \A p \in b : Requirement[p].price = 0
      BY <2>1 DEF Prices
    <3> QED  BY <2>1, <3>1
  <2>2. CASE Prices(b) # {}
    <3>1. price \in Prices(b) /\ \A y \in Prices(b) : price <= y
      BY <2>2, NumbersOf, MinOfNumbers
    <3>2. \A p \in b : Requirement[p].price > 0 => Requirement[p].price \in Prices(b)
      BY <1>1 DEF Prices
    <3> HIDE DEF price
    <3>3. price \in Nat /\ price > 0
      <4>1. Prices(b) \subseteq Nat \ {0}
        BY NumbersOf
      <4> QED  BY <3>1, <4>1
    <3> QED  BY <3>1, <3>2, <3>3
  <2> QED  BY <2>1, <2>2
<1>7. Merged(b) = [gpus |-> SumOver(GPUs, b), vram |-> Max(V), price |-> price]
  BY DEF Merged
<1> HIDE DEF V, price
<1> QED  BY <1>3, <1>4, <1>5, <1>6, <1>7

\* What processBatch makes of the merged requirements and the pool's.
LEMMA PodClaimMade ==
    ASSUME NEW b \in SUBSET Pods, b # {}, NEW m \in Models \cup {NoModel}
    PROVE  Made(PodClaim(b, m))
<1>1. PICK r, c : r = Merged(b) /\ c = PodClaim(b, m)
  OBVIOUS
<1>2. /\ c.phase = "Live" /\ c.primary = m /\ c.models = {m} \ {NoModel}
      /\ c.pods = b /\ c.gpus = r.gpus /\ c.price = r.price
      /\ c.vram = IF r.vram = 0 THEN PoolVRAM ELSE r.vram
  BY <1>1 DEF PodClaim, NoClaim
<1>3. /\ r \in [gpus : Nat, vram : Nat, price : Nat]
      /\ \A S \in SUBSET b : r.gpus >= SumOver(GPUs, S)
      /\ \A p \in b :
           /\ r.vram >= Requirement[p].vram
           /\ Requirement[p].price > 0 =>
                r.price > 0 /\ r.price <= Requirement[p].price
  BY <1>1, MergedFits
<1>4. \A p \in b : Requirement[p].vram \in Nat
  BY PodsAssumption
<1>5. PoolVRAM \in Nat
  BY PodsAssumption
<1>6. c \in Claim
  <2>1. /\ r.gpus \in Nat /\ r.price \in Nat
        /\ (IF r.vram = 0 THEN PoolVRAM ELSE r.vram) \in Nat
    BY <1>3, <1>5
  <2> QED  BY <1>1, <2>1 DEF PodClaim, NoClaim, Claim, Phases
<1>7. \A p \in b : c.vram >= Requirement[p].vram
  <2>1. r.vram \in Nat
    BY <1>3
  <2>2. \A p \in b : r.vram >= Requirement[p].vram
    BY <1>3
  <2>3. CASE r.vram = 0
    <3>1. \A p \in b : Requirement[p].vram = 0
      BY <1>4, <2>2, <2>3
    <3> QED  BY <1>2, <1>5, <2>3, <3>1
  <2>4. CASE r.vram # 0
    BY <1>2, <2>2, <2>4
  <2> QED  BY <2>3, <2>4
<1>8. Fits(c)
  <2>1. \A S \in SUBSET c.pods : c.gpus >= SumOver(GPUs, S)
    BY <1>2, <1>3
  <2>2. \A p \in c.pods : Requirement[p].price > 0 =>
                            c.price > 0 /\ c.price <= Requirement[p].price
    BY <1>2, <1>3
  <2> QED  BY <1>2, <1>7, <2>1, <2>2 DEF Fits
<1>9. c.phase # "Absent" /\ HasPrimary(c)
  BY <1>2 DEF HasPrimary
<1> QED  BY <1>1, <1>6, <1>8, <1>9 DEF Made

-----------------------------------------------------------------------------
(* One lemma per kind of step                                                *)

DemandTyped == demand \in [Models -> {"none", "queued", "active"}]
EventsTyped == events \in 0..MaxEvents

\* The weighted sum of events stays within its bound.
LEMMA EventTyped ==
    ASSUME FitInv, NEW w \in Nat, Event(w) \/ UNCHANGED events
    PROVE  EventsTyped'
<1>1. events \in 0..MaxEvents /\ MaxEvents \in Nat
  BY NodeClaimsAssumption DEF FitInv, TypeOK, NodeClaimsTypeOK
<1> QED  BY <1>1 DEF Event, EventsTyped

LEMMA FaultTyped ==
    ASSUME FitInv, Fault \/ UNCHANGED events
    PROVE  EventsTyped'
<1>1. Event(2) \/ UNCHANGED events
  BY DEF Fault
<1> QED  BY <1>1, EventTyped

\* The parts of FitInv after a step.
LEMMA FitAfter ==
    ASSUME FitInv, ClaimsMove, cache' = cache \/ cache' = claim',
           DemandTyped', EventsTyped', TriggerTypeOK', PodsTypeOK',
           {} \notin firing', MergeMade'
    PROVE  FitInv'
<1>1. NodeClaimsTypeOK'
  BY ClaimsAfter DEF NodeClaimsTypeOK, DemandTyped, EventsTyped
<1> QED  BY <1>1, ClaimsAfter DEF FitInv, TypeOK

\* What a step does not write.
LEMMA TriggerUntouched ==
    ASSUME FitInv, ClaimsMove, UNCHANGED trigger
    PROVE  TriggerTypeOK' /\ MergeMade'
<1>1. scan' = scan /\ TriggerTypeOK'
  BY DEF trigger, FitInv, TypeOK, TriggerTypeOK
<1> QED  BY <1>1, MergeAfter

LEMMA ProvisionUntouched ==
    ASSUME FitInv, UNCHANGED provision
    PROVE  PodsTypeOK' /\ {} \notin firing'
BY DEF provision, FitInv, TypeOK, PodsTypeOK

LEMMA DemandUntouched ==
    ASSUME FitInv, UNCHANGED demand
    PROVE  DemandTyped'
BY DEF DemandTyped, FitInv, TypeOK, NodeClaimsTypeOK

LEMMA ClaimStepFits ==
    ASSUME FitInv, ClaimStep, UNCHANGED <<trigger, provision>>
    PROVE  FitInv'
<1>1. CASE WatchDeliver
  <2>1. ClaimsMove /\ cache' = claim' /\ DemandTyped' /\ EventsTyped'
    BY <1>1, ClaimsStay, DemandUntouched, FaultTyped DEF WatchDeliver
  <2> QED  BY <2>1, TriggerUntouched, ProvisionUntouched, FitAfter
<1>2. ASSUME NEW i \in Ids, ClaimReady(i) \/ ClaimDrains(i)
      PROVE  FitInv'
  <2>1. ClaimsMove
    BY <1>2, SetPhaseMoves DEF ClaimReady, ClaimDrains, Phases
  <2>2. cache' = cache /\ DemandTyped'
    BY <1>2, DemandUntouched DEF ClaimReady, ClaimDrains, SetPhase
  <2>3. EventsTyped'
    BY <1>2, EventTyped DEF ClaimReady, ClaimDrains
  <2> QED  BY <2>1, <2>2, <2>3, TriggerUntouched, ProvisionUntouched, FitAfter
<1> QED  BY <1>1, <1>2 DEF ClaimStep

LEMMA RequestStepFits ==
    ASSUME FitInv, RequestStep, UNCHANGED <<trigger, provision>>
    PROVE  FitInv'
<1>1. claim' = claim /\ cache' = cache /\ events' = events
  BY DEF RequestStep, Forward, Answered, claims
<1>2. DemandTyped'
  <2>1. demand \in [Models -> {"none", "queued", "active"}]
    BY DEF FitInv, TypeOK, NodeClaimsTypeOK
  <2>2. PICK m \in Models : \/ demand' = [demand EXCEPT ![m] = "active"]
                            \/ demand' = [demand EXCEPT ![m] = "none"]
    BY DEF RequestStep, Forward, Answered
  <2> QED  BY <2>1, <2>2 DEF DemandTyped
<1> QED  BY <1>1, <1>2, ClaimsStay, FaultTyped, TriggerUntouched,
            ProvisionUntouched, FitAfter

LEMMA RequestArrivesFits ==
    ASSUME FitInv, NEW m \in Models, RequestArrives(m), UNCHANGED provision
    PROVE  FitInv'
<1>1. claim' = claim /\ cache' = cache /\ ClaimsMove
  BY ClaimsStay DEF RequestArrives, claims
<1>2. DemandTyped'
  BY DEF RequestArrives, DemandTyped, FitInv, TypeOK, NodeClaimsTypeOK
<1>3. EventsTyped'
  BY EventTyped DEF RequestArrives
<1>4. scan' = scan /\ TriggerTypeOK'
  BY DEF RequestArrives, Publish, FitInv, TypeOK, TriggerTypeOK
<1> QED  BY <1>1, <1>2, <1>3, <1>4, MergeAfter, ProvisionUntouched, FitAfter

LEMMA RetriggersFits ==
    ASSUME FitInv, NEW i \in Ids, Retriggers(i), UNCHANGED provision
    PROVE  FitInv'
<1>1. ClaimsMove
  BY SetPhaseMoves DEF Retriggers, ClaimEnds, Phases
<1>2. cache' = cache /\ DemandTyped'
  BY DemandUntouched DEF Retriggers, ClaimEnds, SetPhase
<1>3. EventsTyped'
  BY EventTyped DEF Retriggers, ClaimEnds
<1>4. scan' = scan /\ TriggerTypeOK'
  <2>1. claim[i] \in Claim
    BY DEF FitInv, TypeOK, NodeClaimsTypeOK
  <2>2. ToReplace(claim[i]) \subseteq Models
    BY <2>1, NodeClaimsAssumption DEF ToReplace, Claim
  <2>3. inbox' \subseteq Models
    BY <2>2 DEF Retriggers, Publish, FitInv, TypeOK, TriggerTypeOK
  <2> QED  BY <2>3 DEF Retriggers, FitInv, TypeOK, TriggerTypeOK
<1> QED  BY <1>1, <1>2, <1>3, <1>4, MergeAfter, ProvisionUntouched, FitAfter

\* A pair of claims that may be merged has been made, each for a model.
LEMMA MergeableMade ==
    ASSUME FitInv, NEW p \in Mergeable
    PROVE  /\ p \in SUBSET Ids
           /\ \A i \in p : claim[i].phase # "Absent" /\ claim[i].primary \in Models
<1>1. \A i \in p : i \in Ids /\ Single(i)
  BY DEF Mergeable
<1>2. ASSUME NEW i \in p
      PROVE  claim[i].phase # "Absent" /\ claim[i].primary \in Models
  <2>1. i \in Ids /\ cache[i].phase = "Ready" /\ Cardinality(cache[i].models) = 1
    BY <1>1 DEF Single
  <2>2. cache[i].models # {}
    BY <2>1, FS_EmptySet
  <2>3. claim[i].phase # "Absent" /\ claim[i].models = cache[i].models
    BY <2>1 DEF FitInv, CacheFollows, MadeOf
  <2> QED  BY <2>1, <2>2, <2>3 DEF FitInv, HasPrimary
<1> QED  BY <1>1, <1>2

\* A scan begins with a pair of such claims, or none.
LEMMA BeginScanFits ==
    ASSUME FitInv, BeginScan, UNCHANGED claim
    PROVE  scan' \in Scan /\ MergeMade'
<1>1. PICK p \in IF Mergeable = {} THEN {{}} ELSE Mergeable :
        scan' = [on |-> TRUE, left |-> Wanted, merge |-> p]
  BY DEF BeginScan
<1>2. p \in SUBSET Ids
  BY <1>1, MergeableMade
<1>3. \A i \in p : claim[i].phase # "Absent" /\ claim[i].primary \in Models
  BY <1>1, MergeableMade
<1>4. Wanted \subseteq Models
  BY DEF Wanted
<1> QED  BY <1>1, <1>2, <1>3, <1>4 DEF Scan, MergeMade

\* handleTrigger makes one claim at most.
LEMMA HandleTriggerFits ==
    ASSUME FitInv, NEW m \in Models, TriggerOK(m) \/ TriggerFails(m)
    PROVE  ClaimsMove /\ EventsTyped'
<1>1. CASE NothingToDo(m) /\ UNCHANGED <<claim, events>>
  BY <1>1, ClaimsStay, FaultTyped
<1>2. CASE TriggerFails(m)
  BY <1>2, ClaimsStay, FaultTyped DEF TriggerFails
<1>3. CASE TriggerCreates(m)
  <2>1. PICK E \in SUBSET Models : \E S \in Bundles(m, E) :
          /\ Readable(m, E)
          /\ Create(ModelClaim(m, S \cup {m}, S # {}, TotalVRAM(S \cup {m})))
    BY <1>3 DEF TriggerCreates
  <2>2. PICK S \in Bundles(m, E) :
          /\ Readable(m, E)
          /\ Create(ModelClaim(m, S \cup {m}, S # {}, TotalVRAM(S \cup {m})))
    BY <2>1
  <2>3. S \cup {m} \in SUBSET Models
    BY <2>2 DEF Bundles
  <2>4. Made(ModelClaim(m, S \cup {m}, S # {}, TotalVRAM(S \cup {m})))
    BY <2>3, VRAMTyped, ModelClaimMade
  <2>5. EventsTyped'
    BY <2>2, FaultTyped DEF Readable
  <2> QED  BY <2>2, <2>4, <2>5, CreateMoves
<1> QED  BY <1>1, <1>2, <1>3 DEF TriggerOK

\* createBinPackedClaim adds up the VRAM of the models it was given at the start.
LEMMA ConsolidateFits ==
    ASSUME FitInv, Consolidate
    PROVE  ClaimsMove /\ EventsTyped'
<1>1. CASE (Refused \/ UNCHANGED events) /\ UNCHANGED claim
  BY <1>1, ClaimsStay, FaultTyped DEF Refused
<1>2. CASE UNCHANGED events /\ \E i, j \in scan.merge :
             Create(ModelClaim(claim[i].primary, {claim[i].primary, claim[j].primary},
                        TRUE, VRAM[claim[i].primary] + VRAM[claim[j].primary]))
  <2>1. PICK i, j \in scan.merge :
          Create(ModelClaim(claim[i].primary, {claim[i].primary, claim[j].primary},
                     TRUE, VRAM[claim[i].primary] + VRAM[claim[j].primary]))
    BY <1>2
  <2>2. claim[i].primary \in Models /\ claim[j].primary \in Models
    BY DEF FitInv, MergeMade
  <2>3. VRAM[claim[i].primary] + VRAM[claim[j].primary] \in Nat
    BY <2>2, NodeClaimsAssumption
  <2>4. Made(ModelClaim(claim[i].primary, {claim[i].primary, claim[j].primary},
                 TRUE, VRAM[claim[i].primary] + VRAM[claim[j].primary]))
    BY <2>2, <2>3, ModelClaimMade
  <2> QED  BY <1>2, <2>1, <2>4, CreateMoves, FaultTyped
<1> QED  BY <1>1, <1>2 DEF Consolidate

LEMMA TriggerStepFits ==
    ASSUME FitInv, TriggerStep, UNCHANGED provision
    PROVE  FitInv'
<1>t. TriggerTypeOK /\ scan \in Scan
  BY DEF FitInv, TypeOK, TriggerTypeOK
<1>1. CASE StartUp \/ Tick
  <2>1. /\ claim' = claim /\ cache' = cache /\ demand' = demand
        /\ BeginScan \/ scan' = scan
        /\ Fault \/ UNCHANGED events
        /\ inbox' = inbox /\ subscribed' \in BOOLEAN
    BY <1>1, <1>t DEF StartUp, Tick, claims, Subscribe, TriggerTypeOK
  <2>2. ClaimsMove
    BY <2>1, ClaimsStay
  <2>3. scan' \in Scan /\ MergeMade'
    BY <1>t, <2>1, <2>2, BeginScanFits, MergeAfter
  <2>4. TriggerTypeOK'
    BY <1>t, <2>1, <2>3 DEF TriggerTypeOK
  <2> QED  BY <2>1, <2>2, <2>3, <2>4, DemandUntouched, FaultTyped,
              ProvisionUntouched, FitAfter
<1>2. CASE ScanEnds
  <2>1. ClaimsMove /\ EventsTyped'
    BY <1>2, ClaimsStay, FaultTyped, ConsolidateFits DEF ScanEnds
  <2>2. /\ cache' = cache /\ demand' = demand /\ inbox' = inbox
        /\ subscribed' = TRUE /\ scan' = NoScan
    BY <1>2 DEF ScanEnds, Subscribe
  <2>3. TriggerTypeOK' /\ scan'.merge = {}
    BY <1>t, <2>2 DEF TriggerTypeOK, NoScan, Scan
  <2> QED  BY <2>1, <2>2, <2>3, MergeAfter, DemandUntouched, ProvisionUntouched,
              FitAfter
<1>3. ASSUME NEW m \in Models, ScanModel(m)
      PROVE  FitInv'
  <2>1. ClaimsMove /\ EventsTyped'
    BY <1>3, HandleTriggerFits DEF ScanModel
  <2>2. /\ cache' = cache \/ cache' = claim'
        /\ demand' = demand /\ inbox' = inbox /\ subscribed' = subscribed
        /\ \E L : scan' = [scan EXCEPT !.left = L] /\ L \subseteq scan.left
    BY <1>3 DEF ScanModel
  <2>3. scan' \in Scan /\ scan'.merge = scan.merge
    BY <1>t, <2>2 DEF Scan
  <2>4. TriggerTypeOK'
    BY <1>t, <2>2, <2>3 DEF TriggerTypeOK
  <2> QED  BY <2>1, <2>2, <2>3, <2>4, MergeAfter, DemandUntouched,
              ProvisionUntouched, FitAfter
<1>4. ASSUME NEW m \in Models, HandleMessage(m)
      PROVE  FitInv'
  <2>1. ClaimsMove /\ EventsTyped'
    BY <1>4, HandleTriggerFits, ClaimsStay, FaultTyped DEF HandleMessage
  <2>2. /\ cache' = cache /\ demand' = demand /\ scan' = scan
        /\ inbox' = inbox \ {m} /\ subscribed' = subscribed
    BY <1>4 DEF HandleMessage
  <2>3. TriggerTypeOK'
    BY <1>t, <2>2 DEF TriggerTypeOK
  <2> QED  BY <2>1, <2>2, <2>3, MergeAfter, DemandUntouched, ProvisionUntouched,
              FitAfter
<1> QED  BY <1>1, <1>2, <1>3, <1>4 DEF TriggerStep

LEMMA PodStepFits ==
    ASSUME FitInv, PodStep, UNCHANGED trigger
    PROVE  FitInv'
<1>1. /\ UNCHANGED <<claim, cache, demand, batch, locks, timer, due, firing, served>>
      /\ Event(2) \/ UNCHANGED events
      /\ \E p \in Pods : \E x \in {"pending", "gone"} : pod' = [pod EXCEPT ![p] = x]
  BY DEF PodStep, PodArrives, PodLeaves, claims, world, Pending
<1>2. PodsTypeOK' /\ {} \notin firing'
  BY <1>1 DEF FitInv, TypeOK, PodsTypeOK
<1> QED  BY <1>1, <1>2, ClaimsStay, DemandUntouched, EventTyped, TriggerUntouched,
            FitAfter

LEMMA ReconcileFits ==
    ASSUME FitInv, NEW p \in Pods, Reconcile(p), UNCHANGED trigger
    PROVE  FitInv'
<1>1. /\ UNCHANGED <<claim, cache, demand, pod, firing, served>>
      /\ Fault \/ UNCHANGED events
      /\ AddToBatch(p)
  BY DEF Reconcile, claims
<1>2. PodsTypeOK' /\ {} \notin firing'
  BY <1>1 DEF AddToBatch, FitInv, TypeOK, PodsTypeOK
<1> QED  BY <1>1, <1>2, ClaimsStay, DemandUntouched, FaultTyped, TriggerUntouched,
            FitAfter

LEMMA BatchFiresFits ==
    ASSUME FitInv, BatchFires, UNCHANGED trigger
    PROVE  FitInv'
<1>1. UNCHANGED <<claim, cache, demand, events, pod, locks, served>>
  BY DEF BatchFires, world
<1>2. PodsTypeOK' /\ {} \notin firing'
  BY <1>1 DEF BatchFires, FitInv, TypeOK, PodsTypeOK
<1> QED  BY <1>1, <1>2, ClaimsStay, DemandUntouched, FaultTyped, TriggerUntouched,
            FitAfter

LEMMA ProcessBatchFits ==
    ASSUME FitInv, NEW b \in SUBSET Pods, ProcessBatch(b), UNCHANGED trigger
    PROVE  FitInv'
<1>1. /\ UNCHANGED <<cache, demand, pod, batch, timer, due>>
      /\ b \in firing /\ firing' = firing \ {b}
      /\ locks' = locks \ b \/ locks' = locks
      /\ served' = served \cup b \/ served' = served
  BY DEF ProcessBatch, BatchFails, BatchSucceeds, ReleaseProvisioningLocks
<1>2. b # {}
  BY <1>1 DEF FitInv
<1>3. PodsTypeOK' /\ {} \notin firing'
  BY <1>1 DEF FitInv, TypeOK, PodsTypeOK
<1>4. ClaimsMove /\ EventsTyped'
  <2>1. CASE BatchFails(b)
    BY <2>1, ClaimsStay, FaultTyped DEF BatchFails, Refused
  <2>2. CASE BatchSucceeds(b)
    <3>1. PICK m \in ChooseModel : CorrectReads(m) /\ Create(PodClaim(b, m))
      BY <2>2 DEF BatchSucceeds
    <3>2. m \in Models \cup {NoModel}
      BY <3>1, NodeClaimsAssumption DEF ChooseModel, ModelForPods, Wanted
    <3>3. EventsTyped'
      BY <3>1, FaultTyped DEF CorrectReads
    <3> QED  BY <1>2, <3>1, <3>2, <3>3, PodClaimMade, CreateMoves
  <2> QED  BY <2>1, <2>2 DEF ProcessBatch
<1> QED  BY <1>1, <1>3, <1>4, DemandUntouched, TriggerUntouched, FitAfter

LEMMA RestartFits ==
    ASSUME FitInv, Restart
    PROVE  FitInv'
<1>1. /\ cache' = claim /\ claim' = claim /\ demand' = demand /\ Fault
      /\ TriggerRestarts /\ ProvisionerRestarts
  BY DEF Restart
<1>2. TriggerTypeOK' /\ scan'.merge = {}
  BY <1>1 DEF TriggerRestarts, TriggerTypeOK, NoScan, Scan
<1>3. PodsTypeOK' /\ {} \notin firing'
  BY <1>1 DEF ProvisionerRestarts, FitInv, TypeOK, PodsTypeOK
<1> QED  BY <1>1, <1>2, <1>3, ClaimsStay, DemandUntouched, FaultTyped, MergeAfter,
            FitAfter

-----------------------------------------------------------------------------
(* The results                                                               *)

LEMMA FitInit == Init => FitInv
<1> SUFFICES ASSUME Init  PROVE FitInv
  OBVIOUS
<1>1. NoClaim \in Claim /\ HasPrimary(NoClaim) /\ Fits(NoClaim)
  <2>1. NoClaim \in Claim
    BY DEF NoClaim, Claim, Phases
  <2>2. NoClaim.pods = {} /\ NoClaim.gpus = 0 /\ NoClaim.models = {}
    BY DEF NoClaim
  <2> QED  BY <2>1, <2>2, SumOverEmpty DEF HasPrimary, Fits
<1>2. \A i \in Ids : claim[i] = NoClaim /\ cache[i] = NoClaim
  BY DEF Init, NodeClaimsInit
<1>3. claim \in [Ids -> Claim] /\ cache \in [Ids -> Claim]
  BY <1>1 DEF Init, NodeClaimsInit
<1>4. NodeClaimsTypeOK
  BY <1>3, NodeClaimsAssumption DEF Init, NodeClaimsInit, NodeClaimsTypeOK
<1>5. TriggerTypeOK /\ scan.merge = {}
  BY DEF Init, TriggerInit, TriggerTypeOK, NoScan, Scan
<1>6. PodsTypeOK /\ {} \notin firing
  BY DEF Init, PodsInit, PodsTypeOK
<1>7. NoClaim.phase = "Absent"
  BY DEF NoClaim
<1> QED  BY <1>1, <1>2, <1>4, <1>5, <1>6, <1>7
         DEF FitInv, TypeOK, ClaimFitsPods, CacheFollows, MergeMade

LEMMA FitStep ==
    ASSUME FitInv, [Next]_vars
    PROVE  FitInv'
<1>1. CASE UNCHANGED vars
  <2>1. UNCHANGED <<claim, cache, demand, events, trigger, provision>>
    BY <1>1 DEF vars, world
  <2> QED  BY <2>1, ClaimsStay, DemandUntouched, FaultTyped, TriggerUntouched,
              ProvisionUntouched, FitAfter
<1>2. CASE Next
  BY <1>2, ClaimStepFits, RequestStepFits, RequestArrivesFits, RetriggersFits,
     TriggerStepFits, PodStepFits, ReconcileFits, BatchFiresFits,
     ProcessBatchFits, RestartFits
  DEF Next, BatchStep
<1> QED  BY <1>1, <1>2

\* What is known of claims, cache and scan holds in every state.
THEOREM FitInvariance == Spec => []FitInv
<1> QED  BY FitInit, FitStep, PTL DEF Spec

\* The types hold for any models, pods and limits.
THEOREM TypeCorrect == Spec => []TypeOK
<1>1. FitInv => TypeOK
  BY DEF FitInv
<1> QED  BY <1>1, FitInvariance, PTL

\* The node claimed for a batch fits it, however many pods with whatever
\* requirements it has (matcher.go:93-146, provisioner.go:184-202).
THEOREM ClaimsFitTheirPods == Spec => []ClaimFitsPods
<1>1. FitInv => ClaimFitsPods
  BY DEF FitInv
<1> QED  BY <1>1, FitInvariance, PTL

=============================================================================
