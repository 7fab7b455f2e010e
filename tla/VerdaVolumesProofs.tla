-------------------------- MODULE VerdaVolumesProofs --------------------------
(***************************************************************************)
(* For any models, disk sizes, goroutines, instances and faults: an        *)
(* instance boots only from a volume of its model on which a bootstrap     *)
(* succeeded, and from one with the room its claim asks for if the size of *)
(* the volume was known whenever it was registered.                        *)
(*                                                                         *)
(* Both rest on what a record of a volume may say, wherever it is kept: in *)
(* the registry, in the copy that MarkVolumeReady writes back, or in the   *)
(* reconciler's choice.  The facts are written over explicit arguments for *)
(* the state of instances and volumes, so that one lemma (Persists) carries *)
(* them over every step.                                                   *)
(***************************************************************************)
EXTENDS VerdaVolumes, TLAPS

\* An instance of model m reached Ready on volume v.
ReadyOn(v, m, ins) ==
    \E j \in Ids : ins[j].volume = v /\ ins[j].model = m /\ ins[j].wasReady

\* A record info of volume v names an instance that was made on v for its model,
\* its mark is right, and its size is one that v has room for, if v was never
\* registered without one (lost).
Describes(info, v, ins, vol, lost) ==
    info.instance # 0 =>
      /\ ins[info.instance].state # "none"
      /\ ins[info.instance].volume = v
      /\ ins[info.instance].model = info.model
      /\ info.ready => ReadyOn(v, info.model, ins)
      /\ v \in lost \/ (info.size # 0 /\ info.size <= vol[v].size)

\* An instance that was made has a volume, with the room recorded for it.
Made(i, ins, vol, key, lost) ==
    ins[i].state # "none" =>
      /\ ins[i].volume \in Ids
      /\ vol[ins[i].volume].state # "none"
      /\ key[i].model \in {NoModel, ins[i].model}
      /\ ins[i].volume \in lost \/ key[i].disk <= vol[ins[i].volume].size

\* One that was not made has left nothing.
NotMade(i, ins, vol, key) ==
    ins[i].state = "none" => vol[i].state = "none" /\ ~ins[i].wasReady /\ key[i].model = NoModel

\* What the reconciler holds: a volume it may boot from, or a copy to mark.
Holds(j, ins, vol, lost) ==
    /\ j.pc \in {"list", "create"} =>
         /\ j.image \in {0, j.tracked}
         /\ j.tracked # 0 =>
              /\ ReadyOn(j.tracked, j.model, ins)
              /\ j.tracked \in lost \/ j.disk <= vol[j.tracked].size
    /\ j.pc = "mark" =>
         /\ j.tracked # 0
         /\ Describes(j.copy, j.tracked, ins, vol, lost)
         /\ ReadyOn(j.tracked, j.copy.model, ins)

InstanceFacts == \A i \in Ids : Made(i, instance, volume, keys, unsized)
                                /\ NotMade(i, instance, volume, keys)
RegistryFacts == \A v \in Ids : Describes(registry[v], v, instance, volume, unsized)
JobFacts      == Holds(job, instance, volume, unsized)

IInv == TypeOK /\ InstanceFacts /\ RegistryFacts /\ JobFacts

\* Instances keep their volume and model, and having been Ready; volumes keep
\* their size; a volume that was registered without a size counts as such.
Persists(ins, ins2, vol, vol2, lost, lost2) ==
    /\ \A i \in Ids : ins[i].state # "none" =>
         /\ ins2[i].state # "none"
         /\ ins2[i].volume = ins[i].volume
         /\ ins2[i].model = ins[i].model
         /\ ins[i].wasReady => ins2[i].wasReady
    /\ \A v \in Ids : vol[v].state # "none" =>
         vol2[v].state # "none" /\ vol2[v].size = vol[v].size
    /\ lost \subseteq lost2

Keep == Persists(instance, instance', volume, volume', unsized, unsized')

-----------------------------------------------------------------------------
(* Types *)

LEMMA SizesAreNumbers ==
    /\ Sizes \subseteq Nat /\ 0 \in Sizes /\ Disks \subseteq Sizes
    /\ \A disk \in Sizes : NewSize(disk) \in Sizes /\ disk <= NewSize(disk)
BY VerdaAssumption DEF Sizes, NewSize

LEMMA IdsInRange == 0 \in IdsOr0 /\ Ids \subseteq IdsOr0 /\ IdsOr0 \ {0} \subseteq Ids
BY VerdaAssumption DEF Ids, IdsOr0

LEMMA IdleTyped == Idle \in Job
BY SizesAreNumbers, IdsInRange DEF Idle, Job, NoInfo, VolumeInfo

LEMMA NoWorkTyped == NoWork \in Work
BY IdsInRange DEF NoWork, Work

LEMMA TrashingTyped ==
    ASSUME NEW S \in SUBSET Ids
    PROVE  Trashing(S) \in Work
BY IdsInRange DEF Trashing, NoWork, Work

-----------------------------------------------------------------------------
(* What a step that persists keeps *)

LEMMA ReadyOnKept ==
    ASSUME NEW ins, NEW ins2, NEW vol, NEW vol2, NEW lost, NEW lost2,
           Persists(ins, ins2, vol, vol2, lost, lost2),
           \A i \in Ids : ins[i].wasReady => ins[i].state # "none",
           NEW v, NEW m, ReadyOn(v, m, ins)
    PROVE  ReadyOn(v, m, ins2)
BY DEF Persists, ReadyOn

LEMMA DescribesKept ==
    ASSUME NEW ins, NEW ins2, NEW vol, NEW vol2, NEW lost, NEW lost2,
           Persists(ins, ins2, vol, vol2, lost, lost2),
           \A i \in Ids : ins[i].wasReady => ins[i].state # "none",
           \A i \in Ids : ins[i].state # "none" => vol[ins[i].volume].state # "none",
           NEW info, info.instance \in IdsOr0, NEW v \in Ids,
           Describes(info, v, ins, vol, lost)
    PROVE  Describes(info, v, ins2, vol2, lost2)
<1>1. info.instance # 0 => info.instance \in Ids
  BY VerdaAssumption DEF Ids, IdsOr0
<1> QED  BY <1>1, ReadyOnKept DEF Persists, Describes

LEMMA MadeKept ==
    ASSUME NEW ins, NEW ins2, NEW vol, NEW vol2, NEW lost, NEW lost2,
           Persists(ins, ins2, vol, vol2, lost, lost2), NEW key,
           NEW i \in Ids, ins[i].state # "none", Made(i, ins, vol, key, lost)
    PROVE  Made(i, ins2, vol2, key, lost2)
BY DEF Persists, Made

\* A volume on which an instance was Ready is there.
LEMMA ReadyVolumeExists ==
    ASSUME IInv, NEW v, NEW m, ReadyOn(v, m, instance)
    PROVE  v \in Ids /\ volume[v].state # "none"
<1>1. PICK j \in Ids : instance[j].volume = v /\ instance[j].wasReady
  BY DEF ReadyOn
<1> QED  BY <1>1 DEF IInv, InstanceFacts, Made, NotMade

LEMMA HoldsKept ==
    ASSUME IInv, Keep
    PROVE  Holds(job, instance', volume', unsized')
<1>1. \A i \in Ids : instance[i].wasReady => instance[i].state # "none"
  BY DEF IInv, InstanceFacts, NotMade
<1>2. \A i \in Ids : instance[i].state # "none" => volume[instance[i].volume].state # "none"
  BY DEF IInv, InstanceFacts, Made
<1>3. \A v, m : ReadyOn(v, m, instance) =>
        ReadyOn(v, m, instance') /\ v \in Ids /\ volume[v].state # "none"
  BY <1>1, ReadyOnKept, ReadyVolumeExists DEF Keep
<1>4. job.copy.instance \in IdsOr0
  BY DEF IInv, TypeOK, Job, VolumeInfo
<1>5. ASSUME job.pc = "mark"
      PROVE  Describes(job.copy, job.tracked, instance', volume', unsized')
  BY <1>1, <1>2, <1>3, <1>4, <1>5, DescribesKept DEF Keep, IInv, JobFacts, Holds
<1> QED  BY <1>3, <1>5 DEF IInv, JobFacts, Holds, Keep, Persists

LEMMA RegistryKept ==
    ASSUME IInv, Keep
    PROVE  \A v \in Ids : Describes(registry[v], v, instance', volume', unsized')
<1>1. \A i \in Ids : instance[i].wasReady => instance[i].state # "none"
  BY DEF IInv, InstanceFacts, NotMade
<1>2. \A i \in Ids : instance[i].state # "none" => volume[instance[i].volume].state # "none"
  BY DEF IInv, InstanceFacts, Made
<1>3. \A v \in Ids : registry[v].instance \in IdsOr0
  BY DEF IInv, TypeOK, VolumeInfo
<1> QED  BY <1>1, <1>2, <1>3, DescribesKept DEF Keep, IInv, RegistryFacts

\* A step that makes no instance and takes none away.
NoneMade ==
    /\ \A i \in Ids : (instance'[i].state = "none") <=> (instance[i].state = "none")
    /\ \A i \in Ids : instance[i].state = "none" => instance'[i] = instance[i]
    /\ \A v \in Ids : (volume'[v].state = "none") <=> (volume[v].state = "none")

LEMMA InstancesKept ==
    ASSUME IInv, Keep, NoneMade, UNCHANGED keys
    PROVE  InstanceFacts'
<1>1. ASSUME NEW i \in Ids, instance[i].state # "none"
      PROVE  Made(i, instance', volume', keys, unsized')
  BY <1>1, MadeKept DEF Keep, IInv, InstanceFacts
<1>2. ASSUME NEW i \in Ids
      PROVE  Made(i, instance', volume', keys', unsized') /\ NotMade(i, instance', volume', keys')
  BY <1>1, <1>2 DEF IInv, InstanceFacts, NotMade, Made, NoneMade
<1> QED  BY <1>2 DEF InstanceFacts

\* What the rest of a step has to show when it makes no instance and leaves
\* registry and job alone.
LEMMA CloudOnly ==
    ASSUME IInv, Keep, NoneMade, UNCHANGED <<keys, registry, job>>
    PROVE  InstanceFacts' /\ RegistryFacts' /\ JobFacts'
BY InstancesKept, RegistryKept, HoldsKept DEF RegistryFacts, JobFacts

\* What an instance that starts on an old volume may count on.
Boots(i) ==
    BootsFromOld(i) =>
      /\ \E j \in Ids : /\ instance[j].volume = instance'[i].volume
                       /\ instance[j].model = instance'[i].model
                       /\ instance[j].wasReady
      /\ instance'[i].volume \notin unsized => volume[instance'[i].volume].size >= job.disk

LEMMA NoneBoots ==
    ASSUME NoneMade
    PROVE  \A i \in Ids : Boots(i)
BY DEF NoneMade, Boots, BootsFromOld

-----------------------------------------------------------------------------
(* CreateInstance *)

LEMMA FindVolumeKeeps ==
    ASSUME IInv, NEW m \in Models, NEW disk \in Disks, FindVolume(m, disk)
    PROVE  IInv' /\ \A i \in Ids : Boots(i)
<1> USE VerdaAssumption
<1>1. PICK v \in IdsOr0 :
        /\ job' = [Idle EXCEPT !.pc = "list", !.model = m, !.disk = disk, !.tracked = v]
        /\ v \in Suitable(m, disk) \/ v = 0
        /\ (UNCHANGED faults) \/ Fault
  BY DEF FindVolume
<1>2. UNCHANGED <<instance, volume, keys, registry, destroy, unsized>>
  BY DEF FindVolume, cloud, store
<1>3. Keep /\ NoneMade
  BY <1>2 DEF Keep, NoneMade, Persists
<1>4. TypeOK'
  <2>1. job' \in Job
    BY <1>1, IdleTyped, SizesAreNumbers DEF Job
  <2>2. faults' \in 0..MaxFaults
    BY <1>1 DEF Fault, IInv, TypeOK
  <2> QED  BY <1>2, <2>1, <2>2 DEF IInv, TypeOK
<1>5. ASSUME v # 0
      PROVE  /\ ReadyOn(v, m, instance)
             /\ v \in unsized \/ disk <= volume[v].size
  <2>1. /\ v \in Ids /\ registry[v].instance # 0
        /\ registry[v].model = m
        /\ registry[v].ready
        /\ disk = 0 \/ registry[v].size = 0 \/ registry[v].size >= disk
    BY <1>1, <1>5 DEF Suitable
  <2>2. Describes(registry[v], v, instance, volume, unsized)
    BY <2>1 DEF IInv, RegistryFacts
  <2>3. registry[v].size \in Nat /\ volume[v].size \in Nat /\ disk \in Nat
    BY <2>1, SizesAreNumbers DEF IInv, TypeOK, VolumeInfo, Volume
  <2>4. ReadyOn(v, m, instance)
    BY <2>1, <2>2 DEF Describes
  <2>5. v \in unsized \/ (registry[v].size # 0 /\ registry[v].size <= volume[v].size)
    BY <2>1, <2>2 DEF Describes
  <2> QED  BY <2>1, <2>3, <2>4, <2>5
<1>6. Holds(job', instance, volume, unsized)
  BY <1>1, <1>5 DEF Holds, Idle
<1>7. JobFacts'
  BY <1>2, <1>6 DEF JobFacts
<1>8. InstanceFacts' /\ RegistryFacts'
  BY <1>2, <1>3, InstancesKept, RegistryKept DEF RegistryFacts
<1> QED  BY <1>3, <1>4, <1>7, <1>8, NoneBoots DEF IInv

LEMMA ChooseImageKeeps ==
    ASSUME IInv, ChooseImage
    PROVE  IInv' /\ \A i \in Ids : Boots(i)
<1> USE VerdaAssumption
<1>1. UNCHANGED <<instance, keys, registry, destroy, unsized>> /\ job.pc = "list"
  BY DEF ChooseImage, store
<1>2. /\ \/ job' = [job EXCEPT !.pc = "create", !.image = job.tracked]
         \/ job' = [job EXCEPT !.pc = "create"]
      /\ \/ UNCHANGED volume
         \/ TrackedIs("trash") /\ SetVolume(job.tracked, "detached")
      /\ (UNCHANGED faults) \/ Fault
  BY DEF ChooseImage
<1>3. job \in Job /\ volume \in [Ids -> Volume] /\ faults \in 0..MaxFaults
  BY DEF IInv, TypeOK
<1>4. volume' \in [Ids -> Volume]
  BY <1>2, <1>3 DEF SetVolume, Volume
<1>5. Keep /\ NoneMade
  BY <1>1, <1>2, <1>3 DEF Keep, NoneMade, Persists, SetVolume, TrackedIs, Volume
<1>6. TypeOK'
  <2>1. job' \in Job
    BY <1>2, <1>3 DEF Job
  <2>2. faults' \in 0..MaxFaults
    BY <1>2, <1>3 DEF Fault
  <2> QED  BY <1>1, <1>4, <2>1, <2>2 DEF IInv, TypeOK
<1>7. Holds(job, instance', volume', unsized')
  BY <1>5, HoldsKept
<1>8. JobFacts'
  <2>1. Holds(job', instance', volume', unsized')
    <3>1. /\ job'.pc = "create" /\ job'.disk = job.disk /\ job'.model = job.model
          /\ job'.tracked = job.tracked /\ job'.image \in {job.image, job.tracked}
      BY <1>2, <1>3 DEF Job
    <3> QED  BY <1>1, <1>7, <3>1 DEF Holds
  <2> QED  BY <2>1 DEF JobFacts
<1>9. InstanceFacts' /\ RegistryFacts'
  BY <1>1, <1>5, InstancesKept, RegistryKept DEF RegistryFacts
<1> QED  BY <1>5, <1>6, <1>8, <1>9, NoneBoots DEF IInv

\* The one action that makes an instance.
LEMMA StartsKeeps ==
    ASSUME IInv, NEW i \in Ids, job.pc = "create", Starts(i), Records(i), job' = Idle,
           UNCHANGED <<registry, destroy, unsized>>
    PROVE  IInv' /\ \A k \in Ids : Boots(k)
<1> USE VerdaAssumption
<1> DEFINE v == IF job.image = 0 THEN i ELSE job.image
<1>1. /\ instance[i].state = "none"
      /\ job.image = 0 \/ volume[v].state = "detached"
      /\ instance' = [instance EXCEPT ![i] = [state |-> "running", model |-> job.model,
                                              volume |-> v, wasReady |-> FALSE]]
      /\ volume' = [volume EXCEPT ![v].state = "attached",
                                  ![v].size = IF job.image = 0 THEN NewSize(job.disk) ELSE @]
  BY DEF Starts, NextId
<1>2. PICK m \in {job.model, NoModel}, s \in {job.disk, 0} :
        /\ keys' = [keys EXCEPT ![i] = [model |-> m, disk |-> s]]
        /\ (UNCHANGED faults) \/ Fault
  BY DEF Records
<1>3. /\ instance \in [Ids -> Instance] /\ volume \in [Ids -> Volume]
      /\ keys \in [Ids -> Keys] /\ job \in Job /\ unsized \subseteq Ids
      /\ faults \in 0..MaxFaults
  BY DEF IInv, TypeOK
<1>4. volume[i].state = "none" /\ ~instance[i].wasReady /\ v \in Ids
  BY <1>1, <1>3 DEF IInv, InstanceFacts, NotMade, Job, Ids, IdsOr0
<1>5. /\ instance'[i] = [state |-> "running", model |-> job.model,
                         volume |-> v, wasReady |-> FALSE]
      /\ \A k \in Ids : k # i => instance'[k] = instance[k]
      /\ volume'[v].state = "attached"
      /\ volume'[v].size = IF job.image = 0 THEN NewSize(job.disk) ELSE volume[v].size
      /\ \A w \in Ids : w # v => volume'[w] = volume[w]
  BY <1>1, <1>3, <1>4 DEF Volume
<1>6. Keep
  BY <1>1, <1>2, <1>4, <1>5 DEF Keep, Persists
<1>7. TypeOK'
  <2>1. instance' \in [Ids -> Instance]
    BY <1>1, <1>3, <1>4 DEF Instance, Job, Ids, IdsOr0
  <2>2. volume' \in [Ids -> Volume]
    BY <1>1, <1>3, <1>4, SizesAreNumbers DEF Volume, Job
  <2>3. keys' \in [Ids -> Keys]
    BY <1>2, <1>3 DEF Keys, Job, Sizes
  <2>4. job' \in Job
    BY IdleTyped
  <2>5. faults' \in 0..MaxFaults
    BY <1>2, <1>3 DEF Fault
  <2> QED  BY <2>1, <2>2, <2>3, <2>4, <2>5 DEF IInv, TypeOK
<1>8. /\ job.disk \in Sizes /\ job.disk \in Nat
      /\ job.image # 0 =>
           /\ job.image = job.tracked
           /\ ReadyOn(v, job.model, instance)
           /\ v \in unsized \/ job.disk <= volume[v].size
  BY <1>3, SizesAreNumbers DEF IInv, JobFacts, Holds, Job
<1>9. Made(i, instance', volume', keys', unsized')
  <2>1. keys'[i] = [model |-> m, disk |-> s]
    BY <1>2, <1>3
  <2>2. v \in unsized \/ job.disk <= volume'[v].size
    <3>1. CASE job.image = 0
      BY <1>5, <1>8, <3>1, SizesAreNumbers
    <3>2. CASE job.image # 0
      BY <1>5, <1>8, <3>2
    <3> QED  BY <3>1, <3>2
  <2>3. volume'[v].size \in Nat
    BY <1>4, <1>7, SizesAreNumbers DEF TypeOK, Volume
  <2>4. v \in unsized \/ s <= volume'[v].size
    BY <2>2, <2>3
  <2>5. instance'[i].volume = v /\ instance'[i].model = job.model
    BY <1>5
  <2> QED  BY <1>4, <1>5, <2>1, <2>4, <2>5 DEF Made
<1>10. ASSUME NEW k \in Ids, k # i
       PROVE  Made(k, instance', volume', keys', unsized')
  <2>1. keys'[k] = keys[k] /\ instance'[k] = instance[k]
    BY <1>2, <1>3, <1>5, <1>10
  <2>2. CASE instance[k].state = "none"
    BY <2>1, <2>2 DEF Made
  <2>3. CASE instance[k].state # "none"
    <3>1. Made(k, instance', volume', keys, unsized')
      BY <1>6, <2>3, MadeKept DEF Keep, IInv, InstanceFacts
    <3> QED  BY <2>1, <3>1 DEF Made
  <2> QED  BY <2>2, <2>3
<1>11. ASSUME NEW k \in Ids
       PROVE  NotMade(k, instance', volume', keys')
  <2>1. CASE k = i
    BY <1>5, <2>1 DEF NotMade
  <2>2. CASE k # i
    <3>1. NotMade(k, instance, volume, keys)
      BY DEF IInv, InstanceFacts
    <3>2. keys'[k] = keys[k] /\ instance'[k] = instance[k]
      BY <1>2, <1>3, <1>5, <2>2
    <3>3. volume[k].state = "none" => volume'[k] = volume[k]
      BY <1>1, <1>4, <1>5, <2>2
    <3> QED  BY <3>1, <3>2, <3>3 DEF NotMade
  <2> QED  BY <2>1, <2>2
<1>12. InstanceFacts'
  BY <1>9, <1>10, <1>11 DEF InstanceFacts
<1>13. RegistryFacts'
  BY <1>6, RegistryKept DEF RegistryFacts
<1>14. JobFacts'
  BY DEF JobFacts, Holds, Idle
<1>15. ASSUME NEW k \in Ids
       PROVE  Boots(k)
  <2>1. CASE k # i
    BY <1>5, <2>1 DEF Boots, BootsFromOld
  <2>2. CASE k = i /\ job.image = 0
    BY <1>4, <1>5, <2>2 DEF Boots, BootsFromOld
  <2>3. CASE k = i /\ job.image # 0
    <3>1. instance'[k].volume = v /\ instance'[k].model = job.model
      BY <1>5, <2>3
    <3>2. volume[v].size \in Nat
      BY <1>3, <1>4, SizesAreNumbers DEF Volume
    <3> QED  BY <1>8, <2>3, <3>1, <3>2 DEF Boots, ReadyOn
  <2> QED  BY <2>1, <2>2, <2>3
<1> QED  BY <1>7, <1>12, <1>13, <1>14, <1>15 DEF IInv

LEMMA CreateCallKeeps ==
    ASSUME IInv, CreateCall
    PROVE  IInv' /\ \A i \in Ids : Boots(i)
<1>1. job.pc = "create" /\ job' = Idle /\ UNCHANGED <<registry, destroy, unsized>>
  BY DEF CreateCall
<1>2. ASSUME NEW i \in Ids, Starts(i), Records(i)
      PROVE  IInv' /\ \A k \in Ids : Boots(k)
  BY <1>1, <1>2, StartsKeeps
<1>3. CASE CreateRefused /\ UNCHANGED keys
  <2>1. UNCHANGED <<instance, volume>> /\ ((UNCHANGED faults) \/ Fault)
    BY <1>3 DEF CreateRefused, cloud
  <2>2. Keep /\ NoneMade
    BY <1>1, <1>3, <2>1 DEF Keep, NoneMade, Persists
  <2>3. TypeOK'
    <3>1. job' \in Job
      BY <1>1, IdleTyped
    <3>2. faults' \in 0..MaxFaults
      BY <2>1, VerdaAssumption DEF Fault, IInv, TypeOK
    <3> QED  BY <1>1, <1>3, <2>1, <3>1, <3>2 DEF IInv, TypeOK
  <2>4. InstanceFacts' /\ RegistryFacts' /\ JobFacts'
    <3>1. JobFacts'
      BY <1>1 DEF JobFacts, Holds, Idle
    <3> QED  BY <1>1, <1>3, <2>2, <3>1, InstancesKept, RegistryKept DEF RegistryFacts
  <2> QED  BY <2>2, <2>3, <2>4, NoneBoots DEF IInv
<1> QED  BY <1>2, <1>3 DEF CreateCall

-----------------------------------------------------------------------------
(* MarkVolumeReady *)

LEMMA ReachesReadyKeeps ==
    ASSUME IInv, NEW i \in Ids, ReachesReady(i)
    PROVE  IInv' /\ \A k \in Ids : Boots(k)
<1>1. /\ job = Idle /\ instance[i].state = "running"
      /\ instance' = [instance EXCEPT ![i].wasReady = TRUE]
      /\ UNCHANGED <<volume, keys, registry, destroy, unsized>>
      /\ (UNCHANGED faults) \/ Fault
  BY DEF ReachesReady, store
<1>2. /\ instance \in [Ids -> Instance] /\ registry \in [Ids -> VolumeInfo]
      /\ faults \in 0..MaxFaults
  BY DEF IInv, TypeOK
<1>3. instance' \in [Ids -> Instance]
  BY <1>1, <1>2 DEF Instance
<1>4. Keep /\ NoneMade
  BY <1>1, <1>2 DEF Keep, NoneMade, Persists, Instance
<1>5. InstanceFacts' /\ RegistryFacts'
  BY <1>1, <1>4, InstancesKept, RegistryKept DEF RegistryFacts
<1>6. faults' \in 0..MaxFaults
  BY <1>1, <1>2, VerdaAssumption DEF Fault
<1>7. job' \in Job /\ JobFacts'
  <2>1. CASE UNCHANGED job
    BY <1>4, <2>1, HoldsKept DEF IInv, TypeOK, JobFacts
  <2>2. ASSUME NEW v \in Ids, registry[v].instance = i,
               job' = [Idle EXCEPT !.pc = "mark", !.tracked = v, !.copy = registry[v]]
        PROVE  job' \in Job /\ JobFacts'
    <3>1. v # 0 /\ v \in IdsOr0 /\ i # 0
      BY VerdaAssumption DEF Ids, IdsOr0
    <3>2. job' \in Job
      BY <1>2, <2>2, <3>1, IdleTyped DEF Job
    <3>3. Describes(registry[v], v, instance', volume', unsized')
      BY <1>4, RegistryKept
    <3>4. ReadyOn(v, registry[v].model, instance')
      <4>1. instance'[i].wasReady
        BY <1>1, <1>2 DEF Instance
      <4> QED  BY <2>2, <3>1, <3>3, <4>1 DEF Describes, ReadyOn
    <3>5. job'.pc = "mark" /\ job'.tracked = v /\ job'.copy = registry[v]
      BY <2>2 DEF Idle
    <3>6. Holds(job', instance', volume', unsized')
      BY <3>1, <3>3, <3>4, <3>5 DEF Holds
    <3> QED  BY <3>2, <3>6 DEF JobFacts
  <2> QED  BY <2>1, <2>2 DEF ReachesReady
<1>8. TypeOK'
  BY <1>1, <1>3, <1>6, <1>7 DEF IInv, TypeOK
<1> QED  BY <1>4, <1>5, <1>7, <1>8, NoneBoots DEF IInv

LEMMA MarkWriteKeeps ==
    ASSUME IInv, MarkWrite
    PROVE  IInv' /\ \A k \in Ids : Boots(k)
<1>1. /\ job.pc = "mark" /\ job' = Idle
      /\ UNCHANGED <<instance, volume, keys, destroy, unsized>>
      /\ (UNCHANGED faults) \/ Fault
  BY DEF MarkWrite, cloud
<1>2. /\ registry \in [Ids -> VolumeInfo] /\ job \in Job /\ faults \in 0..MaxFaults
  BY DEF IInv, TypeOK
<1>3. Keep /\ NoneMade
  BY <1>1 DEF Keep, NoneMade, Persists
<1>4. JobFacts'
  BY <1>1 DEF JobFacts, Holds, Idle
<1>5. InstanceFacts'
  BY <1>1, <1>3, InstancesKept
<1>6. faults' \in 0..MaxFaults
  BY <1>1, <1>2, VerdaAssumption DEF Fault
<1>7. registry' \in [Ids -> VolumeInfo] /\ RegistryFacts'
  <2>1. CASE UNCHANGED registry
    BY <1>2, <1>3, <2>1, RegistryKept DEF RegistryFacts
  <2>2. CASE registry' = [registry EXCEPT ![job.tracked] = [job.copy EXCEPT !.ready = TRUE]]
    <3>1. [job.copy EXCEPT !.ready = TRUE] \in VolumeInfo
      BY <1>2 DEF Job, VolumeInfo
    <3>2. registry' \in [Ids -> VolumeInfo]
      BY <1>2, <2>2, <3>1
    <3>3. /\ Describes(job.copy, job.tracked, instance, volume, unsized)
          /\ ReadyOn(job.tracked, job.copy.model, instance)
      BY <1>1 DEF IInv, JobFacts, Holds
    <3>4. Describes([job.copy EXCEPT !.ready = TRUE], job.tracked, instance, volume, unsized)
      BY <1>2, <3>3 DEF Describes, Job, VolumeInfo
    <3>5. \A v \in Ids : registry'[v] = IF v = job.tracked THEN [job.copy EXCEPT !.ready = TRUE]
                                                       ELSE registry[v]
      BY <1>2, <2>2
    <3>6. \A v \in Ids : Describes(registry'[v], v, instance, volume, unsized)
      BY <3>4, <3>5 DEF IInv, RegistryFacts
    <3> QED  BY <1>1, <3>2, <3>6 DEF RegistryFacts
  <2> QED  BY <2>1, <2>2 DEF MarkWrite
<1>8. TypeOK'
  BY <1>1, <1>6, <1>7, IdleTyped DEF IInv, TypeOK
<1> QED  BY <1>3, <1>4, <1>5, <1>7, <1>8, NoneBoots DEF IInv

-----------------------------------------------------------------------------
(* DestroyInstance *)

\* A volume is registered for the instance that is attached to it, with the
\* size recorded for the instance or, when that is lost, none.
LEMMA RegisterKeeps ==
    ASSUME IInv, NEW i \in Ids, keys[i].model # NoModel, NEW v \in AttachedTo(i),
           NEW size \in {keys[i].disk, 0}, Register(v, keys[i].model, i, size),
           UNCHANGED <<instance, volume>>
    PROVE  registry' \in [Ids -> VolumeInfo] /\ Keep /\ unsized' \subseteq Ids /\ RegistryFacts'
<1> DEFINE info == [model |-> keys[i].model, instance |-> i, size |-> size, ready |-> FALSE]
<1>1. registry' = [registry EXCEPT ![v] = info]
  BY DEF Register
<1>2. /\ v \in Ids /\ instance[i].volume = v /\ instance[i].state # "none"
  BY DEF AttachedTo
<1>3. registry \in [Ids -> VolumeInfo] /\ keys \in [Ids -> Keys]
  BY DEF IInv, TypeOK
<1>4. info \in VolumeInfo
  BY <1>3, SizesAreNumbers, IdsInRange DEF VolumeInfo, Keys
<1>5. registry' \in [Ids -> VolumeInfo]
  BY <1>1, <1>3, <1>4
<1>6. Made(i, instance, volume, keys, unsized)
  BY DEF IInv, InstanceFacts
<1>7. /\ unsized \subseteq unsized' /\ unsized' \subseteq Ids
      /\ size = 0 => v \in unsized'
  BY <1>2 DEF Register, IInv, TypeOK
<1>8. Describes(info, v, instance, volume, unsized')
  <2>1. instance[i].model = keys[i].model
    BY <1>2, <1>6 DEF Made
  <2>2. v \in unsized' \/ (size # 0 /\ size <= volume[v].size)
    BY <1>2, <1>6, <1>7 DEF Made
  <2> QED  BY <1>2, <2>1, <2>2 DEF Describes
<1>9. Keep
  BY <1>7 DEF Keep, Persists
<1>10. \A w \in Ids : Describes(registry[w], w, instance, volume, unsized')
  BY <1>9, RegistryKept
<1>11. \A w \in Ids : registry'[w] = IF w = v THEN info ELSE registry[w]
  BY <1>1, <1>3
<1>12. \A w \in Ids : Describes(registry'[w], w, instance, volume, unsized')
  BY <1>8, <1>10, <1>11
<1> QED  BY <1>5, <1>7, <1>9, <1>12 DEF RegistryFacts

LEMMA BeginDestroyKeeps ==
    ASSUME IInv, NEW d \in Destroyers, NEW i \in Ids, BeginDestroy(d, i)
    PROVE  IInv' /\ \A k \in Ids : Boots(k)
<1>1. /\ destroy' = [destroy EXCEPT ![d] = [NoWork EXCEPT !.pc = "delete", !.instance = i]]
      /\ UNCHANGED <<instance, volume, keys, job>>
      /\ (UNCHANGED faults) \/ Fault
  BY DEF BeginDestroy, cloud
<1>2. /\ destroy \in [Destroyers -> Work] /\ faults \in 0..MaxFaults /\ unsized \subseteq Ids
  BY DEF IInv, TypeOK
<1>3. registry' \in [Ids -> VolumeInfo] /\ Keep /\ unsized' \subseteq Ids /\ RegistryFacts'
  <2>1. CASE UNCHANGED <<registry, unsized>>
    <3>1. Keep
      BY <1>1, <2>1 DEF Keep, Persists
    <3> QED  BY <1>2, <2>1, <3>1, RegistryKept DEF RegistryFacts, IInv, TypeOK
  <2>2. ASSUME keys[i].model # NoModel, NEW v \in AttachedTo(i),
               NEW size \in {keys[i].disk, 0}, Register(v, keys[i].model, i, size)
        PROVE  registry' \in [Ids -> VolumeInfo] /\ Keep /\ unsized' \subseteq Ids
               /\ RegistryFacts'
    BY <1>1, <2>2, RegisterKeeps
  <2> QED  BY <2>1, <2>2 DEF BeginDestroy
<1>4. NoneMade
  BY <1>1 DEF NoneMade
<1>5. InstanceFacts'
  BY <1>1, <1>3, <1>4, InstancesKept
<1>6. JobFacts'
  BY <1>1, <1>3, HoldsKept DEF JobFacts
<1>7. TypeOK'
  <2>1. destroy' \in [Destroyers -> Work]
    BY <1>1, <1>2, IdsInRange DEF Work, NoWork
  <2>2. faults' \in 0..MaxFaults
    BY <1>1, <1>2, VerdaAssumption DEF Fault
  <2> QED  BY <1>1, <1>3, <2>1, <2>2 DEF IInv, TypeOK
<1> QED  BY <1>3, <1>4, <1>5, <1>6, <1>7, NoneBoots DEF IInv

\* The steps of a destroyer, of Verda and of time that change nothing but the
\* state of instances and volumes that are there.
CloudStep ==
    \/ \E d \in Destroyers : DeleteCall(d) \/ ListToTrash(d) \/ \E v \in Ids : TrashVolume(d, v)
    \/ \E i \in Ids : Vanishes(i) \/ Purged(i)

LEMMA DeleteCallFacts ==
    ASSUME IInv, NEW d \in Destroyers, DeleteCall(d)
    PROVE  TypeOK' /\ Keep /\ NoneMade /\ UNCHANGED <<keys, registry, job>>
<1>1. /\ destroy[d].pc = "delete"
      /\ UNCHANGED <<volume, keys, registry, job, unsized>>
      /\ (UNCHANGED faults) \/ Fault
      /\ \/ UNCHANGED instance
         \/ instance' = [instance EXCEPT ![destroy[d].instance].state =
                            IF @ = "running" THEN "deleting" ELSE @]
      /\ \/ destroy' = [destroy EXCEPT ![d].pc = "sweep"]
         \/ destroy' = [destroy EXCEPT ![d] = NoWork]
  BY DEF DeleteCall, store
<1>2. /\ destroy \in [Destroyers -> Work] /\ faults \in 0..MaxFaults
      /\ instance \in [Ids -> Instance]
  BY DEF IInv, TypeOK
<1>3. instance' \in [Ids -> Instance]
  BY <1>1, <1>2 DEF Instance
<1>4. destroy' \in [Destroyers -> Work]
  BY <1>1, <1>2, IdsInRange DEF Work, NoWork
<1>5. faults' \in 0..MaxFaults
  BY <1>1, <1>2, VerdaAssumption DEF Fault
<1>6. Keep /\ NoneMade
  BY <1>1, <1>2 DEF Keep, NoneMade, Persists, Instance
<1> QED  BY <1>1, <1>3, <1>4, <1>5, <1>6 DEF IInv, TypeOK

LEMMA ListToTrashFacts ==
    ASSUME IInv, NEW d \in Destroyers, ListToTrash(d)
    PROVE  TypeOK' /\ Keep /\ NoneMade /\ UNCHANGED <<keys, registry, job>>
<1>1. /\ UNCHANGED <<instance, volume, keys, registry, job, unsized>>
      /\ (UNCHANGED faults) \/ Fault
      /\ \E S \in SUBSET Ids : \/ destroy' = [destroy EXCEPT ![d] = NoWork]
                              \/ destroy' = [destroy EXCEPT ![d] = Trashing(S)]
  BY DEF ListToTrash, cloud, store
<1>2. destroy \in [Destroyers -> Work] /\ faults \in 0..MaxFaults
  BY DEF IInv, TypeOK
<1>3. destroy' \in [Destroyers -> Work]
  BY <1>1, <1>2, NoWorkTyped, TrashingTyped
<1>4. faults' \in 0..MaxFaults
  BY <1>1, <1>2, VerdaAssumption DEF Fault
<1>5. Keep /\ NoneMade
  BY <1>1 DEF Keep, NoneMade, Persists
<1> QED  BY <1>1, <1>3, <1>4, <1>5 DEF IInv, TypeOK

\* A volume that is there gets another state.
LEMMA SetVolumeFacts ==
    ASSUME IInv, NEW v \in Ids, volume[v].state # "none",
           NEW state \in {"detached", "trash", "purged"}, SetVolume(v, state)
    PROVE  /\ volume' \in [Ids -> Volume]
           /\ \A w \in Ids : /\ (volume'[w].state = "none") <=> (volume[w].state = "none")
                            /\ volume'[w].size = volume[w].size
BY DEF IInv, TypeOK, SetVolume, Volume

LEMMA TrashVolumeFacts ==
    ASSUME IInv, NEW d \in Destroyers, NEW v \in Ids, TrashVolume(d, v)
    PROVE  TypeOK' /\ Keep /\ NoneMade /\ UNCHANGED <<keys, registry, job>>
<1>1. /\ UNCHANGED <<instance, keys, registry, job, unsized>>
      /\ (UNCHANGED faults) \/ Fault
      /\ destroy' = [destroy EXCEPT ![d] = Trashing(destroy[d].todo \ {v})]
      /\ UNCHANGED volume \/ (volume[v].state = "detached" /\ SetVolume(v, "trash"))
  BY DEF TrashVolume, store
<1>2. /\ destroy \in [Destroyers -> Work] /\ faults \in 0..MaxFaults
      /\ volume \in [Ids -> Volume]
  BY DEF IInv, TypeOK
<1>3. destroy' \in [Destroyers -> Work]
  <2>1. destroy[d].todo \ {v} \in SUBSET Ids
    BY <1>2 DEF Work
  <2> QED  BY <1>1, <1>2, <2>1, TrashingTyped
<1>4. faults' \in 0..MaxFaults
  BY <1>1, <1>2, VerdaAssumption DEF Fault
<1>5. /\ volume' \in [Ids -> Volume]
      /\ \A w \in Ids : /\ (volume'[w].state = "none") <=> (volume[w].state = "none")
                       /\ volume'[w].size = volume[w].size
  BY <1>1, <1>2, SetVolumeFacts
<1>6. Keep /\ NoneMade
  BY <1>1, <1>5 DEF Keep, NoneMade, Persists
<1> QED  BY <1>1, <1>3, <1>4, <1>5, <1>6 DEF IInv, TypeOK

LEMMA VanishesFacts ==
    ASSUME IInv, NEW i \in Ids, Vanishes(i)
    PROVE  TypeOK' /\ Keep /\ NoneMade /\ UNCHANGED <<keys, registry, job>>
<1>1. /\ instance[i].state # "none"
      /\ instance' = [instance EXCEPT ![i].state = "gone"]
      /\ SetVolume(instance[i].volume, "detached")
      /\ UNCHANGED <<keys, registry, job, destroy, unsized, faults>>
  BY DEF Vanishes, store
<1>2. instance \in [Ids -> Instance]
  BY DEF IInv, TypeOK
<1>3. instance' \in [Ids -> Instance]
  BY <1>1, <1>2 DEF Instance
<1>4. instance[i].volume \in Ids /\ volume[instance[i].volume].state # "none"
  BY <1>1 DEF IInv, InstanceFacts, Made
<1>5. /\ volume' \in [Ids -> Volume]
      /\ \A w \in Ids : /\ (volume'[w].state = "none") <=> (volume[w].state = "none")
                       /\ volume'[w].size = volume[w].size
  BY <1>1, <1>4, SetVolumeFacts
<1>6. Keep /\ NoneMade
  BY <1>1, <1>2, <1>5 DEF Keep, NoneMade, Persists, Instance
<1> QED  BY <1>1, <1>3, <1>5, <1>6 DEF IInv, TypeOK

LEMMA PurgedFacts ==
    ASSUME IInv, NEW v \in Ids, Purged(v)
    PROVE  TypeOK' /\ Keep /\ NoneMade /\ UNCHANGED <<keys, registry, job>>
<1>1. /\ volume[v].state # "none" /\ SetVolume(v, "purged")
      /\ UNCHANGED <<instance, keys, registry, job, destroy, unsized, faults>>
  BY DEF Purged, store
<1>2. /\ volume' \in [Ids -> Volume]
      /\ \A w \in Ids : /\ (volume'[w].state = "none") <=> (volume[w].state = "none")
                       /\ volume'[w].size = volume[w].size
  BY <1>1, SetVolumeFacts
<1>3. Keep /\ NoneMade
  BY <1>1, <1>2 DEF Keep, NoneMade, Persists
<1> QED  BY <1>1, <1>2, <1>3 DEF IInv, TypeOK

LEMMA CloudStepKeeps ==
    ASSUME IInv, CloudStep
    PROVE  IInv' /\ \A k \in Ids : Boots(k)
<1>1. TypeOK' /\ Keep /\ NoneMade /\ UNCHANGED <<keys, registry, job>>
  BY DeleteCallFacts, ListToTrashFacts, TrashVolumeFacts, VanishesFacts, PurgedFacts
     DEF CloudStep
<1> QED  BY <1>1, CloudOnly, NoneBoots DEF IInv

LEMMA RestartKeeps ==
    ASSUME IInv, Restart
    PROVE  IInv' /\ \A k \in Ids : Boots(k)
<1>1. /\ job' = Idle /\ destroy' = [d \in Destroyers |-> NoWork] /\ Fault
      /\ UNCHANGED <<instance, volume, keys, registry, unsized>>
  BY DEF Restart, cloud, store
<1>2. Keep /\ NoneMade
  BY <1>1 DEF Keep, NoneMade, Persists
<1>3. TypeOK'
  <2>1. destroy' \in [Destroyers -> Work]
    BY <1>1, IdsInRange DEF Work, NoWork
  <2>2. faults' \in 0..MaxFaults
    BY <1>1, VerdaAssumption DEF Fault, IInv, TypeOK
  <2> QED  BY <1>1, <2>1, <2>2, IdleTyped DEF IInv, TypeOK
<1>4. JobFacts'
  BY <1>1 DEF JobFacts, Holds, Idle
<1>5. InstanceFacts' /\ RegistryFacts'
  BY <1>1, <1>2, InstancesKept, RegistryKept DEF RegistryFacts
<1> QED  BY <1>2, <1>3, <1>4, <1>5, NoneBoots DEF IInv

-----------------------------------------------------------------------------
(* The theorems *)

LEMMA InitInvariant == Init => IInv
<1> SUFFICES ASSUME Init PROVE IInv
  OBVIOUS
<1>1. TypeOK
  <2>1. instance \in [Ids -> Instance] /\ volume \in [Ids -> Volume]
    BY SizesAreNumbers, IdsInRange DEF Init, Instance, Volume
  <2>2. keys \in [Ids -> Keys]
    BY SizesAreNumbers DEF Init, Keys
  <2>3. registry \in [Ids -> VolumeInfo]
    <3>1. NoInfo \in VolumeInfo
      BY SizesAreNumbers, IdsInRange DEF NoInfo, VolumeInfo
    <3> QED  BY <3>1 DEF Init
  <2>4. job \in Job /\ destroy \in [Destroyers -> Work]
    BY IdleTyped, NoWorkTyped DEF Init
  <2>5. unsized \subseteq Ids
    BY DEF Init
  <2>6. faults \in 0..MaxFaults
    BY VerdaAssumption DEF Init
  <2> QED  BY <2>1, <2>2, <2>3, <2>4, <2>5, <2>6 DEF TypeOK
<1>2. InstanceFacts
  BY DEF Init, InstanceFacts, Made, NotMade
<1>3. RegistryFacts
  BY DEF Init, RegistryFacts, Describes, NoInfo
<1>4. JobFacts
  BY DEF Init, JobFacts, Holds, Idle
<1> QED  BY <1>1, <1>2, <1>3, <1>4 DEF IInv

LEMMA NextInvariant ==
    ASSUME IInv, [Next]_vars
    PROVE  IInv' /\ \A i \in Ids : Boots(i)
<1>1. CASE Create
  BY <1>1, FindVolumeKeeps, ChooseImageKeeps, CreateCallKeeps DEF Create
<1>2. CASE Mark
  BY <1>2, ReachesReadyKeeps, MarkWriteKeeps DEF Mark
<1>3. ASSUME NEW d \in Destroyers, Destroy(d)
      PROVE  IInv' /\ \A i \in Ids : Boots(i)
  BY <1>3, BeginDestroyKeeps, CloudStepKeeps DEF Destroy, CloudStep
<1>4. CASE \E i \in Ids : Vanishes(i) \/ Purged(i)
  BY <1>4, CloudStepKeeps DEF CloudStep
<1>5. CASE Restart
  BY <1>5, RestartKeeps
<1>6. CASE UNCHANGED vars
  <2>1. UNCHANGED <<instance, volume, keys, registry, job, destroy, unsized, faults>>
    BY <1>6 DEF vars, cloud, store
  <2>2. Keep /\ NoneMade
    BY <2>1 DEF Keep, NoneMade, Persists
  <2>3. TypeOK'
    BY <2>1 DEF IInv, TypeOK
  <2> QED  BY <2>1, <2>2, <2>3, CloudOnly, NoneBoots DEF IInv
<1> QED  BY <1>1, <1>2, <1>3, <1>4, <1>5, <1>6 DEF Next

\* The inductive invariant holds throughout: every record of a volume, in the
\* registry or in a goroutine's hands, tells the truth about it.
THEOREM Invariance == Spec => []IInv
<1>1. IInv /\ [Next]_vars => IInv'
  BY NextInvariant
<1> QED  BY InitInvariant, <1>1, PTL DEF Spec

\* Type correctness of instances, volumes, registry and goroutines.
THEOREM TypeCorrect == Spec => []TypeOK
<1>1. IInv => TypeOK
  BY DEF IInv
<1> QED  BY Invariance, <1>1, PTL

\* An instance boots only from a volume of its model whose bootstrap succeeded,
\* however many goroutines register, overwrite and trash volumes meanwhile
\* (provider.go:325-332, demandstore.go:508-566).
THEOREM BootsFromReadyVolumes == Spec => BootsOnlyFromReady
<1>1. IInv /\ [Next]_vars =>
        [\A i \in Ids : BootsFromOld(i) =>
           \E j \in Ids : /\ instance[j].volume = instance'[i].volume
                          /\ instance[j].model = instance'[i].model
                          /\ instance[j].wasReady]_vars
  BY NextInvariant DEF Boots
<1> QED  BY Invariance, <1>1, PTL DEF Spec, BootsOnlyFromReady

\* A volume that had its size each time it was registered has the room that the
\* claim of an instance on it asks for, also when the volume was bigger than its
\* earlier claims asked for (demandstore.go:538-566, provider.go:253-301).
THEOREM SizedVolumesHaveRoom == Spec => SizedVolumesFit
<1>1. IInv /\ [Next]_vars =>
        [\A i \in Ids : BootsFromOld(i) /\ instance'[i].volume \notin unsized =>
           volume[instance'[i].volume].size >= job.disk]_vars
  BY NextInvariant DEF Boots
<1> QED  BY Invariance, <1>1, PTL DEF Spec, SizedVolumesFit

=============================================================================
