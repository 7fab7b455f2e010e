---------------------------- MODULE VerdaVolumes ----------------------------
(***************************************************************************)
(* OS volumes on Verda and their registry in Dragonfly: CreateInstance and *)
(* DestroyInstance of pkg/provider/verda/provider.go with client.go, and   *)
(* the volume registry of internal/controller/demandstore.go.              *)
(*                                                                         *)
(* The reconciler creates instances and marks volumes, one call at a time; *)
(* the reconciler, the disruptor, the interruption sweep and the instance  *)
(* GC destroy instances, each in a goroutine of its own.  A step ends      *)
(* where another goroutine can tell the order of two calls.                *)
(*                                                                         *)
(* Simplifications:                                                        *)
(*  1. An instance has one volume, its OS volume, and a volume made for    *)
(*     an instance has the instance's number.                              *)
(*  2. Calls that only read, or only matter when they fail (the start-up   *)
(*     script, the SSH keys), are part of a step beside them; so are the   *)
(*     records of an instance nobody else knows yet, with each way in      *)
(*     which they may be missing.                                          *)
(*  3. Verda attaches a volume that is detached, and refuses any other;    *)
(*     it puts into the trash only what is detached.                       *)
(*  4. A claim names a model: without one no volume is looked up and       *)
(*     nothing is recorded.                                                *)
(***************************************************************************)
EXTENDS Naturals, FiniteSets

CONSTANTS
    Models,       \* model ids
    Disks,        \* MinDisk of claims; 0: the claim does not ask for any size
    DefaultSize,  \* size of a volume that Verda makes for such a claim
    Destroyers,   \* goroutines that destroy instances
    NoModel,      \* "no model id"
    MaxInstances, \* bound: instances ever created
    MaxFaults     \* bound: failed calls, expired records and restarts

ASSUME VerdaAssumption ==
    /\ NoModel \notin Models
    /\ Disks \subseteq Nat
    /\ DefaultSize \in Nat \ {0}
    /\ MaxInstances \in Nat /\ MaxFaults \in Nat

VARIABLES
    instance, \* the instances at Verda
    volume,   \* their volumes
    keys,     \* gpuscale:instance_model:{id} and gpuscale:instance_disk:{id}
    registry, \* gpuscale:volume:{id}
    job,      \* what the reconciler is doing
    destroy,  \* what each destroyer is doing
    unsized,  \* volumes that were ever registered with no size (history)
    faults

cloud == <<instance, volume>>
store == <<keys, registry>>
vars == <<cloud, store, job, destroy, unsized, faults>>

-----------------------------------------------------------------------------
(* State *)

Ids    == 1..MaxInstances
IdsOr0 == 0..MaxInstances
Sizes  == Disks \cup {0, DefaultSize}

\* wasReady: the instance reached Ready (history).
Instance == [state : {"none", "running", "deleting", "gone"},
             model : Models \cup {NoModel}, volume : IdsOr0, wasReady : BOOLEAN]
Volume   == [state : {"none", "attached", "detached", "trash", "purged"}, size : Sizes]
Keys     == [model : Models \cup {NoModel}, disk : Sizes]
\* instance = 0: no entry.
VolumeInfo == [model : Models \cup {NoModel}, instance : IdsOr0, size : Sizes,
               ready : BOOLEAN]
NoInfo == [model |-> NoModel, instance |-> 0, size |-> 0, ready |-> FALSE]

\* CreateInstance: list, create; MarkVolumeReady: mark.
Job  == [pc : {"idle", "list", "create", "mark"},
         model : Models \cup {NoModel}, disk : Sizes, tracked : IdsOr0, image : IdsOr0,
         copy : VolumeInfo]
Idle == [pc |-> "idle", model |-> NoModel, disk |-> 0, tracked |-> 0, image |-> 0,
         copy |-> NoInfo]

\* DestroyInstance.
Work   == [pc : {"idle", "delete", "sweep", "trash"}, instance : IdsOr0,
           todo : SUBSET Ids]
NoWork == [pc |-> "idle", instance |-> 0, todo |-> {}]

Init ==
    /\ instance = [i \in Ids |-> [state |-> "none", model |-> NoModel, volume |-> 0,
                                  wasReady |-> FALSE]]
    /\ volume = [v \in Ids |-> [state |-> "none", size |-> 0]]
    /\ keys = [i \in Ids |-> [model |-> NoModel, disk |-> 0]]
    /\ registry = [v \in Ids |-> NoInfo]
    /\ job = Idle
    /\ destroy = [d \in Destroyers |-> NoWork]
    /\ unsized = {}
    /\ faults = 0

Fault == faults < MaxFaults /\ faults' = faults + 1

-----------------------------------------------------------------------------
(* CreateInstance *)

\* Mutant: the mark is not looked at.
SuitableUnmarked(m, disk) ==
    {v \in Ids : /\ registry[v].instance # 0
                 /\ registry[v].model = m
                 /\ disk = 0 \/ registry[v].size = 0 \/ registry[v].size >= disk}

\* FindVolumeForModel.
Suitable(m, disk) ==
    {v \in Ids : /\ registry[v].instance # 0
                 /\ registry[v].model = m
                 /\ registry[v].ready
                 /\ disk = 0 \/ registry[v].size = 0 \/ registry[v].size >= disk}

FindVolume(m, disk) ==
    /\ job = Idle
    /\ \E v \in IdsOr0 :
         /\ job' = [Idle EXCEPT !.pc = "list", !.model = m, !.disk = disk, !.tracked = v]
         /\ \/ v \in Suitable(m, disk) /\ UNCHANGED faults
            \/ v = 0 /\ Suitable(m, disk) = {} /\ UNCHANGED faults
            \/ v = 0 /\ Suitable(m, disk) # {} /\ Fault
    /\ UNCHANGED <<cloud, store, destroy, unsized>>

TrackedIs(state) == job.tracked # 0 /\ volume[job.tracked].state = state

SetVolume(v, state) == volume' = [volume EXCEPT ![v].state = state]

\* Mutant: any detached volume will do.
ChooseAnyImage ==
    /\ job.pc = "list"
    /\ \/ \E v \in Ids : /\ volume[v].state = "detached"
                         /\ job' = [job EXCEPT !.pc = "create", !.image = v]
       \/ /\ \A v \in Ids : volume[v].state # "detached"
          /\ job' = [job EXCEPT !.pc = "create"]
    /\ UNCHANGED <<cloud, store, destroy, unsized, faults>>

\* The tracked volume is taken as it is, or restored from the trash.
ChooseImage ==
    /\ job.pc = "list"
    /\ \/ /\ TrackedIs("detached")
          /\ job' = [job EXCEPT !.pc = "create", !.image = job.tracked]
          /\ UNCHANGED <<volume, faults>>
       \/ /\ TrackedIs("trash")
          /\ SetVolume(job.tracked, "detached")
          /\ job' = [job EXCEPT !.pc = "create", !.image = job.tracked]
          /\ UNCHANGED faults
       \/ /\ IF TrackedIs("detached") \/ TrackedIs("trash") THEN Fault ELSE UNCHANGED faults
          /\ job' = [job EXCEPT !.pc = "create"]
          /\ UNCHANGED volume
    /\ UNCHANGED <<instance, store, destroy, unsized>>

NextId(i) == instance[i].state = "none" /\ \A j \in Ids : j < i => instance[j].state # "none"

NewSize(disk) == IF disk = 0 THEN DefaultSize ELSE disk

\* Verda starts instance i on the volume asked for, or on a new one.
Starts(i) ==
    LET v == IF job.image = 0 THEN i ELSE job.image
    IN  /\ NextId(i)
        /\ job.image = 0 \/ volume[v].state = "detached"
        /\ instance' = [instance EXCEPT ![i] = [state |-> "running", model |-> job.model,
                                                volume |-> v, wasReady |-> FALSE]]
        /\ volume' = [volume EXCEPT ![v].state = "attached",
                                    ![v].size = IF job.image = 0 THEN NewSize(job.disk) ELSE @]

\* The instance is not started: the image is not there, or a call fails.
CreateRefused ==
    /\ UNCHANGED cloud
    /\ IF job.image # 0 /\ volume[job.image].state # "detached"
       THEN UNCHANGED faults ELSE Fault

\* RegisterInstanceModel and SetInstanceDiskSize, whose errors are ignored; a
\* response that is lost leaves no record at all, and a MinDisk of 0 is not
\* recorded.
Records(i) ==
    \E m \in {job.model, NoModel}, s \in {job.disk, 0} :
      /\ keys' = [keys EXCEPT ![i] = [model |-> m, disk |-> s]]
      /\ IF m = job.model /\ s = job.disk THEN UNCHANGED faults ELSE Fault

CreateCall ==
    /\ job.pc = "create"
    /\ \/ \E i \in Ids : Starts(i) /\ Records(i)
       \/ CreateRefused /\ UNCHANGED keys
    /\ job' = Idle
    /\ UNCHANGED <<registry, destroy, unsized>>

-----------------------------------------------------------------------------
(* MarkVolumeReady, when the claim of the instance reaches Ready *)

\* The entry of its volume is read, to be written back with bootstrapSucceeded.
ReachesReady(i) ==
    /\ job = Idle
    /\ instance[i].state = "running" /\ ~instance[i].wasReady
    /\ instance' = [instance EXCEPT ![i].wasReady = TRUE]
    /\ LET mine == {v \in Ids : registry[v].instance = i /\ ~registry[v].ready}
       IN  \/ /\ \E v \in mine : job' = [Idle EXCEPT !.pc = "mark", !.tracked = v,
                                                     !.copy = registry[v]]
              /\ UNCHANGED faults
           \/ /\ IF mine = {} THEN UNCHANGED faults ELSE Fault
              /\ UNCHANGED job
    /\ UNCHANGED <<volume, store, destroy, unsized>>

MarkWrite ==
    /\ job.pc = "mark"
    /\ job' = Idle
    /\ \/ /\ registry' = [registry EXCEPT ![job.tracked] = [job.copy EXCEPT !.ready = TRUE]]
          /\ UNCHANGED faults
       \/ Fault /\ UNCHANGED registry
    /\ UNCHANGED <<cloud, keys, destroy, unsized>>

-----------------------------------------------------------------------------
(* DestroyInstance *)

AttachedTo(i) == {v \in Ids : v = instance[i].volume
                              /\ instance[i].state \in {"running", "deleting"}}

Register(v, m, i, size) ==
    /\ registry' = [registry EXCEPT ![v] = [model |-> m, instance |-> i, size |-> size,
                                            ready |-> FALSE]]
    /\ unsized' = IF size = 0 THEN unsized \cup {v} ELSE unsized

\* RegisterVolume for the volume attached to the instance, with the model and
\* the size recorded for it, if they can be read (records expire after a day) and
\* the volumes listed.
BeginDestroy(d, i) ==
    /\ destroy[d] = NoWork
    /\ instance[i].state # "none"
    /\ destroy' = [destroy EXCEPT ![d] = [NoWork EXCEPT !.pc = "delete", !.instance = i]]
    /\ IF keys[i].model = NoModel \/ AttachedTo(i) = {}
       THEN UNCHANGED <<registry, unsized, faults>>
       ELSE \/ /\ \E v \in AttachedTo(i) : Register(v, keys[i].model, i, keys[i].disk)
               /\ UNCHANGED faults
            \/ /\ \E v \in AttachedTo(i) : Register(v, keys[i].model, i, 0)
               /\ Fault
            \/ UNCHANGED <<registry, unsized>> /\ Fault
    /\ UNCHANGED <<cloud, keys, job>>

\* Mutant: the instance is stopped.
StopCall(d) ==
    /\ destroy[d].pc = "delete"
    /\ instance' = [instance EXCEPT ![destroy[d].instance].state =
                       IF @ = "running" THEN "stopped" ELSE @]
    /\ destroy' = [destroy EXCEPT ![d].pc = "sweep"]
    /\ UNCHANGED <<volume, store, job, unsized, faults>>

DeleteCall(d) ==
    /\ destroy[d].pc = "delete"
    /\ LET i == destroy[d].instance IN
       \/ /\ instance' = [instance EXCEPT ![i].state = IF @ = "running" THEN "deleting" ELSE @]
          /\ destroy' = [destroy EXCEPT ![d].pc = "sweep"]
          /\ UNCHANGED faults
       \/ /\ Fault /\ UNCHANGED instance
          /\ destroy' = [destroy EXCEPT ![d] = NoWork]
    /\ UNCHANGED <<volume, store, job, unsized>>

\* These volumes are still to be deleted.
Trashing(todo) ==
    IF todo = {} THEN NoWork ELSE [NoWork EXCEPT !.pc = "trash", !.todo = todo]

\* cleanupDetachedVolumes lists the detached volumes, of any instance, and
\* deletes them one by one.
ListToTrash(d) ==
    /\ destroy[d].pc = "sweep"
    /\ LET detached == {v \in Ids : volume[v].state = "detached"} IN
       \/ /\ destroy' = [destroy EXCEPT ![d] = Trashing(detached)]
          /\ UNCHANGED faults
       \/ /\ detached # {} /\ Fault
          /\ destroy' = [destroy EXCEPT ![d] = NoWork]
    /\ UNCHANGED <<cloud, store, job, unsized>>

TrashVolume(d, v) ==
    /\ destroy[d].pc = "trash" /\ v \in destroy[d].todo
    /\ destroy' = [destroy EXCEPT ![d] = Trashing(destroy[d].todo \ {v})]
    /\ \/ /\ volume[v].state = "detached"
          /\ SetVolume(v, "trash")
          /\ UNCHANGED faults
       \/ /\ UNCHANGED volume
          /\ IF volume[v].state = "detached" THEN Fault ELSE UNCHANGED faults
    /\ UNCHANGED <<instance, store, job, unsized>>

-----------------------------------------------------------------------------
(* Verda, Dragonfly and restarts *)

\* An instance is gone at last, or a spot instance is taken away; its volume
\* stays, detached.
Vanishes(i) ==
    /\ instance[i].state \in {"running", "deleting"}
    /\ instance' = [instance EXCEPT ![i].state = "gone"]
    /\ SetVolume(instance[i].volume, "detached")
    /\ UNCHANGED <<store, job, destroy, unsized, faults>>

\* 96 hours in the trash are over.
Purged(v) ==
    /\ volume[v].state = "trash"
    /\ SetVolume(v, "purged")
    /\ UNCHANGED <<instance, store, job, destroy, unsized, faults>>

Restart ==
    /\ Fault
    /\ job' = Idle
    /\ destroy' = [d \in Destroyers |-> NoWork]
    /\ UNCHANGED <<cloud, store, unsized>>

Create  == \/ \E m \in Models, disk \in Disks : FindVolume(m, disk)
           \/ ChooseImage \/ CreateCall
Mark    == (\E i \in Ids : ReachesReady(i)) \/ MarkWrite
Destroy(d) == \/ \E i \in Ids : BeginDestroy(d, i)
              \/ DeleteCall(d) \/ ListToTrash(d)
              \/ \E v \in Ids : TrashVolume(d, v)

Next ==
    \/ Create
    \/ Mark
    \/ \E d \in Destroyers : Destroy(d)
    \/ \E i \in Ids : Vanishes(i) \/ Purged(i)
    \/ Restart

Spec == Init /\ [][Next]_vars

-----------------------------------------------------------------------------

TypeOK ==
    /\ instance \in [Ids -> Instance]
    /\ volume \in [Ids -> Volume]
    /\ keys \in [Ids -> Keys]
    /\ registry \in [Ids -> VolumeInfo]
    /\ job \in Job
    /\ destroy \in [Destroyers -> Work]
    /\ unsized \subseteq Ids
    /\ faults \in 0..MaxFaults

\* Instance i starts, on a volume that was there before.
BootsFromOld(i) == /\ instance[i].state = "none" /\ instance'[i].state = "running"
                   /\ volume[instance'[i].volume].state # "none"

\* An instance boots only from a volume on which an instance of the same model
\* reached Ready before: whatever the order in which a volume is registered,
\* marked, overwritten and looked up, a volume whose bootstrap never succeeded
\* is not taken up (provider.go:325-332, demandstore.go:508-566).
BootsOnlyFromReady ==
    [][\A i \in Ids : BootsFromOld(i) =>
         \E j \in Ids : /\ instance[j].volume = instance'[i].volume
                        /\ instance[j].model = instance'[i].model
                        /\ instance[j].wasReady]_vars

\* FindVolumeForModel returns a volume that "has at least minDisk GB of storage"
\* (demandstore.go:538): whatever is known of its size, the volume an instance
\* boots from has the room its claim asks for.
DiskLargeEnough ==
    [][\A i \in Ids : BootsFromOld(i) => volume[instance'[i].volume].size >= job.disk]_vars

\* What the size check does achieve: a volume that had its size each time it was
\* registered is not too small for the claim it is taken up by, although the
\* size is recorded for an instance, copied to the volume when the instance is
\* destroyed, written back by MarkVolumeReady and recorded again for the next
\* instance on it (provider.go:266-301, demandstore.go:538-566).
SizedVolumesFit ==
    [][\A i \in Ids : BootsFromOld(i) /\ instance'[i].volume \notin unsized =>
         volume[instance'[i].volume].size >= job.disk]_vars

=============================================================================
