----------------------- MODULE ClaimLifecycleInvariant -----------------------
(***************************************************************************)
(* The inductive invariant of ClaimLifecycle, IInv, from which its safety   *)
(* properties follow (ClaimLifecycleProofs), and LedgerInv, with which it  *)
(* refines InstanceLedger (LedgerProofs). TLC checks both in               *)
(* MCClaimLifecycleSafety.cfg.                                             *)
(***************************************************************************)
EXTENDS ClaimLifecycle

-----------------------------------------------------------------------------
(* The inductive invariant. The first group relates, claim by claim, the     *)
(* object on the API server, its cached copy and who holds its latest        *)
(* version; the second says what a handler in progress may still rely on     *)
(* although other actors ran since it read the claim.                        *)

\* A claim object as the writes leave it.
Sound(a) ==
    /\ a.phase = "Unborn" => a.instanceID = None /\ ~a.finalizer /\ ~a.deleting
    /\ \/ a.instanceID = None
       \/ a.annotation = None
       \/ a.instanceID = a.annotation
    /\ a.phase \in {"Bootstrapping", "Ready", "Draining"} => a.instanceID # None
    /\ a.phase \in {"New", "Pending", "Provisioning"} => a.instanceID = None
    /\ OnServer(a) /\ (a.phase # "New" \/ a.deleting) => a.finalizer

\* The copy k of the claim object a, however old it is.
CopyOf(k, a) ==
    /\ k.annotation \in {None, a.annotation}
    /\ k.phase # "Unborn" => a.phase # "Unborn"
    /\ k.finalizer => a.finalizer \/ a.phase = "Removed"
    /\ OnServer(k) /\ (k.phase # "New" \/ k.deleting) => k.finalizer

\* Who holds the latest version of a claim.
HoldersOf(u, k, a) ==
    /\ "cache" \in u => k = a
    /\ u \cap {"rec", "dis"} # {} => OnServer(a) /\ a.finalizer

ClaimFacts ==
    \A c \in Claims :
        /\ Sound(api[c])
        /\ CopyOf(cache[c], api[c])
        /\ HoldersOf(upToDate[c], cache[c], api[c])

\* The claim a of the reconciler's handler in progress, at version holders u.
HandlerOf(r, a, u) ==
    /\ a.phase # "Unborn"
    /\ OnServer(a) => a.finalizer
    /\ r.pc \in {"provision", "created"} =>
         a.instanceID = None /\ a.annotation = None
    /\ r.pc \in RecordingPCs => r.id \in Instances
    /\ r.pc \in {"patched", "respec", "record"} => a.annotation \in {None, r.id}
    /\ r.pc = "admit" /\ "rec" \in u => a.phase = "New"
    /\ r.pc = "publish" => OnServer(a)

RecFacts ==
    rec.pc # "idle" =>
        /\ rec.claim \in Claims
        /\ HandlerOf(rec, api[rec.claim], upToDate[rec.claim])

DisFacts == dis.pc # "idle" => dis.claim \in Claims

\* An entry has a finalizer that will come for it, and handleDeletion drops
\* the finalizer only when it has come.
WorkerFacts ==
    /\ \A c \in Claims : workers[c] = "entry" => OnServer(api[c]) /\ api[c].finalizer
    /\ rec.pc = "write" /\ rec.path = "deleting" => workers[rec.claim] # "entry"

IInv == TypeOK /\ ClaimFacts /\ RecFacts /\ DisFacts /\ WorkerFacts

-----------------------------------------------------------------------------
(* What the refinement of InstanceLedger needs on top of IInv: an instance is  *)
(* only ever named by the claim it was bought for, and a copy of a claim is    *)
(* never so old that its reader takes up an instance that came loose.          *)

Early == {"Unborn", "New", "Pending", "Provisioning"}

Born(i) == i \in Instances /\ inst[i] # "unborn"

\* The copy k of the claim object a is behind, but not by any distance: who
\* reads an early phase knows that the claim is not past Bootstrapping, and
\* who reads a claim that is not deleted that it is not removed.
Behind(k, a) ==
    /\ k.instanceID \in {None, a.instanceID}
    /\ k.phase \in Early => a.phase \in Early \cup {"Bootstrapping", "Removed"}
    /\ a.phase \in Early => k.phase \in Early
    /\ k.deleting => a.deleting
    /\ a.phase = "Removed" =>
         a.deleting /\ (k.deleting \/ k.phase \in {"Unborn", "New"})
    /\ a.phase = "Unborn" => a.annotation = None
    /\ a.phase = "Terminated" => a.instanceID # None

AgeFacts ==
    \A c \in Claims :
        /\ Behind(cache[c], api[c])
        /\ "dis" \in upToDate[c] => api[c].phase = "Draining"

OwnerFacts ==
    \A c \in Claims : \A i \in Names(api[c]) : Born(i) /\ owner[i] = c

\* The claim a and its cached copy k, for the reconciler's handler r.
Recording(r, a) ==
    r.pc \in RecordingPCs =>
        /\ Born(r.id) /\ owner[r.id] = r.claim
        /\ a.instanceID \in {None, r.id}
        /\ a.phase \notin {"Ready", "Draining"}

Ending(r, k) ==
    /\ r.pc = "destroy" => Born(r.id)
    /\ r.pc \in {"destroy", "cleanup", "write"} =>
         /\ r.path \in {"bootFailed", "readyLost", "draining"} =>
              k.phase \notin Early
         /\ r.path = "deleting" => k.deleting

HandlerFacts ==
    /\ rec.pc # "idle" => /\ Recording(rec, api[rec.claim])
                          /\ Ending(rec, cache[rec.claim])
    /\ dis.pc = "destroy" => Born(dis.id)

\* The instances the GC will destroy, or doom, whatever becomes of the claims.
Doomable ==
    gc.doomed \cup (IF gc.pc = "list" THEN candidates \ gc.known ELSE {})

GCFacts ==
    /\ \A i \in candidates \cup gc.doomed \cup gc.orphans : Born(i)
    /\ WriterKeepsUp =>
         \A i \in Doomable : LedgerState(i) \in {"loose", "ended"}

LedgerInv == AgeFacts /\ OwnerFacts /\ HandlerFacts /\ GCFacts
=============================================================================
