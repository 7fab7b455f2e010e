---------------------------- MODULE LedgerProofs ----------------------------
(***************************************************************************)
(* ClaimLifecycle implements InstanceLedger, for any number of claims,     *)
(* instances and faults and any provider behaviour: every step of the      *)
(* controllers, the users and the providers moves at most one instance,    *)
(* and along a move the ledger allows. From this it follows that InstanceGC*)
(* dooms no running instance that a claim names: what came loose once is   *)
(* never taken up again.                                                   *)
(***************************************************************************)
EXTENDS ClaimLifecycleProofs

-----------------------------------------------------------------------------
(* The moves of the ledger.                                                  *)

\* What the state of an instance in the ledger stands for, now
LEMMA StateNow ==
    ASSUME TypeOK, NEW i \in Instances
    PROVE  /\ inst[i] = "unborn" => ledgerState[i] = "unborn"
           /\ inst[i] \in {"dead", "gone"} => ledgerState[i] = "ended"
           /\ inst[i] = "up" /\ Held(i) => ledgerState[i] = "held"
           /\ inst[i] = "up" /\ ~Held(i) =>
                ledgerState[i] = IF BeingRecorded(i) THEN "buying" ELSE "loose"
           /\ inst[i] \in {"unborn", "dead", "gone", "up"}
           /\ ledgerState[i] = LedgerState(i)
<1>1. inst[i] \in {"unborn", "dead", "gone", "up"}
  BY DEF TypeOK, InstanceStates
<1>2. ledgerState[i] = LedgerState(i)
  BY DEF ledgerState
<1> QED  BY <1>1, <1>2, Zenon DEF LedgerState

\* ... and after a step.
LEMMA StateNext ==
    ASSUME TypeOK', NEW i \in Instances
    PROVE  /\ inst'[i] = "unborn" => ledgerState'[i] = "unborn"
           /\ inst'[i] \in {"dead", "gone"} => ledgerState'[i] = "ended"
           /\ inst'[i] = "up" /\ Held(i)' => ledgerState'[i] = "held"
           /\ inst'[i] = "up" /\ ~Held(i)' =>
                ledgerState'[i] = IF BeingRecorded(i)' THEN "buying"
                                  ELSE "loose"
           /\ inst'[i] \in {"unborn", "dead", "gone", "up"}
           /\ ledgerState'[i] = LedgerState(i)'
<1>1. inst'[i] \in {"unborn", "dead", "gone", "up"}
  BY DEF TypeOK, InstanceStates
<1>2. ledgerState'[i] = LedgerState(i)'
  BY DEF ledgerState
<1> QED  BY <1>1, <1>2, Zenon DEF LedgerState

LedgerStep == [Ledger!Next]_Ledger!vars

\* The owners stay and no instance moves, or one does.
LEMMA NoneMoves ==
    ASSUME owner' = owner,
           \A j \in Instances : ledgerState'[j] = ledgerState[j]
    PROVE  LedgerStep
<1>1. /\ ledgerState = [j \in Instances |-> ledgerState[j]]
      /\ ledgerState' = [j \in Instances |-> ledgerState'[j]]
  BY DEF ledgerState
<1> QED  BY <1>1 DEF LedgerStep, Ledger!vars

LEMMA OneMoves ==
    ASSUME owner' = owner, NEW i \in Instances,
           \A j \in Instances : j # i => ledgerState'[j] = ledgerState[j],
           \/ ledgerState'[i] = ledgerState[i]
           \/ ledgerState[i] = "buying" /\ ledgerState'[i] = "held"
           \/ /\ ledgerState[i] \in {"buying", "held"}
              /\ ledgerState'[i] = "loose"
           \/ /\ ledgerState[i] \in {"buying", "held", "loose"}
              /\ ledgerState'[i] = "ended"
    PROVE  LedgerStep
<1>1. /\ ledgerState = [j \in Instances |-> ledgerState[j]]
      /\ ledgerState' = [j \in Instances |-> ledgerState'[j]]
  BY DEF ledgerState
<1>2. ledgerState' = [ledgerState EXCEPT ![i] = ledgerState'[i]]
  BY <1>1
<1>3. CASE ledgerState'[i] = ledgerState[i]
  BY <1>3, NoneMoves
<1>4. CASE ledgerState'[i] # ledgerState[i]
  BY <1>2, <1>4
  DEF LedgerStep, Ledger!Next, Ledger!Hold, Ledger!Drop, Ledger!End,
      Ledger!Move
<1> QED  BY <1>3, <1>4

\* The live claims name the instances they named.
LiveNames(a) == IF Live(a) THEN Names(a) ELSE {}
NamesKept    == \A c \in Claims : LiveNames(api'[c]) = LiveNames(api[c])

LEMMA HeldKept ==
    ASSUME NamesKept
    PROVE  \A i \in Instances : Held(i)' <=> Held(i)
<1>1. \A i \in Instances :
        /\ Held(i) <=> \E c \in Claims : i \in LiveNames(api[c])
        /\ Held(i)' <=> \E c \in Claims : i \in LiveNames(api'[c])
  BY ConstantsAssumption DEF Held, LiveNames, Names
<1> QED  BY <1>1 DEF NamesKept

\* What a claim names, it owns, and it names one instance at most.
LEMMA NamedOwned ==
    ASSUME IInv, OwnerFacts, NEW c \in Claims, NEW i \in Instances,
           api[c].instanceID = i \/ api[c].annotation = i
    PROVE  /\ Born(i) /\ owner[i] = c
           /\ api[c].instanceID \in {None, i}
           /\ api[c].annotation \in {None, i}
<1>1. i # None
  BY ConstantsAssumption
<1>2. i \in Names(api[c])
  BY <1>1 DEF Names
<1>3. Sound(api[c])
  BY DEF IInv, ClaimFacts
<1> QED  BY <1>1, <1>2, <1>3 DEF OwnerFacts, Sound

(* A step that leaves the names of the live claims: the reconciler may take  *)
(* up an instance a claim holds, or give up recording the one it has.        *)
LEMMA NamesStay ==
    ASSUME IInv, TypeOK', NamesKept, inst' = inst, owner' = owner,
           rec'.pc \in RecordingPCs =>
               \/ rec.pc \in RecordingPCs /\ rec'.id = rec.id
               \/ Held(rec'.id)
    PROVE  LedgerStep
<1>h. \A i \in Instances : Held(i)' <=> Held(i)
  BY HeldKept
<1>t. TypeOK
  BY DEF IInv
<1>o. ASSUME NEW j \in Instances, rec.pc \in RecordingPCs => rec.id # j
      PROVE  ledgerState'[j] = ledgerState[j]
  <2>1. ~Held(j) => ~BeingRecorded(j) /\ ~BeingRecorded(j)'
    BY <1>o DEF BeingRecorded
  <2> QED  BY <1>t, <1>h, <2>1, StateNow, StateNext
<1>1. CASE rec.pc \in RecordingPCs
  <2>1. rec.id \in Instances /\ BeingRecorded(rec.id)
    BY <1>1 DEF IInv, RecFacts, HandlerOf, RecordingPCs, BeingRecorded
  <2>2. \/ ledgerState'[rec.id] = ledgerState[rec.id]
        \/ ledgerState[rec.id] = "buying" /\ ledgerState'[rec.id] = "loose"
    BY <1>t, <1>h, <2>1, StateNow, StateNext
  <2> QED  BY <1>o, <2>1, <2>2, OneMoves
<1>2. CASE rec.pc \notin RecordingPCs
  BY <1>o, <1>2, NoneMoves
<1> QED  BY <1>1, <1>2

(* A claim that ends, or is removed, lets go of its instance, if the         *)
(* reconciler is not about to record that one again.                         *)
LEMMA NamesGo ==
    ASSUME IInv, TypeOK', OwnerFacts, HandlerFacts,
           NEW c \in Claims, NEW r, api' = [api EXCEPT ![c] = r], ~Live(r),
           inst' = inst, owner' = owner,
           \/ rec.pc \notin RecordingPCs /\ rec'.pc \notin RecordingPCs
           \/ /\ rec' = rec
              /\ \/ rec.claim # c
                 \/ \A i \in Names(api[c]) : inst[i] # "up"
    PROVE  LedgerStep
<1>t. TypeOK /\ api \in [Claims -> Claim]
  BY DEF IInv, TypeOK
<1>r. ASSUME NEW j \in Instances
      PROVE  BeingRecorded(j)' <=> BeingRecorded(j)
  BY DEF BeingRecorded
<1>a. /\ \A d \in Claims : d # c => api'[d] = api[d]
      /\ ~Live(api'[c])
  BY <1>t
<1>o. ASSUME NEW j \in Instances,
             ~(api[c].instanceID = j \/ api[c].annotation = j)
      PROVE  ledgerState'[j] = ledgerState[j]
  <2>1. Held(j)' <=> Held(j)
    BY <1>a, <1>o DEF Held
  <2> QED  BY <1>t, <1>r, <2>1, StateNow, StateNext
<1>1. CASE \E i \in Instances : api[c].instanceID = i \/ api[c].annotation = i
  <2>1. PICK i \in Instances : api[c].instanceID = i \/ api[c].annotation = i
    BY <1>1
  <2>2. /\ Born(i) /\ owner[i] = c /\ i # None
        /\ api[c].instanceID \in {None, i} /\ api[c].annotation \in {None, i}
    BY <2>1, NamedOwned, ConstantsAssumption
  <2>3. \A j \in Instances : j # i => ledgerState'[j] = ledgerState[j]
    BY <1>o, <2>2, ConstantsAssumption
  <2>4. ~Held(i)'
    <3> SUFFICES ASSUME NEW d \in Claims, Live(api'[d]),
                        api'[d].instanceID = i \/ api'[d].annotation = i
                 PROVE  FALSE
      BY DEF Held
    <3>1. d # c /\ api'[d] = api[d]
      BY <1>a
    <3> QED  BY <2>2, <3>1, NamedOwned
  <2>5. inst[i] = "up" => ~BeingRecorded(i)
    <3>1. rec.pc \in RecordingPCs => owner[rec.id] = rec.claim
      BY DEF HandlerFacts, Recording, RecordingPCs
    <3>2. i \in Names(api[c])
      BY <2>1, <2>2 DEF Names
    <3> QED  BY <2>2, <3>1, <3>2 DEF BeingRecorded
  <2>6. \/ ledgerState'[i] = ledgerState[i]
        \/ ledgerState[i] = "held" /\ ledgerState'[i] = "loose"
    BY <1>t, <1>r, <2>4, <2>5, StateNow, StateNext
  <2> QED  BY <2>3, <2>6, OneMoves
<1>2. CASE ~\E i \in Instances : api[c].instanceID = i \/ api[c].annotation = i
  BY <1>o, <1>2, NoneMoves
<1> QED  BY <1>1, <1>2

(* An instance that is destroyed or lost ends.                               *)
LEMMA InstanceEnds ==
    ASSUME IInv, TypeOK', NEW i \in Instances, inst[i] # "unborn",
           NEW x \in {"dead", "gone"}, inst' = [inst EXCEPT ![i] = x],
           owner' = owner, api' = api,
           \/ rec.pc \notin RecordingPCs /\ rec'.pc \notin RecordingPCs
           \/ rec' = rec
    PROVE  LedgerStep
<1>t. TypeOK /\ inst \in [Instances -> InstanceStates]
  BY DEF IInv, TypeOK
<1>h. \A j \in Instances : Held(j)' <=> Held(j)
  BY DEF Held
<1>r. ASSUME NEW j \in Instances
      PROVE  BeingRecorded(j)' <=> BeingRecorded(j)
  BY DEF BeingRecorded
<1>1. ASSUME NEW j \in Instances, j # i
      PROVE  ledgerState'[j] = ledgerState[j]
  <2>1. inst'[j] = inst[j]
    BY <1>t, <1>1
  <2> QED  BY <1>t, <1>h, <1>r, <2>1, StateNow, StateNext
<1>2. inst'[i] \in {"dead", "gone"}
  BY <1>t
<1>3. \/ ledgerState'[i] = ledgerState[i]
      \/ /\ ledgerState[i] \in {"buying", "held", "loose"}
         /\ ledgerState'[i] = "ended"
  BY <1>t, <1>2, StateNow, StateNext
<1> QED  BY <1>1, <1>3, OneMoves

-----------------------------------------------------------------------------
(* What the kinds of steps keep of LedgerInv.                                *)

\* An instance that was bought stays bought, by the same claim.
BornKept ==
    \A i \in Instances :
        inst[i] # "unborn" => inst'[i] # "unborn" /\ owner'[i] = owner[i]

\* Neither the claims nor their copies change, but for a read.
LEMMA ReadAges ==
    ASSUME AgeFacts, OwnerFacts, BornKept, api' = api, cache' = cache,
           \A d \in Claims : "dis" \in upToDate'[d] => "dis" \in upToDate[d]
    PROVE  AgeFacts' /\ OwnerFacts'
<1>1. AgeFacts'
  BY DEF AgeFacts
<1>2. OwnerFacts'
  BY DEF OwnerFacts, BornKept, Born
<1> QED  BY <1>1, <1>2

\* One claim is written, and keeps the names it has.
LEMMA WriteAges ==
    ASSUME IInv, AgeFacts, OwnerFacts, BornKept, NEW c \in Claims, NEW r,
           NEW keep, api' = [api EXCEPT ![c] = r], cache' = cache,
           upToDate' = [upToDate EXCEPT ![c] = keep], Behind(cache[c], r),
           Names(r) \subseteq Names(api[c]),
           "dis" \in keep => r.phase = "Draining"
    PROVE  AgeFacts' /\ OwnerFacts'
<1>1. /\ \A d \in Claims : d # c => /\ api'[d] = api[d]
                                   /\ upToDate'[d] = upToDate[d]
      /\ api'[c] = r /\ upToDate'[c] = keep
  BY DEF IInv, TypeOK
<1>2. AgeFacts'
  BY <1>1 DEF AgeFacts
<1>3. \A d \in Claims : \A i \in Names(api'[d]) : Born(i) /\ owner[i] = d
  BY <1>1 DEF OwnerFacts
<1>4. OwnerFacts'
  BY <1>3 DEF OwnerFacts, BornKept, Born
<1> QED  BY <1>2, <1>4

\* The reconciler stays where it is, goes on recording an instance, or turns
\* to something else,
GoesOn ==
    \/ rec' = rec
    \/ /\ rec.pc \in RecordingPCs /\ rec'.pc \in RecordingPCs
       /\ rec'.claim = rec.claim /\ rec'.id = rec.id
    \/ rec'.pc \notin RecordingPCs /\ Ending(rec', cache[rec'.claim])

\* ... or takes up an instance that a live claim names.
TakesUp ==
    /\ rec'.pc \in RecordingPCs /\ Held(rec'.id)
    /\ Recording(rec', api[rec'.claim])

DisGoesOn == dis'.pc = "destroy" => dis' = dis \/ Born(dis'.id)

\* What the other actors' writes, and the watch, leave to a handler.
LEMMA HandlerAfter ==
    ASSUME IInv', HandlerFacts, BornKept, GoesOn \/ TakesUp, DisGoesOn,
           \A c \in Claims :
               /\ api'[c].instanceID = api[c].instanceID
               /\ \/ api'[c].phase \in {"Ready", "Draining"} =>
                       api[c].phase \in {"Ready", "Draining"}
                  \/ rec'.pc \notin RecordingPCs
               /\ cache[c].phase \notin Early => cache'[c].phase \notin Early
               /\ cache[c].deleting => cache'[c].deleting
    PROVE  HandlerFacts'
<1>1. (dis.pc = "destroy" => Born(dis.id))'
  BY DEF HandlerFacts, DisGoesOn, BornKept, Born
<1>2. ASSUME rec'.pc # "idle"
      PROVE  Recording(rec, api[rec.claim])' /\ Ending(rec, cache[rec.claim])'
  <2> DEFINE c == rec'.claim
  <2>0. c \in Claims
    BY <1>2 DEF IInv, RecFacts
  <2>1. Recording(rec, api[rec.claim])'
    <3> SUFFICES ASSUME rec'.pc \in RecordingPCs
                 PROVE  /\ rec'.id \in Instances
                        /\ inst'[rec'.id] # "unborn" /\ owner'[rec'.id] = c
                        /\ api'[c].instanceID \in {None, rec'.id}
                        /\ api'[c].phase \notin {"Ready", "Draining"}
      BY DEF Recording, Born
    <3>1. Recording(rec', api[c])
      <4>1. CASE TakesUp
        BY <4>1 DEF TakesUp
      <4>2. CASE rec.pc \in RecordingPCs /\ rec'.claim = rec.claim
                 /\ rec'.id = rec.id
        <5>1. rec.pc # "idle" /\ Recording(rec, api[rec.claim])
          BY <4>2 DEF HandlerFacts, RecordingPCs
        <5> QED  BY <4>2, <5>1 DEF Recording
      <4>3. CASE rec' = rec
        BY <1>2, <4>3 DEF HandlerFacts
      <4> QED  BY <4>1, <4>2, <4>3 DEF GoesOn
    <3> QED  BY <2>0, <3>1 DEF Recording, BornKept, Born
  <2>2. Ending(rec', cache[c])
    BY <1>2 DEF HandlerFacts, GoesOn, TakesUp, RecordingPCs, Ending
  <2>3. Ending(rec, cache[rec.claim])'
    BY <2>0, <2>2 DEF Ending, BornKept, Born
  <2> QED  BY <2>1, <2>3
<1> QED  BY <1>1, <1>2 DEF HandlerFacts

\* What every step does.
Advance == AgeFacts' /\ OwnerFacts' /\ HandlerFacts' /\ LedgerStep

(* A step that writes no claim. An instance may end in it.                   *)
LEMMA ReadAdvance ==
    ASSUME IInv, IInv', LedgerInv, api' = api, cache' = cache,
           \A d \in Claims : "dis" \in upToDate'[d] => "dis" \in upToDate[d],
           owner' = owner,
           \/ inst' = inst /\ (GoesOn \/ TakesUp)
           \/ \E i \in Instances, x \in {"dead", "gone"} :
                 /\ Born(i) /\ inst' = [inst EXCEPT ![i] = x] /\ GoesOn
                 /\ rec.pc \in RecordingPCs => rec' = rec,
           DisGoesOn
    PROVE  Advance
<1>t. TypeOK' /\ inst \in [Instances -> InstanceStates]
  BY DEF IInv, TypeOK
<1>1. BornKept
  BY <1>t DEF BornKept, Born
<1>2. AgeFacts' /\ OwnerFacts'
  BY <1>1, ReadAges DEF LedgerInv
<1>3. HandlerFacts'
  BY <1>1, HandlerAfter DEF LedgerInv
<1>4. NamesKept
  BY DEF NamesKept
<1>5. ASSUME NEW i \in Instances, NEW x \in {"dead", "gone"},
             Born(i), inst' = [inst EXCEPT ![i] = x], GoesOn,
             rec.pc \in RecordingPCs => rec' = rec
      PROVE  LedgerStep
  BY <1>t, <1>5, InstanceEnds DEF GoesOn, Born
<1>6. LedgerStep
  <2>1. CASE inst' = inst /\ (GoesOn \/ TakesUp)
    BY <1>t, <1>4, <2>1, NamesStay DEF GoesOn, TakesUp
  <2> QED  BY <1>5, <2>1
<1> QED  BY <1>2, <1>3, <1>6 DEF Advance

(* A step that writes the claim c and keeps its names: the claim lives on,   *)
(* or ends, or never was there.                                              *)
LEMMA WriteAdvance ==
    ASSUME IInv, IInv', LedgerInv, NEW c \in Claims, NEW r, NEW keep,
           api' = [api EXCEPT ![c] = r], cache' = cache,
           upToDate' = [upToDate EXCEPT ![c] = keep], Behind(cache[c], r),
           r.instanceID = api[c].instanceID, r.annotation = api[c].annotation,
           "dis" \in keep => r.phase = "Draining",
           inst' = inst, owner' = owner, GoesOn, DisGoesOn,
           r.phase \in {"Ready", "Draining"} =>
               \/ api[c].phase \in {"Ready", "Draining"}
               \/ rec'.pc \notin RecordingPCs,
           \/ Live(r) <=> Live(api[c])
           \/ Names(api[c]) = {}
           \/ /\ ~Live(r)
              /\ \/ rec.pc \notin RecordingPCs /\ rec'.pc \notin RecordingPCs
                 \/ /\ rec' = rec
                    /\ \/ rec.claim # c
                       \/ \A i \in Names(api[c]) : inst[i] # "up"
    PROVE  Advance
<1>t. TypeOK' /\ api \in [Claims -> Claim]
  BY DEF IInv, TypeOK
<1>a. /\ \A d \in Claims : d # c => api'[d] = api[d]
      /\ api'[c] = r
  BY <1>t
<1>1. BornKept
  BY DEF BornKept
<1>2. AgeFacts' /\ OwnerFacts'
  BY <1>1, WriteAges DEF LedgerInv, Names
<1>3. HandlerFacts'
  BY <1>1, <1>a, HandlerAfter DEF LedgerInv
<1>4. CASE (Live(r) <=> Live(api[c])) \/ Names(api[c]) = {}
  <2>1. Names(r) = Names(api[c])
    BY DEF Names
  <2>2. LiveNames(r) = LiveNames(api[c])
    BY <1>4, <2>1 DEF LiveNames
  <2>3. NamesKept
    BY <1>a, <2>2 DEF NamesKept
  <2>4. LedgerStep
    BY <1>t, <2>3, NamesStay DEF GoesOn
  <2> QED  BY <1>2, <1>3, <2>4 DEF Advance
<1>5. CASE /\ ~Live(r)
           /\ \/ rec.pc \notin RecordingPCs /\ rec'.pc \notin RecordingPCs
              \/ /\ rec' = rec
                 /\ \/ rec.claim # c
                    \/ \A i \in Names(api[c]) : inst[i] # "up"
  <2>1. LedgerStep
    BY <1>t, <1>5, NamesGo DEF LedgerInv
  <2> QED  BY <1>2, <1>3, <2>1 DEF Advance
<1> QED  BY <1>4, <1>5

-----------------------------------------------------------------------------
(* Every step advances: first the users, the watch and the providers.        *)
LEMMA EnvironmentAdvance ==
    ASSUME IInv, IInv', LedgerInv, Environment
    PROVE  Advance
<1> USE DEF claimVars, cloudVars, gcVars
<1>t. TypeOK /\ TypeOK' /\ ClaimsOK
  BY DEF IInv, TypeOK, ClaimsOK
<1>i. ClaimFacts /\ RecFacts /\ AgeFacts /\ OwnerFacts /\ HandlerFacts
  BY DEF IInv, LedgerInv
<1>1. ASSUME NEW c \in Claims, CreateClaim(c)
      PROVE  Advance
  <2>0. PICK f \in BOOLEAN, p \in BOOLEAN :
          api' = [api EXCEPT ![c].phase = "New", ![c].finalizer = f,
                             ![c].provider = p]
    BY <1>1 DEF CreateClaim
  <2> DEFINE r == [api[c] EXCEPT !.phase = "New", !.finalizer = f,
                                 !.provider = p]
  <2>1. api' = [api EXCEPT ![c] = r] /\ api[c] \in Claim
    BY <2>0, <1>t DEF ClaimsOK, Claim
  <2>2. /\ r.phase = "New" /\ r.instanceID = api[c].instanceID
        /\ r.annotation = api[c].annotation /\ r.deleting = api[c].deleting
    BY <2>1 DEF Claim
  <2>3. /\ Sound(api[c]) /\ CopyOf(cache[c], api[c])
        /\ Behind(cache[c], api[c]) /\ api[c].phase = "Unborn"
    BY <1>1, <1>i DEF CreateClaim, ClaimFacts, AgeFacts
  <2>4. /\ upToDate' = [upToDate EXCEPT ![c] = {}] /\ cache' = cache
        /\ rec' = rec /\ dis' = dis /\ inst' = inst /\ owner' = owner
    BY <1>1 DEF CreateClaim
  <2> HIDE DEF r
  <2>5. Behind(cache[c], r) /\ Names(api[c]) = {}
    BY <2>2, <2>3 DEF Sound, CopyOf, Behind, Names, Early
  <2> QED  BY <2>1, <2>2, <2>4, <2>5, WriteAdvance DEF GoesOn, DisGoesOn
<1>2. ASSUME NEW c \in Claims, DeleteClaim(c)
      PROVE  Advance
  <2> DEFINE p == IF api[c].finalizer THEN api[c].phase ELSE "Removed"
             r == [api[c] EXCEPT !.deleting = TRUE, !.phase = p]
  <2>1. api' = [api EXCEPT ![c] = r] /\ api[c] \in Claim
    BY <1>2, <1>t DEF DeleteClaim, ClaimsOK, Claim
  <2>2. /\ r.phase = p /\ r.instanceID = api[c].instanceID
        /\ r.annotation = api[c].annotation /\ r.deleting = TRUE
    BY <2>1 DEF Claim
  <2>3. /\ Sound(api[c]) /\ CopyOf(cache[c], api[c])
        /\ Behind(cache[c], api[c])
        /\ OnServer(api[c]) /\ ~api[c].deleting
    BY <1>2, <1>i DEF DeleteClaim, ClaimFacts, AgeFacts
  <2>4. /\ upToDate' = [upToDate EXCEPT ![c] = {}] /\ cache' = cache
        /\ rec' = rec /\ dis' = dis /\ inst' = inst /\ owner' = owner
    BY <1>2 DEF DeleteClaim
  <2>5. rec.pc \in RecordingPCs /\ rec.claim = c => api[c].finalizer
    BY <1>i, <2>3 DEF RecFacts, HandlerOf, RecordingPCs
  <2> HIDE DEF r
  <2>6. Behind(cache[c], r)
    BY <2>2, <2>3 DEF Sound, CopyOf, Behind, OnServer, Early
  <2>7. /\ r.phase \in {"Ready", "Draining"} => r.phase = api[c].phase
        /\ \/ Live(r) <=> Live(api[c])
           \/ ~Live(r) /\ ~api[c].finalizer
    BY <2>2 DEF Live, OnServer
  <2> QED  BY <2>1, <2>2, <2>4, <2>5, <2>6, <2>7, WriteAdvance
           DEF GoesOn, DisGoesOn
<1>3. ASSUME NEW c \in Claims, AgentUp(c) \/ AgentDown(c)
      PROVE  Advance
  BY <1>3, ReadAdvance DEF AgentUp, AgentDown, GoesOn, DisGoesOn
<1>4. ASSUME NEW c \in Claims, WatchDeliver(c)
      PROVE  Advance
  <2>1. /\ api' = api /\ rec' = rec /\ dis' = dis
        /\ inst' = inst /\ owner' = owner
        /\ cache' = [cache EXCEPT ![c] = api[c]]
        /\ upToDate' = [upToDate EXCEPT ![c] = upToDate[c] \cup {"cache"}]
    BY <1>4 DEF WatchDeliver
  <2>2. Behind(cache[c], api[c])
    BY <1>i DEF AgeFacts
  <2>3. \A d \in Claims :
          /\ cache'[d] = IF d = c THEN api[c] ELSE cache[d]
          /\ "dis" \in upToDate'[d] => "dis" \in upToDate[d]
    BY <1>t, <2>1 DEF ClaimsOK
  <2>4. AgeFacts'
    BY <1>i, <2>1, <2>2, <2>3 DEF AgeFacts, Behind
  <2>5. BornKept /\ OwnerFacts'
    BY <1>i, <2>1 DEF BornKept, OwnerFacts, Born
  <2>6. HandlerFacts'
    BY <1>i, <2>1, <2>2, <2>3, <2>5, HandlerAfter
    DEF GoesOn, DisGoesOn, Behind
  <2>7. LedgerStep
    BY <1>t, <2>1, NamesStay DEF NamesKept
  <2> QED  BY <2>4, <2>5, <2>6, <2>7 DEF Advance
<1>5. ASSUME NEW i \in Instances, Preempt(i)
      PROVE  Advance
  <2>1. \E x \in {"dead", "gone"} : inst' = [inst EXCEPT ![i] = x]
    BY <1>5 DEF Preempt
  <2>2. Born(i)
    BY <1>5 DEF Preempt, Existing, Born
  <2>3. /\ UNCHANGED <<api, cache, upToDate, owner, rec, dis>>
    BY <1>5 DEF Preempt
  <2> QED  BY <2>1, <2>2, <2>3, ReadAdvance DEF GoesOn, DisGoesOn
<1>6. ASSUME Crash
      PROVE  Advance
  <2>1. /\ api' = api /\ rec' = RecIdle /\ dis' = DisIdle
        /\ inst' = inst /\ owner' = owner /\ cache' = api
        /\ upToDate' = [c \in Claims |-> {"cache"}]
    BY <1>6 DEF Crash
  <2>2. AgeFacts'
    BY <1>i, <2>1 DEF AgeFacts, Behind
  <2>3. OwnerFacts'
    BY <1>i, <2>1 DEF OwnerFacts, Born
  <2>4. HandlerFacts'
    BY <2>1 DEF HandlerFacts, RecIdle, DisIdle
  <2>5. LedgerStep
    BY <1>t, <2>1, NamesStay DEF NamesKept, RecIdle, RecordingPCs
  <2> QED  BY <2>2, <2>3, <2>4, <2>5 DEF Advance
<1> QED
  BY <1>1, <1>2, <1>3, <1>4, <1>5, <1>6 DEF Environment

(* The phases the handlers write. Before Bootstrapping a claim is written by *)
(* whoever holds its latest version,                                         *)
LEMMA EarlyWrite ==
    ASSUME NEW k, NEW a \in Claim, NEW p \in {"New", "Pending", "Provisioning"},
           Behind(k, a), a.phase \in Early
    PROVE  LET r == [a EXCEPT !.phase = p] IN
             /\ Behind(k, r) /\ r.phase = p
             /\ r.instanceID = a.instanceID /\ r.annotation = a.annotation
<1> DEFINE r == [a EXCEPT !.phase = p]
<1>1. /\ r.phase = p /\ r.instanceID = a.instanceID
      /\ r.annotation = a.annotation /\ r.deleting = a.deleting
  BY DEF Claim
<1> HIDE DEF r
<1>2. Behind(k, r)
  BY <1>1 DEF Behind, Early
<1> QED  BY <1>1, <1>2 DEF r

\* ... later by those that read it at Bootstrapping or after.
LEMMA LateWrite ==
    ASSUME NEW k, NEW a \in Claim, Behind(k, a), k.phase \notin Early,
           NEW p \in {"Ready", "Draining", "Terminated"},
           a.instanceID # None
    PROVE  LET r == [a EXCEPT !.phase = p] IN
             /\ Behind(k, r) /\ r.phase = p
             /\ r.instanceID = a.instanceID /\ r.annotation = a.annotation
<1> DEFINE r == [a EXCEPT !.phase = p]
<1>1. /\ r.phase = p /\ r.instanceID = a.instanceID
      /\ r.annotation = a.annotation /\ r.deleting = a.deleting
  BY DEF Claim
<1> HIDE DEF r
<1>2. Behind(k, r)
  BY <1>1 DEF Behind, Early
<1> QED  BY <1>1, <1>2 DEF r

(* A handler that begins.                                                    *)
LEMMA HandleAdvance ==
    ASSUME IInv, IInv', LedgerInv, NEW c \in Claims,
           Handle(c) \/ BootstrapTimedOut(c)
    PROVE  Advance
<1> USE DEF claimVars, cloudVars, gcVars, RecUnchanged
<1>t. /\ TypeOK /\ TypeOK' /\ ClaimsOK
      /\ api[c] \in Claim /\ cache[c] \in Claim
  BY DEF IInv, TypeOK, ClaimsOK
<1>i. ClaimFacts /\ RecFacts /\ AgeFacts /\ OwnerFacts /\ HandlerFacts
  BY DEF IInv, LedgerInv
<1>c. Sound(api[c]) /\ Behind(cache[c], api[c])
  BY <1>i DEF ClaimFacts, AgeFacts
<1>u. "cache" \in upToDate[c] => cache[c] = api[c]
  BY <1>i DEF ClaimFacts, HoldersOf
\* The instance a copy of the claim names was bought.
<1>b. ASSUME cache[c].instanceID # None PROVE Born(cache[c].instanceID)
  BY <1>b, <1>c, <1>i DEF Behind, OwnerFacts, Names
\* A write on the latest version, by a handler with nothing to record.
<1>w. ASSUME NEW by, NEW keep \in SUBSET {"rec"}, NEW r,
             UpdateOK(by, c, r, keep),
             Behind(cache[c], r), r.instanceID = api[c].instanceID,
             r.annotation = api[c].annotation,
             Live(r) => Live(api[c]),
             rec.pc \notin RecordingPCs, rec'.pc \notin RecordingPCs,
             Ending(rec', cache[rec'.claim]), UNCHANGED <<inst, owner, dis>>
      PROVE  Advance
  <2>1. /\ api' = [api EXCEPT ![c] = r] /\ cache' = cache
        /\ upToDate' = [upToDate EXCEPT ![c] = keep] /\ "dis" \notin keep
    BY <1>w DEF UpdateOK
  <2> QED  BY <1>w, <2>1, WriteAdvance DEF GoesOn, DisGoesOn
\* A step that writes nothing.
<1>r. ASSUME api' = api, cache' = cache, UNCHANGED <<inst, owner, dis>>,
             Refetch("rec", c) \/ UpdateErr("cache", c) \/ UpdateErr("rec", c)
               \/ upToDate' = upToDate,
             rec.pc \notin RecordingPCs,
             \/ rec'.pc \notin RecordingPCs /\ Ending(rec', cache[rec'.claim])
             \/ TakesUp
      PROVE  Advance
  <2>1. ASSUME NEW d \in Claims, "dis" \in upToDate'[d]
        PROVE  "dis" \in upToDate[d]
    BY <1>t, <1>r, <2>1 DEF Refetch, UpdateErr, ClaimsOK
  <2> QED  BY <1>r, <2>1, ReadAdvance DEF GoesOn, DisGoesOn
<1>1. CASE AddFinalizer(c)
  <2> DEFINE r == [api[c] EXCEPT !.finalizer = TRUE]
  <2>1. /\ r.phase = api[c].phase /\ r.deleting = api[c].deleting
        /\ r.instanceID = api[c].instanceID
        /\ r.annotation = api[c].annotation
    BY <1>t DEF Claim
  <2>2. /\ UpdateOK("cache", c, r, {"rec"}) /\ rec.pc = "idle"
        /\ rec'.pc = "admit" /\ UNCHANGED <<inst, owner, dis>>
    BY <1>1 DEF AddFinalizer, Reconciling, Goto
  <2> HIDE DEF r
  <2>3. Behind(cache[c], r) /\ (Live(r) => Live(api[c]))
    BY <1>c, <2>1 DEF Behind, Live, OnServer
  <2> QED  BY <1>w, <2>1, <2>2, <2>3 DEF RecordingPCs, Ending
<1>2. CASE SetPending(c)
  <2>1. /\ rec.pc \notin RecordingPCs /\ rec'.pc = "idle"
        /\ UNCHANGED <<inst, owner, dis>>
    BY <1>2 DEF SetPending, Reconciling, RecordingPCs, RecIdle
  <2>2. rec'.pc \notin RecordingPCs /\ Ending(rec', cache[rec'.claim])
    BY <2>1 DEF RecordingPCs, Ending
  <2>3. ASSUME NEW by, UpdateOK(by, c, [api[c] EXCEPT !.phase = "Pending"], {}),
               api[c].phase = "New"
        PROVE  Advance
    <3> DEFINE r == [api[c] EXCEPT !.phase = "Pending"]
    <3>1. /\ Behind(cache[c], r) /\ r.phase = "Pending"
          /\ r.instanceID = api[c].instanceID
          /\ r.annotation = api[c].annotation
      BY <1>t, <1>c, <2>3, EarlyWrite DEF Early
    <3>2. Live(api[c])
      BY <2>3 DEF Live, OnServer
    <3> HIDE DEF r
    <3>3. UpdateOK(by, c, r, {})
      BY <2>3 DEF r
    <3> QED  BY <1>w, <2>1, <2>2, <3>1, <3>2, <3>3
  <2>4. CASE UpdateErr("rec", c)
    BY <1>r, <2>1, <2>2, <2>4 DEF UpdateErr
  <2>5. CASE rec.pc = "admit" /\ rec.claim = c
             /\ UpdateOK("rec", c, [api[c] EXCEPT !.phase = "Pending"], {})
    BY <1>i, <2>3, <2>5 DEF UpdateOK, RecFacts, HandlerOf
  <2>6. CASE Reconciling(c, "New")
             /\ UpdateOK("cache", c, [api[c] EXCEPT !.phase = "Pending"], {})
    BY <1>u, <2>3, <2>6 DEF UpdateOK, Reconciling
  <2> QED  BY <1>2, <2>4, <2>5, <2>6 DEF SetPending
<1>3. CASE ReuseInstance(c)
  <2> DEFINE i == cache[c].annotation
  <2>1. /\ rec.pc = "idle" /\ cache[c].phase = "Pending" /\ i # None
        /\ ~cache[c].deleting
        /\ rec'.pc = "patched" /\ rec'.claim = c /\ rec'.id = i
        /\ UNCHANGED <<api, cache, upToDate, inst, owner, dis>>
    BY <1>3 DEF ReuseInstance, Reconciling, Goto
  <2>2. CopyOf(cache[c], api[c])
    BY <1>i DEF ClaimFacts
  <2>3. i = api[c].annotation /\ OnServer(api[c])
    BY <1>c, <2>1, <2>2 DEF CopyOf, Behind, Early, OnServer
  <2>4. Born(i) /\ owner[i] = c
    BY <1>i, <2>1, <2>3 DEF OwnerFacts, Names
  <2>5. /\ api[c].instanceID \in {None, i}
        /\ api[c].phase \in Early \cup {"Bootstrapping"}
    BY <1>c, <2>1, <2>3 DEF Sound, Behind, Early, OnServer
  <2>6. Held(i)
    BY <2>3, <2>5 DEF Held, Live, Early
  <2>7. TakesUp
    BY <2>1, <2>4, <2>5, <2>6 DEF TakesUp, Recording, RecordingPCs, Early
  <2> QED  BY <1>r, <2>1, <2>7 DEF RecordingPCs
<1>4. CASE StartProvisioning(c)
  <2> DEFINE r == [api[c] EXCEPT !.phase = "Provisioning"]
  <2>1. /\ UpdateOK("cache", c, r, {"rec"}) /\ rec.pc = "idle"
        /\ rec'.pc = "provision" /\ UNCHANGED <<inst, owner, dis>>
        /\ cache[c].phase = "Pending"
    BY <1>4 DEF StartProvisioning, Reconciling, Goto
  <2>2. api[c].phase = "Pending"
    BY <1>u, <2>1 DEF UpdateOK
  <2>3. /\ Behind(cache[c], r) /\ r.instanceID = api[c].instanceID
        /\ r.annotation = api[c].annotation /\ Live(api[c])
    BY <1>t, <1>c, <2>2, EarlyWrite DEF Early, Live, OnServer
  <2> HIDE DEF r
  <2> QED  BY <1>w, <2>1, <2>3 DEF RecordingPCs, Ending
<1>5. CASE HandleProvisioning(c)
  <2> DEFINE r == [api[c] EXCEPT !.phase = "Pending"]
  <2>1. /\ rec.pc = "idle" /\ cache[c].phase = "Provisioning"
        /\ "cache" \in upToDate[c]
        /\ rec'.pc = "idle" /\ UNCHANGED <<inst, owner, dis>>
    BY <1>5 DEF HandleProvisioning, Reconciling, UpdateOK, RecIdle
  <2>2. api[c].phase = "Provisioning" /\ api[c].instanceID = None
    BY <1>c, <1>u, <2>1 DEF Sound
  <2>3. UpdateOK("cache", c, r, {})
    BY <1>5, <2>2 DEF HandleProvisioning
  <2>4. /\ Behind(cache[c], r) /\ r.instanceID = api[c].instanceID
        /\ r.annotation = api[c].annotation /\ Live(api[c])
    BY <1>t, <1>c, <2>2, EarlyWrite DEF Early, Live, OnServer
  <2> HIDE DEF r
  <2> QED  BY <1>w, <2>1, <2>3, <2>4 DEF RecordingPCs, Ending
\* The writes of the handlers of a claim with an instance.
<1>p. ASSUME NEW p \in {"Ready", "Terminated"},
             UpdateOK("cache", c, [api[c] EXCEPT !.phase = p], {}),
             cache[c].phase \in {"Bootstrapping", "Ready"},
             rec.pc = "idle", rec'.pc \notin RecordingPCs,
             Ending(rec', cache[rec'.claim]), UNCHANGED <<inst, owner, dis>>
      PROVE  Advance
  <2> DEFINE r == [api[c] EXCEPT !.phase = p]
  <2>1. cache[c] = api[c]
    BY <1>u, <1>p DEF UpdateOK
  <2>2. api[c].instanceID # None /\ Live(api[c])
    BY <1>c, <1>p, <2>1 DEF Sound, Live, OnServer
  <2>3. /\ Behind(cache[c], r) /\ r.instanceID = api[c].instanceID
        /\ r.annotation = api[c].annotation
    <3>1. cache[c].phase \notin Early /\ p \in {"Ready", "Draining", "Terminated"}
      BY <1>p DEF Early
    <3>2. /\ api[c] \in Claim /\ Behind(cache[c], api[c])
          /\ api[c].instanceID # None
      BY <1>t, <1>c, <2>2
    <3> QED  BY <3>1, <3>2, LateWrite
  <2>4. UpdateOK("cache", c, r, {})
    BY <1>p
  <2> HIDE DEF r
  <2> QED  BY <1>w, <1>p, <2>2, <2>3, <2>4 DEF RecordingPCs
<1>6. CASE BootstrapGone(c)
  BY <1>6, <1>p
  DEF BootstrapGone, Reconciling, Goto, Terminate, Ending, RecordingPCs
<1>7. CASE BecomeReady(c)
  BY <1>7, <1>p DEF BecomeReady, Reconciling, Goto, Ending, RecordingPCs
<1>8. CASE ReadyGone(c)
  <2>1. /\ cache[c].phase = "Ready" /\ rec.pc = "idle"
        /\ rec'.pc \notin RecordingPCs /\ Ending(rec', cache[rec'.claim])
        /\ UNCHANGED <<inst, owner, dis>>
    BY <1>8 DEF ReadyGone, Reconciling, Goto, Ending, RecordingPCs
  <2>2. CASE UpdateOK("cache", c, Terminate(api[c]), {})
    BY <1>p, <2>1, <2>2 DEF Terminate
  <2>3. CASE UpdateErr("cache", c)
    BY <1>r, <2>1, <2>3 DEF UpdateErr, RecordingPCs
  <2> QED  BY <1>8, <2>2, <2>3 DEF ReadyGone
<1>9. CASE BootstrapTimedOut(c)
  <2>1. /\ cache[c].phase = "Bootstrapping" /\ rec.pc = "idle"
        /\ cache[c].instanceID # None
        /\ rec' = [pc |-> "destroy", path |-> "timedOut", claim |-> c,
                   id |-> cache[c].instanceID]
        /\ UNCHANGED <<inst, owner, dis>>
    BY <1>9 DEF BootstrapTimedOut, Reconciling, Goto, InstanceIs
  <2>2. rec'.pc \notin RecordingPCs /\ Ending(rec', cache[rec'.claim])
    BY <1>b, <2>1 DEF Ending, RecordingPCs
  <2>3. CASE UpdateOK("cache", c, Terminate(api[c]), {})
    BY <1>p, <2>1, <2>2, <2>3 DEF Terminate
  <2>4. CASE UpdateErr("cache", c)
    BY <1>r, <2>1, <2>2, <2>4 DEF UpdateErr, RecordingPCs
  <2> QED  BY <1>9, <2>3, <2>4 DEF BootstrapTimedOut
\* The handlers that begin with the provider.
<1>d. ASSUME NEW pc \in {"destroy", "cleanup"}, NEW path, Refetch("rec", c),
             rec' = [pc |-> pc, path |-> path, claim |-> c,
                     id |-> cache[c].instanceID],
             pc = "destroy" => cache[c].instanceID # None,
             path \in {"bootFailed", "readyLost", "draining"} =>
                 cache[c].phase \notin Early,
             path = "deleting" => cache[c].deleting,
             rec.pc = "idle", UNCHANGED <<api, cache, inst, owner, dis>>
      PROVE  Advance
  <2>1. rec'.pc \notin RecordingPCs /\ Ending(rec', cache[rec'.claim])
    BY <1>b, <1>d DEF Ending, RecordingPCs
  <2> QED  BY <1>r, <1>d, <2>1 DEF RecordingPCs
<1>10. CASE BootstrapFailed(c) \/ ReadyLost(c)
  BY <1>10, <1>d
  DEF BootstrapFailed, ReadyLost, Reconciling, InstanceIs, Goto, Early
<1>11. CASE ResumeDraining(c)
  BY <1>11, <1>d DEF ResumeDraining, Reconciling, Goto, Early
<1>12. CASE HandleDeletion(c)
  BY <1>12, <1>d DEF HandleDeletion, Goto
<1> QED
  BY <1>1, <1>2, <1>3, <1>4, <1>5, <1>6, <1>7, <1>8, <1>9, <1>10, <1>11,
     <1>12
  DEF Handle

(* The handler in progress. First its purchase, which moves an instance out  *)
(* of "unborn",                                                              *)
LEMMA CreateAdvance ==
    ASSUME IInv, IInv', LedgerInv, NEW i \in Instances, CreateInstance(i)
    PROVE  Advance
<1> DEFINE c == rec.claim
<1>t. TypeOK /\ TypeOK'
  BY DEF IInv
<1>1. /\ rec.pc = "provision" /\ inst[i] = "unborn"
      /\ inst' = [inst EXCEPT ![i] = "up"] /\ owner' = [owner EXCEPT ![i] = c]
      /\ rec' = [pc |-> "created", path |-> "none", claim |-> c, id |-> i]
      /\ UNCHANGED <<api, cache, upToDate, dis>>
  BY DEF CreateInstance, Goto, RecUnchanged, claimVars
<1>2. /\ c \in Claims /\ Sound(api[c])
      /\ api[c].instanceID = None /\ api[c].annotation = None
  BY <1>1 DEF IInv, RecFacts, HandlerOf, ClaimFacts
<1>3. /\ inst'[i] = "up" /\ owner'[i] = c
      /\ \A j \in Instances : j # i => /\ inst'[j] = inst[j]
                                      /\ owner'[j] = owner[j]
  BY <1>t, <1>1 DEF TypeOK
<1>4. BornKept
  BY <1>1, <1>3 DEF BornKept
<1>5. AgeFacts' /\ OwnerFacts'
  BY <1>1, <1>4, ReadAges DEF LedgerInv
<1>6. HandlerFacts'
  <2>1. (dis.pc = "destroy" => Born(dis.id))'
    BY <1>1, <1>4 DEF LedgerInv, HandlerFacts, BornKept, Born
  <2>2. api[c].phase \notin {"Ready", "Draining"}
    BY <1>2 DEF Sound
  <2>3. Recording(rec, api[rec.claim])'
    BY <1>1, <1>2, <1>3, <2>2 DEF Recording, Born
  <2>4. Ending(rec, cache[rec.claim])'
    BY <1>1 DEF Ending
  <2> QED  BY <2>1, <2>3, <2>4 DEF HandlerFacts
<1>7. \A j \in Instances : /\ Held(j)' <=> Held(j)
                           /\ ~BeingRecorded(j)
                           /\ BeingRecorded(j)' <=> j = i
  BY <1>1 DEF Held, BeingRecorded, RecordingPCs
<1>8. \A j \in Instances : Held(j) => Born(j) /\ owner[j] # c
  <2> SUFFICES ASSUME NEW j \in Instances, NEW d \in Claims,
                      api[d].instanceID = j \/ api[d].annotation = j
               PROVE  Born(j) /\ owner[j] # c
    BY DEF Held
  <2>1. Born(j) /\ owner[j] = d
    BY NamedOwned DEF LedgerInv
  <2>2. d # c
    BY <1>2, ConstantsAssumption
  <2> QED  BY <2>1, <2>2
<1>9. ledgerState[i] = "unborn" /\ ledgerState'[i] = "buying"
  BY <1>t, <1>1, <1>3, <1>7, <1>8, StateNow, StateNext DEF Born
<1>10. \A j \in Instances : j # i => ledgerState'[j] = ledgerState[j]
  BY <1>t, <1>3, <1>7, StateNow, StateNext
<1>11. ~Ledger!Busy(c)
  <2> SUFFICES ASSUME NEW j \in Instances, owner[j] = c,
                      ledgerState[j] \in {"buying", "held"}
               PROVE  FALSE
    BY DEF Ledger!Busy
  <2> QED  BY <1>t, <1>7, <1>8, StateNow
<1>12. ledgerState' = [ledgerState EXCEPT ![i] = "buying"]
  <2>1. /\ ledgerState = [j \in Instances |-> ledgerState[j]]
        /\ ledgerState' = [j \in Instances |-> ledgerState'[j]]
    BY DEF ledgerState
  <2> QED  BY <1>9, <1>10, <2>1
<1>13. Ledger!Buy(i, c)
  BY <1>1, <1>9, <1>11, <1>12 DEF Ledger!Buy
<1>14. LedgerStep
  BY <1>2, <1>9, <1>13 DEF LedgerStep, Ledger!Next
<1> QED  BY <1>5, <1>6, <1>14 DEF Advance

(* ... then the two writes that make a claim hold it.                        *)
LEMMA RecordAdvance ==
    ASSUME IInv, IInv', LedgerInv, NEW c \in Claims, NEW i \in Instances, NEW r,
           rec.pc \in RecordingPCs, rec.claim = c, rec.id = i,
           api' = [api EXCEPT ![c] = r], cache' = cache,
           upToDate' = [upToDate EXCEPT ![c] = {}],
           UNCHANGED <<inst, owner, dis>>,
           Behind(cache[c], r), Live(r), Names(r) = {i},
           r.phase \notin {"Ready", "Draining"}, r.instanceID \in {None, i},
           Names(api[c]) \subseteq {i},
           \/ rec'.pc = "idle"
           \/ /\ rec'.pc \in RecordingPCs
              /\ rec'.claim = rec.claim /\ rec'.id = rec.id
    PROVE  Advance
<1>t. TypeOK /\ TypeOK' /\ api \in [Claims -> Claim]
  BY DEF IInv, TypeOK
<1>b. Born(i) /\ owner[i] = c
  BY DEF LedgerInv, HandlerFacts, Recording, RecordingPCs
<1>a. /\ \A d \in Claims : d # c => /\ api'[d] = api[d]
                                   /\ upToDate'[d] = upToDate[d]
      /\ api'[c] = r /\ upToDate'[c] = {}
  BY <1>t DEF TypeOK
<1>1. AgeFacts' /\ OwnerFacts'
  <2>1. AgeFacts'
    BY <1>a DEF LedgerInv, AgeFacts
  <2>2. OwnerFacts'
    BY <1>a, <1>b DEF LedgerInv, OwnerFacts, Born
  <2> QED  BY <2>1, <2>2
<1>2. HandlerFacts'
  <2>1. (dis.pc = "destroy" => Born(dis.id))'
    BY DEF LedgerInv, HandlerFacts, Born
  <2>2. ASSUME rec'.pc # "idle"
        PROVE  Recording(rec, api[rec.claim])' /\ Ending(rec, cache[rec.claim])'
    <3>1. /\ rec'.pc \in RecordingPCs /\ rec'.claim = c /\ rec'.id = i
          /\ api'[rec'.claim] = r
      BY <1>a, <2>2
    <3>2. Recording(rec, api[rec.claim])'
      BY <1>b, <3>1 DEF Recording, Born
    <3>3. Ending(rec, cache[rec.claim])'
      BY <3>1 DEF Ending, RecordingPCs
    <3> QED  BY <3>2, <3>3
  <2> QED  BY <2>1, <2>2 DEF HandlerFacts
<1>3. \A j \in Instances :
        /\ Held(j) <=> \E d \in Claims : j \in LiveNames(api[d])
        /\ Held(j)' <=> \E d \in Claims : j \in LiveNames(api'[d])
  BY ConstantsAssumption DEF Held, LiveNames, Names
<1>4. LiveNames(r) = {i} /\ LiveNames(api[c]) \subseteq {i}
  BY DEF LiveNames
<1>5. Held(i)' /\ \A j \in Instances : j # i => (Held(j)' <=> Held(j))
  BY <1>a, <1>3, <1>4
<1>6. BeingRecorded(i) /\ \A j \in Instances : j # i => /\ ~BeingRecorded(j)
                                                       /\ ~BeingRecorded(j)'
  BY DEF BeingRecorded, RecordingPCs
<1>7. \A j \in Instances : j # i => ledgerState'[j] = ledgerState[j]
  BY <1>t, <1>5, <1>6, StateNow, StateNext
<1>8. \/ ledgerState'[i] = ledgerState[i]
      \/ ledgerState[i] = "buying" /\ ledgerState'[i] = "held"
  BY <1>t, <1>5, <1>6, StateNow, StateNext
<1>9. LedgerStep
  BY <1>7, <1>8, OneMoves
<1> QED  BY <1>1, <1>2, <1>9 DEF Advance

LEMMA ContinueHandlerAdvance ==
    ASSUME IInv, IInv', LedgerInv, ContinueHandler
    PROVE  Advance
<1> DEFINE c == rec.claim
<1> USE DEF claimVars, cloudVars, gcVars, RecUnchanged
<1>t. TypeOK /\ TypeOK' /\ ClaimsOK
  BY DEF IInv, TypeOK, ClaimsOK
<1>h. /\ rec.pc # "idle"
      /\ c \in Claims /\ HandlerOf(rec, api[c], upToDate[c])
      /\ Sound(api[c]) /\ Behind(cache[c], api[c])
      /\ CopyOf(cache[c], api[c]) /\ HoldersOf(upToDate[c], cache[c], api[c])
      /\ Recording(rec, api[c]) /\ Ending(rec, cache[c])
      /\ api[c] \in Claim
  <2>1. rec.pc # "idle"
    BY DEF ContinueHandler, CreateInstance, LoseResponse, ProvisionFailed,
           PatchAnnotation, RefetchClaim, RefetchAgain, RecordInstance,
           SetWorker, RecDestroy, WriteTerminated, WriteLast,
           RemoveWorker
  <2>2. c \in Claims /\ HandlerOf(rec, api[c], upToDate[c])
    BY <2>1 DEF IInv, RecFacts
  <2> QED  BY <1>t, <2>1, <2>2
           DEF IInv, ClaimFacts, LedgerInv, AgeFacts, HandlerFacts, ClaimsOK
\* A write that keeps the names and the phase's side of the claim, or ends it.
<1>w. ASSUME NEW by, NEW r, UpdateOK(by, c, r, {}),
             Behind(cache[c], r), r.instanceID = api[c].instanceID,
             r.annotation = api[c].annotation,
             r.phase \notin {"Ready", "Draining"} \/ r.phase = api[c].phase,
             \/ Live(r) <=> Live(api[c])
             \/ ~Live(r) /\ {rec.pc, rec'.pc} \cap RecordingPCs = {},
             GoesOn, UNCHANGED <<inst, owner, dis>>
      PROVE  Advance
  <2>1. /\ api' = [api EXCEPT ![c] = r] /\ cache' = cache
        /\ upToDate' = [upToDate EXCEPT ![c] = {}] /\ "dis" \notin {}
    BY <1>w DEF UpdateOK
  <2> QED  BY <1>h, <1>w, <2>1, WriteAdvance DEF DisGoesOn
\* A step that writes nothing.
<1>r. ASSUME api' = api, cache' = cache, UNCHANGED <<inst, owner, dis>>, GoesOn,
             \/ upToDate' = upToDate \/ Refetch("rec", c)
             \/ \E by \in {"rec", "cache"} : UpdateErr(by, c)
      PROVE  Advance
  <2>1. ASSUME NEW d \in Claims, "dis" \in upToDate'[d]
        PROVE  "dis" \in upToDate[d]
    BY <1>t, <1>h, <1>r, <2>1 DEF Refetch, UpdateErr, ClaimsOK
  <2> QED  BY <1>r, <2>1, ReadAdvance DEF DisGoesOn
\* The handler ends.
<1>z. rec'.pc \in {"idle", "cleanup", "provision"} /\ rec'.path = "none" => GoesOn
  BY DEF GoesOn, Ending, RecordingPCs
\* An instance to record, and the claim that will name it.
<1>i. ASSUME rec.pc \in RecordingPCs
      PROVE  /\ rec.id \in Instances /\ rec.id # None
             /\ api[c].instanceID \in {None, rec.id}
             /\ api[c].phase \notin {"Ready", "Draining"}
  BY <1>h, <1>i, ConstantsAssumption DEF Recording, Born
<1>1. ASSUME NEW i \in Instances, CreateInstance(i)
      PROVE  Advance
  BY <1>1, CreateAdvance
<1>2. CASE LoseResponse
  BY <1>2, <1>r, <1>z DEF LoseResponse, Goto
<1>3. CASE ProvisionFailed
  <2>1. /\ rec.pc = "provision" /\ rec' = RecIdle
        /\ UNCHANGED <<inst, owner, dis>> /\ GoesOn
    BY <1>3, <1>z DEF ProvisionFailed, RecIdle
  <2>2. CASE UpdateOK("cache", c, [api[c] EXCEPT !.phase = "Pending"], {})
             /\ OnServer(cache[c])
    <3> DEFINE r == [api[c] EXCEPT !.phase = "Pending"]
    <3>1. OnServer(api[c]) /\ api[c].instanceID = None
      BY <1>h, <2>1, <2>2 DEF UpdateOK, HoldersOf, HandlerOf
    <3>2. api[c].phase \in {"New", "Pending", "Provisioning"}
      BY <1>h, <3>1 DEF Sound, Behind, OnServer, Claim, Phases, LivePhases
    <3>3. /\ Behind(cache[c], r) /\ r.phase = "Pending"
          /\ r.instanceID = api[c].instanceID
          /\ r.annotation = api[c].annotation
      BY <1>h, <3>2, EarlyWrite DEF Early
    <3>4. Live(r) /\ Live(api[c])
      BY <3>2, <3>3 DEF Live, OnServer
    <3> HIDE DEF r
    <3>5. UpdateOK("cache", c, r, {})
      BY <2>2 DEF r
    <3> QED  BY <1>w, <2>1, <3>3, <3>4, <3>5
  <2>3. CASE UpdateErr("cache", c)
    BY <1>r, <2>1, <2>3 DEF UpdateErr
  <2>4. CASE UNCHANGED claimVars
    BY <1>r, <2>1, <2>4
  <2> QED  BY <1>3, <2>2, <2>3, <2>4 DEF ProvisionFailed
<1>4. CASE PatchAnnotation
  <2>1. /\ rec.pc = "created" /\ rec'.pc = "patched"
        /\ rec'.claim = c /\ rec'.id = rec.id
        /\ UNCHANGED <<inst, owner, dis>>
    BY <1>4 DEF PatchAnnotation, Goto
  <2>2. rec.pc \in RecordingPCs /\ rec'.pc \in RecordingPCs /\ GoesOn
    BY <2>1 DEF RecordingPCs, GoesOn
  <2>3. CASE /\ OnServer(api[c])
             /\ api' = [api EXCEPT ![c].annotation = rec.id]
             /\ upToDate' = [upToDate EXCEPT ![c] = {}] /\ cache' = cache
    <3> DEFINE r == [api[c] EXCEPT !.annotation = rec.id]
    <3>1. /\ r.phase = api[c].phase /\ r.instanceID = api[c].instanceID
          /\ r.annotation = rec.id /\ r.deleting = api[c].deleting
      BY <1>h DEF Claim
    <3>2. api' = [api EXCEPT ![c] = r]
      BY <1>t, <1>h, <2>3 DEF ClaimsOK
    <3>3. api[c].instanceID = None /\ api[c].annotation = None
      BY <1>h, <2>1 DEF HandlerOf
    <3> HIDE DEF r
    <3>4. Behind(cache[c], r) /\ Live(r)
      BY <1>h, <2>3, <3>1, <3>3 DEF Behind, Live, OnServer
    <3>5. Names(r) = {rec.id} /\ Names(api[c]) = {}
      BY <1>i, <2>2, <3>1, <3>3 DEF Names
    <3> QED  BY <1>h, <1>i, <2>1, <2>2, <2>3, <3>1, <3>2, <3>3, <3>4, <3>5,
                RecordAdvance
  <2>4. CASE UNCHANGED claimVars
    BY <1>r, <2>1, <2>2, <2>4
  <2> QED  BY <1>4, <2>3, <2>4 DEF PatchAnnotation
<1>5. CASE RefetchClaim
  <2>1. rec.pc = "patched" /\ UNCHANGED <<inst, owner, dis>>
    BY <1>5 DEF RefetchClaim
  <2>2. rec' = RecIdle => GoesOn
    BY <1>z DEF RecIdle
  <2>3. \A pc \in {"record", "respec"} :
          Goto(pc, "none", c, rec.id) => GoesOn /\ rec'.pc \in RecordingPCs
    BY <2>1 DEF Goto, GoesOn, RecordingPCs
  <2>4. CASE UNCHANGED claimVars /\ rec' = RecIdle
    BY <1>r, <2>1, <2>2, <2>4
  <2>5. CASE Refetch("rec", c) /\ Goto("record", "none", c, rec.id)
             /\ UNCHANGED <<api, cache>>
    BY <1>r, <2>1, <2>3, <2>5
  <2>6. CASE UpdateOK("cache", c, [api[c] EXCEPT !.provider = TRUE], {})
             /\ Goto("respec", "none", c, rec.id)
    <3> DEFINE r == [api[c] EXCEPT !.provider = TRUE]
    <3>1. /\ r.phase = api[c].phase /\ r.instanceID = api[c].instanceID
          /\ r.annotation = api[c].annotation /\ r.deleting = api[c].deleting
      BY <1>h DEF Claim
    <3> HIDE DEF r
    <3>2. Behind(cache[c], r) /\ (Live(r) <=> Live(api[c]))
      BY <1>h, <3>1 DEF Behind, Live, OnServer
    <3>3. UpdateOK("cache", c, r, {})
      BY <2>6 DEF r
    <3> QED  BY <1>w, <2>1, <2>3, <2>6, <3>1, <3>2, <3>3
  <2>7. CASE UpdateErr("cache", c) /\ rec' = RecIdle
    BY <1>r, <2>1, <2>2, <2>7 DEF UpdateErr
  <2> QED  BY <1>5, <2>4, <2>5, <2>6, <2>7 DEF RefetchClaim
<1>6. CASE RefetchAgain
  <2>1. /\ rec.pc = "respec" /\ UNCHANGED <<api, cache, inst, owner, dis>>
        /\ \/ Refetch("rec", c) /\ Goto("record", "none", c, rec.id)
           \/ rec' = RecIdle /\ upToDate' = upToDate
    BY <1>6 DEF RefetchAgain
  <2>2. GoesOn
    BY <1>z, <2>1 DEF Goto, GoesOn, RecordingPCs, RecIdle
  <2> QED  BY <1>r, <2>1, <2>2
<1>7. CASE RecordInstance
  <2>1. /\ rec.pc = "record" /\ rec' = RecIdle /\ rec'.pc = "idle"
        /\ UNCHANGED <<inst, owner, dis>> /\ GoesOn
        /\ rec.pc \in RecordingPCs
    BY <1>7, <1>z DEF RecordInstance, RecIdle, RecordingPCs
  <2>2. CASE UpdateOK("rec", c, [api[c] EXCEPT !.phase = "Bootstrapping",
                                               !.instanceID = rec.id], {})
    <3> DEFINE r == [api[c] EXCEPT !.phase = "Bootstrapping",
                                   !.instanceID = rec.id]
    <3>1. /\ r.phase = "Bootstrapping" /\ r.instanceID = rec.id
          /\ r.annotation = api[c].annotation /\ r.deleting = api[c].deleting
      BY <1>h DEF Claim
    <3>2. /\ api' = [api EXCEPT ![c] = r] /\ cache' = cache
          /\ upToDate' = [upToDate EXCEPT ![c] = {}]
      BY <2>2 DEF UpdateOK
    <3>3. OnServer(api[c]) /\ api[c].annotation \in {None, rec.id}
      BY <1>h, <2>1, <2>2 DEF UpdateOK, HoldersOf, HandlerOf
    <3> HIDE DEF r
    <3>4. Behind(cache[c], r) /\ Live(r)
      BY <1>h, <1>i, <2>1, <3>1, <3>3 DEF Behind, Live, OnServer, Early
    <3>5. Names(r) = {rec.id} /\ Names(api[c]) \subseteq {rec.id}
      BY <1>i, <2>1, <3>1, <3>3 DEF Names
    <3> QED  BY <1>h, <1>i, <2>1, <3>1, <3>2, <3>4, <3>5, RecordAdvance
  <2>3. CASE UpdateErr("rec", c)
    BY <1>r, <2>1, <2>3 DEF UpdateErr
  <2> QED  BY <1>7, <2>2, <2>3 DEF RecordInstance
<1>8. CASE SetWorker \/ RemoveWorker
  <2>1. GoesOn
    BY <1>8, <1>h, <1>z
    DEF SetWorker, RemoveWorker, Goto, RecIdle, GoesOn, Ending, RecordingPCs
  <2> QED  BY <1>8, <1>r, <2>1 DEF SetWorker, RemoveWorker
<1>9. CASE RecDestroy
  <2>1. rec.pc = "destroy" /\ UNCHANGED <<api, cache, upToDate, owner, dis>>
    BY <1>9 DEF RecDestroy, DestroyOK, DestroyErr
  <2>2. Born(rec.id) /\ rec.id \in Instances
    BY <1>h, <2>1 DEF Ending, Born
  <2>3. GoesOn
    <3>1. CASE AfterDestroy
      BY <1>h, <2>1, <3>1 DEF AfterDestroy, Goto, GoesOn, Ending, RecordingPCs
    <3>2. CASE rec' = RecIdle
      BY <1>z, <3>2 DEF RecIdle
    <3> QED  BY <1>9, <3>1, <3>2 DEF RecDestroy
  <2>4. CASE inst' = [inst EXCEPT ![rec.id] = "gone"]
    BY <2>1, <2>2, <2>3, <2>4, ReadAdvance DEF DisGoesOn, RecordingPCs
  <2>5. CASE inst' = inst
    BY <1>r, <2>1, <2>3, <2>5
  <2> QED  BY <1>9, <2>4, <2>5 DEF RecDestroy, DestroyOK, DestroyErr
\* The end of a claim that the handler knew with its instance.
<1>e. ASSUME UpdateOK("rec", c, Terminate(api[c]), {}), rec.pc = "write",
             rec.path \in {"bootFailed", "readyLost", "draining"},
             rec'.pc \in {"idle", "cleanup"}, rec'.path = "none",
             UNCHANGED <<inst, owner, dis>>
      PROVE  Advance
  <2> DEFINE r == [api[c] EXCEPT !.phase = "Terminated"]
  <2>1. cache[c].phase \notin Early
    BY <1>h, <1>e DEF Ending
  <2>2. OnServer(api[c]) /\ api[c].phase \notin Early
    BY <1>h, <1>e, <2>1 DEF UpdateOK, HoldersOf, Behind
  <2>3. api[c].instanceID # None
    BY <1>h, <2>2 DEF Sound, Behind, OnServer, Early, Claim, Phases, LivePhases
  <2>4. /\ Behind(cache[c], r) /\ r.phase = "Terminated"
        /\ r.instanceID = api[c].instanceID
        /\ r.annotation = api[c].annotation
    BY <1>h, <2>1, <2>3, LateWrite
  <2>5. ~Live(r) /\ {rec.pc, rec'.pc} \cap RecordingPCs = {}
    BY <1>e, <2>4 DEF Live, RecordingPCs
  <2>6. UpdateOK("rec", c, r, {})
    BY <1>e DEF Terminate
  <2> HIDE DEF r
  <2> QED  BY <1>w, <1>z, <1>e, <2>4, <2>5, <2>6
<1>10. CASE WriteTerminated
  <2>1. /\ rec.pc = "write" /\ rec.path \in {"bootFailed", "readyLost"}
        /\ rec'.pc \in {"idle", "cleanup"} /\ rec'.path = "none"
        /\ UNCHANGED <<inst, owner, dis>>
    BY <1>10 DEF WriteTerminated, Goto, RecIdle
  <2>2. CASE UpdateOK("rec", c, Terminate(api[c]), {})
    BY <1>e, <2>1, <2>2
  <2>3. CASE UpdateErr("rec", c)
    BY <1>r, <1>z, <2>1, <2>3 DEF UpdateErr
  <2> QED  BY <1>10, <2>2, <2>3 DEF WriteTerminated
<1>11. CASE WriteLast
  <2>1. /\ rec.pc = "write" /\ rec'.pc = "idle" /\ rec'.path = "none"
        /\ UNCHANGED <<inst, owner, dis>>
    BY <1>11 DEF WriteLast, RecIdle
  <2>2. CASE rec.path = "draining" /\ UpdateOK("rec", c, Terminate(api[c]), {})
    BY <1>e, <2>1, <2>2
  <2>3. CASE rec.path = "deleting"
             /\ UpdateOK("rec", c, [api[c] EXCEPT !.finalizer = FALSE,
                                                  !.phase = "Removed"], {})
    <3> DEFINE r == [api[c] EXCEPT !.finalizer = FALSE, !.phase = "Removed"]
    <3>1. /\ r.phase = "Removed" /\ r.instanceID = api[c].instanceID
          /\ r.annotation = api[c].annotation /\ r.deleting = api[c].deleting
      BY <1>h DEF Claim
    <3> HIDE DEF r
    <3>2. cache[c].deleting
      BY <1>h, <2>1, <2>3 DEF Ending
    <3>3. Behind(cache[c], r)
      BY <1>h, <3>1, <3>2 DEF Behind, Early
    <3>4. ~Live(r) /\ {rec.pc, rec'.pc} \cap RecordingPCs = {}
      BY <2>1, <3>1 DEF Live, OnServer, RecordingPCs
    <3>5. UpdateOK("rec", c, r, {})
      BY <2>3 DEF r
    <3> QED  BY <1>w, <1>z, <2>1, <3>1, <3>3, <3>4, <3>5
  <2>4. CASE UpdateErr("rec", c)
    BY <1>r, <1>z, <2>1, <2>4 DEF UpdateErr
  <2> QED  BY <1>11, <2>2, <2>3, <2>4 DEF WriteLast
<1> QED
  BY <1>1, <1>2, <1>3, <1>4, <1>5, <1>6, <1>7, <1>8, <1>9, <1>10, <1>11
  DEF ContinueHandler

\* The disruption and the interruption controller.
LEMMA DisruptionAdvance ==
    ASSUME IInv, IInv', LedgerInv,
           DisruptionController \/ \E c \in Claims : Interrupt(c)
    PROVE  Advance
<1> USE DEF claimVars, cloudVars, gcVars, DisUnchanged
<1>t. TypeOK /\ TypeOK' /\ ClaimsOK
  BY DEF IInv, TypeOK, ClaimsOK
<1>g. rec' = rec /\ GoesOn
  BY DEF DisruptionController, ContinueDraining, TouchIdleSince, StartDraining,
         DisDestroy, DisWriteTerminated, DisRemoveWorker, Interrupt, GoesOn
\* A claim that one of them read and is about to write.
<1>c. ASSUME NEW c \in Claims
      PROVE  /\ api[c] \in Claim /\ Sound(api[c])
             /\ Behind(cache[c], api[c])
             /\ HoldersOf(upToDate[c], cache[c], api[c])
             /\ "dis" \in upToDate[c] => api[c].phase = "Draining"
             /\ rec.pc \in RecordingPCs /\ rec.claim = c =>
                  api[c].phase \notin {"Ready", "Draining"}
  BY <1>t DEF IInv, ClaimFacts, LedgerInv, AgeFacts, HandlerFacts, ClaimsOK,
              Recording, RecordingPCs
<1>1. ASSUME NEW c \in Claims, TouchIdleSince(c)
      PROVE  Advance
  <2>1. /\ api' = [api EXCEPT ![c] = api[c]] /\ cache' = cache
        /\ upToDate' = [upToDate EXCEPT ![c] = {}] /\ "dis" \notin {}
        /\ UNCHANGED <<inst, owner, dis>>
    BY <1>1 DEF TouchIdleSince, UpdateOK
  <2> QED  BY <1>c, <1>g, <2>1, WriteAdvance DEF DisGoesOn
<1>2. ASSUME NEW c \in Claims, StartDraining(c)
      PROVE  Advance
  <2> DEFINE r == [api[c] EXCEPT !.phase = "Draining"]
  <2>1. /\ api' = [api EXCEPT ![c] = r] /\ cache' = cache
        /\ upToDate' = [upToDate EXCEPT ![c] = {"dis"}]
        /\ UNCHANGED <<inst, owner>> /\ dis'.id = cache[c].instanceID
        /\ cache[c].phase = "Ready" /\ cache[c].instanceID # None
        /\ "cache" \in upToDate[c]
    BY <1>2 DEF StartDraining, UpdateOK, InstanceIs
  <2>2. cache[c] = api[c]
    BY <1>c, <2>1 DEF HoldersOf
  <2>3. /\ Behind(cache[c], r) /\ r.phase = "Draining"
        /\ r.instanceID = api[c].instanceID
        /\ r.annotation = api[c].annotation
    BY <1>c, <2>1, <2>2, LateWrite DEF Early
  <2>4. Born(dis'.id)
    BY <2>1, <2>2 DEF LedgerInv, OwnerFacts, Names
  <2>5. Live(api[c]) /\ Live(r)
    BY <2>1, <2>2, <2>3 DEF Live, OnServer
  <2> HIDE DEF r
  <2> QED  BY <1>g, <2>1, <2>2, <2>3, <2>4, <2>5, WriteAdvance
           DEF DisGoesOn
<1>3. CASE DisDestroy
  <2>1. /\ dis.pc = "destroy" /\ dis'.pc = "write"
        /\ UNCHANGED <<api, cache, upToDate, owner>>
    BY <1>3, <1>t DEF DisDestroy, DestroyOK, DestroyErr, TypeOK
  <2>2. Born(dis.id) /\ dis.id \in Instances
    BY <2>1 DEF LedgerInv, HandlerFacts, Born
  <2>3. inst' = inst \/ inst' = [inst EXCEPT ![dis.id] = "gone"]
    BY <1>3 DEF DisDestroy, DestroyOK, DestroyErr
  <2> QED  BY <1>g, <2>1, <2>2, <2>3, ReadAdvance DEF DisGoesOn
<1>4. CASE DisWriteTerminated
  <2> DEFINE c == dis.claim
  <2>1. /\ c \in Claims /\ dis'.pc # "destroy" /\ UNCHANGED <<inst, owner>>
    BY <1>4, <1>t DEF DisWriteTerminated, IInv, DisFacts, DisIdle, TypeOK
  <2>2. CASE UpdateOK("dis", c, Terminate(api[c]), {})
    <3> DEFINE r == [api[c] EXCEPT !.phase = "Terminated"]
    <3>1. /\ api' = [api EXCEPT ![c] = r] /\ cache' = cache
          /\ upToDate' = [upToDate EXCEPT ![c] = {}] /\ "dis" \notin {}
          /\ api[c].phase = "Draining"
      BY <1>c, <2>1, <2>2 DEF UpdateOK, Terminate
    <3>2. cache[c].phase \notin Early /\ api[c].instanceID # None
      BY <1>c, <2>1, <3>1 DEF Behind, Sound, Early
    <3>3. /\ Behind(cache[c], r) /\ r.phase = "Terminated"
          /\ r.instanceID = api[c].instanceID
          /\ r.annotation = api[c].annotation
      BY <1>c, <2>1, <3>2, LateWrite
    <3>4. ~Live(r) /\ (rec.pc \in RecordingPCs => rec.claim # c)
      BY <1>c, <2>1, <3>1, <3>3 DEF Live
    <3> HIDE DEF r
    <3> QED  BY <1>g, <2>1, <3>1, <3>3, <3>4, WriteAdvance DEF DisGoesOn
  <2>3. CASE /\ upToDate' = [upToDate EXCEPT ![c] = @ \ {"dis"}]
             /\ UNCHANGED <<api, cache>>
    <3>1. \A d \in Claims : "dis" \in upToDate'[d] => "dis" \in upToDate[d]
      BY <1>t, <2>1, <2>3 DEF ClaimsOK
    <3> QED  BY <1>g, <2>1, <2>3, <3>1, ReadAdvance DEF DisGoesOn
  <2> QED  BY <1>4, <2>2, <2>3 DEF DisWriteTerminated
<1>5. CASE DisRemoveWorker
  BY <1>5, <1>g, ReadAdvance DEF DisRemoveWorker, DisIdle, DisGoesOn
<1>6. ASSUME NEW c \in Claims, Interrupt(c)
      PROVE  Advance
  <2> DEFINE r == [api[c] EXCEPT !.phase = "Terminated"]
  <2>1. /\ api' = [api EXCEPT ![c] = r] /\ cache' = cache
        /\ upToDate' = [upToDate EXCEPT ![c] = {}] /\ "dis" \notin {}
        /\ UNCHANGED <<inst, owner, dis>>
        /\ cache[c].phase \in {"Ready", "Bootstrapping", "Provisioning"}
        /\ cache[c].instanceID # None /\ inst[cache[c].instanceID] = "dead"
        /\ "cache" \in upToDate[c]
    BY <1>6 DEF Interrupt, UpdateOK, InstanceIs, Terminate
  <2>2. cache[c] = api[c]
    BY <1>c, <2>1 DEF HoldersOf
  <2>3. cache[c].phase \notin Early
    BY <1>c, <2>1, <2>2 DEF Sound, Early
  <2>4. /\ Behind(cache[c], r) /\ r.phase = "Terminated"
        /\ r.instanceID = api[c].instanceID
        /\ r.annotation = api[c].annotation
    BY <1>c, <2>1, <2>2, <2>3, LateWrite
  <2>5. \A i \in Names(api[c]) : inst[i] # "up"
    BY <1>c, <2>1, <2>2 DEF Names, Sound
  <2>6. ~Live(r)
    BY <2>4 DEF Live
  <2> HIDE DEF r
  <2> QED  BY <1>g, <2>1, <2>4, <2>5, <2>6, WriteAdvance DEF DisGoesOn
<1> QED
  BY <1>1, <1>2, <1>3, <1>4, <1>5, <1>6
  DEF DisruptionController, ContinueDraining

\* The garbage collector ends instances, and those it lists were bought.
LEMMA InstanceGCAdvance ==
    ASSUME IInv, IInv', LedgerInv, InstanceGC
    PROVE  Advance
<1>1. UNCHANGED <<api, cache, upToDate, owner, rec, dis>>
  BY DEF InstanceGC, GCCollectKnown, GCListInstances, GCDestroy, GCFinish,
         GCUnchanged, DestroyOK, DestroyErr, claimVars, cloudVars
<1>2. \/ inst' = inst
      \/ \E i \in Instances : Born(i) /\ inst' = [inst EXCEPT ![i] = "gone"]
  <2>1. ASSUME NEW i \in Instances, GCDestroy(i)
        PROVE  \/ inst' = inst
               \/ Born(i) /\ inst' = [inst EXCEPT ![i] = "gone"]
    BY <2>1 DEF GCDestroy, DestroyOK, DestroyErr, cloudVars, LedgerInv, GCFacts
  <2> QED  BY <2>1 DEF InstanceGC, GCCollectKnown, GCListInstances, GCFinish,
                       cloudVars
<1> QED  BY <1>1, <1>2, ReadAdvance DEF GoesOn, DisGoesOn

-----------------------------------------------------------------------------
(* What the GC has on its lists.                                             *)

\* In the ledger an instance is bought for good, and lost for good.
LEMMA LedgerKeeps ==
    ASSUME LedgerStep, NEW i \in Instances
    PROVE  /\ ledgerState[i] # "unborn" => ledgerState'[i] # "unborn"
           /\ ledgerState[i] \in {"loose", "ended"} =>
                ledgerState'[i] \in {"loose", "ended"}
<1>1. ledgerState = [j \in Instances |-> ledgerState[j]]
  BY DEF ledgerState
<1>2. CASE UNCHANGED Ledger!vars
  BY <1>2 DEF Ledger!vars
<1>3. ASSUME NEW j \in Instances,
             \/ \E c \in Claims : Ledger!Buy(j, c)
             \/ Ledger!Hold(j) \/ Ledger!Drop(j) \/ Ledger!End(j)
      PROVE  /\ ledgerState[i] # "unborn" => ledgerState'[i] # "unborn"
             /\ ledgerState[i] \in {"loose", "ended"} =>
                  ledgerState'[i] \in {"loose", "ended"}
  <2>1. \/ ledgerState[j] = "unborn" /\ ledgerState'[j] = "buying"
        \/ ledgerState[j] = "buying" /\ ledgerState'[j] = "held"
        \/ ledgerState[j] \in {"buying", "held"} /\ ledgerState'[j] = "loose"
        \/ ledgerState'[j] = "ended"
    BY <1>1, <1>3 DEF Ledger!Buy, Ledger!Hold, Ledger!Drop, Ledger!End,
                      Ledger!Move
  <2>2. i # j => ledgerState'[i] = ledgerState[i]
    BY <1>1, <1>3 DEF Ledger!Buy, Ledger!Hold, Ledger!Drop, Ledger!End,
                      Ledger!Move
  <2> QED  BY <2>1, <2>2
<1> QED  BY <1>2, <1>3 DEF LedgerStep, Ledger!Next

\* Lists that do not grow keep what is known of them,
LEMMA ListsShrink ==
    ASSUME IInv, IInv', GCFacts, LedgerStep,
           (candidates \cup gc.doomed \cup gc.orphans)' \subseteq
               candidates \cup gc.doomed \cup gc.orphans,
           Doomable' \subseteq Doomable
    PROVE  GCFacts'
<1>t. TypeOK /\ TypeOK' /\ Doomable \subseteq Instances
  BY DEF IInv, TypeOK, Doomable
<1>1. ASSUME NEW i \in Instances, Born(i)  PROVE Born(i)'
  BY <1>t, <1>1, StateNow, StateNext, LedgerKeeps DEF Born
<1>2. ASSUME NEW i \in Instances, LedgerState(i) \in {"loose", "ended"}
      PROVE  LedgerState(i)' \in {"loose", "ended"}
  BY <1>t, <1>2, StateNow, StateNext, LedgerKeeps
<1> QED  BY <1>t, <1>1, <1>2 DEF GCFacts, Born

\* ... and the steps of the GC add what no claim names.
LEMMA InstanceGCLists ==
    ASSUME IInv, IInv', LedgerInv, InstanceGC, LedgerStep
    PROVE  GCFacts'
<1>t. TypeOK /\ TypeOK' /\ gc \in GCType /\ candidates \subseteq Instances
  BY DEF IInv, TypeOK, GCType
<1>i. GCFacts
  BY DEF LedgerInv
<1>1. CASE GCCollectKnown
  <2>1. /\ gc'.pc = "list" /\ gc'.known = NamedIn(cache)
        /\ gc'.doomed = {} /\ gc'.orphans = {} /\ candidates' = candidates
        /\ UNCHANGED <<inst, api, rec>>
    BY <1>1 DEF GCCollectKnown, GCIdle, GCUnchanged, cloudVars, claimVars
  <2>2. (\A i \in candidates \cup gc.doomed \cup gc.orphans : Born(i))'
    BY <1>i, <2>1 DEF GCFacts, Born
  <2>3. ASSUME WriterKeepsUp, NEW i \in Doomable'
        PROVE  LedgerState(i)' \in {"loose", "ended"}
    <3>1. i \in candidates /\ i \notin NamedIn(cache) /\ i \in Instances
      BY <1>t, <2>1, <2>3 DEF Doomable
    <3>2. ~BeingRecorded(i) /\ i \notin NamedIn(api)
      BY <1>1, <2>3, <3>1 DEF GCCollectKnown, GraceElapsed, BeingRecorded
    <3>3. ~Held(i)
      BY <3>1, <3>2, ConstantsAssumption DEF Held, NamedIn, Names
    <3>4. ~Held(i)' /\ ~BeingRecorded(i)' /\ inst'[i] # "unborn"
      BY <1>i, <2>1, <3>1, <3>2, <3>3 DEF Held, BeingRecorded, GCFacts, Born
    <3> QED  BY <1>t, <3>1, <3>4, StateNext
  <2> QED  BY <2>2, <2>3 DEF GCFacts
<1>2. CASE GCListInstances
  <2>1. PICK unknown \in SUBSET {i \in Listed : inst[i] \in Existing} :
          /\ unknown \cap gc.known = {} /\ gc.pc = "list"
          /\ gc'.pc = "sweep" /\ candidates' = candidates /\ inst' = inst
          /\ gc'.doomed \subseteq unknown \cap candidates
          /\ gc'.orphans \subseteq unknown
    <3> DEFINE unknown == {i \in Listed : inst[i] \in Existing} \ gc.known
    <3>1. /\ gc.pc = "list" /\ candidates' = candidates /\ inst' = inst
          /\ \/ gc' = [GCIdle EXCEPT !.pc = "sweep",
                                     !.doomed = unknown \cap candidates,
                                     !.orphans = unknown \ candidates]
             \/ gc' = [GCIdle EXCEPT !.pc = "sweep"]
      BY <1>2 DEF GCListInstances, cloudVars
    <3>2. /\ gc'.pc = "sweep" /\ gc'.doomed \subseteq unknown \cap candidates
          /\ gc'.orphans \subseteq unknown
      BY <3>1 DEF GCIdle
    <3> QED  BY <3>1, <3>2
  <2>2. \A i \in unknown : Born(i)
    BY <2>1, ConstantsAssumption DEF Born, Existing
  <2>3. (\A i \in candidates \cup gc.doomed \cup gc.orphans : Born(i))'
    BY <1>i, <2>1, <2>2 DEF GCFacts, Born
  <2>4. Doomable' \subseteq Doomable /\ Doomable \subseteq Instances
    BY <1>t, <2>1 DEF Doomable, GCType
  <2>5. ASSUME WriterKeepsUp, NEW i \in Doomable'
        PROVE  LedgerState(i)' \in {"loose", "ended"}
    BY <1>t, <1>i, <2>4, <2>5, StateNow, StateNext, LedgerKeeps DEF GCFacts
  <2> QED  BY <2>3, <2>5 DEF GCFacts
<1>3. ASSUME NEW i \in Instances, GCDestroy(i)
      PROVE  GCFacts'
  <2>1. /\ gc.pc = "sweep" /\ gc'.pc = "sweep" /\ i \in gc.doomed
        /\ gc'.doomed = gc.doomed \ {i} /\ candidates' = candidates
        /\ gc'.orphans \subseteq gc.orphans \cup {i}
    BY <1>t, <1>3 DEF GCDestroy, GCType
  <2>2. Doomable' \subseteq Doomable
    BY <2>1 DEF Doomable
  <2> QED  BY <1>i, <2>1, <2>2, ListsShrink
<1>4. CASE GCFinish
  <2>1. candidates' = gc.orphans /\ gc' = GCIdle
    BY <1>4 DEF GCFinish
  <2>2. Doomable' = {}
    BY <2>1 DEF Doomable, GCIdle
  <2> QED  BY <1>i, <2>1, <2>2, ListsShrink DEF GCIdle
<1> QED  BY <1>1, <1>2, <1>3, <1>4 DEF InstanceGC

-----------------------------------------------------------------------------
(* The results.                                                              *)

\* LedgerInv holds initially,
LEMMA LedgerInit == Init => LedgerInv /\ Ledger!Init
<1> SUFFICES ASSUME Init PROVE LedgerInv /\ Ledger!Init
  OBVIOUS
<1>t. TypeOK
  BY InitTyped
<1>1. \A c \in Claims :
        /\ api[c].phase = "Unborn" /\ api[c].instanceID = None
        /\ api[c].annotation = None /\ api[c].deleting = FALSE
        /\ cache[c] = api[c] /\ upToDate[c] = {"cache"}
  <2>1. api = [c \in Claims |->
                 [phase |-> "Unborn", instanceID |-> None,
                  annotation |-> None, deleting |-> FALSE,
                  finalizer |-> FALSE, provider |-> FALSE]]
    BY DEF Init
  <2>2. cache = api /\ upToDate = [c \in Claims |-> {"cache"}]
    BY DEF Init
  <2> QED  BY <2>1, <2>2
<1>2. AgeFacts /\ OwnerFacts
  BY <1>1 DEF AgeFacts, OwnerFacts, Behind, Names, Early
<1>3. HandlerFacts /\ GCFacts
  BY DEF Init, HandlerFacts, GCFacts, Doomable, RecIdle, DisIdle, GCIdle
<1>4. ledgerState = [i \in Instances |-> "unborn"]
  <2>1. \A i \in Instances : inst[i] = "unborn"
    BY DEF Init
  <2> QED  BY <1>t, <2>1, StateNow DEF ledgerState
<1> QED  BY <1>2, <1>3, <1>4 DEF LedgerInv, Ledger!Init, Init

\* and every step of any actor preserves it, and is one of the ledger or none.
LEMMA LedgerAdvance ==
    IInv /\ IInv' /\ LedgerInv /\ [Next]_vars => LedgerInv' /\ LedgerStep
<1> SUFFICES ASSUME IInv, IInv', LedgerInv, [Next]_vars
             PROVE  LedgerInv' /\ LedgerStep
  OBVIOUS
<1>g. GCFacts
  BY DEF LedgerInv
<1>1. CASE InstanceGC
  BY <1>1, InstanceGCAdvance, InstanceGCLists DEF Advance, LedgerInv
<1>2. ASSUME Advance, UNCHANGED gcVars \/ Crash
      PROVE  LedgerInv' /\ LedgerStep
  <2>1. /\ (candidates \cup gc.doomed \cup gc.orphans)' \subseteq
              candidates \cup gc.doomed \cup gc.orphans
        /\ Doomable' \subseteq Doomable
    BY <1>2 DEF gcVars, Crash, GCIdle, Doomable
  <2> QED  BY <1>2, <1>g, <2>1, ListsShrink DEF Advance, LedgerInv
<1>3. CASE Environment
  <2>1. UNCHANGED gcVars \/ Crash
    BY <1>3 DEF Environment, CreateClaim, DeleteClaim, AgentUp, AgentDown,
                WatchDeliver, Preempt
  <2> QED  BY <1>2, <1>3, <2>1, EnvironmentAdvance
<1>4. ASSUME NEW c \in Claims, Handle(c) \/ BootstrapTimedOut(c)
      PROVE  LedgerInv' /\ LedgerStep
  <2>1. UNCHANGED gcVars
    BY <1>4
    DEF Handle, AddFinalizer, SetPending, ReuseInstance, StartProvisioning,
        HandleProvisioning, BootstrapGone, BootstrapFailed, BecomeReady,
        ReadyGone, ReadyLost, ResumeDraining, HandleDeletion,
        BootstrapTimedOut, RecUnchanged
  <2> QED  BY <1>2, <1>4, <2>1, HandleAdvance
<1>5. CASE ContinueHandler
  <2>1. UNCHANGED gcVars
    BY <1>5
    DEF ContinueHandler, CreateInstance, LoseResponse, ProvisionFailed,
        PatchAnnotation, RefetchClaim, RefetchAgain, RecordInstance,
        SetWorker, RecDestroy, WriteTerminated, WriteLast,
        RemoveWorker, RecUnchanged
  <2> QED  BY <1>2, <1>5, <2>1, ContinueHandlerAdvance
<1>6. CASE DisruptionController \/ \E c \in Claims : Interrupt(c)
  <2>1. UNCHANGED gcVars
    BY <1>6
    DEF DisruptionController, ContinueDraining, TouchIdleSince, StartDraining,
        DisDestroy, DisWriteTerminated, DisRemoveWorker, Interrupt,
        DisUnchanged
  <2> QED  BY <1>2, <1>6, <2>1, DisruptionAdvance
<1>7. CASE UNCHANGED vars
  <2>1. UNCHANGED <<api, cache, upToDate, inst, owner, rec, dis, gcVars>>
    BY <1>7 DEF vars, gcVars
  <2>2. Advance
    BY <2>1, ReadAdvance DEF GoesOn, DisGoesOn
  <2> QED  BY <1>2, <2>1, <2>2
<1> QED
  BY <1>1, <1>3, <1>4, <1>5, <1>6, <1>7 DEF Next, ClaimReconciler

(* In every reachable state an instance is only named by the claim it was    *)
(* bought for, no copy of a claim is so old that its reader could take up an *)
(* instance that came loose, and the GC's lists have what no claim will name.*)
THEOREM LedgerInvariance == Spec => []LedgerInv
<1> QED  BY LedgerInit, LedgerAdvance, Invariance, PTL DEF Spec

(* The controllers, with the API server, the cache and the providers between *)
(* them, keep the ledger of the instances they pay for: a claim buys one     *)
(* instance at a time and none while it holds one, and an instance that came *)
(* loose, in a crash, a lost response, a lost update or a deletion, is never *)
(* taken up again (reconciler.go:217-442, instancegc.go:14-21).              *)
THEOREM ClaimsImplementLedger == Spec => ImplementsLedger
<1>1. Init => Ledger!Init
  BY LedgerInit
<1>2. IInv /\ IInv' /\ LedgerInv /\ [Next]_vars => [Ledger!Next]_Ledger!vars
  BY LedgerAdvance DEF LedgerStep
<1> QED
  BY <1>1, <1>2, Invariance, LedgerInvariance, PTL
  DEF Spec, ImplementsLedger, Ledger!Spec

(* InstanceGC dooms no running instance that a live claim names or that the  *)
(* reconciler is about to record, if the reconciler registers an instance    *)
(* within one GC interval (instancegc.go:17-21).                             *)
THEOREM ClaimedInstancesSpared ==
    ASSUME WriterKeepsUp PROVE Spec => []GCSparesClaimed
<1>1. IInv /\ LedgerInv => GCSparesClaimed
  <2> SUFFICES ASSUME IInv, LedgerInv, NEW i \in gc.doomed, inst[i] = "up"
               PROVE  i \notin NamedIn(api) /\ ~BeingRecorded(i)
    BY DEF GCSparesClaimed
  <2>1. i \in Instances /\ TypeOK
    BY DEF IInv, TypeOK
  <2>2. LedgerState(i) \in {"loose", "ended"}
    BY DEF LedgerInv, GCFacts, Doomable
  <2>3. ~Held(i) /\ ~BeingRecorded(i)
    BY <2>1, <2>2, StateNow
  <2>4. i \notin NamedIn(api)
    BY <2>3 DEF Held, NamedIn, Names
  <2> QED  BY <2>3, <2>4
<1> QED  BY <1>1, Invariance, LedgerInvariance, PTL
=============================================================================
