-------------------------- MODULE ModelServingProofs --------------------------
(***************************************************************************)
(* For any claims, models and faults: a Ready node that serves an          *)
(* always-active model is given up by nobody (unless it was lost, looked   *)
(* lost, or its flags could not be read: hurt), a running node is drained  *)
(* as idle only while its idleSince is recorded, and only a bundle that    *)
(* became Ready marks the claims it replaces.                              *)
(*                                                                         *)
(* All three rest on what a worker may still rely on when it goes on with  *)
(* the steps it decided on: while it holds the latest version of its claim *)
(* the claim is as it was read, and when it does not its writes fail.      *)
(***************************************************************************)
EXTENDS ModelServing, TLAPS

-----------------------------------------------------------------------------
(* The steps of the two workers                                              *)

DisLists == {<<>>, <<"setIdle">>, <<"clearIdle">>, DestroyWorker,
             <<"destroy", "end", "keys">>, <<"end", "keys">>, <<"keys">>}
RecLists == {<<>>, <<"ready">>, <<"endOrRetry">>, <<"destroy", "endOrRetry">>,
             <<"end", "destroy", "keys">>, <<"destroy", "keys">>,
             <<"destroy", "end", "keys">>, <<"end", "keys">>, <<"keys">>,
             <<"destroyOrRetry", "keys", "endOrRetry">>,
             <<"keys", "endOrRetry">>}

\* Each list of steps has the type of one.
LEMMA ListTypes ==
    /\ \A t \in DisLists : t \in Seq(Steps)
    /\ \A t \in RecLists : t \in Seq(Steps)
<1>1. /\ <<>> \in Seq(Steps) /\ <<"setIdle">> \in Seq(Steps)
      /\ <<"clearIdle">> \in Seq(Steps) /\ <<"ready">> \in Seq(Steps)
      /\ <<"endOrRetry">> \in Seq(Steps) /\ <<"keys">> \in Seq(Steps)
  BY DEF Steps
<1>2. /\ <<"end", "keys">> \in Seq(Steps) /\ <<"destroy", "keys">> \in Seq(Steps)
      /\ <<"destroy", "endOrRetry">> \in Seq(Steps)
      /\ <<"keys", "endOrRetry">> \in Seq(Steps)
  BY DEF Steps
<1>3. /\ <<"destroy", "end", "keys">> \in Seq(Steps)
      /\ <<"end", "destroy", "keys">> \in Seq(Steps)
      /\ <<"destroyOrRetry", "keys", "endOrRetry">> \in Seq(Steps)
  BY DEF Steps
<1>4. DestroyWorker \in Seq(Steps)
  BY DEF Steps, DestroyWorker
<1> QED  BY <1>1, <1>2, <1>3, <1>4, Zenon DEF DisLists, RecLists

\* What the disruption controller does at each step, and what is left then.
LEMMA DisSteps ==
    ASSUME NEW w, w.todo \in DisLists
    PROVE  /\ At(w, "setIdle") => w.todo = <<"setIdle">> /\ Then(w) = NoWork
           /\ At(w, "clearIdle") => w.todo = <<"clearIdle">> /\ Then(w) = NoWork
           /\ At(w, "drain") =>
                /\ w.todo = DestroyWorker
                /\ Then(w) = [claim |-> w.claim, todo |-> <<"destroy", "end", "keys">>]
           /\ At(w, "destroy") =>
                /\ w.todo = <<"destroy", "end", "keys">>
                /\ Then(w) = [claim |-> w.claim, todo |-> <<"end", "keys">>]
           /\ At(w, "end") =>
                /\ w.todo = <<"end", "keys">>
                /\ Then(w) = [claim |-> w.claim, todo |-> <<"keys">>]
           /\ At(w, "keys") => w.todo = <<"keys">> /\ Then(w) = NoWork
<1>1. /\ Head(<<"setIdle">>) = "setIdle" /\ Head(<<"clearIdle">>) = "clearIdle"
      /\ Head(DestroyWorker) = "drain" /\ Head(<<"keys">>) = "keys"
      /\ Head(<<"destroy", "end", "keys">>) = "destroy"
      /\ Head(<<"end", "keys">>) = "end"
  BY DEF DestroyWorker
<1>2. /\ Tail(<<"setIdle">>) = <<>> /\ Tail(<<"clearIdle">>) = <<>>
      /\ Tail(DestroyWorker) = <<"destroy", "end", "keys">>
      /\ Tail(<<"destroy", "end", "keys">>) = <<"end", "keys">>
      /\ Tail(<<"end", "keys">>) = <<"keys">> /\ Tail(<<"keys">>) = <<>>
  BY DEF DestroyWorker
<1>3. <<"destroy", "end", "keys">> # <<>> /\ <<"end", "keys">> # <<>> /\ <<"keys">> # <<>>
  OBVIOUS
<1> QED  BY <1>1, <1>2, <1>3, Zenon DEF DisLists, At, Then, Work

\* The same for the claim reconciler, whose "end" and "destroy" are steps of
\* several lists.  RecUpdates are the lists with an update of the claim ahead.
RecUpdates == RecLists \ {<<>>, <<"keys">>, <<"destroy", "keys">>}

LEMMA RecSteps ==
    ASSUME NEW w, w.todo \in RecLists, w.todo # <<>>
    PROVE  /\ Then(w).todo \in RecLists \ {<<"ready">>}
           /\ Then(w).todo # <<>> => Then(w).claim = w.claim
           /\ At(w, "ready") => w.todo = <<"ready">> /\ Then(w) = NoWork
           /\ w.todo = <<"ready">> => At(w, "ready")
           /\ /\ At(w, "destroy") \/ At(w, "destroyOrRetry") \/ At(w, "keys")
              /\ w.todo \in RecUpdates
              => Then(w).todo \in RecUpdates
<1>1. /\ Tail(<<"ready">>) = <<>> /\ Tail(<<"endOrRetry">>) = <<>>
      /\ Tail(<<"destroy", "endOrRetry">>) = <<"endOrRetry">>
      /\ Tail(<<"end", "destroy", "keys">>) = <<"destroy", "keys">>
      /\ Tail(<<"destroy", "keys">>) = <<"keys">>
      /\ Tail(<<"destroy", "end", "keys">>) = <<"end", "keys">>
      /\ Tail(<<"end", "keys">>) = <<"keys">> /\ Tail(<<"keys">>) = <<>>
      /\ Tail(<<"destroyOrRetry", "keys", "endOrRetry">>) = <<"keys", "endOrRetry">>
      /\ Tail(<<"keys", "endOrRetry">>) = <<"endOrRetry">>
  OBVIOUS
<1>2. /\ Head(<<"ready">>) = "ready" /\ Head(<<"endOrRetry">>) = "endOrRetry"
      /\ Head(<<"end", "destroy", "keys">>) = "end"
      /\ Head(<<"end", "keys">>) = "end" /\ Head(<<"keys">>) = "keys"
      /\ Head(<<"keys", "endOrRetry">>) = "keys"
      /\ Head(<<"destroy", "endOrRetry">>) = "destroy"
      /\ Head(<<"destroy", "keys">>) = "destroy"
      /\ Head(<<"destroy", "end", "keys">>) = "destroy"
      /\ Head(<<"destroyOrRetry", "keys", "endOrRetry">>) = "destroyOrRetry"
  OBVIOUS
<1>3. /\ <<"keys">> # <<>> /\ <<"end", "keys">> # <<>> /\ <<"ready">> # <<>>
      /\ <<"endOrRetry">> # <<>> /\ <<"destroy", "keys">> # <<>>
      /\ <<"keys", "endOrRetry">> # <<>>
  OBVIOUS
<1>4. /\ <<"endOrRetry">> # <<"keys">> /\ <<"end", "keys">> # <<"keys">>
      /\ <<"keys", "endOrRetry">> # <<"keys">>
      /\ <<"endOrRetry">> # <<"destroy", "keys">>
      /\ <<"end", "keys">> # <<"destroy", "keys">>
      /\ <<"keys", "endOrRetry">> # <<"destroy", "keys">>
  OBVIOUS
<1>5. NoWork.todo = <<>>
  BY DEF NoWork
<1>6. Tail(w.todo) \in RecLists \ {<<"ready">>}
  BY <1>1, <1>2, <1>3, Zenon DEF RecLists
<1>7. /\ Then(w).todo = Tail(w.todo)
      /\ Then(w).todo # <<>> => Then(w).claim = w.claim
  BY <1>5 DEF Then, Work
<1>8. ASSUME At(w, "destroy") \/ At(w, "destroyOrRetry") \/ At(w, "keys"),
             w.todo \in RecUpdates
      PROVE  Tail(w.todo) \in RecUpdates
  BY <1>1, <1>2, <1>3, <1>4, <1>8, Zenon DEF RecUpdates, RecLists, At
<1>9. At(w, "ready") <=> w.todo = <<"ready">>
  BY <1>2, Zenon DEF RecLists, At
<1>10. At(w, "ready") => Then(w) = NoWork
  BY <1>1, <1>9 DEF Then, Work
<1> QED  BY <1>6, <1>7, <1>8, <1>9, <1>10

-----------------------------------------------------------------------------
(* Types *)

\* A worker at rest, and one with steps to do.
LEMMA WorkTyped ==
    /\ NoWork \in Worker
    /\ \A c \in Claims, t \in Seq(Steps) : Work(c, t) \in Worker
    /\ \A w \in Worker : w.todo # <<>> => Then(w) \in Worker
<1>1. NoWork \in Worker
  BY ConstantsAssumption DEF NoWork, Worker
<1>2. \A c \in Claims, t \in Seq(Steps) : Work(c, t) \in Worker
  BY <1>1 DEF Work, Worker
<1>3. ASSUME NEW w \in Worker, w.todo # <<>> PROVE Then(w) \in Worker
  <2>1. w.claim \in Claims /\ w.todo \in Seq(Steps)
    BY DEF Worker
  <2>2. Tail(w.todo) \in Seq(Steps)
    BY <1>3, <2>1
  <2> QED  BY <1>2, <2>1, <2>2 DEF Then
<1> QED  BY <1>1, <1>2, <1>3

\* The lists that the passes take up.
LEMMA PassTyped ==
    /\ DestroyWorker \in Seq(Steps) /\ <<>> \in Seq(Steps)
    /\ <<"setIdle">> \in Seq(Steps) /\ <<"clearIdle">> \in Seq(Steps)
    /\ <<"endOrRetry">> \in Seq(Steps) /\ <<"ready">> \in Seq(Steps)
    /\ <<"destroy", "endOrRetry">> \in Seq(Steps)
    /\ <<"end", "destroy", "keys">> \in Seq(Steps)
    /\ <<"end", "keys">> \in Seq(Steps)
    /\ <<"destroy", "end", "keys">> \in Seq(Steps)
    /\ <<"destroyOrRetry", "keys", "endOrRetry">> \in Seq(Steps)
BY ListTypes, Zenon DEF DisLists, RecLists

LEMMA FaultTyped == ASSUME TypeOK, Fault PROVE faults' \in 0..MaxFaults
BY ConstantsAssumption DEF TypeOK, Fault

\* A read of Dragonfly may be a fault about the claim.
LEMMA ReadsTyped ==
    ASSUME TypeOK, NEW c \in Claims, NEW broken, Reads(c, broken)
    PROVE  faults' \in 0..MaxFaults /\ hurt' \subseteq Claims
BY FaultTyped DEF TypeOK, Reads

\* What an update leaves.
LEMMA UpdateTyped ==
    ASSUME TypeOK, NEW c \in Claims, NEW who \in Holders, NEW r \in Claim,
           NEW again \in BOOLEAN, UpdateOK(who, c, r, again) \/ UpdateErr(who, c)
    PROVE  /\ claim' \in [Claims -> Claim]
           /\ upToDate' \in [Claims -> SUBSET Holders]
           /\ faults' \in 0..MaxFaults
<1>1. CASE UpdateOK(who, c, r, again)
  BY <1>1 DEF TypeOK, UpdateOK
<1>2. CASE UpdateErr(who, c)
  BY <1>2, FaultTyped DEF TypeOK, UpdateErr
<1> QED  BY <1>1, <1>2

\* The records that the writes leave.
LEMMA WrittenTyped ==
    ASSUME NEW r \in Claim
    PROVE  /\ \A p \in Phases : [r EXCEPT !.phase = p] \in Claim
           /\ \A b \in BOOLEAN : [r EXCEPT !.idle = b] \in Claim
           /\ [r EXCEPT !.mark = TRUE] \in Claim
BY DEF Claim

LEMMA InitTyped == Init => TypeOK
BY WorkTyped, ConstantsAssumption DEF Init, TypeOK, Claim, Phases, Absent, Holders

\* The providers, GPU API, the watch and the process.
LEMMA EnvironmentTyped ==
    ASSUME TypeOK, NEW c \in Claims, NEW m \in Models,
           \/ CreateClaim(c) \/ WatchDeliver(c) \/ AgentUp(c) \/ AgentDown(c)
           \/ InstanceLost(c) \/ Requests(m) \/ Crash
    PROVE  TypeOK'
<1>1. CASE CreateClaim(c)
  BY <1>1 DEF CreateClaim, TypeOK, Claim, Phases, gpuAPI, workers
<1>2. CASE WatchDeliver(c)
  BY <1>2 DEF WatchDeliver, TypeOK, Holders, gpuAPI, workers
<1>3. CASE AgentUp(c)
  BY <1>3, ConstantsAssumption DEF AgentUp, TypeOK, kube, workers
<1>4. CASE AgentDown(c)
  BY <1>4, FaultTyped DEF AgentDown, TypeOK, kube, workers
<1>5. CASE InstanceLost(c)
  BY <1>5, FaultTyped DEF InstanceLost, Stops, TypeOK, kube, workers
<1>6. CASE Requests(m)
  BY <1>6 DEF Requests, TypeOK, kube, workers
<1>7. CASE Crash
  BY <1>7, FaultTyped, WorkTyped DEF Crash, TypeOK, Holders, gpuAPI, Worker
<1> QED  BY <1>1, <1>2, <1>3, <1>4, <1>5, <1>6, <1>7

\* A pass of the disruption controller: what it decides is a list of steps.
LEMMA DisLookTyped ==
    ASSUME TypeOK, NEW c \in Claims, NEW steps \in Seq(Steps), DisPass(c, steps),
           faults' \in 0..MaxFaults, hurt' \subseteq Claims
    PROVE  TypeOK'
BY WorkTyped DEF TypeOK, DisPass, Hold, Holders, gpuAPI

LEMMA DisDecideTyped ==
    ASSUME TypeOK, NEW c \in Claims, DisDecide(c)
    PROVE  TypeOK'
<1>1. CASE DisInstanceStopped(c)
  BY <1>1, DisLookTyped, PassTyped DEF DisInstanceStopped, TypeOK
<1>2. ASSUME NEW broken \in SUBSET Keys,
             \/ DisKeep(c, broken) \/ DisDrainMarked(c, broken)
             \/ DisBecomesIdle(c, broken) \/ DisDestroysIdle(c, broken)
      PROVE  TypeOK'
  <2>1. PICK steps \in Seq(Steps) : DisLook(c, broken, steps)
    BY <1>2, PassTyped
    DEF DisKeep, DisDrainMarked, DisBecomesIdle, DisDestroysIdle, DisIdle
  <2> QED  BY <2>1, ReadsTyped, DisLookTyped DEF DisLook
<1> QED  BY <1>1, <1>2 DEF DisDecide

LEMMA DisStepTyped ==
    ASSUME TypeOK, DisStep
    PROVE  TypeOK'
<1> DEFINE c == dis.claim
<1>0. c \in Claims /\ claim[c] \in Claim /\ "dis" \in Holders
  BY DEF TypeOK, Worker, Holders
<1>1. \A s : At(dis, s) => Then(dis) \in Worker
  BY WorkTyped DEF TypeOK, At
<1>2. CASE DisSetIdle
  BY <1>0, <1>1, <1>2, UpdateTyped, WrittenTyped DEF DisSetIdle, TypeOK, gpuAPI
<1>3. CASE DisClearIdle
  BY <1>0, <1>1, <1>3, UpdateTyped, WrittenTyped DEF DisClearIdle, TypeOK, gpuAPI
<1>4. ASSUME NEW s, NEW p \in Phases, DisWrite(s, p)
      PROVE  TypeOK'
  BY <1>0, <1>1, <1>4, UpdateTyped, WrittenTyped, WorkTyped
  DEF DisWrite, TypeOK, gpuAPI
<1>5. CASE DisDestroy
  BY <1>0, <1>1, <1>5, FaultTyped DEF DisDestroy, Stops, TypeOK, kube
<1>6. CASE DisRemoveKeys
  BY <1>0, <1>1, <1>6, FaultTyped
  DEF DisRemoveKeys, RemoveModelLoaded, TypeOK, kube, gpuAPI
<1> QED  BY <1>2, <1>3, <1>4, <1>5, <1>6 DEF DisStep, DisDrain, DisEnd, Phases

\* A pass of the claim reconciler.
LEMMA RecLookTyped ==
    ASSUME TypeOK, NEW c \in Claims, RecLook(c)
    PROVE  TypeOK'
<1>1. ASSUME NEW phase, NEW steps \in Seq(Steps), RecDecide(c, phase, steps),
             faults' \in 0..MaxFaults, hurt' \subseteq Claims
      PROVE  TypeOK'
  BY <1>1, WorkTyped DEF RecDecide, RecPass, Hold, TypeOK, Holders, gpuAPI
<1>2. NodeRegistered(c) \/ NodeNotRegistered(c) =>
        faults' \in 0..MaxFaults /\ hurt' \subseteq Claims
  BY FaultTyped DEF NodeRegistered, NodeNotRegistered, TypeOK
<1>3. UNCHANGED <<faults, hurt>> => faults' \in 0..MaxFaults /\ hurt' \subseteq Claims
  BY DEF TypeOK
<1>4. CASE RecBootFailed(c)
  BY <1>4, <1>1, <1>3, PassTyped DEF RecBootFailed
<1>5. CASE RecAgentConnected(c)
  BY <1>5, <1>1, <1>2, PassTyped DEF RecAgentConnected
<1>6. CASE RecTimedOut(c)
  BY <1>6, <1>1, <1>2, PassTyped DEF RecTimedOut
<1>7. CASE RecReadyLost(c)
  BY <1>7, <1>1, <1>2, <1>3, PassTyped DEF RecReadyLost
<1>8. CASE RecConsolidate(c)
  BY <1>8, <1>2, WorkTyped, PassTyped, WrittenTyped
  DEF RecConsolidate, Consolidate, RecPass, TypeOK, Holders, gpuAPI
<1>9. CASE RecDraining(c)
  BY <1>9, <1>1, <1>3, PassTyped DEF RecDraining
<1> QED  BY <1>4, <1>5, <1>6, <1>7, <1>8, <1>9 DEF RecLook

LEMMA RecStepTyped ==
    ASSUME TypeOK, RecStep
    PROVE  TypeOK'
<1> DEFINE c == rec.claim
<1>0. c \in Claims /\ claim[c] \in Claim /\ "rec" \in Holders
  BY DEF TypeOK, Worker, Holders
<1>1. \A s : At(rec, s) => Then(rec) \in Worker
  BY WorkTyped DEF TypeOK, At
<1>2. CASE RecReady
  BY <1>0, <1>1, <1>2, UpdateTyped, WrittenTyped DEF RecReady, TypeOK, gpuAPI, Phases
<1>3. CASE RecEnd
  BY <1>0, <1>1, <1>3, UpdateTyped, WrittenTyped, WorkTyped
  DEF RecEnd, TypeOK, gpuAPI, Phases
<1>4. CASE RecDestroy
  BY <1>0, <1>1, <1>4, FaultTyped, WorkTyped DEF RecDestroy, Stops, TypeOK
<1>5. CASE RecRemoveKeys
  BY <1>0, <1>1, <1>5, FaultTyped
  DEF RecRemoveKeys, RemoveModelLoaded, TypeOK, kube, gpuAPI
<1> QED  BY <1>2, <1>3, <1>4, <1>5 DEF RecStep

LEMMA SweepTyped ==
    ASSUME TypeOK, NEW c \in Claims, SweepEnd(c) \/ SweepRemoveKey
    PROVE  TypeOK'
<1>1. CASE SweepEnd(c)
  BY <1>1, UpdateTyped, WrittenTyped DEF SweepEnd, TypeOK, gpuAPI, Phases, Holders
<1>2. CASE SweepRemoveKey
  BY <1>2, FaultTyped DEF SweepRemoveKey, RemoveModelLoaded, TypeOK, kube, gpuAPI
<1> QED  BY <1>1, <1>2

LEMMA StepTyped == TypeOK /\ [Next]_vars => TypeOK'
<1> SUFFICES ASSUME TypeOK, [Next]_vars PROVE TypeOK'
  OBVIOUS
<1>1. CASE UNCHANGED vars
  BY <1>1 DEF vars, kube, gpuAPI, workers, TypeOK
<1>2. \E c \in Claims : c \in Claims
  BY ConstantsAssumption
<1>3. \E m \in Models : m \in Models
  BY ConstantsAssumption
<1>4. CASE Next
  BY <1>2, <1>3, <1>4, EnvironmentTyped, DisDecideTyped, DisStepTyped, RecLookTyped,
     RecStepTyped, SweepTyped DEF Next
<1> QED  BY <1>1, <1>4

\* The types of the state hold throughout, whatever the workers' steps.
THEOREM TypeCorrect == Spec => []TypeOK
<1> QED  BY InitTyped, StepTyped, PTL DEF Spec

-----------------------------------------------------------------------------
(* The inductive invariant *)

Started == {"Ready", "Draining", "Terminated"}
Ended   == {"Draining", "Terminated"}

\* A copy in the cache may be old: phases only go forward from Ready on.
CopyFacts ==
    \A c \in Claims :
        /\ "cache" \in upToDate[c] => cache[c] = claim[c]
        /\ cache[c].phase = "Ready" => claim[c].phase \in Started
        /\ cache[c].phase = "Draining" => claim[c].phase \in Ended

\* A worker holds a latest version only between reading a claim and its last
\* update of it.
HolderFacts ==
    \A c \in Claims :
        /\ "dis" \in upToDate[c] => dis.claim = c /\ dis.todo \notin {<<>>, <<"keys">>}
        /\ "rec" \in upToDate[c] => rec.claim = c /\ rec.todo \in RecUpdates

\* A Ready node that met no fault runs and is connected.
ReadyFacts ==
    \A c \in Claims : claim[c].phase = "Ready" /\ c \notin hurt
                        => instance[c] = "running" /\ c \in registered

\* What the disruption controller may rely on, late in a pass as it is: only a
\* claim that is no longer Ready has its instance destroyed, and a drain that
\* is still on the latest version was decided with good reason.
MayDrain(c) ==
    /\ claim[c].phase = "Ready"
    /\ c \notin hurt => ~ServesAlwaysActive(c)
    /\ instance[c] = "running" => claim[c].mark \/ claim[c].idle

DisFacts ==
    /\ dis.todo \in DisLists
    /\ dis.todo = DestroyWorker /\ "dis" \in upToDate[dis.claim] => MayDrain(dis.claim)
    /\ dis.todo \in {<<"destroy", "end", "keys">>, <<"end", "keys">>}
         => claim[dis.claim].phase \in Ended

\* The claim reconciler makes a claim Ready whose node is connected, and gives
\* up no Ready claim that met no fault.
RecFacts ==
    /\ rec.todo \in RecLists
    /\ rec.todo = <<"ready">> /\ "rec" \in upToDate[rec.claim] =>
         /\ claim[rec.claim].phase = "Booting"
         /\ rec.claim \notin hurt =>
              instance[rec.claim] = "running" /\ rec.claim \in registered
    /\ rec.todo \notin {<<>>, <<"ready">>} /\ claim[rec.claim].phase = "Ready"
         => rec.claim \in hurt

IInv ==
    /\ TypeOK
    /\ CopyFacts
    /\ HolderFacts
    /\ ReadyFacts
    /\ DisFacts
    /\ RecFacts
    /\ DrainsOnlyAfterReady

LEMMA InitFacts == Init => IInv
<1> SUFFICES ASSUME Init PROVE IInv
  OBVIOUS
<1>1. TypeOK
  BY InitTyped
<1>2. dis.todo = <<>> /\ rec.todo = <<>>
  BY DEF Init, NoWork
<1>3. <<>> # DestroyWorker /\ <<>> # <<"ready">>
  BY DEF DestroyWorker
<1>4. <<>> # <<"destroy", "end", "keys">> /\ <<>> # <<"end", "keys">>
  OBVIOUS
<1>5. <<>> \in DisLists /\ <<>> \in RecLists
  BY DEF DisLists, RecLists
<1>6. DisFacts /\ RecFacts
  BY <1>2, <1>3, <1>4, <1>5 DEF DisFacts, RecFacts
<1> QED  BY <1>1, <1>6 DEF Init, IInv, CopyFacts, HolderFacts, ReadyFacts,
              DrainsOnlyAfterReady, Absent, Started, Ended

-----------------------------------------------------------------------------
(* The steps *)

\* What the facts are about but the claims, the copies and the workers.
LEMMA ProvidersKeep ==
    ASSUME IInv, UNCHANGED <<kube, workers>>, hurt \subseteq hurt',
           \A c \in Claims : instance'[c] = "running" => instance[c] = "running",
           \A c \in Claims \ hurt' :
               \/ UNCHANGED <<instance[c], c \in registered>>
               \/ claim[c].phase \notin {"Booting", "Ready"}
               \/ instance'[c] = "running" /\ c \in registered'
    PROVE  /\ CopyFacts' /\ HolderFacts' /\ ReadyFacts' /\ DisFacts'
           /\ RecFacts' /\ DrainsOnlyAfterReady'
<1>1. CopyFacts' /\ HolderFacts' /\ DrainsOnlyAfterReady'
  BY DEF IInv, kube, workers, CopyFacts, HolderFacts, DrainsOnlyAfterReady
<1>2. ReadyFacts'
  BY DEF IInv, kube, workers, ReadyFacts
<1>3. dis.claim \in Claims /\ rec.claim \in Claims
  BY DEF IInv, TypeOK, Worker
<1>4. DisFacts'
  BY <1>3 DEF IInv, kube, workers, DisFacts, MayDrain
<1>5. RecFacts'
  BY <1>3 DEF IInv, kube, workers, RecFacts
<1> QED  BY <1>1, <1>2, <1>4, <1>5

\* The providers, GPU API and requests.
LEMMA ProvidersStep ==
    ASSUME IInv, NEW c \in Claims, NEW m \in Models,
           AgentUp(c) \/ AgentDown(c) \/ InstanceLost(c) \/ Requests(m)
    PROVE  IInv'
<1>1. TypeOK'
  BY EnvironmentTyped DEF IInv
<1>2. /\ UNCHANGED <<kube, workers>> /\ hurt \subseteq hurt'
      /\ \A d \in Claims : instance'[d] = "running" => instance[d] = "running"
  BY DEF AgentUp, AgentDown, InstanceLost, Requests, Stops, kube, workers, IInv, TypeOK
<1>3. \A d \in Claims \ hurt' :
               \/ UNCHANGED <<instance[d], d \in registered>>
               \/ instance'[d] = "running" /\ d \in registered'
  BY DEF IInv, TypeOK, AgentUp, AgentDown, InstanceLost, Requests, Stops
<1> QED  BY <1>1, <1>2, <1>3, ProvidersKeep DEF IInv

\* Phases go forward, except where a claim is created.
Forward(c) ==
    /\ claim[c].phase \in Started => claim'[c].phase \in Started
    /\ claim[c].phase \in Ended   => claim'[c].phase \in Ended

\* A mark was set for a bundle that stays past booting.
LEMMA MarksKept ==
    ASSUME IInv, \A c \in Claims : Forward(c),
           \A c \in Claims : claim'[c].mark => claim[c].mark
    PROVE  DrainsOnlyAfterReady'
<1> SUFFICES ASSUME NEW c \in Claims, claim'[c].mark
             PROVE  \E b \in Claims : /\ IsBundle(b) /\ ModelsOf[c] \subseteq ModelsOf[b]
                                      /\ claim'[b].phase \notin {"Absent", "Booting"}
  BY DEF DrainsOnlyAfterReady, IsBundle
<1>1. PICK b \in Claims : /\ IsBundle(b) /\ ModelsOf[c] \subseteq ModelsOf[b]
                          /\ claim[b].phase \notin {"Absent", "Booting"}
  BY DEF IInv, DrainsOnlyAfterReady
<1>2. claim[b].phase \in Started
  BY <1>1 DEF IInv, TypeOK, Claim, Phases, Started
<1> QED  BY <1>1, <1>2 DEF Forward, Started

LEMMA WatchStep == ASSUME IInv, NEW c \in Claims, WatchDeliver(c) PROVE IInv'
<1>1. TypeOK'
  BY ConstantsAssumption, EnvironmentTyped DEF IInv
<1>2. \A d \in Claims : /\ "dis" \in upToDate'[d] <=> "dis" \in upToDate[d]
                        /\ "rec" \in upToDate'[d] <=> "rec" \in upToDate[d]
  BY DEF WatchDeliver, IInv, TypeOK
<1>3. dis.claim \in Claims /\ rec.claim \in Claims
  BY DEF IInv, TypeOK, Worker
<1>4. CopyFacts'
  BY DEF WatchDeliver, IInv, TypeOK, CopyFacts, Started, Ended
<1>5. HolderFacts' /\ ReadyFacts' /\ DrainsOnlyAfterReady'
  BY <1>2 DEF WatchDeliver, IInv, HolderFacts, ReadyFacts, DrainsOnlyAfterReady,
         gpuAPI, workers
<1>6. DisFacts'
  BY <1>2, <1>3 DEF WatchDeliver, IInv, DisFacts, MayDrain, gpuAPI, workers
<1>7. RecFacts'
  BY <1>2, <1>3 DEF WatchDeliver, IInv, RecFacts, gpuAPI, workers
<1> QED  BY <1>1, <1>4, <1>5, <1>6, <1>7 DEF IInv

LEMMA CreateStep == ASSUME IInv, NEW c \in Claims, CreateClaim(c) PROVE IInv'
<1>1. TypeOK'
  BY ConstantsAssumption, EnvironmentTyped DEF IInv
<1>2. \A d \in Claims : claim'[d] = IF d = c THEN [claim[c] EXCEPT !.phase = "Booting"]
                                             ELSE claim[d]
  BY DEF CreateClaim, IInv, TypeOK
<1>3. \A d \in Claims : upToDate'[d] = IF d = c THEN {} ELSE upToDate[d]
  BY DEF CreateClaim, IInv, TypeOK
<1>4. claim[c].phase = "Absent" /\ claim'[c].phase = "Booting" /\ claim'[c].mark = claim[c].mark
  BY <1>2 DEF CreateClaim, IInv, TypeOK, Claim
<1>5. dis.claim \in Claims /\ rec.claim \in Claims
  BY DEF IInv, TypeOK, Worker
<1>6. UNCHANGED <<cache, instance, gpuAPI, workers, hurt>>
  BY DEF CreateClaim
<1>7. CopyFacts' /\ HolderFacts' /\ ReadyFacts'
  BY <1>2, <1>3, <1>4, <1>6 DEF IInv, CopyFacts, HolderFacts, ReadyFacts,
     gpuAPI, workers, Started, Ended
<1>8. DisFacts'
  BY <1>2, <1>3, <1>4, <1>5, <1>6 DEF IInv, DisFacts, MayDrain, Ended, gpuAPI, workers
<1>9. RecFacts'
  BY <1>2, <1>3, <1>4, <1>5, <1>6 DEF IInv, RecFacts, gpuAPI, workers
<1>10. DrainsOnlyAfterReady'
  BY <1>2, <1>4, MarksKept DEF Forward, Started, Ended
<1> QED  BY <1>1, <1>7, <1>8, <1>9, <1>10 DEF IInv

LEMMA CrashStep == ASSUME IInv, Crash PROVE IInv'
<1>1. TypeOK'
  BY ConstantsAssumption, EnvironmentTyped DEF IInv
<1>2. dis'.todo = <<>> /\ rec'.todo = <<>>
  BY DEF Crash, NoWork
<1>3. /\ <<>> # DestroyWorker /\ <<>> # <<"ready">>
      /\ <<>> # <<"destroy", "end", "keys">> /\ <<>> # <<"end", "keys">>
  BY DEF DestroyWorker
<1>4. <<>> \in DisLists /\ <<>> \in RecLists
  BY DEF DisLists, RecLists
<1>5. DisFacts' /\ RecFacts'
  BY <1>2, <1>3, <1>4 DEF DisFacts, RecFacts
<1>6. \A c \in Claims : upToDate'[c] = {"cache"}
  BY DEF Crash
<1>7. CopyFacts' /\ HolderFacts' /\ ReadyFacts' /\ DrainsOnlyAfterReady'
  BY <1>6 DEF IInv, Crash, CopyFacts, HolderFacts, ReadyFacts, DrainsOnlyAfterReady, Started,
         Ended, gpuAPI
<1> QED  BY <1>1, <1>5, <1>7 DEF IInv

\* Keys of models are nothing the facts are about.
LEMMA KeysStep ==
    ASSUME IInv, SweepRemoveKey
    PROVE  IInv'
<1>1. TypeOK'
  BY ConstantsAssumption, SweepTyped DEF IInv
<1>2. UNCHANGED <<kube, instance, registered, dis, rec, hurt>>
  BY DEF SweepRemoveKey, gpuAPI
<1>3. CopyFacts' /\ HolderFacts' /\ ReadyFacts' /\ DrainsOnlyAfterReady'
  BY <1>2 DEF IInv, kube, CopyFacts, HolderFacts, ReadyFacts, DrainsOnlyAfterReady
<1>4. DisFacts' /\ RecFacts'
  BY <1>2 DEF IInv, kube, DisFacts, RecFacts, MayDrain
<1> QED  BY <1>1, <1>3, <1>4 DEF IInv

(* What a step leaves of the facts about a worker that does not take it.     *)

LEMMA DisKept ==
    ASSUME IInv, UNCHANGED dis, hurt \subseteq hurt',
           \A d \in Claims : Forward(d),
           \A d \in Claims : instance'[d] = "running" => instance[d] = "running",
           \A d \in Claims : \/ /\ claim'[d] = claim[d]
                                /\ "dis" \in upToDate'[d] <=> "dis" \in upToDate[d]
                             \/ "dis" \notin upToDate'[d]
    PROVE  /\ DisFacts'
           /\ \A d \in Claims : "dis" \in upToDate'[d] =>
                dis'.claim = d /\ dis'.todo \notin {<<>>, <<"keys">>}
<1>1. dis.claim \in Claims
  BY DEF IInv, TypeOK, Worker
<1>2. DisFacts'
  BY <1>1 DEF IInv, DisFacts, MayDrain, ServesAlwaysActive, Forward
<1>3. \A d \in Claims : "dis" \in upToDate'[d] =>
                dis'.claim = d /\ dis'.todo \notin {<<>>, <<"keys">>}
  BY DEF IInv, HolderFacts
<1> QED  BY <1>2, <1>3

LEMMA RecKept ==
    ASSUME IInv, UNCHANGED rec, hurt \subseteq hurt',
           \A d \in Claims : claim'[d].phase = "Ready" => claim[d].phase = "Ready",
           \A d \in Claims : "rec" \in upToDate'[d] =>
                /\ "rec" \in upToDate[d]
                /\ claim'[d].phase = claim[d].phase
                /\ \/ d \in hurt' \/ claim[d].phase # "Booting"
                   \/ UNCHANGED <<instance[d], d \in registered>>
    PROVE  /\ RecFacts'
           /\ \A d \in Claims : "rec" \in upToDate'[d] =>
                rec'.claim = d /\ rec'.todo \in RecUpdates
<1>1. rec.claim \in Claims
  BY DEF IInv, TypeOK, Worker
<1>2. RecFacts'
  BY <1>1 DEF IInv, RecFacts
<1> QED  BY <1>2 DEF IInv, HolderFacts

\* The facts that no worker's steps matter to, where a claim is written.
LEMMA WriteKept ==
    ASSUME IInv, NEW c \in Claims, NEW r \in Claim, NEW S \in SUBSET {"dis", "rec"},
           claim' = [claim EXCEPT ![c] = r], upToDate' = [upToDate EXCEPT ![c] = S],
           Forward(c), r.mark = claim[c].mark, UNCHANGED <<cache, instance, registered>>,
           hurt \subseteq hurt',
           r.phase = "Ready" /\ c \notin hurt' =>
               \/ claim[c].phase = "Ready"
               \/ instance[c] = "running" /\ c \in registered
    PROVE  /\ \A d \in Claims \ {c} : claim'[d] = claim[d] /\ upToDate'[d] = upToDate[d]
           /\ claim'[c] = r /\ upToDate'[c] = S
           /\ \A d \in Claims : Forward(d)
           /\ CopyFacts' /\ ReadyFacts' /\ DrainsOnlyAfterReady'
<1>1. /\ \A d \in Claims \ {c} : claim'[d] = claim[d] /\ upToDate'[d] = upToDate[d]
      /\ claim'[c] = r /\ upToDate'[c] = S
  BY DEF IInv, TypeOK
<1>2. \A d \in Claims : Forward(d)
  BY <1>1 DEF Forward
<1>3. CopyFacts'
  BY <1>1, <1>2 DEF IInv, CopyFacts, Forward, Started, Ended
<1>4. ReadyFacts'
  BY <1>1 DEF IInv, ReadyFacts
<1>5. DrainsOnlyAfterReady'
  BY <1>1, <1>2, MarksKept
<1> QED  BY <1>1, <1>2, <1>3, <1>4, <1>5

\* The same where an update fails.
LEMMA ErrKept ==
    ASSUME IInv, NEW c \in Claims, NEW who \in {"dis", "rec"}, UpdateErr(who, c),
           UNCHANGED <<cache, instance, registered>>, hurt \subseteq hurt'
    PROVE  /\ UNCHANGED claim
           /\ \A d \in Claims : upToDate'[d] = IF d = c THEN upToDate[d] \ {who} ELSE upToDate[d]
           /\ \A d \in Claims : Forward(d)
           /\ CopyFacts' /\ ReadyFacts' /\ DrainsOnlyAfterReady'
<1>1. /\ UNCHANGED claim
      /\ \A d \in Claims : upToDate'[d] = IF d = c THEN upToDate[d] \ {who} ELSE upToDate[d]
  BY DEF UpdateErr, IInv, TypeOK
<1>2. \A d \in Claims : Forward(d)
  BY <1>1 DEF Forward
<1>3. CopyFacts' /\ ReadyFacts' /\ DrainsOnlyAfterReady'
  BY <1>1 DEF IInv, CopyFacts, ReadyFacts, DrainsOnlyAfterReady
<1> QED  BY <1>1, <1>2, <1>3

-----------------------------------------------------------------------------
(* The disruption controller *)

\* A pass that found the claim Ready in the cache, with what its list of steps
\* must be worth when the copy was the latest one.
LEMMA DisPassKeeps ==
    ASSUME IInv, NEW c \in Claims, NEW steps, DisPass(c, steps), hurt \subseteq hurt',
           steps \in {<<>>, <<"setIdle">>, <<"clearIdle">>, DestroyWorker},
           steps = DestroyWorker /\ "cache" \in upToDate[c] =>
               /\ c \notin hurt' => ~ServesAlwaysActive(c)
               /\ instance[c] = "running" => claim[c].mark \/ claim[c].idle
    PROVE  /\ CopyFacts' /\ HolderFacts' /\ ReadyFacts' /\ DisFacts'
           /\ RecFacts' /\ DrainsOnlyAfterReady'
<1>1. /\ dis.todo = <<>> /\ cache[c].phase = "Ready" /\ dis' = Work(c, steps)
      /\ UNCHANGED <<claim, cache, instance, registered, rec>>
      /\ \A d \in Claims \ {c} : upToDate'[d] = upToDate[d]
      /\ upToDate'[c] = IF steps # <<>> /\ "cache" \in upToDate[c]
                        THEN upToDate[c] \cup {"dis"} ELSE upToDate[c]
  BY DEF DisPass, Hold, NoWork, gpuAPI, IInv, TypeOK
<1>2. /\ steps = <<>> => dis'.todo = <<>>
      /\ steps # <<>> => dis'.todo = steps /\ dis'.claim = c
  BY <1>1 DEF Work, NoWork
<1>3. /\ <<"setIdle">> # <<"keys">> /\ <<"clearIdle">> # <<"keys">>
      /\ <<"setIdle">> # <<>> /\ <<"clearIdle">> # <<>>
      /\ <<"setIdle">> # <<"clearIdle">>
  OBVIOUS
<1>4. /\ DestroyWorker # <<"keys">> /\ DestroyWorker # <<>>
      /\ DestroyWorker # <<"setIdle">> /\ DestroyWorker # <<"clearIdle">>
      /\ DestroyWorker # <<"end", "keys">> /\ DestroyWorker # <<"destroy", "end", "keys">>
  BY DEF DestroyWorker
<1>5. /\ <<"setIdle">> # <<"end", "keys">> /\ <<"clearIdle">> # <<"end", "keys">>
      /\ <<>> # <<"end", "keys">> /\ <<>> # <<"destroy", "end", "keys">>
      /\ <<"setIdle">> # <<"destroy", "end", "keys">>
      /\ <<"clearIdle">> # <<"destroy", "end", "keys">>
  OBVIOUS
<1>6. \A d \in Claims : /\ "cache" \in upToDate'[d] <=> "cache" \in upToDate[d]
                        /\ "rec" \in upToDate'[d] <=> "rec" \in upToDate[d]
                        /\ "dis" \in upToDate'[d] =>
                             d = c /\ steps # <<>> /\ "cache" \in upToDate[c]
  BY <1>1 DEF IInv, HolderFacts
<1>7. CopyFacts' /\ ReadyFacts' /\ DrainsOnlyAfterReady'
  BY <1>1, <1>6 DEF IInv, CopyFacts, ReadyFacts, DrainsOnlyAfterReady
<1>8. RecFacts' /\ \A d \in Claims : "rec" \in upToDate'[d] =>
                rec'.claim = d /\ rec'.todo \in RecUpdates
  BY <1>1, <1>6, RecKept
<1>9. HolderFacts'
  BY <1>2, <1>3, <1>4, <1>6, <1>8 DEF HolderFacts
<1>10. "cache" \in upToDate[c] => cache[c] = claim[c] /\ claim[c].phase = "Ready"
  BY <1>1 DEF IInv, CopyFacts
<1>11. steps \in DisLists
  BY DEF DisLists
<1>12. DisFacts'
  <2>1. dis'.todo \in DisLists
    BY <1>2, <1>11
  <2>2. dis'.todo \notin {<<"destroy", "end", "keys">>, <<"end", "keys">>}
    BY <1>2, <1>4, <1>5
  <2>3. ASSUME dis'.todo = DestroyWorker, "dis" \in upToDate'[dis'.claim]
        PROVE  MayDrain(dis.claim)'
    <3>1. dis'.claim = c /\ steps = DestroyWorker
      BY <2>3, <1>2, <1>4
    <3>2. "cache" \in upToDate[c]
      BY <3>1, <2>3, <1>6
    <3> QED  BY <3>1, <3>2, <1>1, <1>10 DEF MayDrain, ServesAlwaysActive
  <2> QED  BY <2>1, <2>2, <2>3 DEF DisFacts
<1> QED  BY <1>7, <1>8, <1>9, <1>12

LEMMA DisDecideStep == ASSUME IInv, NEW c \in Claims, DisDecide(c) PROVE IInv'
<1>1. TypeOK'
  BY DisDecideTyped DEF IInv
<1>2. cache[c].phase = "Ready" /\ "cache" \in upToDate[c] =>
        cache[c] = claim[c] /\ claim[c].phase = "Ready"
  BY DEF IInv, CopyFacts
<1>3. /\ DestroyWorker # <<"setIdle">> /\ DestroyWorker # <<"clearIdle">> /\ DestroyWorker # <<>>
  BY DEF DestroyWorker
<1>4. CASE DisInstanceStopped(c)
  <2>1. "cache" \in upToDate[c] => c \in hurt'
    BY <1>2, <1>4 DEF DisInstanceStopped, DisPass, IInv, ReadyFacts
  <2> QED  BY <1>1, <1>4, <2>1, DisPassKeeps DEF DisInstanceStopped, IInv
<1>5. ASSUME NEW broken \in SUBSET Keys, DisKeep(c, broken)
      PROVE  IInv'
  <2>1. PICK steps \in {<<>>, <<"clearIdle">>} : DisLook(c, broken, steps)
    BY <1>5 DEF DisKeep
  <2>2. hurt \subseteq hurt' /\ DisPass(c, steps) /\ steps # DestroyWorker
    BY <2>1, <1>3 DEF DisLook, Reads
  <2> QED  BY <1>1, <2>2, DisPassKeeps DEF IInv
<1>6. ASSUME NEW broken \in SUBSET Keys, DisDrainMarked(c, broken)
      PROVE  IInv'
  <2>1. /\ DisPass(c, DestroyWorker) /\ cache[c].mark
        /\ hurt \subseteq hurt' /\ (c \notin hurt' => ~ServesAlwaysActive(c))
    BY <1>6 DEF DisDrainMarked, DisLook, Reads, IsAnyAlwaysActive, ServesAlwaysActive
  <2>2. "cache" \in upToDate[c] => claim[c].mark
    BY <1>2, <2>1 DEF DisPass
  <2> QED  BY <1>1, <2>1, <2>2, DisPassKeeps DEF IInv
<1>7. ASSUME NEW broken \in SUBSET Keys, DisBecomesIdle(c, broken)
      PROVE  IInv'
  <2>1. DisPass(c, <<"setIdle">>) /\ hurt \subseteq hurt'
    BY <1>7 DEF DisBecomesIdle, DisIdle, DisLook, Reads
  <2> QED  BY <1>1, <1>3, <2>1, DisPassKeeps DEF IInv
<1>8. ASSUME NEW broken \in SUBSET Keys, DisDestroysIdle(c, broken)
      PROVE  IInv'
  <2>1. /\ DisPass(c, DestroyWorker) /\ cache[c].idle
        /\ hurt \subseteq hurt' /\ (c \notin hurt' => ~ServesAlwaysActive(c))
    BY <1>8 DEF DisDestroysIdle, DisIdle, DisLook, Reads, IsAnyAlwaysActive, ServesAlwaysActive
  <2>2. "cache" \in upToDate[c] => claim[c].idle
    BY <1>2, <2>1 DEF DisPass
  <2> QED  BY <1>1, <2>1, <2>2, DisPassKeeps DEF IInv
<1> QED  BY <1>4, <1>5, <1>6, <1>7, <1>8 DEF DisDecide

\* A step of the disruption controller's worker that leaves it with steps which
\* its facts allow.  The first part of HolderFacts and the facts of the
\* reconciler are the same for all of them.
LEMMA DisStepKeeps ==
    ASSUME IInv, UNCHANGED rec, hurt \subseteq hurt', NEW c \in Claims, c = dis.claim,
           \A d \in Claims \ {c} : claim'[d] = claim[d] /\ upToDate'[d] = upToDate[d]
                                   /\ UNCHANGED <<instance[d], d \in registered>>,
           claim'[c].phase = "Ready" => claim[c].phase = "Ready",
           "rec" \in upToDate'[c] => "rec" \in upToDate[c] /\ claim'[c].phase = claim[c].phase,
           claim[c].phase \in Ended \/ UNCHANGED <<instance[c], c \in registered>>,
           "dis" \in upToDate'[c] => dis'.claim = c /\ dis'.todo \notin {<<>>, <<"keys">>}
    PROVE  RecFacts' /\ HolderFacts'
<1>1. \A d \in Claims : "rec" \in upToDate'[d] =>
                /\ "rec" \in upToDate[d]
                /\ claim'[d].phase = claim[d].phase
                /\ \/ d \in hurt' \/ claim[d].phase # "Booting"
                   \/ UNCHANGED <<instance[d], d \in registered>>
  BY DEF Ended
<1>2. \A d \in Claims : claim'[d].phase = "Ready" => claim[d].phase = "Ready"
  OBVIOUS
<1>3. RecFacts' /\ \A d \in Claims : "rec" \in upToDate'[d] =>
                rec'.claim = d /\ rec'.todo \in RecUpdates
  BY <1>1, <1>2, RecKept
<1>4. \A d \in Claims \ {c} : "dis" \notin upToDate'[d]
  BY DEF IInv, HolderFacts
<1> QED  BY <1>3, <1>4 DEF HolderFacts

\* The worker at rest, and in the middle of a drain.
LEMMA DisAtRest ==
    ASSUME dis' = NoWork
    PROVE  DisFacts'
<1>1. /\ <<>> # DestroyWorker
      /\ <<>> # <<"destroy", "end", "keys">> /\ <<>> # <<"end", "keys">>
      /\ <<>> \in DisLists
  BY DEF DestroyWorker, DisLists
<1>2. dis'.todo = <<>>
  BY DEF NoWork
<1> QED  BY <1>1, <1>2 DEF DisFacts

LEMMA DisDraining ==
    ASSUME NEW c, claim'[c].phase \in Ended,
           NEW rest \in {<<"destroy", "end", "keys">>, <<"end", "keys">>, <<"keys">>},
           dis' = [claim |-> c, todo |-> rest]
    PROVE  DisFacts'
<1>1. /\ <<"destroy", "end", "keys">> # DestroyWorker
      /\ <<"end", "keys">> # DestroyWorker /\ <<"keys">> # DestroyWorker
  BY DEF DestroyWorker
<1>2. rest \in DisLists
  BY DEF DisLists
<1> QED  BY <1>1, <1>2 DEF DisFacts

LEMMA DisStepStep == ASSUME IInv, DisStep PROVE IInv'
<1> DEFINE c == dis.claim
<1>1. TypeOK'
  BY DisStepTyped DEF IInv
<1>2. c \in Claims /\ claim[c] \in Claim /\ dis.todo \in DisLists
  BY DEF IInv, TypeOK, Worker, DisFacts
\* The two writes of idleSince.
<1>3. ASSUME NEW idle \in BOOLEAN, At(dis, "setIdle") \/ At(dis, "clearIdle"),
             \/ UpdateOK("dis", c, [claim[c] EXCEPT !.idle = idle], FALSE)
             \/ UpdateErr("dis", c),
             dis' = Then(dis), UNCHANGED <<cache, instance, registered, rec, hurt>>
      PROVE  IInv'
  <2>1. dis' = NoWork
    BY <1>2, <1>3, DisSteps
  <2>2. CASE UpdateOK("dis", c, [claim[c] EXCEPT !.idle = idle], FALSE)
    <3> DEFINE r == [claim[c] EXCEPT !.idle = idle]
    <3>1. /\ claim' = [claim EXCEPT ![c] = r] /\ upToDate' = [upToDate EXCEPT ![c] = {}]
          /\ r \in Claim /\ r.phase = claim[c].phase /\ r.mark = claim[c].mark
      BY <1>2, <2>2, WrittenTyped DEF UpdateOK, Claim
    <3>2. claim'[c] = r /\ upToDate'[c] = {}
      BY <1>2, <3>1 DEF IInv, TypeOK
    <3>3. Forward(c) /\ {} \in SUBSET {"dis", "rec"} /\ hurt \subseteq hurt'
      BY <1>3, <3>1, <3>2 DEF Forward
    <3> HIDE DEF r
    <3>4. /\ \A d \in Claims \ {c} : claim'[d] = claim[d] /\ upToDate'[d] = upToDate[d]
          /\ CopyFacts' /\ ReadyFacts' /\ DrainsOnlyAfterReady'
      BY <1>2, <1>3, <3>1, <3>3, WriteKept
    <3>5. RecFacts' /\ HolderFacts'
      BY <1>2, <1>3, <3>1, <3>2, <3>4, DisStepKeeps
    <3> QED  BY <1>1, <2>1, <3>4, <3>5, DisAtRest DEF IInv
  <2>3. CASE UpdateErr("dis", c)
    <3>1. /\ UNCHANGED claim /\ Forward(c)
          /\ \A d \in Claims : upToDate'[d] = IF d = c THEN upToDate[d] \ {"dis"} ELSE upToDate[d]
          /\ CopyFacts' /\ ReadyFacts' /\ DrainsOnlyAfterReady'
      BY <1>2, <1>3, <2>3, ErrKept
    <3>2. RecFacts' /\ HolderFacts'
      BY <1>2, <1>3, <3>1, DisStepKeeps
    <3> QED  BY <1>1, <2>1, <3>1, <3>2, DisAtRest DEF IInv
  <2> QED  BY <1>3, <2>2, <2>3
<1>4. CASE DisSetIdle
  BY <1>3, <1>4 DEF DisSetIdle, gpuAPI
<1>5. CASE DisClearIdle
  BY <1>3, <1>5 DEF DisClearIdle, gpuAPI
<1>6. ASSUME NEW step, NEW phase \in Ended, NEW rest, DisWrite(step, phase),
             Then(dis) = [claim |-> c, todo |-> rest],
             \/ phase = "Draining" /\ rest = <<"destroy", "end", "keys">>
             \/ phase = "Terminated" /\ rest = <<"keys">>
      PROVE  IInv'
  <2>1. UNCHANGED <<cache, instance, registered, rec, hurt>>
    BY <1>6 DEF DisWrite, gpuAPI
  <2>2. CASE /\ UpdateOK("dis", c, [claim[c] EXCEPT !.phase = phase], phase = "Draining")
             /\ dis' = Then(dis)
    <3> DEFINE r == [claim[c] EXCEPT !.phase = phase]
               S == IF phase = "Draining" THEN {"dis"} ELSE {}
    <3>1. /\ claim' = [claim EXCEPT ![c] = r] /\ upToDate' = [upToDate EXCEPT ![c] = S]
          /\ r \in Claim /\ r.phase = phase /\ r.mark = claim[c].mark
      BY <1>2, <2>2, WrittenTyped DEF UpdateOK, Claim, Ended, Phases
    <3>2. claim'[c] = r /\ upToDate'[c] = S /\ claim'[c].phase \in Ended
      BY <1>2, <3>1 DEF IInv, TypeOK
    <3>3. Forward(c)
      BY <3>1, <3>2 DEF Forward, Ended, Started
    <3>4. S \in SUBSET {"dis", "rec"} /\ "rec" \notin S
      OBVIOUS
    <3>5. "dis" \in S => dis'.claim = c /\ dis'.todo \notin {<<>>, <<"keys">>}
      <4>1. /\ <<"destroy", "end", "keys">> # <<>> /\ <<"destroy", "end", "keys">> # <<"keys">>
        OBVIOUS
      <4> QED  BY <1>6, <2>2, <4>1
    <3> HIDE DEF r, S
    <3>6. /\ \A d \in Claims \ {c} : claim'[d] = claim[d] /\ upToDate'[d] = upToDate[d]
          /\ CopyFacts' /\ ReadyFacts' /\ DrainsOnlyAfterReady'
      BY <1>2, <2>1, <3>1, <3>2, <3>3, <3>4, WriteKept DEF Ended
    <3>7. RecFacts' /\ HolderFacts'
      BY <1>2, <2>1, <3>1, <3>2, <3>4, <3>5, <3>6, DisStepKeeps DEF Ended
    <3>8. DisFacts'
      BY <1>6, <2>2, <3>2, DisDraining
    <3> QED  BY <1>1, <3>6, <3>7, <3>8 DEF IInv
  <2>3. CASE UpdateErr("dis", c) /\ dis' = NoWork
    <3>1. /\ UNCHANGED claim /\ Forward(c)
          /\ \A d \in Claims : upToDate'[d] = IF d = c THEN upToDate[d] \ {"dis"} ELSE upToDate[d]
          /\ CopyFacts' /\ ReadyFacts' /\ DrainsOnlyAfterReady'
      BY <1>2, <2>1, <2>3, ErrKept
    <3>2. RecFacts' /\ HolderFacts'
      BY <1>2, <2>1, <3>1, DisStepKeeps
    <3> QED  BY <1>1, <2>3, <3>1, <3>2, DisAtRest DEF IInv
  <2> QED  BY <1>6, <2>2, <2>3 DEF DisWrite
<1>7. CASE DisDrain
  <2>1. dis.todo = DestroyWorker /\ Then(dis) = [claim |-> c, todo |-> <<"destroy", "end", "keys">>]
    BY <1>2, <1>7, DisSteps DEF DisDrain, DisWrite
  <2> QED  BY <1>6, <1>7, <2>1 DEF DisDrain, Ended
<1>8. CASE DisEnd
  <2>1. dis.todo = <<"end", "keys">> /\ Then(dis) = [claim |-> c, todo |-> <<"keys">>]
    BY <1>2, <1>8, DisSteps DEF DisEnd, DisWrite
  <2> QED  BY <1>6, <1>8, <2>1 DEF DisEnd, Ended
<1>9. CASE DisDestroy
  <2>1. /\ dis.todo = <<"destroy", "end", "keys">> /\ dis' = [claim |-> c, todo |-> <<"end", "keys">>]
        /\ UNCHANGED <<claim, cache, upToDate, rec, hurt>>
    BY <1>2, <1>9, DisSteps DEF DisDestroy, kube
  <2>2. claim[c].phase \in Ended
    BY <2>1 DEF IInv, DisFacts
  <2>3. \A d \in Claims \ {c} : UNCHANGED <<instance[d], d \in registered>>
    BY <1>9 DEF DisDestroy, Stops, IInv, TypeOK
  <2>4. CopyFacts' /\ ReadyFacts' /\ DrainsOnlyAfterReady'
    BY <2>1, <2>2, <2>3 DEF IInv, CopyFacts, ReadyFacts, DrainsOnlyAfterReady, Ended
  <2>5. <<"end", "keys">> # <<>> /\ <<"end", "keys">> # <<"keys">>
    OBVIOUS
  <2>6. RecFacts' /\ HolderFacts'
    BY <1>2, <2>1, <2>2, <2>3, <2>5, DisStepKeeps
  <2>7. DisFacts'
    BY <2>1, <2>2, DisDraining
  <2> QED  BY <1>1, <2>4, <2>6, <2>7 DEF IInv
<1>10. CASE DisRemoveKeys
  <2>1. /\ dis.todo = <<"keys">> /\ dis' = NoWork
        /\ UNCHANGED <<claim, cache, upToDate, instance, registered, rec, hurt>>
    BY <1>2, <1>10, DisSteps DEF DisRemoveKeys, kube, gpuAPI
  <2>2. "dis" \notin upToDate[c]
    BY <1>2, <2>1 DEF IInv, HolderFacts
  <2>3. CopyFacts' /\ ReadyFacts' /\ DrainsOnlyAfterReady'
    BY <2>1 DEF IInv, CopyFacts, ReadyFacts, DrainsOnlyAfterReady
  <2>4. RecFacts' /\ HolderFacts'
    BY <1>2, <2>1, <2>2, DisStepKeeps
  <2> QED  BY <1>1, <2>1, <2>3, <2>4, DisAtRest DEF IInv
<1> QED  BY <1>4, <1>5, <1>7, <1>8, <1>9, <1>10 DEF DisStep

-----------------------------------------------------------------------------
(* The claim reconciler *)

\* A pass that goes on with steps which its facts allow.
LEMMA RecPassKeeps ==
    ASSUME IInv, NEW c \in Claims, NEW phase, NEW steps \in RecUpdates,
           RecDecide(c, phase, steps), hurt \subseteq hurt',
           steps = <<"ready">> /\ "cache" \in upToDate[c] =>
               /\ claim[c].phase = "Booting"
               /\ c \notin hurt' => instance[c] = "running" /\ c \in registered,
           steps # <<"ready">> /\ claim[c].phase = "Ready" => c \in hurt'
    PROVE  /\ CopyFacts' /\ HolderFacts' /\ ReadyFacts' /\ DisFacts'
           /\ RecFacts' /\ DrainsOnlyAfterReady'
<1>1. steps # <<>> /\ steps \in RecLists
  BY DEF RecUpdates
<1>2. /\ rec.todo = <<>> /\ rec' = [claim |-> c, todo |-> steps]
      /\ UNCHANGED <<claim, cache, instance, registered, dis>>
      /\ \A d \in Claims \ {c} : upToDate'[d] = upToDate[d]
      /\ upToDate'[c] = IF "cache" \in upToDate[c]
                        THEN upToDate[c] \cup {"rec"} ELSE upToDate[c]
  BY <1>1 DEF RecDecide, RecPass, Hold, Work, NoWork, gpuAPI, IInv, TypeOK
<1>3. \A d \in Claims : /\ "cache" \in upToDate'[d] <=> "cache" \in upToDate[d]
                        /\ "dis" \in upToDate'[d] <=> "dis" \in upToDate[d]
                        /\ "rec" \in upToDate'[d] => d = c /\ "cache" \in upToDate[c]
  BY <1>2 DEF IInv, HolderFacts, RecUpdates
<1>4. CopyFacts' /\ ReadyFacts' /\ DrainsOnlyAfterReady'
  BY <1>2, <1>3 DEF IInv, CopyFacts, ReadyFacts, DrainsOnlyAfterReady
<1>5. \A d \in Claims : Forward(d)
  BY <1>2 DEF Forward
<1>6. DisFacts' /\ \A d \in Claims : "dis" \in upToDate'[d] =>
                dis'.claim = d /\ dis'.todo \notin {<<>>, <<"keys">>}
  BY <1>2, <1>3, <1>5, DisKept
<1>7. HolderFacts'
  BY <1>2, <1>3, <1>6 DEF HolderFacts
<1>8. RecFacts'
  BY <1>1, <1>2, <1>3 DEF RecFacts
<1> QED  BY <1>4, <1>6, <1>7, <1>8

\* The lists of the passes.
LEMMA RecPasses ==
    /\ <<"ready">> \in RecUpdates
    /\ {<<"endOrRetry">>, <<"destroy", "endOrRetry">>, <<"end", "destroy", "keys">>,
        <<"end", "keys">>, <<"destroy", "end", "keys">>,
        <<"destroyOrRetry", "keys", "endOrRetry">>} \subseteq RecUpdates \ {<<"ready">>}
<1>1. /\ <<"ready">> \notin {<<>>, <<"keys">>, <<"destroy", "keys">>}
      /\ <<"endOrRetry">> \notin {<<>>, <<"keys">>, <<"destroy", "keys">>, <<"ready">>}
      /\ <<"destroy", "endOrRetry">> \notin {<<>>, <<"keys">>, <<"destroy", "keys">>, <<"ready">>}
      /\ <<"end", "destroy", "keys">> \notin {<<>>, <<"keys">>, <<"destroy", "keys">>, <<"ready">>}
      /\ <<"end", "keys">> \notin {<<>>, <<"keys">>, <<"destroy", "keys">>, <<"ready">>}
      /\ <<"destroy", "end", "keys">> \notin {<<>>, <<"keys">>, <<"destroy", "keys">>, <<"ready">>}
      /\ <<"destroyOrRetry", "keys", "endOrRetry">>
           \notin {<<>>, <<"keys">>, <<"destroy", "keys">>, <<"ready">>}
  OBVIOUS
<1> QED  BY <1>1, Zenon DEF RecUpdates, RecLists

LEMMA RecLookStep == ASSUME IInv, NEW c \in Claims, RecLook(c) PROVE IInv'
<1>1. TypeOK'
  BY RecLookTyped DEF IInv
<1>2. /\ claim[c].phase = "Ready" /\ c \notin hurt => instance[c] = "running" /\ c \in registered
      /\ "cache" \in upToDate[c] => cache[c] = claim[c]
      /\ cache[c].phase = "Draining" => claim[c].phase # "Ready"
  BY DEF IInv, ReadyFacts, CopyFacts, Ended
<1>3. /\ NodeRegistered(c) => c \in registered /\ hurt' = hurt
      /\ NodeNotRegistered(c) => hurt \subseteq hurt' /\ (c \notin registered \/ c \in hurt')
  BY DEF NodeRegistered, NodeNotRegistered
<1>4. ASSUME NEW phase, hurt \subseteq hurt',
             NEW steps \in {<<"endOrRetry">>, <<"destroy", "endOrRetry">>, <<"end", "destroy", "keys">>,
                            <<"end", "keys">>, <<"destroy", "end", "keys">>,
                            <<"destroyOrRetry", "keys", "endOrRetry">>},
             RecDecide(c, phase, steps), claim[c].phase = "Ready" => c \in hurt'
      PROVE  IInv'
  BY <1>1, <1>4, RecPasses, RecPassKeeps DEF IInv
<1>5. CASE RecBootFailed(c)
  BY <1>2, <1>4, <1>5 DEF RecBootFailed
<1>6. CASE RecAgentConnected(c)
  <2>1. /\ RecDecide(c, "Booting", <<"ready">>) /\ hurt' = hurt /\ cache[c].phase = "Booting"
        /\ instance[c] = "running" /\ c \in registered
    BY <1>3, <1>6 DEF RecAgentConnected, RecDecide, RecPass
  <2> QED  BY <1>1, <1>2, <2>1, RecPasses, RecPassKeeps DEF IInv
<1>7. CASE RecTimedOut(c)
  BY <1>2, <1>3, <1>4, <1>7 DEF RecTimedOut
<1>8. CASE RecReadyLost(c)
  BY <1>2, <1>3, <1>4, <1>8 DEF RecReadyLost
<1>9. CASE RecDraining(c)
  <2>1. cache[c].phase = "Draining"
    BY <1>9 DEF RecDraining, RecDecide, RecPass
  <2> QED  BY <1>2, <1>4, <1>9, <2>1 DEF RecDraining
<1>10. CASE RecConsolidate(c)
  <2> DEFINE drained == {d \in ToDrain(c) : "cache" \in upToDate[d]}
  <2>1. /\ UNCHANGED <<cache, instance, registered, dis, hurt>>
        /\ rec' = NoWork /\ rec = NoWork
        /\ IsBundle(c) /\ cache[c].phase = "Ready"
        /\ \A d \in Claims : claim'[d] = IF d \in drained THEN [claim[d] EXCEPT !.mark = TRUE]
                                                          ELSE claim[d]
        /\ \A d \in Claims : upToDate'[d] = IF d \in drained THEN {} ELSE upToDate[d]
    BY <1>10 DEF RecConsolidate, Consolidate, RecPass, gpuAPI, NodeRegistered, Work
  <2>2. \A d \in drained : /\ d \in Claims /\ ModelsOf[d] \subseteq ModelsOf[c]
                           /\ claim'[d].mark /\ claim'[d].phase = claim[d].phase
    <3> SUFFICES ASSUME NEW d \in drained
                 PROVE  /\ d \in Claims /\ ModelsOf[d] \subseteq ModelsOf[c]
                        /\ claim'[d].mark /\ claim'[d].phase = claim[d].phase
      OBVIOUS
    <3>1. d \in Claims /\ ModelsOf[d] \subseteq ModelsOf[c]
      BY DEF ToDrain
    <3>2. claim'[d] = [claim[d] EXCEPT !.mark = TRUE] /\ claim[d] \in Claim
      BY <2>1, <3>1 DEF IInv, TypeOK
    <3> QED  BY <3>1, <3>2 DEF Claim
  <2> HIDE DEF drained
  <2>3. \A d \in Claims : Forward(d) /\ claim'[d].phase = claim[d].phase
    BY <2>1, <2>2 DEF Forward
  <2>4. CopyFacts' /\ ReadyFacts'
    BY <2>1, <2>3 DEF IInv, CopyFacts, ReadyFacts, Forward
  <2>5. DisFacts' /\ \A d \in Claims : "dis" \in upToDate'[d] =>
                dis'.claim = d /\ dis'.todo \notin {<<>>, <<"keys">>}
    BY <2>1, <2>2, <2>3, DisKept
  <2>6. RecFacts' /\ \A d \in Claims : "rec" \in upToDate'[d] =>
                rec'.claim = d /\ rec'.todo \in RecUpdates
    BY <2>1, <2>3, RecKept
  <2>7. HolderFacts'
    BY <2>5, <2>6 DEF HolderFacts
  <2>8. DrainsOnlyAfterReady'
    <3> SUFFICES ASSUME NEW d \in Claims, claim'[d].mark
                 PROVE  \E b \in Claims : /\ IsBundle(b) /\ ModelsOf[d] \subseteq ModelsOf[b]
                                          /\ claim'[b].phase \notin {"Absent", "Booting"}
      BY DEF DrainsOnlyAfterReady, IsBundle
    <3>1. CASE d \in drained
      <4>1. claim'[c].phase \in Started
        BY <2>1, <2>3 DEF IInv, CopyFacts
      <4> QED  BY <2>1, <2>2, <3>1, <4>1 DEF Started
    <3>2. CASE d \notin drained
      BY <2>1, <2>3, <3>2 DEF IInv, DrainsOnlyAfterReady
    <3> QED  BY <3>1, <3>2
  <2> QED  BY <1>1, <2>4, <2>5, <2>6, <2>7, <2>8 DEF IInv
<1> QED  BY <1>5, <1>6, <1>7, <1>8, <1>9, <1>10 DEF RecLook

LEMMA RecStepStep == ASSUME IInv, RecStep PROVE IInv'
<1> DEFINE c == rec.claim
<1>1. TypeOK'
  BY RecStepTyped DEF IInv
<1>2. /\ c \in Claims /\ claim[c] \in Claim /\ rec.todo \in RecLists /\ rec.todo # <<>>
      /\ UNCHANGED <<cache, dis, hurt>>
  BY DEF IInv, TypeOK, Worker, RecFacts, RecStep, RecReady, RecEnd, RecDestroy, RecRemoveKeys,
         At, kube
\* The steps go on, or the worker is done with this claim.
<1>3. ASSUME \/ rec' = NoWork
             \/ rec' = Then(rec) /\ (claim[c].phase = "Ready" /\ rec.todo # <<"ready">> => c \in hurt)
                /\ (claim'[c].phase = "Ready" /\ Then(rec).todo # <<>> => claim[c].phase = "Ready")
      PROVE  RecFacts'
  <2>1. <<>> \in RecLists /\ <<>> # <<"ready">>
    BY DEF RecLists
  <2>2. NoWork.todo = <<>>
    BY DEF NoWork
  <2>3. /\ Then(rec).todo \in RecLists \ {<<"ready">>}
        /\ Then(rec).todo # <<>> => Then(rec).claim = c
        /\ rec.todo = <<"ready">> => Then(rec).todo = <<>>
    BY <1>2, <2>2, RecSteps
  <2> QED  BY <1>2, <1>3, <2>1, <2>2, <2>3 DEF RecFacts
<1>4. rec.todo # <<"ready">> /\ claim[c].phase = "Ready" => c \in hurt
  BY <1>2 DEF IInv, RecFacts
\* An update by the reconciler to a later phase.
<1>5. ASSUME NEW p \in {"Ready", "Terminated"}, UNCHANGED <<instance, registered>>,
             UpdateOK("rec", c, [claim[c] EXCEPT !.phase = p], FALSE),
             rec' = Then(rec), At(rec, "ready") <=> p = "Ready"
      PROVE  IInv'
    <3> DEFINE r == [claim[c] EXCEPT !.phase = p]
    <3>1. /\ claim' = [claim EXCEPT ![c] = r] /\ upToDate' = [upToDate EXCEPT ![c] = {}]
          /\ r \in Claim /\ r.phase = p /\ r.mark = claim[c].mark /\ "rec" \in upToDate[c]
      BY <1>2, <1>5, WrittenTyped DEF UpdateOK, Claim, Phases
    <3>2. claim'[c] = r /\ upToDate'[c] = {}
      BY <1>2, <3>1 DEF IInv, TypeOK
    <3>3. p = "Ready" => /\ rec.todo = <<"ready">> /\ Then(rec) = NoWork
                         /\ claim[c].phase = "Booting"
                         /\ c \notin hurt => instance[c] = "running" /\ c \in registered
      BY <1>2, <1>5, <3>1, RecSteps DEF IInv, RecFacts
    <3>4. Forward(c) /\ {} \in SUBSET {"dis", "rec"}
      BY <1>5, <3>1, <3>2, <3>3 DEF Forward, Started, Ended
    <3> HIDE DEF r
    <3>5. /\ \A d \in Claims \ {c} : claim'[d] = claim[d] /\ upToDate'[d] = upToDate[d]
          /\ \A d \in Claims : Forward(d)
          /\ CopyFacts' /\ ReadyFacts' /\ DrainsOnlyAfterReady'
      BY <1>2, <1>5, <3>1, <3>3, <3>4, WriteKept
    <3>6. DisFacts' /\ \A d \in Claims : "dis" \in upToDate'[d] =>
                dis'.claim = d /\ dis'.todo \notin {<<>>, <<"keys">>}
      BY <1>2, <1>5, <3>1, <3>2, <3>3, <3>5, DisKept
    <3>7. RecFacts'
      <4>1. p = "Ready" => Then(rec).todo = <<>>
        BY <3>3 DEF NoWork
      <4>2. claim'[c].phase = "Ready" => p = "Ready"
        BY <3>1, <3>2
      <4>3. claim[c].phase = "Ready" /\ rec.todo # <<"ready">> => c \in hurt
        BY <1>4
      <4> QED  BY <1>3, <1>5, <4>1, <4>2, <4>3
    <3>8. HolderFacts'
      BY <3>2, <3>5, <3>6 DEF IInv, HolderFacts
    <3> QED  BY <1>1, <3>5, <3>6, <3>7, <3>8 DEF IInv
\* One that fails, and the pass is over or goes on.
<1>6. ASSUME UpdateErr("rec", c), UNCHANGED <<instance, registered>>,
             rec' \in {NoWork, Then(rec)}
      PROVE  IInv'
    <3>1. /\ UNCHANGED claim
          /\ \A d \in Claims : upToDate'[d] = IF d = c THEN upToDate[d] \ {"rec"} ELSE upToDate[d]
          /\ \A d \in Claims : Forward(d)
          /\ CopyFacts' /\ ReadyFacts' /\ DrainsOnlyAfterReady'
      BY <1>2, <1>6, ErrKept
    <3>2. DisFacts' /\ \A d \in Claims : "dis" \in upToDate'[d] =>
                dis'.claim = d /\ dis'.todo \notin {<<>>, <<"keys">>}
      BY <1>2, <1>6, <3>1, DisKept
    <3>3. RecFacts'
      BY <1>3, <1>4, <1>6, <3>1
    <3>4. HolderFacts'
      BY <3>1, <3>2 DEF IInv, HolderFacts
    <3> QED  BY <1>1, <3>1, <3>2, <3>3, <3>4 DEF IInv
<1>7. CASE RecReady
  BY <1>2, <1>5, <1>6, <1>7 DEF RecReady, gpuAPI
<1>8. CASE RecEnd
  <2>1. ~At(rec, "ready")
    BY <1>8 DEF RecEnd, At
  <2> QED  BY <1>2, <1>5, <1>6, <1>8, <2>1 DEF RecEnd, gpuAPI
\* The other steps write no claim.
<1>9. ASSUME UNCHANGED claim, rec.todo # <<"ready">>,
             \A d \in Claims \ {c} : UNCHANGED <<upToDate[d], instance[d], d \in registered>>,
             instance'[c] = "running" => instance[c] = "running",
             \/ rec' = Then(rec) /\ UNCHANGED upToDate
                /\ (rec.todo \in RecUpdates => Then(rec).todo \in RecUpdates)
             \/ rec' = NoWork /\ upToDate'[c] = upToDate[c] \ {"rec"}
      PROVE  IInv'
    <3>1. \A d \in Claims : /\ Forward(d)
                            /\ "cache" \in upToDate'[d] <=> "cache" \in upToDate[d]
                            /\ "dis" \in upToDate'[d] <=> "dis" \in upToDate[d]
                            /\ "rec" \in upToDate'[d] => "rec" \in upToDate[d]
                            /\ instance'[d] = "running" => instance[d] = "running"
                            /\ d = c \/ UNCHANGED <<instance[d], d \in registered>>
      BY <1>9 DEF Forward
    <3>2. CopyFacts' /\ DrainsOnlyAfterReady'
      BY <1>2, <1>9, <3>1 DEF IInv, CopyFacts, DrainsOnlyAfterReady
    <3>3. ReadyFacts'
      BY <1>2, <1>4, <1>9, <3>1 DEF IInv, ReadyFacts
    <3>4. DisFacts' /\ \A d \in Claims : "dis" \in upToDate'[d] =>
                dis'.claim = d /\ dis'.todo \notin {<<>>, <<"keys">>}
      BY <1>2, <1>9, <3>1, DisKept
    <3>5. RecFacts'
      BY <1>3, <1>4, <1>9
    <3>6. \A d \in Claims : "rec" \in upToDate'[d] => rec'.claim = d /\ rec'.todo \in RecUpdates
      <4>1. \A d \in Claims : "rec" \in upToDate[d] => d = c /\ rec.todo \in RecUpdates
        BY DEF IInv, HolderFacts
      <4>2. Then(rec).todo \in RecUpdates => Then(rec).claim = c
        BY <1>2, RecSteps DEF RecUpdates
      <4> QED  BY <1>9, <3>1, <4>1, <4>2
    <3>7. HolderFacts'
      BY <3>4, <3>6 DEF HolderFacts
    <3> QED  BY <1>1, <3>2, <3>3, <3>4, <3>5, <3>7 DEF IInv
<1>10. At(rec, "destroy") \/ At(rec, "destroyOrRetry") \/ At(rec, "keys") =>
         /\ rec.todo # <<"ready">>
         /\ rec.todo \in RecUpdates => Then(rec).todo \in RecUpdates
  BY <1>2, RecSteps DEF At
<1>11. CASE RecDestroy
  <2>1. /\ UNCHANGED claim
        /\ \A d \in Claims \ {c} : UNCHANGED <<upToDate[d], instance[d], d \in registered>>
        /\ instance'[c] = "running" => instance[c] = "running"
        /\ \/ rec' = Then(rec) /\ UNCHANGED upToDate
           \/ rec' = NoWork /\ upToDate'[c] = upToDate[c] \ {"rec"}
        /\ At(rec, "destroy") \/ At(rec, "destroyOrRetry")
    BY <1>2, <1>11 DEF RecDestroy, Stops, IInv, TypeOK
  <2> QED  BY <1>9, <1>10, <2>1
<1>12. CASE RecRemoveKeys
  BY <1>9, <1>10, <1>12 DEF RecRemoveKeys, kube, gpuAPI
<1> QED  BY <1>7, <1>8, <1>11, <1>12 DEF RecStep

-----------------------------------------------------------------------------
(* The interruption controller, and the whole *)

LEMMA SweepStep == ASSUME IInv, NEW c \in Claims, SweepEnd(c) PROVE IInv'
<1>1. TypeOK'
  BY SweepTyped DEF IInv
<1>2. /\ UNCHANGED <<cache, instance, registered, dis, rec, hurt>>
      /\ claim[c] \in Claim
  BY DEF SweepEnd, gpuAPI, IInv, TypeOK
<1>3. CASE UpdateOK("cache", c, [claim[c] EXCEPT !.phase = "Terminated"], FALSE)
    <3> DEFINE r == [claim[c] EXCEPT !.phase = "Terminated"]
    <3>1. /\ claim' = [claim EXCEPT ![c] = r] /\ upToDate' = [upToDate EXCEPT ![c] = {}]
          /\ r \in Claim /\ r.phase = "Terminated" /\ r.mark = claim[c].mark
      BY <1>2, <1>3, WrittenTyped DEF UpdateOK, Claim, Phases
    <3>2. claim'[c] = r /\ upToDate'[c] = {}
      BY <3>1 DEF IInv, TypeOK
    <3>3. Forward(c) /\ {} \in SUBSET {"dis", "rec"}
      BY <3>1, <3>2 DEF Forward, Started, Ended
    <3> HIDE DEF r
    <3>4. /\ \A d \in Claims \ {c} : claim'[d] = claim[d] /\ upToDate'[d] = upToDate[d]
          /\ \A d \in Claims : Forward(d)
          /\ CopyFacts' /\ ReadyFacts' /\ DrainsOnlyAfterReady'
      BY <1>2, <3>1, <3>3, WriteKept
    <3>5. DisFacts' /\ \A d \in Claims : "dis" \in upToDate'[d] =>
                dis'.claim = d /\ dis'.todo \notin {<<>>, <<"keys">>}
      BY <1>2, <3>1, <3>2, <3>4, DisKept
    <3>6. RecFacts' /\ \A d \in Claims : "rec" \in upToDate'[d] =>
                rec'.claim = d /\ rec'.todo \in RecUpdates
      BY <1>2, <3>1, <3>2, <3>4, RecKept
    <3>7. HolderFacts'
      BY <3>5, <3>6 DEF HolderFacts
    <3> QED  BY <1>1, <3>4, <3>5, <3>6, <3>7 DEF IInv
<1>4. CASE UNCHANGED <<claim, upToDate, faults>>
  <2>1. CopyFacts' /\ HolderFacts' /\ ReadyFacts' /\ DrainsOnlyAfterReady'
    BY <1>2, <1>4 DEF IInv, CopyFacts, HolderFacts, ReadyFacts,
       DrainsOnlyAfterReady
  <2>2. DisFacts' /\ RecFacts'
    BY <1>2, <1>4 DEF IInv, DisFacts, RecFacts, MayDrain
  <2> QED  BY <1>1, <2>1, <2>2 DEF IInv
<1> QED  BY <1>3, <1>4 DEF SweepEnd

LEMMA StutterStep == ASSUME IInv, UNCHANGED vars PROVE IInv'
<1>1. UNCHANGED <<claim, cache, upToDate, instance, registered, dis, rec, hurt>>
  BY DEF vars, kube, gpuAPI, workers
<1>2. TypeOK'
  BY StepTyped DEF IInv
<1>3. CopyFacts' /\ HolderFacts' /\ ReadyFacts' /\ DrainsOnlyAfterReady'
  BY <1>1 DEF IInv, CopyFacts, HolderFacts, ReadyFacts, DrainsOnlyAfterReady
<1>4. DisFacts' /\ RecFacts'
  BY <1>1 DEF IInv, DisFacts, RecFacts, MayDrain
<1> QED  BY <1>2, <1>3, <1>4 DEF IInv

LEMMA StepFacts == IInv /\ [Next]_vars => IInv'
<1> SUFFICES ASSUME IInv, [Next]_vars PROVE IInv'
  OBVIOUS
<1>1. (\E c \in Claims : c \in Claims) /\ (\E m \in Models : m \in Models)
  BY ConstantsAssumption
<1>2. CASE Next
  BY <1>1, <1>2, ProvidersStep, WatchStep, CreateStep, CrashStep, KeysStep, DisDecideStep,
     DisStepStep, RecLookStep, RecStepStep, SweepStep DEF Next
<1> QED  BY <1>2, StutterStep

\* The facts hold throughout.
THEOREM Invariance == Spec => []IInv
<1> QED  BY InitFacts, StepFacts, PTL DEF Spec

-----------------------------------------------------------------------------
(* The properties *)

\* DrainsOnlyAfterReady: only a bundle that was Ready marks the claims it
\* replaces (triggerConsolidationDrain), old copies or not.
THEOREM MarkedByReadyBundle == Spec => []DrainsOnlyAfterReady
<1>1. IInv => DrainsOnlyAfterReady
  BY DEF IInv
<1> QED  BY <1>1, Invariance, PTL

\* The one step that drains a Ready claim, and the only one to give a claim up
\* that is not hurt, is a drain that the disruption controller decided on with
\* good reason.
LEMMA GivenUp ==
    ASSUME IInv, Next, NEW c \in Claims,
           claim[c].phase = "Ready", claim'[c].phase # "Ready",
           c \notin hurt \/ claim'[c].phase = "Draining"
    PROVE  MayDrain(c)
<1>1. claim \in [Claims -> Claim] /\ dis.claim \in Claims /\ rec.claim \in Claims
      /\ dis.todo \in DisLists
  BY DEF IInv, TypeOK, Worker, DisFacts
<1>2. claim' # claim
  OBVIOUS
<1>3. ASSUME NEW d \in Claims, NEW who, NEW r, NEW again, r.phase = claim[d].phase,
             UpdateOK(who, d, r, again)
      PROVE  FALSE
  BY <1>1, <1>3 DEF UpdateOK
<1>4. ASSUME NEW d \in Claims, NEW who, NEW r, NEW again, UpdateOK(who, d, r, again)
      PROVE  d = c /\ who \in upToDate[c]
  BY <1>1, <1>4 DEF UpdateOK
<1>5. ASSUME NEW d \in Claims, \/ CreateClaim(d) \/ RecConsolidate(d)
      PROVE  FALSE
  BY <1>1, <1>5 DEF CreateClaim, RecConsolidate, Consolidate, Claim
<1>6. ASSUME NEW d \in Claims, \/ WatchDeliver(d) \/ AgentUp(d) \/ AgentDown(d)
                               \/ InstanceLost(d)
      PROVE  FALSE
  BY <1>2, <1>6 DEF WatchDeliver, AgentUp, AgentDown, InstanceLost, kube
<1>7. ASSUME NEW d \in Claims, DisDecide(d)
      PROVE  FALSE
  BY <1>2, <1>7 DEF DisDecide, DisInstanceStopped, DisKeep, DisDrainMarked, DisBecomesIdle,
         DisDestroysIdle, DisIdle, DisLook, DisPass
<1>8. ASSUME NEW d \in Claims, \/ RecBootFailed(d) \/ RecAgentConnected(d) \/ RecTimedOut(d)
                               \/ RecReadyLost(d) \/ RecDraining(d)
      PROVE  FALSE
  BY <1>2, <1>8 DEF RecBootFailed, RecAgentConnected, RecTimedOut, RecReadyLost, RecDraining,
         RecDecide
<1>9. ASSUME NEW d \in Claims, SweepEnd(d)
      PROVE  FALSE
  <2>1. instance[d] = "stopped"
        /\ UpdateOK("cache", d, [claim[d] EXCEPT !.phase = "Terminated"], FALSE)
    BY <1>2, <1>9 DEF SweepEnd
  <2>2. d = c /\ claim'[c].phase = "Terminated"
    BY <1>1, <1>4, <2>1 DEF UpdateOK, Claim
  <2> QED  BY <2>1, <2>2 DEF IInv, ReadyFacts
<1>10. ASSUME NEW m \in Models, Requests(m)
      PROVE  FALSE
  BY <1>2, <1>10 DEF Requests, kube
<1>11. ~SweepRemoveKey /\ ~Crash /\ ~DisDestroy /\ ~DisRemoveKeys /\ ~RecDestroy /\ ~RecRemoveKeys
  BY <1>2 DEF SweepRemoveKey, Crash, DisDestroy, DisRemoveKeys, RecDestroy, RecRemoveKeys, kube
<1>12. ~DisSetIdle /\ ~DisClearIdle
  <2>1. /\ [claim[dis.claim] EXCEPT !.idle = TRUE].phase = claim[dis.claim].phase
        /\ [claim[dis.claim] EXCEPT !.idle = FALSE].phase = claim[dis.claim].phase
    BY <1>1 DEF Claim
  <2> QED  BY <1>1, <1>2, <1>3, <2>1 DEF DisSetIdle, DisClearIdle, UpdateErr
<1>13. ~DisEnd
  <2> SUFFICES ASSUME DisEnd PROVE FALSE
    OBVIOUS
  <2>1. UpdateOK("dis", dis.claim, [claim[dis.claim] EXCEPT !.phase = "Terminated"], FALSE)
        /\ At(dis, "end")
    BY <1>2 DEF DisEnd, DisWrite, UpdateErr
  <2>2. dis.claim = c /\ dis.todo = <<"end", "keys">>
    BY <1>1, <1>4, <2>1, DisSteps
  <2> QED  BY <2>2 DEF IInv, DisFacts, Ended
<1>14. ~RecReady
  <2>1. claim[rec.claim] \in Claim
    BY <1>1
  <2>2. \A d \in Claims : claim' = [claim EXCEPT ![d] = [claim[d] EXCEPT !.phase = "Ready"]]
          => claim'[c].phase = "Ready"
    BY <1>1 DEF Claim
  <2> QED  BY <1>1, <1>2, <2>2 DEF RecReady, UpdateOK, UpdateErr
<1>15. ~RecEnd
  <2> SUFFICES ASSUME RecEnd PROVE FALSE
    OBVIOUS
  <2>1. UpdateOK("rec", rec.claim, [claim[rec.claim] EXCEPT !.phase = "Terminated"], FALSE)
        /\ (At(rec, "end") \/ At(rec, "endOrRetry"))
    BY <1>2 DEF RecEnd, UpdateErr
  <2>2. /\ rec.claim = c /\ rec.todo # <<>> /\ rec.todo \in RecLists
        /\ claim'[c].phase = "Terminated"
    BY <1>1, <1>4, <2>1 DEF At, IInv, RecFacts, UpdateOK, Claim
  <2>3. rec.todo # <<"ready">>
    BY <2>1, <2>2, RecSteps DEF At
  <2> QED  BY <2>2, <2>3 DEF IInv, RecFacts
<1>16. CASE DisDrain
  <2>1. UpdateOK("dis", dis.claim, [claim[dis.claim] EXCEPT !.phase = "Draining"], TRUE)
        /\ At(dis, "drain")
    BY <1>2, <1>16 DEF DisDrain, DisWrite, UpdateErr
  <2>2. dis.claim = c /\ "dis" \in upToDate[c] /\ dis.todo = DestroyWorker
    BY <1>1, <1>4, <2>1, DisSteps
  <2> QED  BY <2>2 DEF IInv, DisFacts
<1> QED  BY <1>5, <1>6, <1>7, <1>8, <1>9, <1>10, <1>11, <1>12, <1>13, <1>14, <1>15, <1>16
         DEF Next, RecLook, DisStep, RecStep

\* AlwaysActiveKept: no controller gives up a Ready claim with an always-active
\* model, unless its instance or tunnel was lost or looked lost or a read of the
\* flags failed.
THEOREM AlwaysActiveNeverDestroyed == Spec => AlwaysActiveKept
<1>1. IInv /\ [Next]_vars =>
        \A c \in Claims : /\ claim[c].phase = "Ready"
                          /\ ServesAlwaysActive(c)
                          /\ c \notin hurt
                          => claim'[c].phase = "Ready"
  <2> SUFFICES ASSUME IInv, [Next]_vars, NEW c \in Claims, claim[c].phase = "Ready",
                      ServesAlwaysActive(c), c \notin hurt
               PROVE  claim'[c].phase = "Ready"
    OBVIOUS
  <2>1. CASE UNCHANGED vars
    BY <2>1 DEF vars, kube
  <2>2. CASE Next
    BY <2>2, GivenUp DEF MayDrain
  <2> QED  BY <2>1, <2>2
<1> QED  BY <1>1, Invariance, PTL DEF Spec, AlwaysActiveKept

\* DrainedOnlyWhileIdle: a drain of a running node for idleness takes effect
\* only while idleSince is recorded, whatever was lost or failed.
THEOREM ClearedNodesStay == Spec => DrainedOnlyWhileIdle
<1>1. IInv /\ [Next]_vars =>
        \A c \in Claims : /\ claim[c].phase = "Ready" /\ claim'[c].phase = "Draining"
                          /\ ~claim[c].mark
                          /\ instance[c] = "running"
                          => claim[c].idle
  <2> SUFFICES ASSUME IInv, [Next]_vars, NEW c \in Claims, claim[c].phase = "Ready",
                      claim'[c].phase = "Draining", ~claim[c].mark, instance[c] = "running"
               PROVE  claim[c].idle
    OBVIOUS
  <2>1. CASE UNCHANGED vars
    BY <2>1 DEF vars, kube
  <2>2. CASE Next
    BY <2>2, GivenUp DEF MayDrain
  <2> QED  BY <2>1, <2>2
<1> QED  BY <1>1, Invariance, PTL DEF Spec, DrainedOnlyWhileIdle
=============================================================================
