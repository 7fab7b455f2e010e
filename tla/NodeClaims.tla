----------------------------- MODULE NodeClaims -----------------------------
(***************************************************************************)
(* What ProvisionTrigger and ProvisioningController share: the             *)
(* GPUNodeClaims on the API server, the informer cache both count them in, *)
(* which lags behind, and the requests of each model in Dragonfly.         *)
(*                                                                         *)
(* Simplifications:                                                        *)
(*  1. The requests of a model are "none", "queued" (chatqueue:{model}) or *)
(*     "active" (only demand:{model} is positive).                         *)
(*  2. There is one pool and one node type, the only one the API admits.   *)
(*  3. A claim is Live (created, not yet Ready), Ready, Draining or        *)
(*     Terminated.  What moves it is in ClaimLifecycle and ModelServing.   *)
(*  4. The API server refuses claims beyond MaxClaims.                     *)
(***************************************************************************)
EXTENDS Integers, FiniteSets, Sums

CONSTANTS
    Models,       \* configured models
    VRAM,         \* vramRequired of each model, in GB
    AlwaysActive, \* models configured with alwaysActive
    Pods,         \* GPU pods
    MaxNodes,     \* scaling.maxNodes of the pool
    NoModel,      \* "no model id"
    MaxClaims,    \* bound: claims that may ever be created
    MaxEvents     \* bound: weighted sum of what happens to the controllers

ASSUME NodeClaimsAssumption ==
    /\ VRAM \in [Models -> Nat]
    /\ AlwaysActive \subseteq Models
    /\ NoModel \notin Models
    /\ IsFiniteSet(Models) /\ IsFiniteSet(Pods)
    /\ MaxNodes \in Nat /\ MaxClaims \in Nat
    /\ MaxEvents \in Nat

VARIABLES
    claim,    \* the claims on the API server
    cache,    \* the informer cache's copies
    demand,   \* requests of each model
    events    \* weighted sum of what has happened so far

claims == <<claim, cache>>
world  == <<claim, cache, demand, events>>

Ids    == 1..MaxClaims
Phases == {"Absent", "Live", "Ready", "Draining", "Terminated"}

\* vram, gpus and price are what the claim asks for; bundle says that its
\* ModelIDs list has two entries or more.
Claim == [phase : Phases, primary : Models \cup {NoModel}, models : SUBSET Models,
          bundle : BOOLEAN, pods : SUBSET Pods, gpus : Nat, vram : Nat, price : Nat]
NoClaim == [phase |-> "Absent", primary |-> NoModel, models |-> {}, bundle |-> FALSE,
            pods |-> {}, gpus |-> 0, vram |-> 0, price |-> 0]

Covers(c, m)   == c.phase \in {"Live", "Ready"} /\ m \in c.models
Occupied(c)    == c.phase \in {"Live", "Ready", "Draining"}
CountActive(m) == Cardinality({i \in Ids : Covers(cache[i], m)})
CountNodes     == Cardinality({i \in Ids : Occupied(cache[i])})
\* What GetAllDemands answers with a positive count.
Wanted == {m \in Models : demand[m] # "none"}

\* A request for a model counts three; a pod, a failed call, a restart and the
\* end of a node count two.
Event(weight) == events + weight <= MaxEvents /\ events' = events + weight
Fault == Event(2)

RoomForClaim == \E i \in Ids : claim[i].phase = "Absent"
NextId(i) == claim[i].phase = "Absent" /\ \A j \in Ids : j < i => claim[j].phase # "Absent"
Create(new) == \E i \in Ids : NextId(i) /\ claim' = [claim EXCEPT ![i] = new]
\* The create call fails.
Refused == Fault \/ (~RoomForClaim /\ UNCHANGED events)

NodeClaimsInit ==
    /\ claim = [i \in Ids |-> NoClaim]
    /\ cache = claim
    /\ demand = [m \in Models |-> "none"]
    /\ events = 0

\* The watch brings the cache up to date.
WatchDeliver ==
    /\ cache # claim
    /\ cache' = claim
    /\ UNCHANGED <<claim, demand, events>>

SetPhase(i, from, to) ==
    /\ claim[i].phase = from
    /\ claim' = [claim EXCEPT ![i].phase = to]
    /\ UNCHANGED <<cache, demand>>

ClaimReady(i)  == SetPhase(i, "Live", "Ready") /\ UNCHANGED events
ClaimDrains(i) == SetPhase(i, "Ready", "Draining") /\ Event(2)
ClaimEnds(i) ==
    \/ (SetPhase(i, "Live", "Terminated") \/ SetPhase(i, "Ready", "Terminated")) /\ Event(2)
    \/ SetPhase(i, "Draining", "Terminated") /\ UNCHANGED events

\* The gateway forwards the queued requests to a node that serves the model.
Forward(m) ==
    /\ demand[m] = "queued"
    /\ \E i \in Ids : claim[i].phase = "Ready" /\ m \in claim[i].models
    /\ demand' = [demand EXCEPT ![m] = "active"]
    /\ UNCHANGED <<claims, events>>

\* Requests are answered, or time out.
Answered(m) ==
    /\ demand[m] # "none"
    /\ demand' = [demand EXCEPT ![m] = "none"]
    /\ UNCHANGED <<claims, events>>

NodeClaimsTypeOK ==
    /\ claim \in [Ids -> Claim]
    /\ cache \in [Ids -> Claim]
    /\ demand \in [Models -> {"none", "queued", "active"}]
    /\ events \in 0..MaxEvents

=============================================================================
