-------------------------- MODULE ProvisionTrigger --------------------------
(***************************************************************************)
(* internal/controller/provisiontrigger.go: one goroutine that serves      *)
(* provision messages, scans the queues every minute and consolidates      *)
(* nodes, in the order of Start and reconcileQueues.                       *)
(*                                                                         *)
(* Simplifications:                                                        *)
(*  1. handleTrigger lists the claims and creates one in a single step: a  *)
(*     claim that another writer creates in between is a claim the cache   *)
(*     does not show yet.                                                  *)
(*  2. The provision channel is a set: the order of messages and their     *)
(*     repetition make no difference to what is done with them.            *)
(*  3. Any message may fall in the ten seconds of the debounce and be       *)
(*     dropped: recentlyHandled is left out.                               *)
(*  4. A pair of claims whose configuration checkConsolidation cannot read *)
(*     is a Consolidate whose create is refused.                           *)
(***************************************************************************)
EXTENDS NodeClaims

CONSTANTS
    MaxReplicas, \* maxReplicas of each model; less than 1 means 1
    MaxBundle    \* maxBundleVRAMGB

ASSUME TriggerAssumption == MaxReplicas \in [Models -> Nat] /\ MaxBundle \in Nat

VARIABLES
    inbox,      \* models with a provision message in the channel
    subscribed, \* the start-up scan is over and the channel is read
    scan        \* the scan in progress

trigger == <<inbox, subscribed, scan>>

\* left: models still to look at, without those that handled has; merge: the
\* pair of claims to consolidate, found in the list the scan began with.
Scan   == [on : BOOLEAN, left : SUBSET Models, merge : SUBSET Ids]
NoScan == [on |-> FALSE, left |-> {}, merge |-> {}]

TriggerInit ==
    /\ inbox = {}
    /\ subscribed = FALSE
    /\ scan = NoScan

TotalVRAM(S) == SumOver(VRAM, S)

-----------------------------------------------------------------------------
(* handleTrigger and aggregateModelsForClaim *)

Replicas(m) == IF MaxReplicas[m] < 1 THEN 1 ELSE MaxReplicas[m]

\* chatqueue:{model} is not empty.
Queued(m) == demand[m] = "queued"

\* Mutant: queued requests are required of the first replica, too.
NothingQueued(m) == CountActive(m) >= Replicas(m) \/ ~Queued(m)

NothingToDo(m) ==
    \/ CountActive(m) >= Replicas(m)
    \/ CountActive(m) > 0 /\ ~Queued(m)

\* Models that may share the node of m.
Eligible(m) == {o \in Wanted \ {m} : CountActive(o) = 0}

\* The greedy pass over the models of E, in any order, stops at a set that no
\* other model of E still fits.
Bundles(m, E) ==
    LET Fits(S) == TotalVRAM(S \cup {m}) <= MaxBundle
    IN  {S \in SUBSET E : (S = {} \/ Fits(S)) /\ \A o \in E \ S : ~Fits(S \cup {o})}

\* An unread demand or configuration takes a model out of the bundle.
Readable(m, E) == \/ E = Eligible(m) /\ UNCHANGED events
                  \/ E \in SUBSET Eligible(m) /\ E # Eligible(m) /\ Fault

ModelClaim(m, models, bundle, vram) ==
    [NoClaim EXCEPT !.phase = "Live", !.primary = m, !.models = models,
                    !.bundle = bundle, !.vram = vram]

TriggerCreates(m) ==
    /\ ~NothingToDo(m)
    /\ CountNodes < MaxNodes
    /\ \E E \in SUBSET Models : \E S \in Bundles(m, E) :
         /\ Readable(m, E)
         /\ Create(ModelClaim(m, S \cup {m}, S # {}, TotalVRAM(S \cup {m})))

\* handleTrigger returns nil.
TriggerOK(m) ==
    \/ NothingToDo(m) /\ UNCHANGED <<claim, events>>
    \/ TriggerCreates(m)

\* handleTrigger returns an error.
TriggerFails(m) ==
    /\ UNCHANGED claim
    /\ \/ Fault
       \/ /\ ~NothingToDo(m)
          /\ CountNodes >= MaxNodes \/ ~RoomForClaim
          /\ UNCHANGED events

-----------------------------------------------------------------------------
(* reconcileQueues and checkConsolidation *)

\* Ready claims of one model in the list, which two of them may be merged
\* (of one model even, if it has two nodes).
Single(i) == cache[i].phase = "Ready" /\ Cardinality(cache[i].models) = 1 /\ ~cache[i].bundle
BinPackedClaimExists(S) ==
    \E i \in Ids : cache[i].phase \in {"Live", "Ready"} /\ cache[i].bundle
                   /\ S \subseteq cache[i].models
MergedVRAM(i, j) == VRAM[cache[i].primary] + VRAM[cache[j].primary]
Mergeable == {p \in SUBSET Ids : \E i, j \in p :
                /\ i # j /\ p = {i, j}
                /\ Single(i) /\ Single(j)
                /\ MergedVRAM(i, j) <= MaxBundle
                /\ ~BinPackedClaimExists({cache[i].primary, cache[j].primary})}

\* The scan reads the demands and lists the claims.
BeginScan ==
    \E p \in IF Mergeable = {} THEN {{}} ELSE Mergeable :
      scan' = [on |-> TRUE, left |-> Wanted, merge |-> p]

\* The channel of provision messages is opened.
Subscribe == subscribed' = TRUE

Idle == subscribed /\ ~scan.on

\* Start begins with a scan, which may fail to read.
StartUp ==
    /\ ~subscribed /\ ~scan.on
    /\ \/ BeginScan /\ UNCHANGED <<events, subscribed>>
       \/ Fault /\ Subscribe /\ UNCHANGED scan
    /\ UNCHANGED <<claims, demand, inbox>>

Tick ==
    /\ Idle
    /\ \/ (Wanted # {} \/ Mergeable # {}) /\ BeginScan /\ UNCHANGED events
       \/ Fault /\ UNCHANGED scan
    /\ UNCHANGED <<claims, demand, inbox, subscribed>>

\* A model that some claim of the second list serves has been handled; the watch
\* may have brought the cache up to date before.
Unserved(c) == {m \in Models : \A i \in Ids : ~Covers(c[i], m)}

ScanModel(m) ==
    /\ scan.on /\ m \in scan.left
    /\ \/ /\ TriggerOK(m)
          /\ cache' \in {cache, claim'}
          /\ scan' = [scan EXCEPT !.left = (@ \ {m}) \cap Unserved(cache')]
       \/ /\ TriggerFails(m)
          /\ scan' = [scan EXCEPT !.left = @ \ {m}]
          /\ UNCHANGED cache
    /\ UNCHANGED <<demand, inbox, subscribed>>

\* createBinPackedClaim, which checks no limit, ends the scan.
Consolidate ==
    \E i, j \in scan.merge :
      /\ i # j
      /\ \/ /\ Create(ModelClaim(claim[i].primary, {claim[i].primary, claim[j].primary},
                        TRUE, VRAM[claim[i].primary] + VRAM[claim[j].primary]))
            /\ UNCHANGED events
         \/ Refused /\ UNCHANGED claim

ScanEnds ==
    /\ scan.on /\ scan.left = {}
    /\ \/ scan.merge = {} /\ UNCHANGED <<claim, events>>
       \/ Consolidate
    /\ scan' = NoScan
    /\ Subscribe
    /\ UNCHANGED <<cache, demand, inbox>>

-----------------------------------------------------------------------------
(* Messages *)

\* Redis delivers a message to a subscriber at most once.
Publish(m) == inbox' = inbox \/ (subscribed /\ inbox' = inbox \cup {m})

\* A request for a model arrives at the gateway, which asks for a node.
RequestArrives(m) ==
    /\ Event(3)
    /\ demand[m] # "queued"
    /\ demand' = [demand EXCEPT ![m] = "queued"]
    /\ Publish(m)
    /\ UNCHANGED <<claims, subscribed, scan>>

\* A claim ends; retriggerIfDemandExists asks for another node for one of its
\* models that has requests, maybeAutoReplace for its primary model if that has
\* requests or is always active, and destroyWorker for none.
ToReplace(c) == (c.models \cap Wanted) \cup ({c.primary} \cap AlwaysActive)
Retriggers(i) ==
    /\ ClaimEnds(i)
    /\ UNCHANGED inbox \/ \E m \in ToReplace(claim[i]) : Publish(m)
    /\ UNCHANGED <<subscribed, scan>>

\* A message is dropped if one for the model was handled ten seconds ago.
HandleMessage(m) ==
    /\ Idle /\ m \in inbox
    /\ inbox' = inbox \ {m}
    /\ \/ UNCHANGED <<claim, events>>
       \/ TriggerOK(m)
       \/ TriggerFails(m)
    /\ UNCHANGED <<cache, demand, subscribed, scan>>

TriggerStep ==
    \/ StartUp \/ Tick \/ ScanEnds
    \/ \E m \in Models : ScanModel(m) \/ HandleMessage(m)

\* A new process starts with a fresh cache and has no subscription.
TriggerRestarts ==
    /\ inbox' = {}
    /\ subscribed' = FALSE
    /\ scan' = NoScan

TriggerTypeOK ==
    /\ inbox \subseteq Models
    /\ subscribed \in BOOLEAN
    /\ scan \in Scan

=============================================================================
