----------------------------- MODULE Coordinator -----------------------------
(***************************************************************************)
(* ProvisionInstance of internal/coordinator/coordinator.go with the offer *)
(* cache (cache.go), the blacklist (blacklist.go) and the error categories *)
(* (errors.go). ClaimLifecycle has this call as CreateInstance,            *)
(* LoseResponse and ProvisionFailed; here it is opened up: up to           *)
(* MaxAttempts rounds of gathering offers, filtering them and trying them  *)
(* from the best, while the offers on sale change and cached answers and   *)
(* blacklist entries age.                                                  *)
(*                                                                         *)
(* One call runs at a time: its only caller is the claim reconciler, which *)
(* has one worker (SetupWithManager, MaxConcurrentReconciles is not set).  *)
(* The same worker calls BlacklistOffer, between two calls.                *)
(*                                                                         *)
(* Simplifications: one set of requirements, so one cache entry per        *)
(* provider; rate limiters only delay, and any call may take any time      *)
(* (Tick); cancellation of the context is the end of the process.          *)
(***************************************************************************)
EXTENDS Naturals

CONSTANTS
    Providers, Offers, Keys,
    Names,          \* provider names of the pool; none means all providers
    ProviderOf,     \* the provider of an offer
    KeyOf,          \* its blacklist key: provider and OfferID. The offers of
                    \* one instance type in several regions share it at Verda
    Rank,           \* position of an offer in the sort order; ties are free
    Eligible,       \* the offers that filterByRequirements keeps
    NoOffer,
    CacheTTL, BlacklistTTL, BrokenTTL,  \* 7 s, 60 s and 30 minutes
    MaxAttempts,                        \* 5
    SleepStep, MaxSleep                 \* 2 s and 10 s

ASSUME CoordinatorAssumption ==
    /\ Names \subseteq Providers
    /\ ProviderOf \in [Offers -> Providers]
    /\ KeyOf \in [Offers -> Keys]
    /\ Rank \in [Offers -> Nat]
    /\ Eligible \subseteq Offers
    /\ NoOffer \notin Offers
    /\ {CacheTTL, BlacklistTTL, BrokenTTL} \subseteq Nat \ {0}
    /\ BlacklistTTL <= BrokenTTL
    /\ MaxAttempts \in Nat \ {0}
    /\ SleepStep \in Nat /\ MaxSleep \in Nat

VARIABLES
    market,     \* the offers on sale
    cached,     \* OfferCache.entries: a provider's offers, and their time left
    blackLeft,  \* OfferBlacklist.entries: the time left of each key
    call,       \* the call in progress
    booting,    \* offers whose instance is bootstrapping
    broken,     \* history: time left of each BlacklistOffer
    blamed,     \* history: the offers that failed themselves, while blocked
    available,  \* history: offers on sale during the whole call, not blamed
                \* at its start, of a provider that answered every search
    tried       \* history: offers that this call tried

vars == <<market, cached, blackLeft, call, booting, broken, blamed, available,
          tried>>
blocks == <<blackLeft, broken, blamed>>
timers == <<cached, blocks>>
history == <<available, tried>>

Idle == [pc |-> "idle", attempt |-> 1, pending |-> {}, listed |-> {},
         offer |-> NoOffer]

TypeOK ==
    /\ market \subseteq Offers
    /\ cached \in [Providers -> [offers: SUBSET Offers, left: 0..CacheTTL]]
    /\ blackLeft \in [Keys -> 0..BrokenTTL]
    /\ call \in [pc: {"idle", "gather", "try", "create", "sleep", "failed"},
                 attempt: 1..MaxAttempts, pending: SUBSET Providers,
                 listed: SUBSET Offers, offer: Offers \cup {NoOffer}]
    /\ booting \subseteq Offers
    /\ broken \in [Keys -> 0..BrokenTTL]
    /\ blamed \subseteq Offers
    /\ available \subseteq Offers
    /\ tried \subseteq Offers

NoEntry == [offers |-> {}, left |-> 0]

Init ==
    /\ market \in SUBSET Offers
    /\ cached = [p \in Providers |-> NoEntry]
    /\ blackLeft = [k \in Keys |-> 0]
    /\ call = Idle
    /\ booting = {}
    /\ broken = [k \in Keys |-> 0]
    /\ blamed = {}
    /\ available = {}
    /\ tried = {}

-----------------------------------------------------------------------------
(* Time and the market *)

Less(n, d) == IF n > d THEN n - d ELSE 0

\* d units of time pass; an answer that has expired is not used again.
Elapse(d) ==
    /\ cached' = [p \in Providers |->
                    IF cached[p].left > d
                    THEN [cached[p] EXCEPT !.left = @ - d] ELSE NoEntry]
    /\ blackLeft' = [k \in Keys |-> Less(blackLeft[k], d)]
    /\ broken' = [k \in Keys |-> Less(broken[k], d)]
    /\ blamed' = {o \in blamed : blackLeft[KeyOf[o]] > d}

Tick == Elapse(1) /\ UNCHANGED <<market, call, booting, history>>

OfferComes(o) ==
    /\ o \notin market
    /\ market' = market \cup {o}
    /\ UNCHANGED <<timers, call, booting, history>>

OfferGoes(o) ==
    /\ o \in market
    /\ market' = market \ {o}
    /\ available' = available \ {o}
    /\ UNCHANGED <<timers, call, booting, tried>>

-----------------------------------------------------------------------------
(* ProvisionInstance *)

OffersOf(p) == {o \in Offers : ProviderOf[o] = p}
Asked == IF Names = {} THEN Providers ELSE Names
Blocked(o) == blackLeft[KeyOf[o]] > 0

Goto(pc) == call' = [call EXCEPT !.pc = pc]

\* Drop the cached answers of the providers that are named.
Invalidate ==
    cached' = [p \in Providers |-> IF p \in Names THEN NoEntry ELSE cached[p]]

\* After an attempt that failed: back off, or give up.
EndAttemptLate == Goto(IF call.attempt <= MaxAttempts THEN "sleep" ELSE "failed")
EndAttempt == Goto(IF call.attempt < MaxAttempts THEN "sleep" ELSE "failed")

EndCall == call' = Idle /\ available' = {} /\ tried' = {}

StartCall ==
    /\ call.pc = "idle"
    /\ call' = [Idle EXCEPT !.pc = "gather", !.pending = Asked]
    /\ available' = {o \in market \cap Eligible :
                        ProviderOf[o] \in Asked /\ o \notin blamed}
    /\ UNCHANGED <<market, timers, booting, tried>>

Heard(p, offers) ==
    call' = [call EXCEPT !.pending = @ \ {p}, !.listed = @ \cup offers]

\* gatherOffers, one goroutine per provider: the cache has the answer ...
AnswerFromCache(p) ==
    /\ call.pc = "gather" /\ p \in call.pending
    /\ cached[p].left > 0
    /\ Heard(p, cached[p].offers)
    /\ UNCHANGED <<market, timers, booting, history>>

\* ... or the provider is searched, and its answer cached; a failed search is
\* skipped.
Search(p) ==
    /\ call.pc = "gather" /\ p \in call.pending
    /\ cached[p].left = 0
    /\ \/ LET found == market \cap OffersOf(p) IN
            /\ Heard(p, found)
            /\ cached' = [cached EXCEPT ![p] = [offers |-> found,
                                                left |-> CacheTTL]]
            /\ UNCHANGED available
       \/ /\ Heard(p, {})
          /\ available' = available \ OffersOf(p)
          /\ UNCHANGED cached
    /\ UNCHANGED <<market, blocks, booting, tried>>

Gathered == call.pc = "gather" /\ call.pending = {}
Candidates == {o \in call.listed \cap Eligible : ~Blocked(o)}

\* Filter by requirements and blacklist.
SelectOffers ==
    /\ Gathered /\ Candidates # {}
    /\ call' = [call EXCEPT !.pc = "try", !.listed = Candidates]
    /\ UNCHANGED <<market, timers, booting, history>>

\* Mutant: search again without dropping the cached answers.
NoOffersKeepCache ==
    /\ Gathered /\ Candidates = {}
    /\ EndAttempt
    /\ UNCHANGED <<market, timers, booting, history>>

\* Nothing is left: drop the cached answers and retry, or give up.
NoOffers ==
    /\ Gathered /\ Candidates = {}
    /\ IF call.attempt < MaxAttempts THEN Invalidate ELSE UNCHANGED cached
    /\ EndAttempt
    /\ UNCHANGED <<market, blocks, booting, history>>

\* The best offer that is left: preferred GPU, fewer GPUs, lower price, better
\* reliability.
TryBest(o) ==
    /\ call.pc = "try" /\ o \in call.listed
    /\ \A u \in call.listed : Rank[o] <= Rank[u]
    /\ call' = [call EXCEPT !.pc = "create", !.offer = o,
                            !.listed = @ \ {o}]
    /\ tried' = tried \cup {o}
    /\ UNCHANGED <<market, timers, booting, available>>

\* CreateInstance succeeds.
Created ==
    /\ call.pc = "create" /\ call.offer \in market
    /\ EndCall
    /\ booting' = booting \cup {call.offer}
    /\ UNCHANGED <<market, timers>>

\* ErrorExpired and ErrorConflict: blacklist the offer and try the next.
Unavailable ==
    /\ call.pc = "create"
    /\ blackLeft' = [blackLeft EXCEPT ![KeyOf[call.offer]] = BlacklistTTL]
    /\ blamed' = blamed \cup {call.offer}
    /\ Goto("try")
    /\ UNCHANGED <<market, cached, broken, booting, history>>

\* Mutant: a transient error ends the attempt, as a rate limit does.
TransientEndsAttempt ==
    /\ call.pc = "create"
    /\ Invalidate /\ EndAttempt
    /\ UNCHANGED <<market, blocks, booting, history>>

\* ErrorTransient (the answer may also have been lost): try the next.
TransientError ==
    /\ call.pc = "create"
    /\ Goto("try")
    /\ UNCHANGED <<market, timers, booting, history>>

\* ErrorRateLimited: leave the other offers and back off.
RateLimited ==
    /\ call.pc = "create"
    /\ Invalidate /\ EndAttempt
    /\ available' = {}
    /\ UNCHANGED <<market, blocks, booting, tried>>

\* ErrorPermanent: give up.
PermanentError ==
    /\ call.pc = "create"
    /\ Goto("failed")
    /\ available' = {}
    /\ UNCHANGED <<market, timers, booting, tried>>

\* Every offer of this attempt failed.
AllTried ==
    /\ call.pc = "try" /\ call.listed = {}
    /\ Invalidate /\ EndAttempt
    /\ UNCHANGED <<market, blocks, booting, history>>

SleepTime ==
    IF call.attempt * SleepStep > MaxSleep THEN MaxSleep
    ELSE call.attempt * SleepStep

\* Mutant: a retry that is not counted.
SleepUncounted ==
    /\ call.pc = "sleep"
    /\ Elapse(SleepTime)
    /\ call' = [Idle EXCEPT !.pc = "gather", !.pending = Asked,
                            !.attempt = call.attempt]
    /\ UNCHANGED <<market, booting, history>>

Sleep ==
    /\ call.pc = "sleep"
    /\ Elapse(SleepTime)
    /\ call' = [Idle EXCEPT !.pc = "gather", !.pending = Asked,
                            !.attempt = call.attempt + 1]
    /\ UNCHANGED <<market, booting, history>>

\* handlePending goes back to Pending.
ReturnError ==
    /\ call.pc = "failed"
    /\ EndCall
    /\ UNCHANGED <<market, timers, booting>>

ProvisionInstance ==
    \/ \E p \in Providers : AnswerFromCache(p) \/ Search(p)
    \/ SelectOffers \/ NoOffers \/ AllTried \/ Sleep \/ ReturnError
    \/ \E o \in Offers : TryBest(o)
    \/ Created \/ Unavailable \/ TransientError \/ RateLimited
    \/ PermanentError

-----------------------------------------------------------------------------
(* The claim reconciler, between two calls *)

\* Mutant: blacklist it like an offer that is out of capacity.
BootFailedBriefly(o) ==
    /\ call.pc = "idle" /\ o \in booting
    /\ blackLeft' = [blackLeft EXCEPT ![KeyOf[o]] = BlacklistTTL]
    /\ broken' = [broken EXCEPT ![KeyOf[o]] = BrokenTTL]
    /\ blamed' = blamed \cup {o}
    /\ booting' = booting \ {o}
    /\ UNCHANGED <<market, cached, call, history>>

\* handleBootstrapping, the instance failed: BlacklistOffer.
BootFailed(o) ==
    /\ call.pc = "idle" /\ o \in booting
    /\ blackLeft' = [blackLeft EXCEPT ![KeyOf[o]] = BrokenTTL]
    /\ broken' = [broken EXCEPT ![KeyOf[o]] = BrokenTTL]
    /\ blamed' = blamed \cup {o}
    /\ booting' = booting \ {o}
    /\ UNCHANGED <<market, cached, call, history>>

\* terminateTimedOut: the agent never connected. BlacklistOffer is not called.
BootTimedOut(o) ==
    /\ call.pc = "idle" /\ o \in booting
    /\ booting' = booting \ {o}
    /\ UNCHANGED <<market, timers, call, history>>

\* The node became Ready, or its claim was deleted, or it failed and has no
\* offer-id annotation.
BootEnds(o) ==
    /\ call.pc = "idle" /\ o \in booting
    /\ booting' = booting \ {o}
    /\ UNCHANGED <<market, timers, call, history>>

\* The process restarts: the cache and the blacklist are in memory.
Restart ==
    /\ cached' = [p \in Providers |-> NoEntry]
    /\ blackLeft' = [k \in Keys |-> 0]
    /\ broken' = [k \in Keys |-> 0]
    /\ blamed' = {}
    /\ EndCall
    /\ UNCHANGED <<market, booting>>

Next ==
    \/ Tick \/ Restart
    \/ \E o \in Offers : OfferComes(o) \/ OfferGoes(o)
    \/ StartCall
    \/ ProvisionInstance
    \/ \E o \in Offers : BootFailed(o) \/ BootTimedOut(o) \/ BootEnds(o)

Spec == Init /\ [][Next]_vars

(* A call goes on: every provider request has an answer or a timeout.        *)
FairSpec == Spec /\ WF_vars(ProvisionInstance)

-----------------------------------------------------------------------------
(* Properties *)

(* "If all offers exhausted: invalidate cache, retry outer loop (fresh       *)
(* offers)": a provider that a retry has still to ask has no cached answer.  *)
RetriesSeeFreshOffers ==
    call.pc = "gather" /\ call.attempt > 1 =>
        \A p \in call.pending : cached[p].left = 0

(* An offer whose instance failed to come up is not tried again for the time *)
(* BlacklistOffer asks for, whatever the calls in between put on the         *)
(* blacklist and whichever offers share its key.                             *)
BrokenNotTried ==
    call.pc = "create" => broken[KeyOf[call.offer]] = 0

(* A call that fails for want of offers has tried every offer that was on    *)
(* sale from its start to its end, but for offers that failed themselves     *)
(* before: neither the cache nor the blacklist hides an available offer      *)
(* (coordinator.go:156-160), unless a provider cut the search short (no      *)
(* answer, rate limit, permanent error).                                     *)
AvailableTried ==
    call.pc = "failed" => available \subseteq tried

(* Every call comes to an end, however often it is rate limited and however  *)
(* fast new offers appear.                                                   *)
CallEnds == call.pc # "idle" ~> call.pc = "idle"
=============================================================================
