-------------------------- MODULE CoordinatorProofs --------------------------
(***************************************************************************)
(* Proofs about Coordinator, for any providers, offers, time to live and   *)
(* number of attempts. Four invariants; the last uses two of the others:   *)
(*   TypeInv    types, and a call that sleeps has an attempt left;         *)
(*   BrokenInv  a broken host is blocked for as long as it is broken, and  *)
(*              no offer that is still to be tried is broken;              *)
(*   FreshInv   a call that sleeps has no cached answer of its providers;  *)
(*   TriedInv   from the second attempt on, an available offer is still to *)
(*              be listed, listed, or tried.                               *)
(***************************************************************************)
EXTENDS Coordinator, TLAPS

Call == [pc: {"idle", "gather", "try", "create", "sleep", "failed"},
         attempt: 1..MaxAttempts, pending: SUBSET Providers,
         listed: SUBSET Offers, offer: Offers \cup {NoOffer}]

TypeInv ==
    /\ TypeOK
    /\ call.pc = "sleep" => call.attempt < MaxAttempts
    /\ call.pc = "create" => call.offer \in Offers

(* Time: what a delay of d does to the timers, blocks.                               *)
LEMMA ElapseFacts ==
    ASSUME TypeOK, NEW d \in Nat, Elapse(d)
    PROVE  /\ cached' \in [Providers -> [offers: SUBSET Offers, left: 0..CacheTTL]]
           /\ blackLeft' \in [Keys -> 0..BrokenTTL]
           /\ broken' \in [Keys -> 0..BrokenTTL]
           /\ blamed' \subseteq Offers
           /\ \A p \in Providers : cached[p].left = 0 => cached'[p].left = 0
           /\ \A k \in Keys : /\ broken[k] = 0 => broken'[k] = 0
                              /\ blackLeft[k] = 0 => blackLeft'[k] = 0
                              /\ broken[k] <= blackLeft[k]
                                    => broken'[k] <= blackLeft'[k]
<1>0. CacheTTL \in Nat /\ BrokenTTL \in Nat
    BY CoordinatorAssumption
<1>1. \A n \in 0..BrokenTTL : Less(n, d) \in 0..BrokenTTL
    BY <1>0 DEF Less
<1>2. cached' \in [Providers -> [offers: SUBSET Offers, left: 0..CacheTTL]]
  <2>1. \A p \in Providers : cached'[p] \in [offers: SUBSET Offers, left: 0..CacheTTL]
    BY <1>0 DEF Elapse, TypeOK, NoEntry
  <2> QED
    BY <2>1 DEF Elapse
<1>3. /\ blackLeft' \in [Keys -> 0..BrokenTTL]
      /\ broken' \in [Keys -> 0..BrokenTTL]
    BY <1>0, <1>1 DEF Elapse, TypeOK
<1>4. \A p \in Providers : cached[p].left = 0 => cached'[p].left = 0
    BY <1>0 DEF Elapse, TypeOK, NoEntry
<1>5. \A k \in Keys : /\ broken[k] = 0 => broken'[k] = 0
                      /\ blackLeft[k] = 0 => blackLeft'[k] = 0
                      /\ broken[k] <= blackLeft[k] => broken'[k] <= blackLeft'[k]
    BY <1>0 DEF Elapse, TypeOK, Less
<1>6. blamed' \subseteq Offers
    BY DEF Elapse, TypeOK
<1> QED
    BY <1>2, <1>3, <1>4, <1>5, <1>6

LEMMA SleepTimeType ==
    ASSUME TypeOK
    PROVE  SleepTime \in Nat
<1>1. call.attempt \in Nat /\ SleepStep \in Nat /\ MaxSleep \in Nat
    BY CoordinatorAssumption DEF TypeOK
<1>2. call.attempt * SleepStep \in Nat
    BY <1>1
<1> QED
    BY <1>1, <1>2 DEF SleepTime

LEMMA AskedType == Asked \subseteq Providers
    BY CoordinatorAssumption DEF Asked

LEMMA InvalidateFacts ==
    ASSUME TypeOK, Invalidate
    PROVE  /\ cached' \in [Providers -> [offers: SUBSET Offers, left: 0..CacheTTL]]
           /\ \A p \in Names : cached'[p].left = 0
<1>1. NoEntry \in [offers: SUBSET Offers, left: 0..CacheTTL]
    BY CoordinatorAssumption DEF NoEntry
<1> QED
    BY <1>1, CoordinatorAssumption DEF TypeOK, Invalidate, NoEntry

LEMMA IdleType == Idle \in Call
    BY CoordinatorAssumption DEF Idle, Call

(* Every step keeps the types.                                               *)
LEMMA TypeStep ==
    ASSUME TypeInv, [Next]_vars
    PROVE  TypeInv'
<1> USE CoordinatorAssumption DEF TypeInv
<1>a. call \in Call /\ TypeOK
    BY DEF Call, TypeOK
<1>b. SUFFICES /\ call' \in Call
               /\ call'.pc = "sleep" => call'.attempt < MaxAttempts
               /\ call'.pc = "create" => call'.offer \in Offers
               /\ market' \subseteq Offers
               /\ cached' \in [Providers -> [offers: SUBSET Offers, left: 0..CacheTTL]]
               /\ blackLeft' \in [Keys -> 0..BrokenTTL]
               /\ booting' \subseteq Offers
               /\ broken' \in [Keys -> 0..BrokenTTL]
               /\ blamed' \subseteq Offers
               /\ available' \subseteq Offers
               /\ tried' \subseteq Offers
    BY DEF TypeOK, Call
<1>1. CASE Tick
    BY <1>1, <1>a, ElapseFacts DEF Tick, history, TypeOK, Call
<1>2. CASE Restart
    BY <1>2, <1>a, IdleType DEF Restart, NoEntry, EndCall, Idle, TypeOK
<1>3. CASE \E o \in Offers : OfferComes(o) \/ OfferGoes(o)
    BY <1>3, <1>a DEF OfferComes, OfferGoes, timers, blocks, history, TypeOK
<1>4. CASE StartCall
  <2>1. call' \in Call /\ call'.pc = "gather"
    BY <1>4, IdleType, AskedType DEF StartCall, Call, Idle
  <2> QED
    BY <2>1, <1>4, <1>a DEF StartCall, timers, blocks, TypeOK
<1>5. CASE \E p \in Providers : AnswerFromCache(p) \/ Search(p)
  <2> PICK p \in Providers : AnswerFromCache(p) \/ Search(p)
    BY <1>5
  <2>1. ASSUME NEW S \in SUBSET Offers, call.pc = "gather", Heard(p, S)
        PROVE  call' \in Call /\ call'.pc = "gather"
    BY <2>1, <1>a DEF Heard, Call
  <2>2. CASE AnswerFromCache(p)
    <3>1. cached[p].offers \in SUBSET Offers
        BY DEF TypeOK
    <3>2. call' \in Call /\ call'.pc = "gather"
        BY <2>2, <3>1, <2>1 DEF AnswerFromCache
    <3> QED
        BY <2>2, <3>2, <1>a DEF AnswerFromCache, timers, blocks, history, TypeOK
  <2>3. CASE Search(p)
    <3> DEFINE found == market \cap OffersOf(p)
    <3>1. found \in SUBSET Offers
        BY DEF OffersOf
    <3>2. call' \in Call /\ call'.pc = "gather"
      <4>1. call.pc = "gather" /\ (Heard(p, found) \/ Heard(p, {}))
        BY <2>3 DEF Search
      <4> QED
        BY <4>1, <3>1, <2>1
    <3>3. cached' \in [Providers -> [offers: SUBSET Offers, left: 0..CacheTTL]]
        BY <2>3, <3>1 DEF blocks, Search, TypeOK
    <3> QED
        BY <2>3, <3>2, <3>3, <1>a DEF blocks, Search, TypeOK
  <2> QED
    BY <2>2, <2>3
<1>6. CASE SelectOffers
  <2>1. Candidates \subseteq Offers
    BY DEF Candidates
  <2> QED
    BY <1>6, <2>1, <1>a DEF SelectOffers, Call, timers, blocks, history, TypeOK
<1>e. ASSUME EndAttempt
      PROVE  call' \in Call /\ call'.pc # "create"
                /\ (call'.pc = "sleep" => call'.attempt < MaxAttempts)
    BY <1>e, <1>a DEF EndAttempt, Goto, Call
<1>7. CASE NoOffers
    BY <1>7, <1>a, <1>e, InvalidateFacts DEF blocks, NoOffers, history, TypeOK
<1>8. CASE AllTried
    BY <1>8, <1>a, <1>e, InvalidateFacts DEF blocks, AllTried, history, TypeOK
<1>9. CASE Sleep
  <2>1. call.attempt + 1 \in 1..MaxAttempts
    BY <1>9, <1>a DEF Sleep, Call
  <2>2. call' \in Call /\ call'.pc = "gather"
    BY <1>9, <2>1, AskedType, IdleType DEF Sleep, Call, Idle
  <2>3. Elapse(SleepTime) /\ SleepTime \in Nat
    BY <1>9, <1>a, SleepTimeType DEF Sleep
  <2>4. /\ cached' \in [Providers -> [offers: SUBSET Offers, left: 0..CacheTTL]]
        /\ blackLeft' \in [Keys -> 0..BrokenTTL]
        /\ broken' \in [Keys -> 0..BrokenTTL]
        /\ blamed' \subseteq Offers
    BY <2>3, <1>a, ElapseFacts
  <2> QED
    BY <1>9, <2>2, <2>4, <1>a DEF Sleep, history, TypeOK
<1>10. CASE ReturnError
    BY <1>10, <1>a, IdleType DEF ReturnError, EndCall, Idle, timers, blocks, TypeOK
<1>11. CASE \E o \in Offers : TryBest(o)
  <2> PICK o \in Offers : TryBest(o)
    BY <1>11
  <2>1. call' \in Call /\ call'.pc = "create" /\ call'.offer = o
    BY <1>a DEF TryBest, Call
  <2> QED
    BY <2>1, <1>a DEF TryBest, timers, blocks, TypeOK
<1>12. CASE Created
    BY <1>12, <1>a, IdleType DEF Created, EndCall, Idle, timers, blocks, TypeOK
<1>13. CASE Unavailable
  <2>1. BlacklistTTL \in 0..BrokenTTL
    OBVIOUS
  <2> QED
    BY <1>13, <2>1, <1>a DEF Unavailable, Goto, Call, history, TypeOK
<1>14. CASE TransientError
    BY <1>14, <1>a DEF TransientError, Goto, Call, timers, blocks, history, TypeOK
<1>15. CASE RateLimited
    BY <1>15, <1>a, <1>e, InvalidateFacts DEF blocks, RateLimited, TypeOK
<1>16. CASE PermanentError
    BY <1>16, <1>a DEF PermanentError, Goto, Call, timers, blocks, TypeOK
<1>17. CASE \E o \in Offers : BootFailed(o) \/ BootTimedOut(o) \/ BootEnds(o)
  <2>1. BrokenTTL \in 0..BrokenTTL
    OBVIOUS
  <2>2. UNCHANGED call
    BY <1>17 DEF BootFailed, BootTimedOut, BootEnds
  <2> QED
    BY <1>17, <2>1, <2>2, <1>a
       DEF BootFailed, BootTimedOut, BootEnds, timers, blocks, history, TypeOK
<1>18. CASE UNCHANGED vars
    BY <1>18, <1>a DEF vars, timers, blocks, history, TypeOK
<1> QED
    BY <1>1, <1>2, <1>3, <1>4, <1>5, <1>6, <1>7, <1>8, <1>9, <1>10, <1>11,
       <1>12, <1>13, <1>14, <1>15, <1>16, <1>17, <1>18 DEF Next, ProvisionInstance

LEMMA InitTypes == Init => TypeInv
  BY CoordinatorAssumption, IdleType
     DEF Init, TypeInv, TypeOK, Call, Idle, NoEntry

(* TypeOK holds in every reachable state: no attempt past MaxAttempts, no    *)
(* timer past its time to live, for every offer market.                      *)
THEOREM TypeCorrect == Spec => []TypeOK
<1>1. Spec => []TypeInv
    BY InitTypes, TypeStep, PTL DEF Spec
<1> QED
    BY <1>1, PTL DEF TypeInv

-----------------------------------------------------------------------------
(* Broken hosts. A key that is broken is blocked for at least as long, and   *)
(* the offers that are left to try have none.                                *)

Usable(S) == \A o \in S : broken[KeyOf[o]] = 0

BrokenInv ==
    /\ \A k \in Keys : broken[k] <= blackLeft[k]
    /\ call.pc \in {"try", "create"} => Usable(call.listed)
    /\ call.pc = "create" => Usable({call.offer})

LEMMA KeyOfType == \A o \in Offers : KeyOf[o] \in Keys
    BY CoordinatorAssumption

\* A delay keeps BrokenInv when the call stays where it is, or leaves.
LEMMA BrokenElapse ==
    ASSUME TypeInv, BrokenInv, NEW d \in Nat, Elapse(d),
           UNCHANGED call \/ call'.pc = "gather"
    PROVE  BrokenInv'
<1>1. TypeOK
    BY DEF TypeInv
<1>2. \A k \in Keys : /\ broken[k] = 0 => broken'[k] = 0
                      /\ broken[k] <= blackLeft[k] => broken'[k] <= blackLeft'[k]
    BY <1>1, ElapseFacts
<1>3. \A k \in Keys : broken'[k] <= blackLeft'[k]
    BY <1>2 DEF BrokenInv
<1>4. call.listed \subseteq Offers /\ (call.pc = "create" => call.offer \in Offers)
    BY DEF TypeInv, TypeOK
<1> QED
    BY <1>2, <1>3, <1>4, KeyOfType DEF BrokenInv, Usable

LEMMA BrokenStep ==
    ASSUME TypeInv, BrokenInv, [Next]_vars
    PROVE  BrokenInv'
<1> USE CoordinatorAssumption, KeyOfType
<1>a. /\ call.listed \subseteq Offers
      /\ call.pc = "create" => call.offer \in Offers
      /\ blackLeft \in [Keys -> 0..BrokenTTL] /\ broken \in [Keys -> 0..BrokenTTL]
      /\ TypeOK
    BY DEF TypeInv, TypeOK
\* Actions that leave the blacklist alone and end or restart the round.
<1>b. ASSUME UNCHANGED <<blackLeft, broken>>,
             call'.pc \notin {"try", "create"}
      PROVE  BrokenInv'
    BY <1>b DEF BrokenInv
\* Actions that leave the blacklist and the round alone.
<1>c. ASSUME UNCHANGED <<blackLeft, broken, call>>
      PROVE  BrokenInv'
    BY <1>c DEF BrokenInv, Usable
<1>1. CASE Tick
    BY <1>1, BrokenElapse DEF Tick
<1>2. CASE Restart
    BY <1>2 DEF Restart, EndCall, Idle, BrokenInv
<1>3. CASE \E o \in Offers : OfferComes(o) \/ OfferGoes(o)
    BY <1>3, <1>c DEF OfferComes, OfferGoes, timers, blocks
<1>4. CASE StartCall
    BY <1>4, <1>b DEF StartCall, Idle, timers, blocks, TypeOK
<1>5. CASE \E p \in Providers : AnswerFromCache(p) \/ Search(p)
  <2>1. UNCHANGED <<blackLeft, broken>> /\ call'.pc = "gather"
    BY <1>5, <1>a DEF AnswerFromCache, Search, Heard, timers, blocks, TypeOK
  <2> QED
    BY <2>1, <1>b
<1>6. CASE SelectOffers
  <2>1. \A o \in Candidates : o \in Offers /\ blackLeft[KeyOf[o]] = 0
    BY <1>a DEF Candidates, Blocked
  <2>2. Usable(Candidates)
    BY <2>1, <1>a DEF BrokenInv, Usable
  <2>3. call'.pc = "try" /\ call'.listed = Candidates
    BY <1>6 DEF SelectOffers, TypeOK, TypeInv
  <2> QED
    BY <1>6, <2>2, <2>3 DEF SelectOffers, timers, blocks, BrokenInv, Usable
<1>e. ASSUME EndAttempt PROVE call'.pc \in {"sleep", "failed"}
    BY <1>e, <1>a DEF EndAttempt, Goto, TypeOK
<1>7. CASE NoOffers \/ AllTried \/ RateLimited
    BY <1>7, <1>b, <1>e DEF blocks, NoOffers, AllTried, RateLimited
<1>8. CASE Sleep
  <2>1. Elapse(SleepTime) /\ SleepTime \in Nat /\ call'.pc = "gather"
    BY <1>8, <1>a, SleepTimeType DEF Sleep, Idle
  <2> QED
    BY <2>1, BrokenElapse
<1>9. CASE ReturnError \/ Created
    BY <1>9, <1>b DEF ReturnError, Created, EndCall, Idle, timers, blocks
<1>10. CASE \E o \in Offers : TryBest(o)
  <2> PICK o \in Offers : TryBest(o)
    BY <1>10
  <2>1. /\ o \in call.listed /\ call.pc = "try"
        /\ call'.offer = o /\ call'.listed \subseteq call.listed
    BY <1>a DEF TryBest, TypeOK
  <2>2. UNCHANGED <<blackLeft, broken>>
    BY DEF TryBest, timers, blocks
  <2> QED
    BY <2>1, <2>2 DEF BrokenInv, Usable
<1>11. CASE Unavailable
  <2>1. /\ call.pc = "create" /\ UNCHANGED broken
        /\ blackLeft' = [blackLeft EXCEPT ![KeyOf[call.offer]] = BlacklistTTL]
        /\ call'.pc = "try" /\ call'.listed = call.listed
    BY <1>11, <1>a DEF Unavailable, Goto, TypeOK
  <2>2. broken[KeyOf[call.offer]] = 0
    BY <2>1 DEF BrokenInv, Usable
  <2>3. \A k \in Keys : broken'[k] <= blackLeft'[k]
    BY <2>1, <2>2, <1>a DEF BrokenInv
  <2> QED
    BY <2>1, <2>3 DEF BrokenInv, Usable
<1>12. CASE TransientError
    BY <1>12, <1>a DEF TransientError, Goto, timers, blocks, TypeOK, BrokenInv, Usable
<1>13. CASE PermanentError
    BY <1>13, <1>a, <1>b DEF PermanentError, Goto, timers, blocks, TypeOK
<1>14. CASE \E o \in Offers : BootFailed(o)
  <2> PICK o \in Offers : BootFailed(o)
    BY <1>14
  <2>1. \A k \in Keys : broken'[k] <= blackLeft'[k]
    BY <1>a DEF BootFailed, BrokenInv
  <2>2. call'.pc = "idle"
    BY DEF BootFailed
  <2> QED
    BY <2>1, <2>2 DEF BrokenInv
<1>15. CASE \E o \in Offers : BootTimedOut(o) \/ BootEnds(o)
    BY <1>15, <1>c DEF BootTimedOut, BootEnds, timers, blocks
<1>16. CASE UNCHANGED vars
    BY <1>16, <1>c DEF vars
<1> QED
    BY <1>1, <1>2, <1>3, <1>4, <1>5, <1>6, <1>7, <1>8, <1>9, <1>10, <1>11,
       <1>12, <1>13, <1>14, <1>15, <1>16 DEF Next, ProvisionInstance

(* A broken host is not tried again while BlacklistOffer keeps it out,       *)
(* whatever Add does to the same key in the meantime (blacklist.go:32-44).   *)
THEOREM BrokenHostsAvoided == Spec => []BrokenNotTried
<1>1. Init => BrokenInv
    BY DEF Init, BrokenInv, Idle
<1>2. TypeInv /\ BrokenInv /\ [Next]_vars => BrokenInv'
    BY BrokenStep
<1>3. BrokenInv => BrokenNotTried
    BY DEF BrokenInv, BrokenNotTried, Usable
<1> QED
    BY <1>1, <1>2, <1>3, InitTypes, TypeStep, PTL DEF Spec

-----------------------------------------------------------------------------
(* Fresh offers, when the pool names its providers. A call without names     *)
(* invalidates nothing, hence the assumption.                                *)

FreshInv ==
    /\ call.pending \subseteq Asked
    /\ call.pc = "sleep" => \A p \in Asked : cached[p].left = 0
    /\ RetriesSeeFreshOffers

LEMMA FreshStep ==
    ASSUME Names # {}, TypeInv, FreshInv, [Next]_vars
    PROVE  FreshInv'
<1> USE CoordinatorAssumption
<1>a. TypeOK /\ call \in Call
    BY DEF TypeInv, TypeOK, Call
<1>b. Asked = Names /\ Asked \subseteq Providers
    BY DEF Asked
\* Actions that move the call, within the round or to its end.
<1>c. ASSUME UNCHANGED cached, call'.pending \subseteq call.pending,
             call'.pc \notin {"gather", "sleep"}
      PROVE  FreshInv'
    BY <1>c DEF FreshInv, RetriesSeeFreshOffers, Asked
\* Actions that leave the call and the cached answers alone.
<1>d. ASSUME UNCHANGED <<cached, call>>
      PROVE  FreshInv'
    BY <1>d DEF FreshInv, RetriesSeeFreshOffers, Asked
\* Time lets no cached answer appear.
<1>e. ASSUME NEW d \in Nat, Elapse(d)
      PROVE  \A p \in Asked : cached[p].left = 0 => cached'[p].left = 0
    BY <1>e, <1>a, <1>b, ElapseFacts
\* The end of an attempt, after the answers were dropped.
<1>f. ASSUME EndAttempt
      PROVE  /\ call'.pc \in {"sleep", "failed"} /\ call'.pending = call.pending
             /\ call.attempt >= MaxAttempts => call'.pc = "failed"
    BY <1>f, <1>a DEF EndAttempt, Goto, Call
<1>g. ASSUME EndAttempt, Invalidate
      PROVE  FreshInv'
    BY <1>g, <1>f, <1>a, <1>b, InvalidateFacts
       DEF FreshInv, RetriesSeeFreshOffers, Asked
<1>1. CASE Tick
  <2>1. Elapse(1) /\ UNCHANGED call
    BY <1>1 DEF Tick
  <2> QED
    BY <2>1, <1>b, <1>e DEF FreshInv, RetriesSeeFreshOffers, Asked
<1>2. CASE Restart
    BY <1>2 DEF Restart, EndCall, Idle, FreshInv, RetriesSeeFreshOffers
<1>3. CASE \E o \in Offers : OfferComes(o) \/ OfferGoes(o)
    BY <1>3, <1>d DEF OfferComes, OfferGoes, timers, blocks
<1>4. CASE StartCall
  <2>1. call'.pc = "gather" /\ call'.attempt = 1 /\ call'.pending = Asked
    BY <1>4 DEF StartCall, Idle
  <2> QED
    BY <2>1 DEF FreshInv, RetriesSeeFreshOffers, Asked
<1>5. CASE \E p \in Providers : AnswerFromCache(p) \/ Search(p)
  <2> PICK p \in Providers : AnswerFromCache(p) \/ Search(p)
    BY <1>5
  <2>1. /\ call.pc = "gather" /\ call'.pc = "gather"
        /\ call'.attempt = call.attempt
        /\ call'.pending = call.pending \ {p}
    BY <1>a DEF AnswerFromCache, Search, Heard, Call
  <2>2. \A u \in Providers \ {p} : cached'[u] = cached[u]
    BY <1>a DEF AnswerFromCache, Search, timers, blocks, TypeOK
  <2> QED
    BY <2>1, <2>2, <1>b DEF FreshInv, RetriesSeeFreshOffers, Asked
<1>6. CASE SelectOffers
    BY <1>6, <1>a, <1>c DEF SelectOffers, timers, blocks, Call
<1>7. CASE NoOffers
  <2>1. CASE call.attempt < MaxAttempts
    BY <1>7, <2>1, <1>g DEF NoOffers
  <2>2. CASE ~(call.attempt < MaxAttempts)
    <3>1. call'.pc = "failed" /\ call'.pending = call.pending /\ UNCHANGED cached
      BY <1>7, <2>2, <1>a, <1>f DEF NoOffers, Call
    <3> QED
      BY <3>1, <1>c
  <2> QED
    BY <2>1, <2>2
<1>8. CASE AllTried \/ RateLimited
    BY <1>8, <1>g DEF AllTried, RateLimited
<1>9. CASE Sleep
  <2>1. Elapse(SleepTime) /\ SleepTime \in Nat
    BY <1>9, <1>a, SleepTimeType DEF Sleep
  <2>2. call.pc = "sleep" /\ call'.pc = "gather" /\ call'.pending = Asked
    BY <1>9 DEF Sleep, Idle
  <2> QED
    BY <2>1, <2>2, <1>b, <1>e DEF FreshInv, RetriesSeeFreshOffers, Asked
<1>10. CASE ReturnError \/ Created
  <2>1. call'.pc = "idle" /\ call'.pending = {} /\ UNCHANGED cached
    BY <1>10 DEF ReturnError, Created, EndCall, Idle, timers, blocks
  <2> QED
    BY <2>1, <1>c
<1>11. CASE \E o \in Offers : TryBest(o)
    BY <1>11, <1>a, <1>c DEF TryBest, timers, blocks, Call
<1>12. CASE Unavailable \/ TransientError \/ PermanentError
  <2>1. /\ call'.pc \in {"try", "failed"} /\ call'.pending = call.pending
        /\ UNCHANGED cached
    BY <1>12, <1>a
       DEF Unavailable, TransientError, PermanentError, Goto, timers, blocks, Call
  <2> QED
    BY <2>1, <1>c
<1>13. CASE \E o \in Offers : BootFailed(o) \/ BootTimedOut(o) \/ BootEnds(o)
    BY <1>13, <1>d DEF BootFailed, BootTimedOut, BootEnds, timers, blocks
<1>14. CASE UNCHANGED vars
    BY <1>14, <1>d DEF vars, timers, blocks
<1> QED
    BY <1>1, <1>2, <1>3, <1>4, <1>5, <1>6, <1>7, <1>8, <1>9, <1>10, <1>11,
       <1>12, <1>13, <1>14 DEF Next, ProvisionInstance

LEMMA InitFresh == Init => FreshInv
    BY DEF Init, FreshInv, RetriesSeeFreshOffers, Idle

(* A retry searches every provider it asks, as coordinator.go:98 says, for   *)
(* a pool that names its providers.                                          *)
THEOREM RetriesSearch == ASSUME Names # {} PROVE Spec => []RetriesSeeFreshOffers
<1>1. TypeInv /\ FreshInv /\ [Next]_vars => FreshInv'
    BY FreshStep
<1>2. FreshInv => RetriesSeeFreshOffers
    BY DEF FreshInv
<1> QED
    BY <1>1, <1>2, InitFresh, InitTypes, TypeStep, PTL DEF Spec

-----------------------------------------------------------------------------
(* Available offers, when no two offers share a blacklist key: from the      *)
(* second attempt on each is still to be heard of, listed or tried, and the  *)
(* only available offers that are blocked are the ones this call blocked:    *)
(* then whatever is blocked is to blame.                                     *)

OwnKeys == \A o, u \in Offers : KeyOf[o] = KeyOf[u] => o = u

BlockedInv == \A o \in Offers : Blocked(o) => o \in blamed

TriedInv ==
    /\ \A o \in available : /\ o \in market \cap Eligible
                            /\ ProviderOf[o] \in Asked
                            /\ Blocked(o) => o \in tried
    /\ call.pc = "idle" => available = {}
    /\ call.pc = "create" => call.offer \in tried
    /\ call.attempt > 1 /\ call.pc = "gather" =>
            \A o \in available : ProviderOf[o] \in call.pending \/ o \in call.listed
    /\ call.attempt > 1 /\ call.pc \in {"try", "create"} =>
            available \subseteq call.listed \cup tried
    /\ AvailableTried

LEMMA BlockedStep ==
    ASSUME OwnKeys, TypeInv, BlockedInv, [Next]_vars
    PROVE  BlockedInv'
<1> USE CoordinatorAssumption, KeyOfType
<1>a. TypeOK /\ blackLeft \in [Keys -> 0..BrokenTTL] /\ BrokenTTL \in Nat
    BY DEF TypeInv, TypeOK
<1>b. ASSUME UNCHANGED blocks
      PROVE  BlockedInv'
    BY <1>b DEF BlockedInv, Blocked, blocks
<1>c. ASSUME NEW d \in Nat, Elapse(d)
      PROVE  BlockedInv'
    BY <1>c, <1>a DEF Elapse, Less, BlockedInv, Blocked
<1>d. ASSUME NEW u \in Offers, NEW t \in Nat, blamed' = blamed \cup {u},
             blackLeft' = [blackLeft EXCEPT ![KeyOf[u]] = t]
      PROVE  BlockedInv'
    BY <1>d, <1>a DEF BlockedInv, Blocked, OwnKeys
<1>1. CASE Tick \/ Sleep
  <2>1. PICK d \in Nat : Elapse(d)
    BY <1>1, <1>a, SleepTimeType DEF Tick, Sleep
  <2> QED
    BY <2>1, <1>c
<1>2. CASE Restart
    BY <1>2 DEF Restart, BlockedInv, Blocked
<1>3. CASE Unavailable
  <2>1. call.offer \in Offers /\ BlacklistTTL \in Nat
    BY <1>3 DEF Unavailable, TypeInv
  <2> QED
    BY <1>3, <2>1, <1>d DEF Unavailable
<1>4. CASE \E o \in Offers : BootFailed(o)
    BY <1>4, <1>d DEF BootFailed
<1>5. CASE \E o \in Offers : OfferComes(o) \/ OfferGoes(o)
    BY <1>5, <1>b DEF OfferComes, OfferGoes, timers
<1>6. CASE \E o \in Offers : TryBest(o)
    BY <1>6, <1>b DEF TryBest, timers
<1>7. CASE \E o \in Offers : BootTimedOut(o) \/ BootEnds(o)
    BY <1>7, <1>b DEF BootTimedOut, BootEnds, timers
<1>8. CASE \E p \in Providers : AnswerFromCache(p) \/ Search(p)
    BY <1>8, <1>b DEF AnswerFromCache, Search, timers
<1>9. CASE StartCall \/ SelectOffers \/ NoOffers \/ AllTried \/ ReturnError
    BY <1>9, <1>b DEF StartCall, SelectOffers, NoOffers, AllTried, ReturnError, timers
<1>10. CASE Created \/ TransientError \/ RateLimited \/ PermanentError
    BY <1>10, <1>b DEF Created, TransientError, RateLimited, PermanentError, timers
<1>11. CASE UNCHANGED vars
    BY <1>11, <1>b DEF vars, blocks
<1> QED
    BY <1>1, <1>2, <1>3, <1>4, <1>5, <1>6, <1>7, <1>8, <1>9, <1>10, <1>11
       DEF Next, ProvisionInstance

LEMMA TriedStep ==
    ASSUME Names # {}, MaxAttempts > 1, OwnKeys,
           TypeInv, FreshInv, BlockedInv, TriedInv, [Next]_vars
    PROVE  TriedInv'
<1> USE CoordinatorAssumption
<1>a. TypeOK /\ call \in Call /\ available \subseteq Offers
    BY DEF TypeInv, TypeOK, Call
\* Nothing that the invariant speaks of changes, but for the market.
<1>b. ASSUME UNCHANGED <<blackLeft, call, tried>>,
             available' \subseteq available, available' \subseteq market'
      PROVE  TriedInv'
    BY <1>b DEF TriedInv, AvailableTried, Blocked, Asked
\* The call ends.
<1>c. ASSUME call'.pc = "idle", available' = {}
      PROVE  TriedInv'
    BY <1>c DEF TriedInv, AvailableTried
\* The call moves on, and at most unblocks or tries more offers.
<1>d. ASSUME available' \subseteq available, market' = market,
             tried \subseteq tried',
             \A o \in available : Blocked(o)' => Blocked(o) \/ o \in tried'
      PROVE  \A o \in available' : /\ o \in market' \cap Eligible
                                   /\ ProviderOf[o] \in Asked'
                                   /\ Blocked(o)' => o \in tried'
    BY <1>d DEF TriedInv, Asked
\* Time unblocks.
<1>e. ASSUME NEW d \in Nat, Elapse(d)
      PROVE  \A o \in available : Blocked(o)' => Blocked(o)
  <2>1. \A k \in Keys : blackLeft[k] = 0 => blackLeft'[k] = 0
    BY <1>e, <1>a, ElapseFacts
  <2>2. /\ blackLeft \in [Keys -> 0..BrokenTTL] /\ blackLeft' \in [Keys -> 0..BrokenTTL]
    BY <1>e, <1>a, ElapseFacts DEF TypeOK
  <2> QED
    BY <2>1, <2>2, <1>a, KeyOfType DEF Blocked
\* An attempt ends, and if it was the last no available offer is untried.
<1>f. ASSUME EndAttempt, UNCHANGED <<market, blackLeft, tried>>,
             available' \subseteq available,
             call.attempt > 1 => available' \subseteq tried
      PROVE  TriedInv'
  <2>1. /\ call'.pc \in {"sleep", "failed"}
        /\ call'.pc = "failed" => call.attempt > 1
    BY <1>f, <1>a DEF EndAttempt, Goto, Call
  <2> QED
    BY <2>1, <1>f, <1>d DEF TriedInv, AvailableTried, Blocked
<1>1. CASE Tick
  <2>1. Elapse(1) /\ UNCHANGED <<market, call, available, tried>>
    BY <1>1 DEF Tick, history
  <2>2. \A o \in available : Blocked(o)' => Blocked(o)
    BY <2>1, <1>e
  <2> QED
    BY <2>1, <2>2, <1>d DEF TriedInv, AvailableTried
<1>2. CASE Restart \/ ReturnError \/ Created
    BY <1>2, <1>c DEF Restart, ReturnError, Created, EndCall, Idle
<1>3. CASE \E o \in Offers : OfferComes(o) \/ OfferGoes(o)
  <2>1. available \subseteq market
    BY DEF TriedInv
  <2> QED
    BY <1>3, <2>1, <1>b DEF OfferComes, OfferGoes, timers, blocks, history
<1>4. CASE StartCall
  <2>1. /\ call'.pc = "gather" /\ call'.attempt = 1
        /\ \A o \in available' : /\ o \in market \cap Eligible
                                 /\ ProviderOf[o] \in Asked /\ ~Blocked(o)
    BY <1>4 DEF StartCall, Idle, BlockedInv
  <2> QED
    BY <1>4, <2>1 DEF StartCall, timers, blocks, TriedInv, AvailableTried, Blocked, Asked
<1>5. CASE \E p \in Providers : AnswerFromCache(p) \/ Search(p)
  <2> PICK p \in Providers : AnswerFromCache(p) \/ Search(p)
    BY <1>5
  <2>1. /\ call.pc = "gather" /\ p \in call.pending
        /\ UNCHANGED <<market, blackLeft, tried>>
        /\ available' \subseteq available
    BY DEF AnswerFromCache, Search, timers, blocks, history
  <2>2. /\ call'.pc = "gather" /\ call'.attempt = call.attempt
        /\ call'.pending = call.pending \ {p}
        /\ call.listed \subseteq call'.listed
    <3>1. PICK S : Heard(p, S)
      BY DEF AnswerFromCache, Search
    <3> QED
      BY <3>1, <2>1, <1>a DEF Heard, Call
  <2>3. ASSUME call.attempt > 1, NEW o \in available', ProviderOf[o] = p
        PROVE  o \in call'.listed
    <3>1. cached[p].left = 0
      BY <2>1, <2>3 DEF FreshInv, RetriesSeeFreshOffers
    <3>2. Search(p)
      BY <3>1, CoordinatorAssumption DEF AnswerFromCache
    <3>3. o \in market \cap OffersOf(p)
      BY <2>1, <2>3, <1>a DEF OffersOf, TriedInv
    <3>4. Heard(p, market \cap OffersOf(p))
      BY <3>2, <3>3 DEF Search
    <3> QED
      BY <3>3, <3>4, <1>a DEF Heard, Call
  <2> QED
    BY <2>1, <2>2, <2>3, <1>d DEF TriedInv, AvailableTried, Blocked
<1>6. CASE SelectOffers
  <2>1. /\ call.pc = "gather" /\ call.pending = {}
        /\ call'.pc = "try" /\ call'.attempt = call.attempt
        /\ call'.listed = Candidates
        /\ UNCHANGED <<market, blackLeft, available, tried>>
    BY <1>6, <1>a DEF SelectOffers, Gathered, timers, blocks, history, Call
  <2>2. call.attempt > 1 => available \subseteq Candidates \cup tried
    BY <2>1 DEF TriedInv, Candidates
  <2> QED
    BY <2>1, <2>2 DEF TriedInv, AvailableTried, Blocked, Asked
<1>7. CASE NoOffers
  <2>1. call.attempt > 1 => available \subseteq tried
    BY <1>7 DEF NoOffers, Gathered, Candidates, TriedInv
  <2> QED
    BY <1>7, <2>1, <1>f DEF blocks, NoOffers, history
<1>8. CASE AllTried
  <2>1. call.attempt > 1 => available \subseteq tried
    BY <1>8 DEF AllTried, TriedInv
  <2> QED
    BY <1>8, <2>1, <1>f DEF blocks, AllTried, history
<1>9. CASE RateLimited
    BY <1>9, <1>f DEF blocks, RateLimited
<1>10. CASE Sleep
  <2>1. /\ Elapse(SleepTime) /\ SleepTime \in Nat
        /\ UNCHANGED <<market, available, tried>>
    BY <1>10, <1>a, SleepTimeType DEF Sleep, history
  <2>2. call'.pc = "gather" /\ call'.pending = Asked
    BY <1>10 DEF Sleep, Idle
  <2>3. \A o \in available : Blocked(o)' => Blocked(o)
    BY <2>1, <1>e
  <2> QED
    BY <2>1, <2>2, <2>3, <1>d DEF TriedInv, AvailableTried
<1>11. CASE \E o \in Offers : TryBest(o)
  <2> PICK o \in Offers : TryBest(o)
    BY <1>11
  <2>1. /\ call.pc = "try" /\ call'.pc = "create" /\ call'.offer = o
        /\ call'.attempt = call.attempt /\ call'.listed = call.listed \ {o}
        /\ tried' = tried \cup {o}
        /\ UNCHANGED <<market, blackLeft, available>>
    BY <1>a DEF TryBest, timers, blocks, Call
  <2> QED
    BY <2>1, <1>d DEF TriedInv, AvailableTried, Blocked
<1>12. CASE Unavailable
  <2>1. /\ call.pc = "create" /\ call'.pc = "try"
        /\ call'.attempt = call.attempt /\ call'.listed = call.listed
        /\ UNCHANGED <<market, available, tried>>
        /\ blackLeft' = [blackLeft EXCEPT ![KeyOf[call.offer]] = BlacklistTTL]
        /\ call.offer \in Offers
    BY <1>12, <1>a DEF Unavailable, Goto, history, Call, TypeInv
  <2>2. \A o \in available : Blocked(o)' => Blocked(o) \/ o \in tried
    <3> TAKE o \in available
    <3>1. CASE o = call.offer
      BY <3>1, <2>1 DEF TriedInv
    <3>2. CASE o # call.offer
      <4>1. KeyOf[o] # KeyOf[call.offer]
        BY <3>2, <2>1, <1>a DEF OwnKeys
      <4> QED
        BY <4>1, <2>1, <1>a, KeyOfType DEF Blocked, TypeOK
    <3> QED
      BY <3>1, <3>2
  <2> QED
    BY <2>1, <2>2, <1>d DEF TriedInv, AvailableTried
<1>13. CASE TransientError
  <2>1. /\ call.pc = "create" /\ call'.pc = "try"
        /\ call'.attempt = call.attempt /\ call'.listed = call.listed
        /\ UNCHANGED <<market, blackLeft, available, tried>>
    BY <1>13, <1>a DEF TransientError, Goto, timers, blocks, history, Call
  <2> QED
    BY <2>1 DEF TriedInv, AvailableTried, Blocked, Asked
<1>14. CASE PermanentError
  <2>1. call'.pc = "failed" /\ available' = {}
    BY <1>14, <1>a DEF PermanentError, Goto, Call
  <2> QED
    BY <2>1 DEF TriedInv, AvailableTried
<1>15. CASE \E o \in Offers : BootFailed(o)
  <2>1. call'.pc = "idle" /\ available' = {}
    BY <1>15 DEF BootFailed, history, TriedInv
  <2> QED
    BY <2>1, <1>c
<1>16. CASE \E o \in Offers : BootTimedOut(o) \/ BootEnds(o)
  <2>1. available \subseteq market
    BY DEF TriedInv
  <2> QED
    BY <1>16, <2>1, <1>b DEF BootTimedOut, BootEnds, timers, blocks, history
<1>17. CASE UNCHANGED vars
  <2>1. available \subseteq market
    BY DEF TriedInv
  <2> QED
    BY <1>17, <2>1, <1>b DEF vars
<1> QED
    BY <1>1, <1>2, <1>3, <1>4, <1>5, <1>6, <1>7, <1>8, <1>9, <1>10, <1>11,
       <1>12, <1>13, <1>14, <1>15, <1>16, <1>17 DEF Next, ProvisionInstance

(* A call that gives up for want of offers has tried every offer that was    *)
(* on sale from its start to its end (coordinator.go:156-160), provided      *)
(* that the pool names its providers, that there is a retry and that no two  *)
(* offers share a blacklist key.                                             *)
THEOREM NoAvailableOfferSkipped ==
    ASSUME Names # {}, MaxAttempts > 1, OwnKeys
    PROVE  Spec => []AvailableTried
<1>1. Init => TriedInv /\ BlockedInv
    BY KeyOfType DEF Init, TriedInv, AvailableTried, Idle, BlockedInv, Blocked
<1>2. TypeInv /\ FreshInv /\ [Next]_vars => FreshInv'
    BY FreshStep
<1>3. TypeInv /\ FreshInv /\ BlockedInv /\ TriedInv /\ [Next]_vars
        => BlockedInv' /\ TriedInv'
    BY BlockedStep, TriedStep
<1>4. TriedInv => AvailableTried
    BY DEF TriedInv
<1> QED
    BY <1>1, <1>2, <1>3, <1>4, InitFresh, InitTypes, TypeStep, PTL DEF Spec
=============================================================================
