--------------------------- MODULE InstanceLedger ---------------------------
(***************************************************************************)
(* What the controller promises about the instances it pays for, with the  *)
(* API server, the cache and the goroutines left out. An instance is       *)
(*   "buying"  created, and the reconciler is about to record it;          *)
(*   "held"    named by a claim that is not Terminated;                    *)
(*   "loose"   running, but no claim names it and nobody will record it;   *)
(*   "ended"   no longer running.                                          *)
(* A claim buys one instance at a time, never while it holds one, and an   *)
(* instance that came loose is never taken up again: it can only be ended. *)
(* ClaimLifecycle implements this (ClaimLifecycle!Ledger).                 *)
(***************************************************************************)
CONSTANTS Claims, Instances, None

VARIABLES state, owner

vars == <<state, owner>>

States == {"unborn", "buying", "held", "loose", "ended"}

Init ==
    /\ state = [i \in Instances |-> "unborn"]
    /\ owner = [i \in Instances |-> None]

Busy(c) ==
    \E i \in Instances : owner[i] = c /\ state[i] \in {"buying", "held"}

Buy(i, c) ==
    /\ state[i] = "unborn"
    /\ ~Busy(c)
    /\ state' = [state EXCEPT ![i] = "buying"]
    /\ owner' = [owner EXCEPT ![i] = c]

Move(i, from, to) ==
    /\ state[i] \in from
    /\ state' = [state EXCEPT ![i] = to]
    /\ UNCHANGED owner

Hold(i) == Move(i, {"buying"}, "held")
Drop(i) == Move(i, {"buying", "held"}, "loose")
End(i)  == Move(i, {"buying", "held", "loose"}, "ended")

\* One instance moves. (The first conjunct follows from the others and lets
\* TLC tell the many steps that move none.)
Next ==
    \E i \in Instances :
        /\ state'[i] # state[i]
        /\ \/ \E c \in Claims : Buy(i, c)
           \/ Hold(i) \/ Drop(i) \/ End(i)

Spec == Init /\ [][Next]_vars
=============================================================================
