--------------------------- MODULE MCClaimLifecycle ---------------------------
(* Small instances of ClaimLifecycle for TLC. The instances are model values;  *)
(* the .cfg files say which provider behaviour each one has.                   *)
EXTENDS ClaimLifecycleInvariant

CONSTANTS c1, c2, i1, i2
=============================================================================
