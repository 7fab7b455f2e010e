--------------------------- MODULE MCVerdaVolumes ---------------------------
(* Two models, claims with and without a disk size, and one goroutine that *)
(* destroys instances.                                                     *)
EXTENDS VerdaVolumes, TLC

CONSTANTS a, b, d1

MCSymmetry == Permutations({a, b})

=============================================================================
