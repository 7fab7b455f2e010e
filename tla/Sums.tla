-------------------------------- MODULE Sums --------------------------------
(* Sums of numbers that belong to the elements of a set. *)
EXTENDS FiniteSetsExt

SumOver(w, S) == MapThenSumSet(LAMBDA x : w[x], S)

=============================================================================
