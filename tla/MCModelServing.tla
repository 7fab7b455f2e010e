--------------------------- MODULE MCModelServing ---------------------------
(***************************************************************************)
(* ModelServing for TLC: a single-model claim and a bundle that replaces   *)
(* it.                                                                     *)
(***************************************************************************)
EXTENDS ModelServing

CONSTANTS single, bundle, m1, m2

MCModelsOf == [c \in Claims |-> IF c = single THEN {m1} ELSE {m1, m2}]
MCPrimary  == [c \in Claims |-> m1]
MCMinReplicas == [m \in Models |-> 1]
=============================================================================
