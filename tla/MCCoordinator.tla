---------------------------- MODULE MCCoordinator ----------------------------
(* Two providers: one with two offers, one with a single offer. At the first *)
(* the two offers are of one instance type in two regions, with or without a *)
(* blacklist key of their own.                                               *)
EXTENDS Coordinator

CONSTANTS a, b, a1, a2, b1

MCProviderOf == [o \in Offers |-> IF o = b1 THEN b ELSE a]
MCRank == [o \in Offers |-> IF o = a1 THEN 1 ELSE 2]
OwnKey == [o \in Offers |-> o]
SharedKey == [o \in Offers |-> IF o = a2 THEN a1 ELSE o]
=============================================================================
