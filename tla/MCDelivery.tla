----------------------------- MODULE MCDelivery -----------------------------
(***************************************************************************)
(* Instances of Delivery for TLC: two notifications of two profiles.       *)
(***************************************************************************)
EXTENDS Delivery

CONSTANTS p1, p2

AlternatingOwner == [n \in Items |-> IF n = 1 THEN p1 ELSE p2]
=============================================================================
