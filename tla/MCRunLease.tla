----------------------------- MODULE MCRunLease -----------------------------
(***************************************************************************)
(* Instances of RunLease for TLC.                                          *)
(***************************************************************************)
EXTENDS RunLease, TLC

CONSTANTS a, b

Alike == Permutations({a, b})
=============================================================================
