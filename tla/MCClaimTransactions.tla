------------------------ MODULE MCClaimTransactions ------------------------
(***************************************************************************)
(* Instances of ClaimTransactions for TLC.                                 *)
(***************************************************************************)
EXTENDS ClaimTransactions, TLC

CONSTANTS w1, w2, c1, k1, k2, k3

Alike == Permutations({w1, w2}) \union Permutations({k1, k2, k3})
=============================================================================
