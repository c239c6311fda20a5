--------------------------- MODULE MCCastellsScan ---------------------------
(* CastellsScan for TLC.                                                     *)
EXTENDS CastellsScan, TLC

CONSTANTS g1, g2, w1, w2
MCAuctions == {g1, g2}
MCWorkers == {w1, w2}
Same == Permutations(MCAuctions) \union Permutations(MCWorkers)
=============================================================================
