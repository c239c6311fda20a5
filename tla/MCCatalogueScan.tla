-------------------------- MODULE MCCatalogueScan --------------------------
(* CatalogueScan for TLC: four lots of one auction and one of another, whose  *)
(* id contains that of the first.                                             *)
EXTENDS CatalogueScan

CONSTANTS g1, g2
MCGroups == {g1, g2}
Split == [l \in Lots |-> IF l < 5 THEN g1 ELSE g2]
Texts == {<<g1, g1>>, <<g2, g2>>, <<g1, g2>>}
=============================================================================
