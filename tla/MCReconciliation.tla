-------------------------- MODULE MCReconciliation --------------------------
(* Small instances of Reconciliation for TLC: two groups with one lot each, so *)
(* that omission matters, and one group of three, so that the quarantine does. *)
EXTENDS Reconciliation, TLC

CONSTANTS g1, g2, a, b, c

TwoGroups == (a :> g1) @@ (b :> g2)
OneLot    == (a :> g1)
OneGroup  == (a :> g1) @@ (b :> g1) @@ (c :> g1)
=============================================================================
