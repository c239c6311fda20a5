---------------------------- MODULE MCRunWorker ----------------------------
(***************************************************************************)
(* Instances of RunWorker for TLC.                                         *)
(***************************************************************************)
EXTENDS RunWorker

CONSTANTS p1, p2, m1

\* One profile that hears of everything and has dismissed the only lot there is,
\* and one that hears of matches only.
TwoModes == [p \in {p1, p2} |-> IF p = p1 THEN "matches_or_failure" ELSE "matches"]
TwoDismissed == [p \in {p1, p2} |-> IF p = p1 THEN {m1} ELSE {}]
=============================================================================
