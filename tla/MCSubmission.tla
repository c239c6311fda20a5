---------------------------- MODULE MCSubmission ----------------------------
(* Submission for TLC: a day of four units and a grace of two.  Profile 1 has a *)
(* slot at the last unit of the day, profile 2 two slots a grace and a unit    *)
(* apart; the clock is even, goes back or goes forward by one unit.            *)
EXTENDS Submission, TLC

MCProfiles == {1, 2}
MCTimes == (1 :> {3}) @@ (2 :> {0, 3})
MCZones == [change : {1}, shift : {-1, 0, 1}]
MCKeys == {1}
CONSTANTS r1, r2
MCRequests == {r1, r2}
Same == Permutations(MCRequests)
=============================================================================
