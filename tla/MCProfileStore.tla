--------------------------- MODULE MCProfileStore ---------------------------
(* ProfileStore for TLC: the protected profile, one id of users that may be    *)
(* created twice, two clients, two releases.                                   *)
EXTENDS ProfileStore, TLC

CONSTANTS c1, c2, u1, x
MCClients == {c1, c2}
MCUserIds == {u1}
MCCriteria == {x}
MCSeeds == {1, 2}
Same == Permutations(MCClients)
=============================================================================
