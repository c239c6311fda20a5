CONSTANTS
  c1 = c1
  c2 = c2
  u1 = u1
  Sys = Sys
  NoProfile = NoProfile
  x = x
  UserIds <- MCUserIds
  Clients <- MCClients
  Seeds <- MCSeeds
  Criteria <- MCCriteria
  MaxWrites = 4
SPECIFICATION Spec
SYMMETRY Same
INVARIANTS
  PauseKept
  ProtectedKept
PROPERTIES
  NoLostUpdate
