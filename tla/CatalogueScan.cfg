CONSTANTS
  g1 = g1
  g2 = g2
  Home = Home
  Groups <- MCGroups
  Lots = {1, 2, 3, 4, 5}
  GroupOf <- Split
  Within <- Texts
  PageSize = 2
  MaxPages = 2
  MaxPriceFailures = 2
  Adapters = {"prado", "todoremates", "bavastro", "remotes"}
  MaxFlaws = 1
  MaxFaults = 2
  MaxChanges = 2
SPECIFICATION Spec
INVARIANTS
  AuthorityIsTrue
  ResultIsAccepted
  PartialNeedsCause
