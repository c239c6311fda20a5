CONSTANTS
  g1 = g1
  g2 = g2
  NoAuction = NoAuction
  w1 = w1
  w2 = w2
  Auctions <- MCAuctions
  Workers <- MCWorkers
  NumLots = 3
  PageSize = 2
  MaxPages = 2
  MaxRequests = 4
  Capacity = 3
  MaxFaults = 1
  MaxChanges = 1
SPECIFICATION ScanSpec
SYMMETRY Same
INVARIANTS
  ScanTypeOK
  AuthorityIsTrue
  PartialNeedsCause
