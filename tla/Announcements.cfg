CONSTANTS
  l1 = l1
  l2 = l2
  console = console
  game = game
  maker = maker
  parts = parts
  Free = Free
  Gone = Gone
  Lots <- MCLots
  Terms <- MCTerms
  Contents <- MCContents
  Searches <- MCSearches
  MaxLots = 1
  MaxTerms = 2
  MaxEvents = 3
SPECIFICATION NewsSpec
SYMMETRY Same
INVARIANTS
  NewsTypeOK
  PictureIsCurrent
PROPERTIES
  NoNewsTwice
