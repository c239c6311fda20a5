CONSTANTS
  NumItems = 2
  Profiles = {p1, p2}
  System = {}
  OwnerOf <- AlternatingOwner
  MaxAttempts = 3
  MaxCrashes = 0
  MaxErrors = 0
  p1 = p1
  p2 = p2
SPECIFICATION FairSpec
CHECK_DEADLOCK FALSE
PROPERTY PendingIsServed
