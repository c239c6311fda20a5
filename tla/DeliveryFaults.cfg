CONSTANTS
  NumItems = 2
  Profiles = {p1, p2}
  System = {}
  OwnerOf <- AlternatingOwner
  MaxAttempts = 3
  MaxCrashes = 2
  MaxErrors = 2
  p1 = p1
  p2 = p2
SPECIFICATION FairSpec
CHECK_DEADLOCK FALSE
INVARIANT MailsBounded
INVARIANT SentWasMailed
INVARIANT OneInFlight
INVARIANT SecondMailNeedsFault
PROPERTY ImplementsBoundedDelivery
PROPERTY EveryNotificationEnds
