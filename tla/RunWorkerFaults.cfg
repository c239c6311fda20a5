CONSTANTS
  NumJobs = 2
  Profiles = {p1, p2}
  System = {}
  Matches = {m1}
  ModeOf <- TwoModes
  DismissedBy <- TwoDismissed
  MaxAttempts = 2
  MaxCrashes = 1
  MaxErrors = 1
  p1 = p1
  p2 = p2
  m1 = m1
SPECIFICATION FairSpec
CHECK_DEADLOCK FALSE
INVARIANT CoveredAgrees
INVARIANT PublishedOnce
INVARIANT AttemptBound
INVARIANT ProfileOutlivesRun
INVARIANT OutboxSound
INVARIANT PolicyFollowed
PROPERTY SettledStaysSettled
PROPERTY EveryJobSettles
