CONSTANTS
  a = a
  b = b
  Procs = {a, b}
  NumJobs = 2
  MaxAttempts = 2
  MaxCrashes = 1
  MaxErrors = 1
SPECIFICATION Spec
SYMMETRY Alike
CHECK_DEADLOCK FALSE
INVARIANT OverlapNeedsCause
INVARIANT CoveredAgrees
INVARIANT LeaseHasEngine
