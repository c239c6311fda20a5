SPECIFICATION Spec
CONSTANTS
  g1 = g1
  g2 = g2
  a = a
  b = b
  c = c
  Groups = {g1, g2}
  Lots = {a, b}
  GroupOf <- TwoGroups
  Volatile = FALSE
  QuarantineMin = 2
  QuarantineRatio = 2
  Wanted = {a}
  Runs = {r1, r2}
  NoRun = none
  NoGroup = none
  MaxInterrupts = 2
INVARIANTS AuthorityIsExact SnapshotIsCurrent
PROPERTY RemovedWasGone
