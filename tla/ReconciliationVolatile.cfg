SPECIFICATION FairSpec
CONSTANTS
  g1 = g1
  g2 = g2
  a = a
  b = b
  c = c
  Groups = {g1}
  Lots = {a, b, c}
  GroupOf <- OneGroup
  Volatile = TRUE
  QuarantineMin = 2
  QuarantineRatio = 2
  Wanted = {}
  Runs = {r1}
  NoRun = none
  NoGroup = none
  MaxInterrupts = 1
PROPERTIES NoImplausibleDrop GoneIsRetired
