CONSTANTS
  r1 = r1
  r2 = r2
  Profiles <- MCProfiles
  Times <- MCTimes
  Zones <- MCZones
  Requests <- MCRequests
  ClientKeys <- MCKeys
  Day = 4
  Grace = 2
  Horizon = 4
  MaxRows = 2
  MaxUpsets = 1
CHECK_DEADLOCK FALSE
SPECIFICATION Spec
SYMMETRY Same
INVARIANTS
  TypeOK
  SlotAttended
  CoveredNotRepeated
  KeyHonoured
