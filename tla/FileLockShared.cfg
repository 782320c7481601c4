SPECIFICATION FairSpec
CHECK_DEADLOCK FALSE
CONSTANTS
  p1 = p1
  p2 = p2
  p3 = p3
  p4 = p4
  Proc = {p1, p2, p3, p4}
  Slow = FALSE
  MaxCrashes = 2
INVARIANTS
  OneAtATime
  TakenAfterDeath
PROPERTIES
  NobodyWedged
