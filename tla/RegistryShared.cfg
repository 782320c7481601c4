SPECIFICATION FairSpec
CHECK_DEADLOCK FALSE
CONSTANTS
  p1 = p1
  p2 = p2
  p3 = p3
  e1 = e1
  e2 = e2
  e3 = e3
  Proc = {p1, p2, p3}
  Entry = {e1, e2, e3}
  Adds <- MCAdds
  Drops <- MCDrops
  Degrades = {p3}
  Retries = 1
  MaxCrashes = 1
  MaxSleeps = 1
PROPERTIES
  NothingClobbered
  NobodyWedged
