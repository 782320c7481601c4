SPECIFICATION FairSpec
CHECK_DEADLOCK FALSE
CONSTANTS
  a = a
  b = b
  d1 = d1
  d2 = d2
  o1 = o1
  o2 = o2
  o3 = o3
  Node = {a, b}
  Op = {o1, o2, o3}
  Seg = {d1, d2}
  Author <- PairAuthor
  SegOf <- PairSegOf
  Initiates <- Both
  Links <- LiveLink
  Ahead <- AheadOfA
  Large <- LargeAtB
  MaxFails = 1
INVARIANTS
  SyncCatchesUp
PROPERTIES
  CopiesSpec
  Converges
