SPECIFICATION FairSpec
CHECK_DEADLOCK FALSE
CONSTANTS
  f1 = f1
  f2 = f2
  f3 = f3
  main = main
  topic = topic
  NoKey = NoKey
  Branches = {main, topic}
  Files = {f1, f2, f3}
  MaxPending = 3
  MaxBatch = 1
  Threshold = 2
  MaxRuns = 2
  Budget <- SteadyBudget
INVARIANTS
  StaleIsComing
PROPERTIES
  CatchesUp
