SPECIFICATION KilledSpec
CHECK_DEADLOCK FALSE
CONSTANTS
  Me = 1
  Remote <- MCRemote
  DayMs = 3
  FutureDays = 1
  FlushEvery = 2
  FlushMs = 2
  SegmentCap = 3
  MaxBack = 0
  ShortWrites = FALSE
  PowerLoss = FALSE
  MaxNow = 2
  MaxWrites = 2
  MaxStops = 2
  CounterMax = 2
  MaxSkew = 2
  a = a
  b = b
  x = x
  y = y
  c1 = c1
  c2 = c2
  Gone = Gone
  None = None
  Unknown = Unknown
  Files = {a, b}
  Texts = {y}
  Commits = {c1, c2}
  Tree <- MCTree
  Base = c1
  Ancestors <- MCAncestors
  Cap = 1
  MaxMoves = 2
  MaxMainMoves = 1
  MaxIngests = 1
  MaxKills = 1
INVARIANTS
  AckedSurvives
  OneOpPerKey
  FreshIsWorktree
PROPERTIES
  WritesDominate
  DurableSpec
  FreshAgain
