SPECIFICATION CheckoutSpec
CHECK_DEADLOCK FALSE
CONSTANTS
  d1 = d1
  d2 = d2
  a1 = a1
  a2 = a2
  i1 = i1
  i2 = i2
  i3 = i3
  x = x
  y = y
  Daemon = {d1, d2}
  Agent = {a1, a2}
  Id = {i1, i2, i3}
  Entity = {x, y}
  Wants <- WantsShared
  Near <- NearXY
  Late <- MCLate
  MaxTime = 1
  MaxOps <- ManyAndOne
  None = None
  Gone = Gone
  Legacy = Legacy
  a = a
  b = b
  t = t
  u = u
  main = main
  p = p
  q = q
  MaxStarts = 2
  MaxStops = 1
  StartKills = 2
  MaxSlow = 1
  MaxRecycled = 1
  CheckoutFiles = {a, b}
  Texts = {t, u}
  Nested = {b}
  Branches = {main, p, q}
  Tips <- MCTips
  MaxBranches = 2
  MaxMoves = 3
  MaxIngests = 2
  IngestKills = 1
INVARIANTS
  BoardIsOps
  OverlapNeedsWait
  OneDaemon
  StartHeals
  QuietIsRight
PROPERTIES
  StoppedIsQuiet
  IngestQuiets
