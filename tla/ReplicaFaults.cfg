SPECIFICATION FaultySpec
CHECK_DEADLOCK FALSE
CONSTANTS
  Me = 1
  Remote <- MCRemote
  DayMs = 3
  FutureDays = 1
  FlushEvery = 2
  FlushMs = 2
  SegmentCap = 2
  MaxBack = 1
  ShortWrites = TRUE
  PowerLoss = TRUE
  MaxNow = 2
  MaxWrites = 2
  MaxStops = 1
  CounterMax = 2
  MaxSkew = 2
  e = e
  g = g
  t = t
  Idle = Idle
  Edges = {e, g}
  Tests = {t}
  Rates <- MCRates
  Batch = 1
  Ceiling = 2
  MaxRecords = 3
  MaxFaults = 1
  MaxSeconds = 1
INVARIANTS
  KeptSurvives
  NothingUnseen
  NothingLost
  CountedOnce
  StopSendsAll
