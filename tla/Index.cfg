SPECIFICATION IndexSpec
CHECK_DEADLOCK FALSE
CONSTANTS
  a = a
  b = b
  c = c
  f = f
  g = g
  h = h
  C = C
  toA = toA
  toB = toB
  indexB = indexB
  npm = npm
  app = app
  lib = lib
  External = External
  None = None
  Gone = Gone
  Files <- Tree
  Names = {f, g, h, C}
  Specs = {toA, toB, indexB, npm}
  Points <- Paths
  Pkg <- Workspaces
  Versions <- Texts
  MaxRuns = 2
  Shared = FALSE
  TestFiles <- Suites
  TestNames = {}
  MaxImpactDepth = 4
  Observations <- Posted
  Coverage <- Ran
  T = T
  gone = gone
  Unreadable <- gone
  MaxRefLines = 3
  Changes <- ChangesAsked
  Ladders <- LaddersAsked
  c1 = c1
  c2 = c2
  d1 = d1
  life1 = life1
  Foreign = Foreign
INVARIANTS
  RowsAreBuilt
  OccurrencesCounted
  PackagesNeedWitness
  NoTestMissed
  ImpactIsExact
  LanesApart
  ChangeIsShown
  RungsGrow
  QuietHealthyIsWhole
