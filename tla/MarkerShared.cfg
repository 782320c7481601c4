SPECIFICATION Spec
CHECK_DEADLOCK FALSE
CONSTANTS
  f1 = f1
  f2 = f2
  c1 = c1
  c2 = c2
  d1 = d1
  d2 = d2
  life1 = life1
  life2 = life2
  Foreign = Foreign
  Files <- Sources
  CliHandles = {c1, c2}
  DaemonHandles = {d1, d2}
  Life <- Restarted
  Starts <- NewOrWhole
  Refusals = TRUE
  Crashes = TRUE
  FailingJobs <- Jobs
  BatchSets <- NoBatches
  IncSets <- Changed
SYMMETRY EitherCommand
INVARIANTS
  HealthyIsWhole
