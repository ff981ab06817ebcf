SPECIFICATION FairSpec
CONSTANTS
  WorkerCounts = {1, 2}
  Totals = {0, 3}
  Multipliers = {2}
  Limits = {0, 2}
  Unbounded = Unbounded
INVARIANTS InSystemBounded ReportsAddUp
PROPERTY BenchmarkEnds
CHECK_DEADLOCK FALSE
