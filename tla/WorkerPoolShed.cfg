SPECIFICATION Spec
CONSTANTS
  WorkerCounts = {2}
  Totals = {2}
  Multipliers = {3}
  Limits = {1}
  Unbounded = Unbounded
PROPERTY RejectsOnlyWhenFull
CHECK_DEADLOCK FALSE
