SPECIFICATION Spec
CONSTANTS
  WorkerCounts = {1, 2}
  IoWorkerCounts = {1, 2}
  Totals = {0, 1, 4}
  ReadPercents = {0, 50, 100}
  ServiceTime = 2
  WriteTime = 3
  Lags = {0, 1}
INVARIANTS TypeOK ReportMatchesWorkload BottleneckFollowsPacing
