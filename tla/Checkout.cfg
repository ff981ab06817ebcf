CONSTANTS
  Requests = {r1, r2}
  ReapAbove = 1
SPECIFICATION FairSpec
INVARIANTS TypeOK MetricsMatchRequests SuccessIsCharged FaultEndsWithRun
PROPERTY ComesToRest
