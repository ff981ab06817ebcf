SPECIFICATION Spec
CONSTANTS
  DailyUsers = {0, 1, 40}
  Sessions = {5, 10}
  ReadRatios = {0, 1, 9}
  Bursts = {0, 1, 4}
  Hits = {0, 8, 10, 11}
  Replicas = {0, 1, 3}
  NodeRates = {10, 25}
  HotParts = {0, 1, 10}
  Buffers = {0, 4, 10}
  ColdPrices = {1, 20}
  Amplification = 14
  IndexOverhead = 3
  NodePrice = 3
  SecondsPerDay = 2
  SampleRequests = 3
  SampleWorkers = 2
INVARIANTS PlanMeetsTargets KnobsLowerCost SampleTracksConfig
