CONSTANTS
  MaxEvents = 5
  BadEvents = {3}
  QueueMax = 1
  QueueGuard = 3
  MaxCrashes = 1
SPECIFICATION FairSpec
INVARIANTS TypeOK LenAccounting InOrder NothingVanishes LossIsBounded
  NewestDroppedOnlyWithFlowOff AbortsOnlyNearGuard
PROPERTIES EventuallyDrained ImplementsDelivery
