CONSTANTS
  MaxEvents = 4
  BadEvents = {}
  QueueMax = 2
  QueueGuard = 4
  MaxCrashes = 0
SPECIFICATION Spec
PROPERTY FlowBoundsQueue
CHECK_DEADLOCK FALSE
