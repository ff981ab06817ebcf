CONSTANTS
  Handlers = {h1}
  MaxStreams = 1
  FreshTicks = 1
  QueueMax = 3
  MaxBacklog = 3
SPECIFICATION LoopFairSpec
PROPERTY IdleConsumerAdmits
