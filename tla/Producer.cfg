CONSTANTS
  Handlers = {h1, h2}
  MaxStreams = 2
  FreshTicks = 2
SPECIFICATION FairSpec
INVARIANTS TypeOK OrphansOnlyFromOverlap RunningIsReal ShedVerdictIsRecent
PROPERTY CancelledEnds
