CONSTANTS
  MaxEvents = 2
  MaxReplays = 2
  MaxResumes = 1
SPECIFICATION FairSpec
INVARIANTS TypeOK OneReplayAtATime CancelledWritesAtMostOne SwitchIsPrompt
  CopiesAreAccounted ReplayCovers
PROPERTY SupersededReplayEnds
