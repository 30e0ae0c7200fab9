SPECIFICATION FairSpec
CONSTANTS
  MaxFrames = 2
  MaxRefused = 1
  MaxBatch = 2
INVARIANTS
  TypeOK
  EndedOnce
  OneAtATime
  Watched
  Answered
  CloseIsLast
PROPERTIES
  KeepsPromise
CHECK_DEADLOCK FALSE
