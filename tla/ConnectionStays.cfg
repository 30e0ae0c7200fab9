SPECIFICATION ReadingSpec
CONSTANTS
  MaxFrames = 1
  MaxRefused = 0
  MaxBatch = 1
PROPERTIES
  RunExitsWhenClosed
CHECK_DEADLOCK FALSE
