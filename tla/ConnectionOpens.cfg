SPECIFICATION Spec
CONSTANTS
  MaxFrames = 1
  MaxRefused = 1
  MaxBatch = 1
INVARIANTS
  OpensOrFails
CHECK_DEADLOCK FALSE
