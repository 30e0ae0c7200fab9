SPECIFICATION FramesSpec
CONSTANTS
  None = None
  PayloadBytes = {195, 128}
  MaxPayload = 2
  Basic = 1
  Extended = 2
  MaxMessage = 2
  MaxRead = 4
INVARIANT TextsAreWhole
CHECK_DEADLOCK FALSE
