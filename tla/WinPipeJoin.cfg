CONSTANTS
  MaxPipes = 1
  MaxFrames = 1
  WireCap = 1
SPECIFICATION ReadingSpec
CHECK_DEADLOCK FALSE
PROPERTY WriterJoined
