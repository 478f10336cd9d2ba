CONSTANTS
  MaxPipes = 2
  MaxFrames = 2
  WireCap = 1
SPECIFICATION FairSpec
CHECK_DEADLOCK FALSE
INVARIANTS TypeOK FifoOrder ActiveIsOpen
PROPERTIES ServeLoopStops FrameDelivered
