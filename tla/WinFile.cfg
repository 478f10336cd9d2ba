SPECIFICATION FairSpec
CONSTANTS
  Streams = {"s1", "s2"}
  Files = {"f1", "f2"}
  Opened <- OneOrTwoFiles
  FileSize = 2
  MaxCalls = 2
  h1 = h1
  h2 = h2
  Handles = {h1, h2}
INVARIANTS TypeOK ReadAtCursor CompleteAtEof NoLostWakeup
PROPERTY TeardownDrains
CHECK_DEADLOCK FALSE
