CONSTANTS
  NoText = NoText
  NoKey = NoKey
  hi = hi
  huge = huge
  doc = doc
  pic = pic
  Text = {hi, huge}
  Oversize = {huge}
  Key = {doc, pic}
  TextKey = {doc}
  MaxFrames = 2
  InCap = 1
  OutCap = 1
  MaxUser = 1
SPECIFICATION FairSpec
CHECK_DEADLOCK FALSE
INVARIANTS TypeOK ForeignTextCached
PROPERTY HelperExits
