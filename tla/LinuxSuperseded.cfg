CONSTANTS
  NoKey = NoKey
  txt = txt
  img = img
  now = now
  Key = {txt, img, now}
  Eager = {now}
  Kind <- MCKind
  MaxAnnounce = 2
  MaxPaste = 1
  MaxCopy = 1
  Quits = FALSE
SPECIFICATION FairSpec
CHECK_DEADLOCK FALSE
PROPERTY SupersededDrained
