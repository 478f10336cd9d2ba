CONSTANTS
  NoKey = NoKey
  Other = Other
  txt = txt
  fls = fls
  now = now
  Key = {txt, fls, now}
  Eager = {now}
  Kind <- MCKind
  MaxAnnounce = 2
  MaxPaste = 3
  MaxCopy = 1
  MaxSignals = 2
  Cancels = TRUE
SPECIFICATION FairSpec
CHECK_DEADLOCK FALSE
INVARIANTS TypeOK PasteFresh RequestOutstanding NoSelfRead CopyReported
PROPERTIES RenderServed ImplementsLazy
