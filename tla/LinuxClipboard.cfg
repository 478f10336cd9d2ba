CONSTANTS
  NoKey = NoKey
  txt = txt
  img = img
  now = now
  Key = {txt, img, now}
  Eager = {now}
  Kind <- MCKind
  MaxAnnounce = 2
  MaxPaste = 1
  MaxCopy = 2
  Quits = TRUE
SPECIFICATION FairSpec
CHECK_DEADLOCK FALSE
INVARIANTS TypeOK EchoSuppressed OwnershipAgrees
PROPERTIES PasteServed ImplementsLazy
