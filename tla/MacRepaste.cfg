CONSTANTS
  NoTransfer = NoTransfer
  t1 = t1
  t2 = t2
  big = big
  small = small
  empty = empty
  Transfer = {t1, t2}
  Key = {big, small, empty}
  TransferOf <- MCTransferOf
  Size <- MCSize
  kPipelineDepth = 2
  Repaste = TRUE
  Unreliable = {}
  MaxPaste = 2
  MaxAnnounce = 1
SPECIFICATION Spec
CHECK_DEADLOCK FALSE
INVARIANT SuccessComplete
