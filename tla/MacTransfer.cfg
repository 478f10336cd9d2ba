CONSTANTS
  NoTransfer = NoTransfer
  t1 = t1
  t2 = t2
  big = big
  small = small
  empty = empty
  Transfer = {t1, t2}
  Key = {big, small, empty}
  TransferOf <- MCTransferOf
  Size <- MCSize
  kPipelineDepth = 2
  Repaste = FALSE
  Unreliable = {small}
  MaxPaste = 2
  MaxAnnounce = 2
SPECIFICATION FairSpec
CHECK_DEADLOCK FALSE
INVARIANTS TypeOK SuccessComplete NoLeftovers
PROPERTY PasteCompletes
