CONSTANTS
  MaxObjects = 3
  MaxCopies = 2
  MaxFrames = 2
SPECIFICATION FairSpec
CHECK_DEADLOCK FALSE
INVARIANTS TypeOK RefsBalanced FilesMatch
PROPERTY HelperExits
