CONSTANTS
  NoHash = NoHash
  txt1 = txt1
  txt2 = txt2
  img1 = img1
  vfile = vfile
  Hash <- AllContents
  ContentType <- MCContentType
  Parent <- AllFrames
  MaxDepth = 2
SPECIFICATION Spec
INVARIANTS TypeOK PasteFresh NoLostAnswer
