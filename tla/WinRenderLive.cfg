CONSTANTS
  NoHash = NoHash
  txt1 = txt1
  txt2 = txt2
  img1 = img1
  vfile = vfile
  Hash <- TextImage
  ContentType <- MCContentType
  Parent <- LiveFrames
  MaxDepth = 2
SPECIFICATION LiveSpec
INVARIANT WakeMeansAnswer
PROPERTIES RunSyncReturns RenderEnds
