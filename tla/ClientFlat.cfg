SPECIFICATION Spec
CONSTANTS
  a = a
  b = b
  z = z
  Cell <- MCCell
  Zero = z
  BlockSize = 2
  FillLen = 2
  HeaderLen = 1
  Images <- MCPlainImages
  Data <- MCData
  Fills <- MCFills
  ReadSizes = {1, 3, 6}
  MaxSize = 6
  MaxChunks = 3
  PastEnd = 0
INVARIANTS TypeOK MemoryIsFresh SparseFileStaysReadable
PROPERTY HandlerIsFlat
CHECK_DEADLOCK FALSE
