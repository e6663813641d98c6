SPECIFICATION Spec
CONSTANTS
  a = a
  b = b
  z = z
  Cell <- MCCell
  Zero = z
  BlockSize = 2
  FillLen = 2
  HeaderLen = 1
  Images <- MCOneChunk
  Data <- MCData
  Fills <- MCFills
  ReadSizes = {1}
  MaxSize = 2
  MaxChunks = 1
  PastEnd = 1
PROPERTY HandlerIsFlat
CHECK_DEADLOCK FALSE
