SPECIFICATION Spec
CONSTANTS
  Log = {"log1", "log2"}
  Vbmeta = {"v"}
  VbmetaSize = 2
  Pad <- MCPad
  PaddingSizes = {0, 4}
  ReadLimit = 100
  StartTrees <- MCStartTrees
  MaxLeaves <- MCMaxLeaves
INVARIANT TrueMeansValidated
CHECK_DEADLOCK FALSE
