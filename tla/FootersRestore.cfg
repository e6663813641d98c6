SPECIFICATION Spec
CONSTANTS
  a = a
  b = b
  z = z
  Cell <- MCCell
  DataCell <- MCCell
  Zero = z
  BlockSize = 4
  FillLen = 2
  HeaderLen = 1
  WithRaw = FALSE
  WithSparse = TRUE
  WithCrc = FALSE
  Commands = {"add_hash_footer"}
  PartitionSizes = {20}
  VbmetaLen = 3
  MaxVbmeta = 4
  DigestLen = 1
  FecLen = 4
  Fec = {FALSE}
  NoHashtree = {FALSE}
  Faults = {"raise"}
  Crashes = FALSE
  Careful = TRUE
  MaxBase = 5
  MaxChunks = 7
INVARIANT FailureRestores
CHECK_DEADLOCK FALSE
