SPECIFICATION Spec
CONSTANTS
  a = a
  b = b
  z = z
  Cell <- MCCell
  DataCell <- MCCell
  Zero = z
  BlockSize = 4
  FillLen = 2
  HeaderLen = 1
  WithRaw = TRUE
  WithSparse = TRUE
  WithCrc = FALSE
  Commands = {"add_hash_footer", "append_vbmeta_image", "add_hashtree_footer", "resize_image", "zero_hashtree", "erase_footer"}
  PartitionSizes = {0, 18, 20, 32}
  VbmetaLen = 3
  MaxVbmeta = 4
  DigestLen = 1
  FecLen = 4
  Fec = {TRUE, FALSE}
  NoHashtree = {TRUE, FALSE}
  Faults = {"raise", "tool"}
  Crashes = TRUE
  Careful = TRUE
  MaxBase = 5
  MaxChunks = 7
INVARIANTS TypeOK RestsOnLayout  BaseSurvives FooterVerifies
CHECK_DEADLOCK FALSE
