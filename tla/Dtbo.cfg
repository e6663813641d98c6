SPECIFICATION Spec
CONSTANTS
  p = p
  q = q
  e = e
  NoFile = NoFile
  MaxArgs = 3
  File <- MCFile
  Cell <- MCCell
  Content <- MCContent
  Packed <- MCPacked
  Word = 64
  Command <- MCCommand
  Again <- MCAgain
  Line <- MCLine
  MaxNames = 3
INVARIANTS TypeOK EntriesPointAtTheirFiles TotalSizeIsFileSize BlobsNeverOverlap DumpReturnsFiles CutImageDumpsPrefixes
