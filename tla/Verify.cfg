SPECIFICATION Spec
CONSTANTS
  Align = 2
  Zero <- MCZero
  Fan = 2
  NoHash <- MCNoHash
  Part = {"boot", "system", "other"}
  Top = "vbmeta"
  Key = {"k1", "k2"}
  NoKey = "none"
  BlobAlign = 3
  StartFiles <- MCStartFiles
  NewFiles <- MCNewFiles
  MakeCommand <- MCMakeCommand
  VerifyCommand <- MCVerifyCommand
  MaxChanges = 1
INVARIANTS LastIsIncluded TreeIsMerkle VerifiedIsTrue RefusedForAReason
PROPERTIES VerdictIsReached
CHECK_DEADLOCK FALSE
