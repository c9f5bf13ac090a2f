SPECIFICATION MCSpec
CONSTANTS
  MaxNumRefFrames = 2
  MaxFrameNum = 5
  MaxReferenceId = 4
  FrameNums <- Unused
  Pocs <- Unused
  OperationLists <- OnlyReset
  MarkingLists <- OnlyReset
  MaxPictures = 6
  Modifications <- NoModifications
  MaxLsb = 4
  OffsetForNonRefPic <- NegativeOne
  OffsetTopToBottom = 1
  OffsetForRefFrame <- Offsets
  PocTypes <- AllTypes
  Deltas <- SomeDeltas
  MaxOrdered = 1
  Machines = {"references"}
INVARIANTS
  ResetStreamAccepted
CHECK_DEADLOCK FALSE
