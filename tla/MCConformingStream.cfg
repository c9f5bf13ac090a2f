SPECIFICATION MCSpec
CONSTANTS
  MaxNumRefFrames = 3
  MaxFrameNum = 4
  MaxReferenceId = 4
  FrameNums <- AllFrameNums
  Pocs <- Unused
  OperationLists <- AllLists
  MarkingLists <- KeptAndDropped
  MaxPictures = 10
  Modifications <- SomeModifications
  MaxLsb = 4
  OffsetForNonRefPic <- NegativeOne
  OffsetTopToBottom = 1
  OffsetForRefFrame <- Offsets
  PocTypes <- AllTypes
  Deltas <- SomeDeltas
  MaxOrdered = 7
  Machines = {"marking", "references", "order", "bits", "framing", "sets", "slice",
              "vp9 frames", "vp9 packet", "vp9 probabilities"}
INVARIANTS
  UniqueKeys
  WithinLimit
  LongTermWithinMaximum
  RecentFirst
  ModifiedListAsDescribed
  EveryReferenceNameable
  DerivesIntended
  FramingReadBack
  HeadersReadBack
PROPERTIES
  MarkingIsAtomic
  WindowDropsEarliest
  SlidingNeverRefused
  ReadsAsPlain
CHECK_DEADLOCK FALSE
