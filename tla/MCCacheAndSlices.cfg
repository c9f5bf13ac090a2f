SPECIFICATION MCSpec
CONSTANTS
  Sizes <- SomeSizes
  MaxSliceId = 2
  Modes <- SomeModes
  BatchRows = 1
  SeekBatchRows = 2
  MaxPictures = 2
  MaxFaults = 1
  t1 = t1
  t2 = t2
  Threads = {t1, t2}
  Length = 5
  BlockSize = 2
  MaxBlocks = 2
  Requests <- SharedRequests
  MaxCalls = 2
  MaxClears = 1
SYMMETRY Symmetry
INVARIANTS
  AwaitedBlockIsRequested
  InFlightIsShared
  FailuresAreNotCached
  ReadsAreExact
  QuiescentCapacity
  PrefetchKeepsWindow
  CompletedMeansWritten
  NeighboursAreOfThisSlice
PROPERTIES
  ReconstructsInOrder
CHECK_DEADLOCK FALSE
