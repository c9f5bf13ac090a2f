SPECIFICATION MCFairSpec
CONSTANTS
  Streams <- OneStream
  Parallelisms <- MoreParallelisms
  ReorderDepth <- Depths
  MaxReorderDepth = 1
  Targets <- SomeTargets
  Calls <- AllCalls
  MaxDisturbances = 1
PROPERTIES
  EveryCallComesBack
  EverySliceReturns
CHECK_DEADLOCK FALSE
