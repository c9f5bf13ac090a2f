SPECIFICATION Spec
CONSTANTS
  Streams <- SomeStreams
  Parallelisms <- SomeParallelisms
  ReorderDepth <- Depths
  MaxReorderDepth = 1
  Targets <- SomeTargets
  Calls <- AllCalls
  MaxDisturbances = 1
INVARIANTS
  FormatAlwaysAnnounced
CHECK_DEADLOCK FALSE
