SPECIFICATION Spec
CONSTANTS
  Streams <- ResettingStream
  Parallelisms <- SomeParallelisms
  ReorderDepth <- Depths
  MaxReorderDepth = 1
  Targets <- SomeTargets
  Calls <- OnlyDrain
  MaxDisturbances = 0
INVARIANTS
  PresentationOrder
CHECK_DEADLOCK FALSE
