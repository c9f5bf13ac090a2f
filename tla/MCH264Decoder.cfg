SPECIFICATION Spec
CONSTANTS
  Streams <- SomeStreams
  Parallelisms <- SomeParallelisms
  ReorderDepth <- Depths
  MaxReorderDepth = 1
  Targets <- SomeTargets
  Calls <- AllCalls
  MaxDisturbances = 2
INVARIANTS
  FormatAnnounced
  PresentationOrder
  SeekExact
  LossesAreReported
  InFlightBounded
CHECK_DEADLOCK FALSE
