SPECIFICATION MCSpec
CONSTANTS
  Samples <- Track
  PresentationOffset <- NegativeOne
  ReorderDepth = 1
  Targets <- SomeTargets
  Budgets <- SomeBudgets
  MaximumCheckpoints = 2
  MaximumBytes = 3
  MinimumDistance = 2
  MaxSeeks = 3
  MaxCaptures = 2
  MaxConfigures = 1
  Machines = {"controller", "samples", "boxes"}
INVARIANTS
  CursorPaired
  FirstFrameExact
  CacheAccounted
  SamplesAsWritten
  IndexSearchedAsDescribed
CHECK_DEADLOCK FALSE
