SPECIFICATION MCSpec
CONSTANTS
  Samples <- Track
  PresentationOffset <- NegativeOne
  ReorderDepth = 1
  Targets <- SomeTargets
  Budgets <- SomeBudgets
  MaximumCheckpoints = 2
  MaximumBytes = 4
  MinimumDistance = 3
  MaxSeeks = 2
  MaxCaptures = 3
  MaxConfigures = 0
  Machines = {"controller"}
INVARIANTS
  CheckpointsSpaced
CHECK_DEADLOCK FALSE
