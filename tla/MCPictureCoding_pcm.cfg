SPECIFICATION MCSpec
CONSTANTS
  Slots = {0, 1}
  ContextIndices = {0, 1}
  Packets <- SomePackets
  Sizes = {"small", "large"}
  Colors = {"8 bit", "10 bit"}
  MaxPackets = 4
  MaxResets = 2
  Machines = {"engine"}
INVARIANTS
  PcmReadBack
CHECK_DEADLOCK FALSE
