\* Three slots, indexes that wrap after six, batches of up to three.
CONSTANTS
  Samples = {"a", "b"}
  Capacity = 3
  IndexRange = 6
  MaxBatch = 3
SPECIFICATION Spec
INVARIANTS TypeOK NoSlotShared
PROPERTY RefinesFifo
