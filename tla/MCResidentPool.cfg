SPECIFICATION TracedSpec
CONSTANTS
  Capacity = 5
  Sizes = {0, 1, 2, 3, 5, 6}
  MaxAllocations = 5
INVARIANTS
  PoolBounded
  OldestFirst
PROPERTIES
  ImplementsArena
CHECK_DEADLOCK FALSE
