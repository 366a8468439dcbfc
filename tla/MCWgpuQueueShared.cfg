SPECIFICATION Spec
CONSTANTS
  Threads = {t1, t2}
  Requests <- PointwiseAndReduction
  Sizes = {0, 1, 2, 4}
  Keys = {"add", "sum", "dot"}
  CacheCapacity = 2
  MaxLookups = 3
  Capacity = 3
  MaxNodes = 1
  MaxAllocations = 3
INVARIANT QueueWithinLimits
CHECK_DEADLOCK FALSE
