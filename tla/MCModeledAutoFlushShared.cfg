SPECIFICATION Spec
CONSTANTS
  Threads = {t1, t2}
  Requests <- SmallAndLarge
  Sizes = {1, 2}
  MaxQueueDepth = 2
  MaxQueueBytes = 4
  DeadlineTicks = 8
  AutoFlush = "on"
  Faults = {"none"}
  Capacity = 3
  MaxAllocations = 3
INVARIANT AutoFlushAdmits
CHECK_DEADLOCK FALSE
