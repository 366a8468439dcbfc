SPECIFICATION Spec
CONSTANTS
  Threads = {t1}
  Requests <- WithOversized
  Sizes = {1, 2, 4}
  MaxQueueDepth = 2
  MaxQueueBytes = 5
  DeadlineTicks = 8
  AutoFlush = "on"
  Faults = {"none"}
  Capacity = 3
  MaxAllocations = 4
INVARIANTS
  QueueExact
  AutoFlushAdmits
  ReadbacksExact
CHECK_DEADLOCK FALSE
