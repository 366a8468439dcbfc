SPECIFICATION FairSpec
CONSTANTS
  Threads = {t1, t2}
  Requests <- SmallAndLarge
  Sizes = {1, 2}
  MaxQueueDepth = 2
  MaxQueueBytes = 5
  DeadlineTicks = 8
  AutoFlush = "off"
  Faults = {"none", "device_lost", "readback"}
  Capacity = 3
  MaxAllocations = 3
INVARIANTS
  TypeOK
  QueueBounded
  FlushNeverInvents
  LostDeviceLeavesQueueEmpty
  ReadOnce
  FailureMeansEvicted
PROPERTIES
  RunsPool
  CallsReturn
CHECK_DEADLOCK FALSE
