SPECIFICATION FairSpec
CONSTANTS
  Threads = {t1, t2}
  Requests <- EachKind
  Sizes = {1, 2, 4}
  Keys = {"add", "sum"}
  CacheCapacity = 1
  MaxLookups = 3
  Capacity = 3
  MaxNodes = 1
  MaxAllocations = 3
INVARIANTS
  DepthOvershoot
  CheckedFits
  FlushReportsOnce
  EvidenceCoversWork
  ReadOnce
PROPERTY CallsReturn
CHECK_DEADLOCK FALSE
