SPECIFICATION Spec
CONSTANTS
  Keys = {add, neg, sum, dot}
  CacheCapacity = 2
  MaxLookups = 6
INVARIANTS
  CompiledIsCached
  HoldsLatestMisses
CHECK_DEADLOCK FALSE
