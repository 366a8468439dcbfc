CONSTANTS
  None = None
  Refused = Refused
  Threads = {"t1", "t2"}
  Matrices <- MCMatrices
  Handles = {"h1", "h2"}
  Foreign <- MCForeign
  Methods = {"cg", "bicgstab"}
  MaxIters = 2
  MaxRefinements = 1
  MaxResidentBytes = 40
  QueueDepth = 3
  MaxCalls = 2
  MaxAccepted = 60
SPECIFICATION Spec
INVARIANTS
  SolutionIsOfItsMatrix
  SubmissionsAccounted
  ResidentCoversFactors
PROPERTIES
  CallsReturn
CHECK_DEADLOCK FALSE
