SPECIFICATION Spec
CONSTANTS
  cuda0 = cuda0
  rocm0 = rocm0
  Threads = {t1, t2}
  Sites = {cuda0, rocm0}
  Vendor <- MCVendor
  Installations <- MCInstallations
  Addresses = {a1, a2, a3}
  Tensors = {x1, x2}
  Shapes = {"conforming", "oversized", "nonconforming"}
  MaxCalls = 3
  None = None
SYMMETRY Symmetry
INVARIANTS
  BuffersAccounted
  HandlesAccounted
  ResultsAreProducts
  EvidenceAccounted
  RuntimeServes
PROPERTIES
  ReadAnswerIsFinal
CHECK_DEADLOCK FALSE
