CONSTANTS
  Calls = {c1, c2}
  Workers = {w1, w2, w3, w4}
  None = none
  PoolSize = 1
  Sizes <- AskedSizes
  ColdStart = TRUE
SPECIFICATION Spec
SYMMETRY Symmetry
INVARIANTS
  ShutdownDrains
