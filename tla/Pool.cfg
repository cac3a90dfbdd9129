CONSTANTS
  Calls = {c1, c2, c3}
  Workers = {w1, w2, w3, w4}
  None = none
  PoolSize = 1
  Sizes <- AskedSizes
  ColdStart = FALSE
SPECIFICATION FairSpec
INVARIANTS
  TypeOK
  WorkersAccounted
  PoolIsAsked
  ShutdownDrains

  
