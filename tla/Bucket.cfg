CONSTANTS
  Callers = {c1, c2}
  Scale = 8
  NominalRate = 8
  MaxBurst = 32
  MinRate = 2
  MinBurst = 8
  AiRate = 4
  AiBurst = 8
  TokenWait = 2
  FullAfter = 16
  MaxThrottles = 2
  Operator = TRUE
SPECIFICATION FairSpec
INVARIANTS
  TypeOK
  AimdBounds
PROPERTIES
  ObeysNominal
  Recovers
