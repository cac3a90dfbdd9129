CONSTANTS
  Calls = {c1, c2, c3, c4}
  WindowMs = 1
  CooldownMs = 2
  MinSamples = 2
  ThresholdNum = 1
  ThresholdDen = 2
  MaxTime = 4
  Outcomes = {"ok", "transient", "permanent"}
  Operator = TRUE
SPECIFICATION Spec
CHECK_DEADLOCK FALSE
SYMMETRY Symmetry
INVARIANTS
  TypeOK
  HalfOpenIffProbe
  AlertWhileOpen
PROPERTIES
  TripsExactlyOnBreach
  
