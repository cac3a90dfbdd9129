CONSTANTS
  Refreshes = {r1}
  Window = 1
  MaxSamples = 2
  Outcomes <- AllOutcomes
  ErrorPercent = 10
  P95Alert = 2
  Cooldown = 1
  LogSize = 3
SPECIFICATION Spec
INVARIANTS
  TypeOK
  WindowIsExact
  
  CircuitAlertIsExact
