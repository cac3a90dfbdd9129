CONSTANTS
  Refreshes = {r1, r2}
  Window = 1
  MaxSamples = 1
  Outcomes <- GoodOrBad
  ErrorPercent = 10
  P95Alert = 2
  Cooldown = 1
  LogSize = 0
SPECIFICATION FairSpec
PROPERTIES
  AlertsConverge
  KeepsNotifying
