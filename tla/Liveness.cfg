CONSTANTS
  Submitters = {s1, s2, s3}
  Workers = {w1, w2}
  FailureHandler = handler
  NoWorker = nobody
  MaxAttempts = 2
  MaxFaults = 1
  Env = {"submitCrash", "lockExpiry"}
SPECIFICATION FairSpec

  
PROPERTIES
  AcceptedIsResolved
  DeadLetterIsRouted
