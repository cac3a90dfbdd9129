CONSTANTS
  Submitters = {s1}
  Workers = {w1, w2}
  FailureHandler = handler
  NoWorker = nobody
  MaxAttempts = 2
  MaxFaults = 1
  Env = {"workerCrash", "leaseExpiry", "lockExpiry"}
SPECIFICATION FairSpec
PROPERTIES
  AcceptedIsResolved
