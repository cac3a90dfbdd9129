CONSTANTS
  Submitters = {s1, s2, s3}
  Workers = {w1, w2}
  FailureHandler = handler
  NoWorker = nobody
  MaxAttempts = 1
  MaxFaults = 1
  Env = {"overlap", "submitCrash", "workerCrash", "stall", "leaseExpiry", "retention"}
SPECIFICATION Spec
SYMMETRY Symmetry
INVARIANTS
  ExecutionMutex
  CompletedIsSettled
  
