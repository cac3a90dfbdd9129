CONSTANTS
  Submitters = {s1, s2, s3}
  Workers = {w1, w2}
  FailureHandler = handler
  NoWorker = nobody
  MaxAttempts = 3
  MaxFaults = 1
  Env = {"submitCrash", "workerCrash"}
SPECIFICATION Spec
SYMMETRY Symmetry
INVARIANTS
  TypeOK
  AtMostOneCharge
  FinalizedIsTrue
PROPERTIES
  TerminalIsStable
  AnswersAreTrue
