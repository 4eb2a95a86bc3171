SPECIFICATION Spec
CONSTANTS
  Candidates = {k1}
  Payable = {k1}
  Commands = {}
  Manual = Manual
  EnvKey = TRUE
  MaxRequests = 2
  MaxInputs = 0
  MaxCrashes = 1
INVARIANTS OneAttempt
CHECK_DEADLOCK FALSE
