SPECIFICATION FairSpec
CONSTANTS
  Candidates = {k1, k2}
  Payable = {k1}
  Commands = {}
  Manual = Manual
  EnvKey = FALSE
  MaxRequests = 2
  MaxInputs = 2
  MaxCrashes = 0
INVARIANTS OneAttempt
PROPERTIES Settles
CHECK_DEADLOCK FALSE
