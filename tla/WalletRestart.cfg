SPECIFICATION Spec
CONSTANTS
  Candidates = {k1}
  Payable = {k1}
  Commands = {c1}
  Manual = Manual
  EnvKey = TRUE
  MaxRequests = 2
  MaxInputs = 1
  MaxCrashes = 1
INVARIANTS SettledHasPayment
PROPERTIES DurableDedupe
CHECK_DEADLOCK FALSE
