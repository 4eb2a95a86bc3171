SPECIFICATION Spec
CONSTANTS
  MaxClients = 2
  MaxDaemons = 2
  MaxGiven = 3
  MaxFailures = 1
  Sockets = {s1, s2}
  Agents = {a1, a2}
  Unknown = Unknown
  Peers = {a1, a2}
  Walks = {w1, w2}
  NoPeer = NoPeer
  MaxLength = 2
  MaxLosses = 1
  Requests = {q1, q2}
  Bills = {b1}
  Msats = {2500}
INVARIANTS CommandsFinishFirst StopMeansStopped ListenersAreKnown SessionsAreAuthentic TableFollowsSockets StopClosesAll SeenIsReported ReportsAreTrue
PROPERTIES ShutdownEnds HandshakesEnd AllIsReported RequestsEnd
CHECK_DEADLOCK FALSE
