SPECIFICATION FilesSpec
CONSTANTS
  DealIds = {d1, d2}
  Roots = {r1}
  Proposals = {o1}
  Contracts = {c1}
  Commands = {p1, p2}
  None = None
  MaxCommands = 5
  MaxCrashes = 1
  Uris = {u1, u2}
  Keys = {k1, k2}
  EnvKeys = {k1}
  Calls = {p1, p2}
  Absent = Absent
  Torn = Torn
  Starters = {p1, p2}
  Nobody = Nobody
  MaxSeeds = 3
  Shells = {p1, p2}
  Names = {n1, n2}
  Dirs = {e1, e2}
  Nothing = Nothing
INVARIANTS RecordsAreBacked ProofGatesPayment AnswersAreKept ConnectionKept UsesCurrent PersistentDid ResolvesRight
SYMMETRY Symmetry
CHECK_DEADLOCK FALSE
