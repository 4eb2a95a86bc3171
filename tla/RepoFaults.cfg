SPECIFICATION Spec
CONSTANTS
  Objects = {"offer"}
  Commands = {c1, c2}
  Faults = {"crash", "io"}
  MaxEvents = 4
  MaxFaults = 2
  MaxRebuilds = 1
  Scope <- ScopeByKind
  Companies <- CompaniesByKind
  Messages <- MessagesByKind
  Origin <- OriginByKind
  OriginStatus <- OriginStatusByKind
  CatalogRank <- RankByKind
SYMMETRY CommandSymmetry
INVARIANTS WriteAhead AnnouncedSurvives
CHECK_DEADLOCK FALSE
