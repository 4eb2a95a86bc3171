SPECIFICATION Spec
CONSTANTS
  Objects = {"contract", "offer"}
  Commands = {c1}
  Faults = {}
  MaxEvents = 4
  MaxFaults = 0
  MaxRebuilds = 1
  Scope <- ScopeByKind
  Companies <- CompaniesByKind
  Messages <- MessagesByKind
  Origin <- OriginByKind
  OriginStatus <- OriginStatusByKind
  CatalogRank <- RankByKind
INVARIANTS RebuildSucceeds
CHECK_DEADLOCK FALSE
