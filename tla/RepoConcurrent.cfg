SPECIFICATION FairSpec
CONSTANTS
  Objects = {"contract", "evidence-bundle", "product"}
  Commands = {c1, c2}
  Faults = {}
  MaxEvents = 3
  MaxFaults = 0
  MaxRebuilds = 1
  Scope <- ScopeByKind
  Companies <- CompaniesByKind
  Messages <- MessagesByKind
  Origin <- OriginByKind
  OriginStatus <- OriginStatusByKind
  CatalogRank <- RankByKind
INVARIANTS ProjectionsAgree
PROPERTIES ImplementsObjectLog CommandsEnd
CHECK_DEADLOCK FALSE
