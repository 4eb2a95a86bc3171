SPECIFICATION ResolutionSpec
CONSTANTS
  Cases = {"deterministic", "oracle", "hybrid", "mutual"}
  CaseParties = {alice, bob}
  Mode <- ModeByName
  Authorized = {bob}
  Quorum = 2
  Verifiers = {v1, v2}
  Trusted = {v1}
  NoVerifier = NoVerifier
  Agencies = {alice, bob}
  CaseMilestones = {m1}
  AnyMilestone = AnyMilestone
  Bundles = {b1}
  Attestations = {x1}
  Disputes = {d1}
  MaxCited = 2
PROPERTIES RulingIsFinal
CHECK_DEADLOCK FALSE
