SPECIFICATION Spec
CONSTANTS
  Milestones = {m1, m2}
  Actors = {alice, bob, mallory}
  Parties = {alice, bob}
  ProofRefs = {evidence}
  CounterpartyMode = {m2}
  Nobody = Nobody
  Products = {p1}
  Adverts = {a1}
  Proposals = {o1}
  Agreements = {g1}
  Marketplaces = {here, there}
  Terms = {t1, t2}
  Agents = {alice, bob}
  NoSource = NoSource
  Members = {alice, bob, mallory}
  Attested = {w1}
  Reservations = {r1}
  Venues = {here}
  Spaces = {s1}
  Persons = {alice, bob}
  Notes = {n1}
  MaxMemberships = 2
  Cases = {"deterministic", "oracle", "hybrid", "mutual"}
  CaseParties = {alice, bob}
  Mode <- ModeByName
  Authorized = {bob}
  Quorum = 2
  Verifiers = {v1, v2}
  Trusted = {v1}
  NoVerifier = NoVerifier
  Agencies = {alice, bob}
  CaseMilestones = {m1}
  AnyMilestone = AnyMilestone
  Bundles = {b1}
  Attestations = {x1}
  Disputes = {d1}
  MaxCited = 2
  AgentCalls = {first, second}
  Entries = {e1}
  Signers = {alice, bob}
  Words = {here, there}
  ObjectKinds = {"contract", "message"}
INVARIANTS CompletedIsProven AttributionHolds AlwaysOwned VoicesAreMembers RuledCasesHold ProfileMatchesRefs VerifiesWhatWasSigned
PROPERTIES ContractOnlyAdvances MarketOnlyMovesOn SilencedForGood SealedForMembers
CHECK_DEADLOCK FALSE
