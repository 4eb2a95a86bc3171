SPECIFICATION MarketSpec
CONSTANTS
  Products = {p1}
  Adverts = {a1}
  Proposals = {o1}
  Agreements = {g1}
  Marketplaces = {m1, m2}
  Terms = {t1, t2}
  Agents = {alice, bob}
  NoSource = NoSource
PROPERTIES AcceptedTermsStand
CHECK_DEADLOCK FALSE
