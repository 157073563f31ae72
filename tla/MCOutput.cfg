SPECIFICATION MCOutputSpec
CONSTANTS
  s = s  d1 = d1  d2 = d2  g1 = g1  g2 = g2  c1 = c1  k1 = k1  k2 = k2
  Logins = {d1}
  StaticLogins = {}
  Games = {g1}
  InitialRoster <- DynamicList
  Rosters <- DynamicRosters
  GameLists <- OneGameLists
  Claims = {c1}
  ClaimLogin <- MCClaimLogin
  BonusPoints = 1
  Balances = {0}
  PointGains = {1}
  MaxPoints = 1
  ClaimDrops = TRUE
  ClaimBonuses = TRUE
  DryRun = FALSE
  EventCap = 1
  OutCap = 1
  Channels = {d1}
  Clients = {k1, k2}
  NoClient = none
  NoChannel = nowhere
INVARIANTS
  ReportsAddUp
  BonusesBacked
  ChatFollows
PROPERTIES
  EngineAnswers
  ReportsAlternate
  AllEnds
