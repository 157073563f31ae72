SPECIFICATION RosterSpec
VIEW RosterScheduling
CONSTANTS
  s = s  d1 = d1  d2 = d2  g1 = g1  g2 = g2  c1 = c1
  Logins = {s, d1}
  StaticLogins = {s}
  StaticOrder <- StaticSeq
  InitialDynamic <- NoneFound
  Games = {g1, none}
  NoGame = none
  Offline = offline
  MaxChanges = 3
  MaxRotations = 0
  Ranking <- OneGame
  InitialRoster <- StartList
  Rosters <- SentRosters
  GameLists <- MCGameLists
  Claims = {c1}
  ClaimLogin <- MCClaimLogin
  BonusPoints = 1
  Balances = {}
  PointGains = {}
  MaxPoints = 0
  ClaimDrops = TRUE
  ClaimBonuses = TRUE
  DryRun = TRUE
  EventCap = 2
  OutCap = 1
INVARIANTS
  StaticTracked
PROPERTIES
  EngineSpec
CHECK_DEADLOCK FALSE
