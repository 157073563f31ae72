SPECIFICATION RosterFairSpec
CONSTANTS
  s = s  d1 = d1  d2 = d2  g1 = g1  g2 = g2  c1 = c1
  Logins = {d1}
  StaticLogins = {}
  StaticOrder <- NoStatic
  InitialDynamic <- OneFound
  Games = {g1, none}
  NoGame = none
  Offline = offline
  MaxChanges = 1
  MaxRotations = 1
  Ranking <- OneGame
  InitialRoster <- StartList
  Rosters <- SentRosters
  GameLists <- MCGameLists
  Claims = {c1}
  ClaimLogin <- MCClaimLogin
  BonusPoints = 1
  Balances = {}
  PointGains = {}
  MaxPoints = 0
  ClaimDrops = TRUE
  ClaimBonuses = TRUE
  DryRun = TRUE
  EventCap = 1
  OutCap = 1
INVARIANTS
  RotatedStaysOut
PROPERTIES
  OfflineLeaves
CHECK_DEADLOCK FALSE
