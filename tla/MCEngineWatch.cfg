SPECIFICATION SchedulingSpec
VIEW Scheduling
CONSTANTS
  s = s  d1 = d1  d2 = d2  g1 = g1  g2 = g2  c1 = c1
  Logins = {s, d1, d2}
  StaticLogins = {s}
  Games = {g1, g2}
  InitialRoster <- FullList
  Rosters <- MCRosters
  GameLists <- MCGameLists
  Claims = {c1}
  ClaimLogin <- MCClaimLogin
  BonusPoints = 1
  Balances = {0}
  PointGains = {1}
  MaxPoints = 100
  ClaimDrops = TRUE
  ClaimBonuses = TRUE
  DryRun = FALSE
  EventCap = 1
  OutCap = 3
INVARIANTS
  TypeOK
  OneDynamic
  SelectionStable
  BestGameServed
PROPERTIES
  SameGameKept
CHECK_DEADLOCK FALSE
