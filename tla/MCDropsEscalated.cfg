SPECIFICATION DropsSpec
CONSTANTS
  g1 = g1  g2 = g2  d1 = d1  d2 = d2
  Games = {g1, g2}
  NoGame = none
  Priority <- NoPriority
  FallbackAll = TRUE
  Buffer = 1
  DropIds = {d1, d2}
  DropOrder <- TwoDrops
  GameOf <- TwoGameOf
  Required <- TwoRequired
  EndsAt <- TwoEndsAt
  Needs <- TwoNeeds
  GameOrder <- TwoGames
  InitialLinked = {g1}
  AutoStart = TRUE
  DryRuns = {FALSE}
  MaxNow = 1
  MaxChanges = 1
INVARIANTS
  FailedScanIsRetried
CHECK_DEADLOCK FALSE
