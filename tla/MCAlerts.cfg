SPECIFICATION AlertsSpec
CONSTANTS
  a = a  b = b  g = g  h = h  s = s  t = t
  Drops = {a, b}
  Required <- TwoRequired
  Games = {g, h}
  Streamers = {s, t}
  GameOf <- BothOfG
  Pairs <- Found
  Nobody = nobody
  StallPolls = 3
  Threshold = 3
  Channels = {l1, l2}
  Clients = {c1, c2, c3}
  NoClient = none
  NoChannel = nowhere
  Senders = {n1, n2, n3}
  Unlocked = nobody
  Spacing = 2
  RetryDelays = {1, 3, 4}
  MaxDelay = 3
  DefaultDelay = 2
INVARIANTS
  AlertsTypeOK RotatedIfStill PresenceKept
PROPERTIES
  NoFalseAlarm CallsSpaced
