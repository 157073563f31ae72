SPECIFICATION TelemetrySpec
CONSTANTS
  s1 = s1  s2 = s2  d1 = d1
  a1 = a1  b1 = b1  a2 = a2  x1 = x1
  g1 = g1  g2 = g2
  Statics = {s1, s2}
  Position <- MCPosition
  Sessions = {a1, b1, a2, x1}
  Owner <- MCOwner
  GameOf <- MCGameOf
  Games = {g1, g2}
  None = none
  Tick = 2
  PulseTimes = {4, 5}
  AuxTimes = {4}
  Offset = 2
  Margin = 1
  MinWindow = 1
  Lease = 8
  Pulses = 2
  MaxFailures = 2
  Backoff = 6
INVARIANTS
  TelemetryTypeOK AuxiliaryBehindPrimary NoPresenceOnceDisabled ReportOnTime NobodyPassedOver
