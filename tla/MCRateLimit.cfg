CONSTANTS
  c1 = c1
  c2 = c2
  c3 = c3
  k1 = k1
  k2 = k2
  Calls = {c1, c2, c3}
  Connections = {k1, k2}
  PerMinute = 2
  PerDay = 1
  PerMonth = 2
  Day = 2
  Month = 8
  KeyTtl = 3
  IdleTtl = 2
  SweepInterval = 1
  MaxRetries = 2
  Slack = 1
  MaxTime = 4
  MaxCalls = 4
  None = None
SPECIFICATION RateSpec
INVARIANTS
  WindowsHold
PROPERTIES
  ChecksEnd
CHECK_DEADLOCK FALSE
