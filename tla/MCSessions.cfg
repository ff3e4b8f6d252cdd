CONSTANTS
  r1 = r1
  r2 = r2
  s1 = s1
  s2 = s2
  Requests = {r1, r2}
  Servers = {s1, s2}
  TTL = 2
  OrgMaxes = {1}
  CacheTtl = 1
  GrantEnd = 2
  MaxTime = 3
  MaxEvents = 4
  Kinds = {"read", "admin"}
  Unset = Unset
SPECIFICATION SessionsSpec
SYMMETRY MCSymmetry
PROPERTIES
  ServedInTime
  RefusalsAreExplained
CHECK_DEADLOCK FALSE
