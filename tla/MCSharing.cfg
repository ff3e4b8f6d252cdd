CONSTANTS
  ada = ada
  bob = bob
  cy = cy
  g1 = g1
  g2 = g2
  r1 = r1
  r2 = r2
  d1 = d1
  Members = {ada, bob, cy}
  Guests = {g1, g2}
  Admins = {ada}
  Owner <- MCOwner
  Documents = {d1}
  Projects = {p1}
  Requests = {r1, r2}
  Offered = {"share", "edit"}
  Lent = {"comment"}
  GuestLimit = 1
  MaxGrants = 3
  MaxCalls = 4
  Link = Link
  None = None
SPECIFICATION SharingSpec
SYMMETRY MCSymmetry
INVARIANTS
  GuestCapHeld
PROPERTIES
  EditorsGrowFromEditors
  RevokedStaysRevoked
CHECK_DEADLOCK FALSE
