CONSTANTS
  ada = ada
  cy = cy
  dan = dan
  gus = gus
  i1 = i1
  c1 = c1
  c2 = c2
  People = {ada, cy, dan, gus}
  Founders = {ada}
  Outsiders = {gus}
  Federated = {dan}
  Invites = {i1}
  SignIns = {c1, c2}
  MaxSignIns = 2
  MaxChanges = 4
  None = None
SPECIFICATION MembershipSpec
SYMMETRY MCSymmetry
INVARIANTS
  OneJoinsUnlessRaced
  MembersHaveAReason
PROPERTIES
  LastAdminByStaleBadge
CHECK_DEADLOCK FALSE
