CONSTANTS
  p1 = p1
  f1 = f1
  c1 = c1
  c2 = c2
  r1 = r1
  r2 = r2
  Docs = {1, 2, 3, 4}
  Old = {1, 2}
  Projects = {p1}
  Paths = {f1}
  Calls = {c1, c2}
  MaxDocs = 2
  MaxPerProject = 1
  MaxEvents = 4
  Now = 2
  Micros = 2
  Fetches = {r1}
  Lanes = {"all", p1}
  Limit = 1
  None = None
SPECIFICATION HomeSpec
SYMMETRY MCSymmetry
INVARIANTS
  CapsHeld
  RawConflictsAreRaces
  ListedOnce
CHECK_DEADLOCK FALSE
