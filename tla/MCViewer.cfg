CONSTANTS
  t1 = t1
  t2 = t2
  r1 = r1
  r2 = r2
  Threads = {t1, t2}
  Requests = {r1, r2}
  MaxSeq = 3
  MaxActs = 3
  MaxOthers = 1
  Unset = Unset
SPECIFICATION ViewerSpec
SYMMETRY MCSymmetry
INVARIANTS
  RailShowsMyChanges
CHECK_DEADLOCK FALSE
