\* Two reviewers asked and revoked in any order, two verdicts in flight while a
\* second version appears and a comment opens and closes.
SPECIFICATION Spec
CONSTANTS
  Comments = {c1}
  MaxVersion = 2
  Reviewers = {u1, u2}
  Asks = {a1, a2}
  Submissions = {s1, s2}
  MaxMs = 1
  None = None
SYMMETRY Symmetry
INVARIANTS
  RequestsAreWellFormed
  GateSeesOlderComments
  OverviewAgrees
PROPERTIES
  StatusChangesForAReason
CHECK_DEADLOCK FALSE
