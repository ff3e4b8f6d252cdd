\* One document, two uploads, one comment and one delete beside the scheduler,
\* which may fail once anywhere.  No symmetry: temporal properties are checked.
SPECIFICATION FairSpec
CONSTANTS
  Documents = {d1}
  Contents = {h1}
  Comments = {c1}
  Requests = {r1, r2}
  Deletes = {x1}
  MaxSeq = 2
  VersionCap = 2
  KeepLastN = 1
  MaxFaults = 1
  None = None
INVARIANTS
  ErasuresAreTrue
PROPERTIES
  ErasureEnforced
  DeletedArePurged
CHECK_DEADLOCK FALSE
