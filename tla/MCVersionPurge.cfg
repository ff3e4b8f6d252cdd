\* Three uploads of one document, failing anywhere and racing with the version purge
\* sweep, so that numbers finalize out of order before, between and after its reads;
\* or two of them and two publishes to the hub.
SPECIFICATION HubSpec
CONSTANTS
  Documents = {d1}
  Contents = {h1, h2}
  Comments = {}
  Requests = {r1, r2, r3}
  Deletes = {}
  Publishers = {p1, p2}
  MaxBeside = 2
  MaxSeq = 3
  VersionCap = 3
  KeepLastN = 1
  MaxFaults = 1
  None = None
SYMMETRY Symmetry
INVARIANTS
  ReservationsExclusive
  LiveVersionsReadable
  GhostsAccounted
  CurrentIsServed
  LastNKept
  HubServesItsSnapshot
PROPERTIES
  ReadersSeeAHistory
CHECK_DEADLOCK FALSE
