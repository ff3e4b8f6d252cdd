\* Two processes, each a serve start or an open, and a stop, with one fault.
SPECIFICATION Spec
CONSTANTS
  p1 = p1
  p2 = p2
  x1 = x1
  Procs = {p1, p2}
  Stops = {x1}
  MaxAttempts = 3
  MaxCommands = 3
  MaxFaults = 1
INVARIANTS
  RecordIsTrue
  OneServeDatabase
  OrphansAccounted
PROPERTIES
  SignalledEnds
CHECK_DEADLOCK FALSE
