\* A watcher and a push by hand in one folder, with an edit, another uploader and a
\* fault; and a watcher, a push by hand and a hook's, with a fault.
SPECIFICATION Spec
CONSTANTS
  w = w
  m = m
  n = n
  f1 = f1
  c1 = c1
  c2 = c2
  Procs = {w, m, n}
  MaxAttempts = 2
  Watcher = w
  Hooks = {n}
  Paths = {f1}
  Contents = {c1, c2}
  None = None
  Concurrency = 1
  Beginnings <- MCBeginnings
INVARIANTS
  OnePushAtATime
  EntriesAreTrue
  ForgottenOnlyIfOvertaken
PROPERTIES
  NothingBuriedUnseen
  ChangesArePushedOrReported
CHECK_DEADLOCK FALSE
