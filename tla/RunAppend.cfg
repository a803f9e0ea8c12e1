SPECIFICATION Spec
CONSTANTS
  Threads = {t1, t2}
  NoThread = NoThread
  Seqs = {1}
  Deps <- Sequential
  MaxAttempts <- TwoThenOne
  Calls = {"metadata"}
  Eager = FALSE
  MaxCalls = 1
  MaxCrashes = 0
  MaxErrors = 0
CHECK_DEADLOCK FALSE
PROPERTIES AppendOnly
