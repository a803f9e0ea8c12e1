SPECIFICATION Spec
CONSTANTS
  Threads = {t1, t2}
  NoThread = NoThread
  Seqs = {1}
  Deps <- Sequential
  MaxAttempts <- TwoThenOne
  Calls = {}
  Eager = FALSE
  MaxCalls = 1
  MaxCrashes = 1
  MaxErrors = 0
SYMMETRY Symmetry
CHECK_DEADLOCK FALSE
INVARIANTS NoLostOutcome
