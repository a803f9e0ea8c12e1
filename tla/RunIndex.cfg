SPECIFICATION Spec
CONSTANTS
  Threads = {t1, t2}
  NoThread = NoThread
  Seqs = {1}
  Deps <- Sequential
  MaxAttempts <- TwoThenOne
  Calls = {"terminate"}
  Eager = FALSE
  MaxCalls = 1
  MaxCrashes = 0
  MaxErrors = 0
SYMMETRY Symmetry
CHECK_DEADLOCK FALSE
INVARIANTS OpenIndexed
