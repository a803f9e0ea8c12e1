SPECIFICATION Spec
CONSTANTS
  Threads = {t1, t2}
  NoThread = NoThread
  Seqs = {1}
  Deps <- Sequential
  MaxAttempts <- TwoThenOne
  Calls = {"signal", "terminate", "cancel", "metadata"}
  Eager = FALSE
  MaxCalls = 1
  MaxCrashes = 1
  MaxErrors = 1
SYMMETRY Symmetry
CHECK_DEADLOCK FALSE
INVARIANTS OutcomeMatchesRecord ExactlyOnce AttemptsBounded
PROPERTIES RecordFinal
