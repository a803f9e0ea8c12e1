SPECIFICATION FairSpec
CONSTANTS
  Threads = {t1, t2}
  NoThread = NoThread
  Seqs = {1, 2}
  Deps <- FanOut
  MaxAttempts <- TwoThenOne
  Calls = {"signal"}
  Eager = FALSE
  MaxCalls = 1
  MaxCrashes = 1
  MaxErrors = 0
CHECK_DEADLOCK FALSE
INVARIANTS OpenIndexed OneCarrier
PROPERTIES TerminalFinal AppendOnly RunCloses
