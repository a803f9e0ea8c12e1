SPECIFICATION Spec
CONSTANTS
  Parts = {"replay"}
  Main = main
  g1 = g1
  Goroutines = {main, g1}
  Sizes = {0, 1}
  MaxSends = 2
  Envs = {"worker", "stub"}
  Cases <- CaseList
  TimedSelect = TRUE
  MaxWaits <- FewWaits
  Programs <- Branching
  Coins = {0, 1}
  t1 = t1
  t2 = t2
  t3 = t3
  Tasks = {t1, t2, t3}
  Kind <- OneActivity
  ExecSize = 1
CHECK_DEADLOCK FALSE
INVARIANT SeqStable
