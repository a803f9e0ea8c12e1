SPECIFICATION Spec
CONSTANTS
  Parts = {"coroutine", "replay", "worker"}
  Main = main
  g1 = g1
  Goroutines = {main, g1}
  Sizes = {0, 1}
  MaxSends = 2
  Envs = {"worker", "stub"}
  Cases <- CaseList
  TimedSelect = TRUE
  MaxWaits <- FewWaits
  Programs <- Plain
  Coins = {0}
  t1 = t1
  t2 = t2
  t3 = t3
  Tasks = {t1, t2, t3}
  Kind <- OneActivity
  ExecSize = 1
CHECK_DEADLOCK FALSE
INVARIANTS NoLostWakeup Fifo  
PROPERTIES  NoGoroutineLeaks TasksAnswered
