SPECIFICATION FairSpec
CONSTANTS
  wf = wf
  act = act
  Peers = {p1, p2}
  Keys = {wf, act}
  Tasks = {t1, t2}
  KeyOf <- WorkflowTasks
  MaxSubs = 3
  MaxDeaths = 1
  None = None
CHECK_DEADLOCK FALSE
INVARIANTS SubsAgree BacklogUnserved
PROPERTIES RoundRobin PoolSpec HandedOut
