SPECIFICATION FairSpec
CONSTANTS
  wf = wf
  act = act
  Peers = {p1, p2}
  Keys = {wf}
  Tasks = {t1, t2}
  KeyOf <- WorkflowTasks
  MaxSubs = 2
  MaxDeaths = 1
  None = None
CHECK_DEADLOCK FALSE
PROPERTIES Rescheduled
