SPECIFICATION Spec
CONSTANTS
  Workers = {w1, w2}
  Clients = {c}
  Sweeper = Sweeper
  Requests = {r1}
  MaxRuns = 1
  MaxAttempts = 2
  TTL = 1
  Races = {"client"}
  MaxDeaths = 0
  MaxCrashes = 0
  None = None
INVARIANTS OneHolder
SYMMETRY Symmetry
