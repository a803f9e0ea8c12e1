SPECIFICATION FairSpec
CONSTANTS
  Workers = {w1, w2}
  Clients = {c}
  Sweeper = Sweeper
  Requests = {r1}
  MaxRuns = 2
  MaxAttempts = 2
  TTL = 1
  Races = {}
  MaxDeaths = 1
  MaxCrashes = 1
  None = None
INVARIANTS OneHolder AttemptsBounded
PROPERTIES StaysClosed JobsClose
