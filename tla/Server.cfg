SPECIFICATION Spec
CONSTANTS
  Parts = {"chain", "shards", "schedules", "failures", "queries", "broker", "replication", "visibility", "catalog",
           "surface", "purge"}
  Runs = {1, 2}
  Requests = {"q"}
  MaxTime = 1
  Retention = 1
  MaxCrashes = 1
  Writers = {1, 2}
  Migrator = 3
  MaxHandles = 2
  IdleTicks = 2
  MaxExits = 1
  Specs <- SpecList
  MaxClock = 4
  MaxCalls = 2
  MaxFaults = 2
  Reporters = {1, 2}
  FailEvery = 3
  PersistentAfter = 2
  MaxAge = 3
  MaxReports = 4
  MaxStoreFaults = 2
  Asks = {1, 2, 3}
  MaxPending = 2
  MaxAnswers = 2
  Publishers = {1, 2}
  BufSize = 2
  MaxEvents = 3
  Hosts = {1, 2}
  Frames = {1, 2, 3}
  FrameOwner <- OwnerOf
  Voters = {"v"}
  Alpha = 2
  Fields = {"Priority", "ExecutionStatus"}
  Consts = {"10", "9", "Running", "Completed"}
  Rank <- StringOrder
  FullStatus <- StatusNames
  Rows <- Executions
  Trees <- TreeList
  Clients = {1, 2}
  Builds = {"a", "b"}
  MaxOps = 4
  Ids = {1, 2, 3}
  Routes = {1, 2}
  scoreOf <- Scores
  Paths <- PathList
  NotIdent = {"bad"}
  NotSegment = {"bad"}
  Orgs = {"o1", "o2"}
  Places = {1, 2}
  Limit = 2
  MaxCuts = 1
CHECK_DEADLOCK FALSE
INVARIANTS NoOrphans      StreakCounts PersistentPaged OneAnswer FeedOrdered  QueryMeans DefaultDeployed  WalkPurges
