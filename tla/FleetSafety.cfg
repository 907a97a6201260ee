CONSTANTS
  w1 = w1
  w2 = w2
  t1 = t1
  t2 = t2
  t3 = t3
  Workers <- MCWorkers
  Tasks <- MCTasks
  Deps <- MCDeps
  Rank <- MCRank
  Local <- OnePublisher
  NoWorker = noworker
  NoTask = notask
  TTL = 2
  MaxTasks = 4
  IdleRounds = 1
  IdleCap = 2
  Heartbeat = TRUE
  Prompt = TRUE
  MaxCrashes = 1
SPECIFICATION Spec
INVARIANTS FleetInv RunOnce DependenciesKept NothingLeft
PROPERTY FinalStays
CHECK_DEADLOCK FALSE
