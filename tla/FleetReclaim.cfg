CONSTANTS
  w1 = w1
  w2 = w2
  t1 = t1
  t2 = t2
  t3 = t3
  Workers <- MCWorkers
  Tasks <- MCTasks2
  Deps <- MCDeps2
  Rank <- MCRank2
  Local <- OnePublisher2
  NoWorker = noworker
  NoTask = notask
  TTL = 2
  MaxTasks = 4
  IdleRounds = 2
  IdleCap = 1
  Heartbeat = TRUE
  Prompt = TRUE
  MaxCrashes = 1
SPECIFICATION FairSpec
PROPERTY DeadWorkReclaimed
CHECK_DEADLOCK FALSE
