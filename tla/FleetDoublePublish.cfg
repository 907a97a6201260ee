CONSTANTS
  w1 = w1
  w2 = w2
  t1 = t1
  t2 = t2
  t3 = t3
  Workers <- MCWorkers
  Tasks <- MCTasks2
  Deps <- MCDeps2
  Rank <- MCRank2
  Local <- AllPublish
  NoWorker = noworker
  NoTask = notask
  TTL = 2
  MaxTasks = 4
  IdleRounds = 1
  IdleCap = 2
  Heartbeat = TRUE
  Prompt = TRUE
  MaxCrashes = 0
SPECIFICATION Spec
INVARIANT RunOnce
CHECK_DEADLOCK FALSE
