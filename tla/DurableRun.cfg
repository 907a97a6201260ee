CONSTANTS
  t1 = t1
  t2 = t2
  t3 = t3
  Tasks <- MCTasks
  Graphs <- MCGraphs
  Priority <- MCPriority
  Created <- MCCreated
  MaxTasks = 2
  Concurrency = 2
  MaxCrashes = 1
  MaxRetries = 1
  MaxCalls = 1
SPECIFICATION DurableFair
INVARIANTS RerunsExcused
PROPERTIES DoneStays NothingLost
CHECK_DEADLOCK FALSE
