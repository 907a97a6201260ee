CONSTANTS
  t1 = t1
  t2 = t2
  t3 = t3
  Tasks <- MCTasks
  Graphs <- OneEdge
  Priority <- MCPriority
  Created <- MCCreated
  MaxTasks = 3
  Concurrency = 2
  MaxCrashes = 1
  MaxRetries = 0
  MaxCalls = 0
SPECIFICATION DurableFair
PROPERTY ResumeHonoursGraph
CHECK_DEADLOCK FALSE
