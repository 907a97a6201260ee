CONSTANTS
  t1 = t1
  t2 = t2
  t3 = t3
  t4 = t4
  t5 = t5
  Tasks <- MCTasks
  Graphs <- MCGraphs
  Priority <- MCPriority
  Created <- MCCreated
  MaxTasks = 4
  Concurrency = 2
  PlanDepth = 2
  Widths <- MCWidths
  MaxLeaves = 4
  Slots <- MCSlots
SPECIFICATION PlannedSpec
INVARIANTS DagInv NeverEarly SkippedForCause ReturnsFinished RecordsFollow PlanKept
PROPERTY PlannedRunEnds
CHECK_DEADLOCK FALSE
