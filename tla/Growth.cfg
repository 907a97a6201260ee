CONSTANTS
  MaxDepth = 3
  NewDepth = 1
  MaxAgents = 3
  MaxSpawns = 2
  Limit = 2
  Reserve = 0
  ChainLevels = 2
  Levels = 2
  MaxSubtasks = 1
  MaxCalls = 2
  MaxIterations = 2
  MaxObjects = 5
  MaxSolves = 1
  MaxRestarts = 1
SPECIFICATION Spec
INVARIANTS IndexIsTree GrowthBounded
PROPERTIES SolveEnds
CHECK_DEADLOCK FALSE
