CONSTANTS
  t1 = t1
  t2 = t2
  t3 = t3
  scout = scout
  clerk = clerk
  Tasks = {t1, t2, t3}
  Nodes = {scout, clerk}
  Setups <- MCSetups
  Created <- MCCreated
  MaxTasks = 3
  ToolNodes = {scout}
  VerifiedNodes = {scout, clerk}
  Limit = 2
  Costs = {1}
  MaxVerify = 2
  MaxIterations = 3
  MaxRetries = 1
  MaxPerTurn = 1
  MaxCalls = 1
  Concurrency = 2
  MaxFaults = 1
SPECIFICATION Spec
INVARIANTS SpendKept DoneIsVerified NodeTells RunTells
PROPERTIES RunEnds
CHECK_DEADLOCK FALSE
