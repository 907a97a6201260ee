CONSTANTS
  t1 = t1
  t2 = t2
  t3 = t3
  Tasks <- MCTasks
  Queue <- MCQueue
  Names = {"lead", "dev"}
  Root = "root"
  MaxSpawns = 1
  Slots = 2
  MaxRetries = 2
  Threshold = 2
  Cooldown = 2
  BackoffBase = 1
  BackoffMax = 2
  Setups <- AllSetups
SPECIFICATION FairSpec
INVARIANTS NoTaskLost DeadForCause
PROPERTIES OpenIsRested HealsForCause RunReturns
CHECK_DEADLOCK FALSE
