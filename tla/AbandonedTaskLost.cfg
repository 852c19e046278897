SPECIFICATION FairChargedSpec
CONSTANTS
  t1 = t1
  t2 = t2
  Tasks <- MCTasks
  NoTask = NoTask
  MaxSoc = 6
  LowThreshold = 2
  FullThreshold = 5
  DrainIdle = 0
  DrainMoving = 0
  ChargeRate = 3
  Elapsed <- MCElapsed
  MaxAttempts = 2
  NumAttempts = 2
  Disturbances = {"nav_failed", "behavior_failed"}
INVARIANT NoTaskLost
