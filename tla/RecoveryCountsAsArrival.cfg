SPECIFICATION Spec
CONSTANTS
  t1 = t1
  t2 = t2
  Tasks <- MCTasks
  NoTask = NoTask
  MaxSoc = 6
  LowThreshold = 2
  FullThreshold = 5
  DrainIdle = 1
  DrainMoving = 2
  ChargeRate = 3
  Elapsed <- MCElapsed
  MaxAttempts = 2
  NumAttempts = 2
  Disturbances = {"nav_failed"}
INVARIANT SuccessMeansServed
