SPECIFICATION Spec
CONSTANTS
  t1 = t1
  t2 = t2
  Tasks <- MCTasks
  NoTask = NoTask
  MaxSoc = 6
  LowThreshold = 2
  FullThreshold = 5
  DrainIdle = 1
  DrainMoving = 2
  ChargeRate = 3
  Elapsed <- MCElapsed
  MaxAttempts = 2
  NumAttempts = 2
  Disturbances <- AllDisturbances
SYMMETRY TaskPerms
INVARIANT TypeOK
INVARIANT ChargingAgrees
INVARIANT OneBranchMoves
INVARIANT NoStaleResult
INVARIANT TaskHeldOnce
INVARIANT WorksForHeldTask
INVARIANT NamelessMeansSetAside
PROPERTY CustodySpec
PROPERTY NavViewSpec
