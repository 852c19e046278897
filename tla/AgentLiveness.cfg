SPECIFICATION FairSpec
CONSTANTS
  t1 = t1
  t2 = t2
  Tasks <- MCTasks
  NoTask = NoTask
  MaxSoc = 2
  LowThreshold = 1
  FullThreshold = 2
  DrainIdle = 0
  DrainMoving = 1
  ChargeRate = 1
  Elapsed <- MCElapsed
  MaxAttempts = 2
  NumAttempts = 2
  Disturbances <- Answered
PROPERTY ChargingEnds
PROPERTY InterruptedResumes
PROPERTY RecoveryReturns
PROPERTY QueuedIsReported
