SPECIFICATION FairSpec
CONSTANTS
  r1 = r1
  r2 = r2
  ros1 = ros1
  amqp1 = amqp1
  amqp2 = amqp2
  rpc1 = rpc1
  AnyRobot = r1
  NoTask = NoTask
  NoRobot = NoRobot
  Robots <- MCRobots
  RosTasks <- OneRos
  AmqpTasks <- OneAmqp
  RpcTasks <- OneRpc
  Malformed = {}
  MaxCrashes = 0
  SlowRobots = TRUE
  Failures = {"task_failed"}
INVARIANT AssignedMeansInHand
INVARIANT DeadLettersAreTrue
PROPERTY RecordedTaskEnds
PROPERTY RobotIsCustodian
