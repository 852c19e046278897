SPECIFICATION Spec
CONSTANTS
  r1 = r1
  r2 = r2
  ros1 = ros1
  amqp1 = amqp1
  amqp2 = amqp2
  rpc1 = rpc1
  NoTask = NoTask
  NoRobot = NoRobot
  Robots <- MCRobots
  RosTasks <- OneRos
  AmqpTasks <- TwoAmqp
  RpcTasks <- OneRpc
  Malformed <- BadMessage
  MaxCrashes = 0
  SlowRobots = FALSE
  Failures = {}
INVARIANT AssignedMeansInHand
