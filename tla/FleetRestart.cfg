SPECIFICATION FairSpec
CONSTANTS
  r1 = r1
  r2 = r2
  ros1 = ros1
  amqp1 = amqp1
  amqp2 = amqp2
  rpc1 = rpc1
  NoTask = NoTask
  NoRobot = NoRobot
  Robots <- MCRobots
  RosTasks = {}
  AmqpTasks <- TwoAmqp
  RpcTasks = {}
  Malformed <- BadMessage
  MaxCrashes = 1
  SlowRobots = FALSE
  Failures = {"mongo_error", "broker_lost", "task_failed", "task_lost", "robot_restart"}
PROPERTY MessageLeaves
