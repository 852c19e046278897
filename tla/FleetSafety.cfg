SPECIFICATION Spec
CONSTANTS
  r1 = r1
  r2 = r2
  ros1 = ros1
  amqp1 = amqp1
  amqp2 = amqp2
  rpc1 = rpc1
  NoTask = NoTask
  NoRobot = NoRobot
  Robots <- MCRobots
  RosTasks = {}
  AmqpTasks <- OneAmqp
  RpcTasks <- OneRpc
  Malformed = {}
  MaxCrashes = 1
  SlowRobots = FALSE
  Failures <- AllFailures
SYMMETRY RobotPerms
INVARIANT FleetTypeOK
INVARIANT MessageIsKept
INVARIANT AcceptedIsRecorded
INVARIANT RefusedNeverSent
INVARIANT RecordNamesRobot
INVARIANT SentOncePerLife
PROPERTY TerminalIsFinal
PROPERTY RecordedTaskLeavesByEnding
