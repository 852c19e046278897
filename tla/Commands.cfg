SPECIFICATION Spec
CONSTANTS
  g1 = g1
  g2 = g2
  g3 = g3
  c1 = c1
  c2 = c2
  Goals <- MCGoals
  NoGoal = NoGoal
  Nodes <- MCNodes
  Charger = "NavToCharger"
  MaxRestarts = 1
  Calls = {c1, c2}
  Injections = {c1}
INVARIANT CommandTypeOK
INVARIANT ViewIsOwnGoal
INVARIANT AwaitedNotCancelled
INVARIANT AdriftIsKnown
INVARIANT RepliesAreTrue
INVARIANT FaultsAccounted
PROPERTY ClientSpec
SYMMETRY GoalPerms
