---------------------------- MODULE MCRobotAgent ----------------------------
(***************************************************************************)
(* Values for model checking RobotAgent.  A battery of 6 units: low below  *)
(* 2, full at 5; driving costs two units per update, standing one, and     *)
(* charging gains three, so that one update may cross either threshold or  *)
(* hit either end.                                                         *)
(***************************************************************************)
EXTENDS RobotAgent

CONSTANTS t1, t2

MCTasks    == {t1, t2}
TaskPerms  == Permutations(MCTasks)
MCElapsed  == {1}

AllDisturbances == DisturbanceKinds

(* Nav2 and the behaviour servers answer every goal, and the node stays    *)
(* active.                                                                 *)
Answered ==
  DisturbanceKinds \ {"behavior_rejected", "nav_not_ready", "deactivated",
                      "cleaned_up", "shut_down"}
=============================================================================
