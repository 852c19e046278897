--------------------------- MODULE MCRobotCommand ---------------------------
(***************************************************************************)
(* Values for model checking RobotCommand: a robot with its charger and    *)
(* one leg, and goals enough for both and one that is left behind.         *)
(***************************************************************************)
EXTENDS RobotCommand

CONSTANTS g1, g2, g3, c1, c2

MCGoals == {g1, g2, g3}
GoalPerms == Permutations(MCGoals)
MCNodes == {"NavToCharger", "NavToPick"}
=============================================================================
