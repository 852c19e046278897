---------------------------- MODULE FleetCustody ----------------------------
(***************************************************************************)
(* What the fleet server asks of a robot agent, seen from one robot.  The  *)
(* server publishes assignments to the robot and receives its completions; *)
(* RobotAgent is shown to be a TaskCustody of what it is assigned, under   *)
(* the condition on its assignments that TaskCustody!Assign states.  This  *)
(* is the other half: the server keeps to that condition.                  *)
(***************************************************************************)
EXTENDS FleetServer

CONSTANT AnyRobot   \* any one of the robots

ASSUME CustodyAssumption == AnyRobot \in Robots

(* The tasks the robot completed: the completion is on its way or recorded. *)
DoneTasks ==
  {t \in Tasks : /\ AnyRobot \in ToSet(sent[t])
                 /\ \/ Settled(t)
                    \/ \E c \in ToSet(completions[AnyRobot]) : c.task = t}

(* The tasks it was assigned, has not completed and has no more.           *)
LostTasks ==
  {t \in Tasks : /\ AnyRobot \in ToSet(sent[t])
                 /\ t # held[AnyRobot] /\ t \notin ToSet(waiting[AnyRobot])
                 /\ t \notin DoneTasks}

Custody == INSTANCE TaskCustody WITH
  waiting <- waiting[AnyRobot],
  held    <- held[AnyRobot],
  done    <- DoneTasks,
  lost    <- LostTasks

(* The robot is a TaskCustody, with what MongoDB says of its tasks: no     *)
(* task is assigned to it that it has, has completed or has lost           *)
(* (dispatch_assignment; task_assignment_cb of the agent queues whatever   *)
(* arrives and relies on it), and a task it completed stays completed.     *)
RobotIsCustodian == Custody!Spec
=============================================================================
