---------------------------- MODULE MCFleetServer ----------------------------
(***************************************************************************)
(* Values for model checking FleetServer: two robots and a few requests,   *)
(* at least one through each entry point.                                  *)
(***************************************************************************)
EXTENDS FleetServer

CONSTANTS r1, r2, ros1, amqp1, amqp2, rpc1

MCRobots    == {r1, r2}
RobotPerms  == Permutations(MCRobots)
OneRos      == {ros1}
OneAmqp     == {amqp1}
TwoAmqp     == {amqp1, amqp2}
OneRpc      == {rpc1}
BadMessage  == {amqp2}
AllFailures == FailureKinds
=============================================================================
