------------------------------ MODULE RobotFSM ------------------------------
(***************************************************************************)
(* The seven-state machine a robot publishes as its status                 *)
(* (robot_fsm.hpp, robot_fsm.cpp).  An event the current state does not    *)
(* list is ignored: process() returns false and the state stays.           *)
(***************************************************************************)

States == {"IDLE", "ASSIGNED", "NAVIGATING", "EXECUTING", "REPORTING",
           "RECOVERING", "CHARGING"}

Events == {"TASK_RECEIVED", "NAV_STARTED", "NAV_SUCCEEDED", "NAV_FAILED",
           "FAULT_INJECTED", "EXECUTION_DONE", "REPORT_SENT",
           "RECOVERY_DONE", "RECOVERY_FAILED", "LOW_BATTERY", "BATTERY_FULL"}

(* An event moves the machine from the states that list it to one state. *)
Move(s, from, to) == IF s \in from THEN to ELSE s

(* The state after process(e) in state s.  NAV_STARTED in NAVIGATING is a   *)
(* self-loop.                                                              *)
Process(s, e) ==
  CASE e = "TASK_RECEIVED"   -> Move(s, {"IDLE"}, "ASSIGNED")
    [] e = "NAV_STARTED"     -> Move(s, {"ASSIGNED", "NAVIGATING"}, "NAVIGATING")
    [] e = "NAV_SUCCEEDED"   -> Move(s, {"NAVIGATING"}, "EXECUTING")
    [] e = "NAV_FAILED"      -> Move(s, {"NAVIGATING"}, "RECOVERING")
    [] e = "FAULT_INJECTED"  -> Move(s, {"NAVIGATING"}, "RECOVERING")
    [] e = "EXECUTION_DONE"  -> Move(s, {"EXECUTING"}, "NAVIGATING")
    [] e = "REPORT_SENT"     -> Move(s, {"EXECUTING", "REPORTING"}, "IDLE")
    [] e = "RECOVERY_DONE"   -> Move(s, {"RECOVERING"}, "ASSIGNED")
    [] e = "RECOVERY_FAILED" -> Move(s, {"RECOVERING"}, "IDLE")
    [] e = "LOW_BATTERY"     -> Move(s, States \ {"REPORTING", "CHARGING"},
                                     "CHARGING")
    [] e = "BATTERY_FULL"    -> Move(s, {"CHARGING"}, "IDLE")
=============================================================================
