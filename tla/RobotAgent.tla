----------------------------- MODULE RobotAgent -----------------------------
(***************************************************************************)
(* One robot agent: the behaviour tree that bt_timer_ ticks every 50 ms,   *)
(* its action and condition nodes, the battery timer, the task             *)
(* subscription, the fault service and the callbacks of the Nav2 action    *)
(* clients.                                                                *)
(*                                                                         *)
(* The timers, the subscription and the service share the mutually         *)
(* exclusive group cb_group_timer_; the action callbacks run in            *)
(* cb_group_action_ on the executor's other thread, so they may run        *)
(* between any two steps of a tick.  A tick is therefore a sequence of     *)
(* steps: `cursor' is the leaf the tick reaches next, "free" when no       *)
(* handler of cb_group_timer_ is running.                                  *)
(*                                                                         *)
(* The tree (robot_agent.xml):                                             *)
(*   ReactiveFallback                                                      *)
(*     ChargeWhenLow: Sequence(not BatteryOK, NavToCharger, ChargeBattery) *)
(*     TaskExecution: Sequence(RequestTask,                                *)
(*         Retry(Fallback(NavToPick, RecoverPick)), DoPick,                *)
(*         Retry(Fallback(NavToDrop, RecoverDrop)), DoDrop, Report)        *)
(* Both sequences remember the child that is RUNNING; the ReactiveFallback *)
(* starts every tick at ChargeWhenLow and, when that is RUNNING, halts     *)
(* TaskExecution afterwards.                                               *)
(***************************************************************************)
EXTENDS BatteryModel, RobotFSM, SequencesExt

CONSTANTS Tasks,         \* the assignments the fleet server may send
          NoTask,        \* an empty std::optional<TaskAssignment>
          Elapsed,       \* the dt a battery update may see
          MaxAttempts,   \* max_attempts of RequestRecovery
          NumAttempts,   \* num_attempts of RetryUntilSuccessful
          Disturbances   \* what may go wrong on this site

DisturbanceKinds ==
  {"nav_not_ready",       \* the navigation action server is down
   "nav_rejected",        \* it rejects a goal
   "nav_failed",          \* it aborts or cancels an accepted goal
   "fault",               \* an operator injects a fault
   "behavior_not_ready",  \* the spin or backup server is down
   "behavior_failed",     \* spin or backup ends without success
   "behavior_rejected",   \* spin or backup rejects its goal
   "deactivated",         \* an operator deactivates the node
   "cleaned_up",          \* and cleans it up
   "shut_down"}           \* or shuts it down

ASSUME AgentAssumption ==
  /\ NoTask \notin Tasks
  /\ Elapsed \subseteq Nat
  /\ MaxAttempts \in Nat \ {0}
  /\ NumAttempts \in Nat \ {0}
  /\ Disturbances \subseteq DisturbanceKinds

NavLeaves     == {"NavToCharger", "NavToPick", "NavToDrop"}
RecoverLeaves == {"RecoverPick", "RecoverDrop"}
ExecLeaves    == {"DoPick", "DoDrop"}
ChargeLeaves  == {"NavToCharger", "ChargeBattery"}
WorkLeaves    == {"NavToPick", "RecoverPick", "DoPick",
                  "NavToDrop", "RecoverDrop", "DoDrop"}
TaskLeaves    == {"RequestTask"} \cup WorkLeaves
Cursors       == {"free", "BatteryOK", "HaltTask", "Report"}
                   \cup ChargeLeaves \cup TaskLeaves

VARIABLES
  life,         \* the lifecycle state of the node
  fsm,          \* fsm_
  pending,      \* pending_tasks_
  current,      \* current_task_
  interrupted,  \* interrupted_task_
  goal,         \* the task whose poses are pick_pose and drop_pose on the
                \* blackboard
  soc,          \* battery_
  moving,       \* is_moving_
  charging,     \* is_charging_
  fault,        \* fault_injected_
  charge,       \* the leaf at which ChargeWhenLow is RUNNING, or "idle"
  task,         \* the leaf at which TaskExecution is RUNNING, or "idle"
  cursor,       \* the leaf the tick in progress reaches next, or "free"
  tries,        \* try_count_ of the Retry node that is active
  nav,          \* nav_state_ of each NavigateToPose node
  phase,        \* phase_ of the RequestRecovery node that is active
  attempt,      \* attempt_ of that node
  rec,          \* its spin_state_ or backup_state_, the one phase selects
  arrived,      \* history: the tasks ever assigned
  reported,     \* history: the tasks named by a published TaskCompletion
  abandoned,    \* history: the tasks whose retries ran out
  reached       \* history: the legs of this execution Nav2 completed

slots   == <<pending, current, interrupted>>
power   == <<soc, moving, charging>>
tree    == <<charge, task, cursor, tries>>
recover == <<phase, attempt, rec>>
history == <<arrived, reported, abandoned, reached>>
vars    == <<life, fsm, slots, goal, power, fault, tree, nav, recover,
             history>>

(* A node that was shut down is finalized; what still runs in it is what   *)
(* ran before.                                                             *)
LifeStates == {"active", "inactive", "unconfigured",
               "finalized_active", "finalized_inactive"}
NavStates == {"none", "sent", "accepted", "rejected", "succeeded", "failed"}
Phases    == {"SPIN", "BACKUP", "DONE", "FAILED"}
RecStates == {"none", "waiting", "rejected", "ok", "bad"}

TypeOK ==
  /\ life \in LifeStates
  /\ fsm \in States
  /\ pending \in Seq(Tasks)
  /\ current \in Tasks \cup {NoTask}
  /\ interrupted \in Tasks \cup {NoTask}
  /\ goal \in Tasks \cup {NoTask}
  /\ soc \in Soc
  /\ moving \in BOOLEAN /\ charging \in BOOLEAN /\ fault \in BOOLEAN
  /\ charge \in ChargeLeaves \cup {"idle"}
  /\ task \in TaskLeaves \cup {"idle"}
  /\ cursor \in Cursors
  /\ tries \in 0 .. NumAttempts - 1
  /\ nav \in [NavLeaves -> NavStates]
  /\ phase \in Phases
  /\ attempt \in 0 .. MaxAttempts
  /\ rec \in RecStates
  /\ arrived \subseteq Tasks /\ reported \subseteq Tasks
  /\ abandoned \subseteq Tasks \cup {NoTask}
  /\ reached \subseteq {"NavToPick", "NavToDrop"}

(* After on_configure and on_activate: any initial_battery_soc. *)
Init ==
  /\ life = "active"
  /\ fsm = "IDLE"
  /\ pending = <<>> /\ current = NoTask /\ interrupted = NoTask
  /\ goal = NoTask
  /\ soc \in Soc /\ moving = FALSE /\ charging = FALSE
  /\ fault = FALSE
  /\ charge = "idle" /\ task = "idle" /\ cursor = "free" /\ tries = 0
  /\ nav = [l \in NavLeaves |-> "none"]
  /\ phase = "SPIN" /\ attempt = 0 /\ rec = "none"
  /\ arrived = {} /\ reported = {} /\ abandoned = {} /\ reached = {}

(* bt_tree_ exists, and the timers do. *)
HasTree   == life \in {"active", "inactive"}
TimersRun == life \in {"active", "finalized_active"}

-----------------------------------------------------------------------------
(***************************************************************************)
(* How the tree goes on once a leaf has returned.                          *)
(***************************************************************************)

(* Whether the tick finds leaf l RUNNING (onRunning) or not (onStart). *)
Running(l) == l \in {charge, task}

(* The leaf TaskExecution ticks first: the RUNNING one or its first. *)
TaskEntry == IF task = "idle" THEN "RequestTask" ELSE task

(* Mutant of AfterSuccess: the drop leg is missing from the sequence. *)
AfterSuccess_NoDropLeg(l) ==
  CASE l = "NavToCharger"                 -> "ChargeBattery"
    [] l = "RequestTask"                  -> "NavToPick"
    [] l \in {"NavToPick", "RecoverPick"} -> "DoPick"
    [] l = "DoPick"                       -> "DoDrop"
    [] l = "DoDrop"                       -> "Report"
    [] l \in {"ChargeBattery", "Report"}  -> "free"

(* Mutant of AfterSuccess: ChargeWhenLow ends at the dock. *)
AfterSuccess_NoCharge(l) ==
  CASE l = "RequestTask"                  -> "NavToPick"
    [] l \in {"NavToPick", "RecoverPick"} -> "DoPick"
    [] l = "DoPick"                       -> "NavToDrop"
    [] l \in {"NavToDrop", "RecoverDrop"} -> "DoDrop"
    [] l = "DoDrop"                       -> "Report"
    [] l \in {"NavToCharger", "ChargeBattery", "Report"} -> "free"

(* The leaf ticked after l succeeds; "free" when the tick is over. *)
AfterSuccess(l) ==
  CASE l = "NavToCharger"                 -> "ChargeBattery"
    [] l = "RequestTask"                  -> "NavToPick"
    [] l \in {"NavToPick", "RecoverPick"} -> "DoPick"
    [] l = "DoPick"                       -> "NavToDrop"
    [] l \in {"NavToDrop", "RecoverDrop"} -> "DoDrop"
    [] l = "DoDrop"                       -> "Report"
    [] l \in {"ChargeBattery", "Report"}  -> "free"

(* The leaf ticked after a navigation leaf l fails. *)
AfterNavFailure(l) ==
  CASE l = "NavToPick"    -> "RecoverPick"
    [] l = "NavToDrop"    -> "RecoverDrop"
    [] l = "NavToCharger" -> TaskEntry

(* The first child of the Fallback whose second child is l. *)
NavOf(l) == IF l = "RecoverPick" THEN "NavToPick" ELSE "NavToDrop"

(* Mutant of StaysRunning: TaskExecution is not halted. *)
StaysRunning_NoHalt(l) ==
  /\ cursor' = "free"
  /\ IF l \in ChargeLeaves THEN charge' = l /\ UNCHANGED task
                            ELSE task' = l /\ UNCHANGED charge

(* l returns RUNNING: its sequence remembers it; a RUNNING ChargeWhenLow   *)
(* has the ReactiveFallback halt TaskExecution before the tick ends.       *)
StaysRunning(l) ==
  IF l \in ChargeLeaves
    THEN /\ charge' = l /\ cursor' = "HaltTask"
         /\ UNCHANGED task
    ELSE /\ task' = l /\ cursor' = "free"
         /\ UNCHANGED charge

(* l returns SUCCESS or FAILURE and the tick goes on at leaf next. *)
Returns(l, next) ==
  /\ charge' = IF l = charge THEN "idle" ELSE charge
  /\ task' = IF l = task THEN "idle" ELSE task
  /\ cursor' = next

BeginTick ==
  /\ life = "active" /\ cursor = "free"
  /\ cursor' = IF charge = "idle" THEN "BatteryOK" ELSE charge
  /\ UNCHANGED <<life, fsm, slots, goal, power, fault, charge, task, tries,
                 nav, recover, history>>

(* Mutant of BatteryOK: its threshold is below is_low()'s. *)
BatteryOK_Late ==
  /\ cursor = "BatteryOK"
  /\ cursor' = IF soc + 1 >= LowThreshold THEN TaskEntry ELSE "NavToCharger"
  /\ UNCHANGED <<life, fsm, slots, goal, power, fault, charge, task, tries,
                 nav, recover, history>>

BatteryOK ==
  /\ cursor = "BatteryOK"
  /\ cursor' = IF soc >= LowThreshold THEN TaskEntry ELSE "NavToCharger"
  /\ UNCHANGED <<life, fsm, slots, goal, power, fault, charge, task, tries,
                 nav, recover, history>>

(* Mutant of HaltTask: nav_state_ is not reset. *)
HaltTask_KeepsGoal ==
  /\ cursor = "HaltTask"
  /\ cursor' = "free" /\ task' = "idle" /\ tries' = 0
  /\ moving' = (moving /\ task \notin NavLeaves)
  /\ rec' = IF task \in RecoverLeaves THEN "none" ELSE rec
  /\ UNCHANGED <<life, fsm, slots, goal, soc, charging, fault, charge, nav,
                 phase, attempt, history>>

(* Mutant of HaltTask: the sequence does not start over. *)
HaltTask_KeepsTask ==
  /\ cursor = "HaltTask"
  /\ cursor' = "free" /\ tries' = 0
  /\ moving' = (moving /\ task \notin NavLeaves)
  /\ nav' = [l \in NavLeaves |-> IF l = task THEN "none" ELSE nav[l]]
  /\ rec' = IF task \in RecoverLeaves THEN "none" ELSE rec
  /\ UNCHANGED <<life, fsm, slots, goal, soc, charging, fault, charge, task,
                 phase, attempt, history>>

(* The ReactiveFallback halts TaskExecution: NavigateToPose stops moving   *)
(* and drops its goal, RequestRecovery drops its results, the Retry nodes  *)
(* start over; the other leaves only log.                                  *)
HaltTask ==
  /\ cursor = "HaltTask"
  /\ cursor' = "free" /\ task' = "idle" /\ tries' = 0
  /\ moving' = (moving /\ task \notin NavLeaves)
  /\ nav' = [l \in NavLeaves |-> IF l = task THEN "none" ELSE nav[l]]
  /\ rec' = IF task \in RecoverLeaves THEN "none" ELSE rec
  /\ UNCHANGED <<life, fsm, slots, goal, soc, charging, fault, charge, phase,
                 attempt, history>>

-----------------------------------------------------------------------------
(***************************************************************************)
(* NavigateToPose                                                          *)
(***************************************************************************)

NavStart(l) ==
  /\ cursor = l /\ ~Running(l)
  /\ \/ /\ "nav_not_ready" \in Disturbances
        /\ Returns(l, AfterNavFailure(l))
        /\ UNCHANGED <<fsm, moving, nav>>
     \/ /\ nav' = [nav EXCEPT ![l] = "sent"]
        /\ fsm' = Process(fsm, "NAV_STARTED")
        /\ moving' = TRUE
        /\ StaysRunning(l)
  /\ UNCHANGED <<life, slots, goal, soc, charging, fault, tries, recover,
                 history>>

(* A fault is consumed by whichever navigation is ticked next. *)
NavFault(l) ==
  /\ cursor = l /\ Running(l) /\ fault
  /\ fault' = FALSE /\ moving' = FALSE
  /\ nav' = [nav EXCEPT ![l] = "none"]
  /\ fsm' = Process(fsm, "FAULT_INJECTED")
  /\ Returns(l, AfterNavFailure(l))
  /\ UNCHANGED <<life, slots, goal, soc, charging, tries, recover, history>>

NavWait(l) ==
  /\ cursor = l /\ Running(l) /\ ~fault
  /\ nav[l] \in {"sent", "accepted"}
  /\ StaysRunning(l)
  /\ UNCHANGED <<life, fsm, slots, goal, power, fault, tries, nav, recover,
                 history>>

NavFail(l) ==
  /\ cursor = l /\ Running(l) /\ ~fault
  /\ nav[l] \in {"rejected", "failed"}
  /\ moving' = FALSE
  /\ nav' = [nav EXCEPT ![l] = "none"]
  /\ fsm' = Process(fsm, "NAV_FAILED")
  /\ Returns(l, AfterNavFailure(l))
  /\ UNCHANGED <<life, slots, goal, soc, charging, fault, tries, recover,
                 history>>

NavSucceed(l) ==
  /\ cursor = l /\ Running(l) /\ ~fault
  /\ nav[l] = "succeeded"
  /\ moving' = FALSE
  /\ nav' = [nav EXCEPT ![l] = "none"]
  /\ fsm' = Process(fsm, "NAV_SUCCEEDED")
  /\ tries' = IF l = "NavToCharger" THEN tries ELSE 0
  /\ reached' = reached \cup ({l} \ {"NavToCharger"})
  /\ Returns(l, AfterSuccess(l))
  /\ UNCHANGED <<life, slots, goal, soc, charging, fault, recover, arrived,
                 reported, abandoned>>

(* goal_response_callback, in cb_group_action_. *)
NavResponse(l) ==
  /\ nav[l] = "sent"
  /\ \/ nav' = [nav EXCEPT ![l] = "accepted"]
     \/ /\ "nav_rejected" \in Disturbances
        /\ nav' = [nav EXCEPT ![l] = "rejected"]
  /\ UNCHANGED <<life, fsm, slots, goal, power, fault, tree, recover,
                 history>>

(* result_callback, in cb_group_action_. *)
NavResult(l) ==
  /\ nav[l] = "accepted"
  /\ \/ nav' = [nav EXCEPT ![l] = "succeeded"]
     \/ /\ "nav_failed" \in Disturbances
        /\ nav' = [nav EXCEPT ![l] = "failed"]
  /\ UNCHANGED <<life, fsm, slots, goal, power, fault, tree, recover,
                 history>>

-----------------------------------------------------------------------------
(***************************************************************************)
(* RequestRecovery: spin, then back up, at most MaxAttempts failures.      *)
(***************************************************************************)

(* start_spin and start_backup: a server that is not ready counts as a     *)
(* failure at once.                                                        *)
StartBehavior ==
  \/ rec' = "waiting"
  \/ /\ "behavior_not_ready" \in Disturbances
     /\ rec' = "bad"

RecoverStart(l) ==
  /\ cursor = l /\ ~Running(l)
  /\ attempt' = 0 /\ phase' = "SPIN"
  /\ fsm' = Process(fsm, "NAV_FAILED")
  /\ StartBehavior
  /\ StaysRunning(l)
  /\ UNCHANGED <<life, slots, goal, power, fault, tries, nav, history>>

RecoverWait(l) ==
  /\ cursor = l /\ Running(l)
  /\ phase \in {"SPIN", "BACKUP"} /\ rec \in {"none", "waiting", "rejected"}
  /\ StaysRunning(l)
  /\ UNCHANGED <<life, fsm, slots, goal, power, fault, tries, nav, recover,
                 history>>

RecoverAdvance(l) ==
  /\ cursor = l /\ Running(l) /\ rec = "ok"
  /\ \/ phase = "SPIN" /\ phase' = "BACKUP" /\ StartBehavior
     \/ phase = "BACKUP" /\ phase' = "DONE" /\ rec' = "none"
  /\ StaysRunning(l)
  /\ UNCHANGED <<life, fsm, slots, goal, power, fault, tries, nav, attempt,
                 history>>

(* Mutant of RecoverSetback: a failure is not counted. *)
RecoverSetback_Uncounted(l) ==
  /\ cursor = l /\ Running(l) /\ rec = "bad"
  /\ phase \in {"SPIN", "BACKUP"} /\ phase' = "SPIN"
  /\ StartBehavior
  /\ StaysRunning(l)
  /\ UNCHANGED <<life, fsm, slots, goal, power, fault, tries, nav, attempt,
                 history>>

RecoverSetback(l) ==
  /\ cursor = l /\ Running(l) /\ rec = "bad"
  /\ phase \in {"SPIN", "BACKUP"}
  /\ attempt' = attempt + 1
  /\ IF attempt' >= MaxAttempts
       THEN phase' = "FAILED" /\ rec' = "none"
       ELSE phase' = "SPIN" /\ StartBehavior
  /\ StaysRunning(l)
  /\ UNCHANGED <<life, fsm, slots, goal, power, fault, tries, nav, history>>

(* Recovery succeeds: Fallback and Retry succeed with it. *)
RecoverDone(l) ==
  /\ cursor = l /\ Running(l) /\ phase = "DONE"
  /\ fsm' = Process(fsm, "RECOVERY_DONE")
  /\ tries' = 0
  /\ Returns(l, AfterSuccess(l))
  /\ UNCHANGED <<life, slots, goal, power, fault, nav, recover, history>>

(* Recovery fails: Retry starts its Fallback over in the same tick, or,    *)
(* when its attempts are used up, TaskExecution fails and the tick ends.   *)
RecoverFail(l) ==
  /\ cursor = l /\ Running(l) /\ phase = "FAILED"
  /\ fsm' = Process(fsm, "RECOVERY_FAILED")
  /\ IF tries + 1 < NumAttempts
       THEN /\ tries' = tries + 1
            /\ Returns(l, NavOf(l))
            /\ UNCHANGED abandoned
       ELSE /\ tries' = 0
            /\ Returns(l, "free")
            /\ abandoned' = abandoned \cup {goal}
  /\ UNCHANGED <<life, slots, goal, power, fault, nav, recover, arrived,
                 reported, reached>>

(* result_callback of spin and backup.  A rejected goal calls nothing      *)
(* back: no goal_response_callback is set.                                 *)
RecResult ==
  /\ rec = "waiting"
  /\ \/ rec' = "ok"
     \/ "behavior_failed" \in Disturbances /\ rec' = "bad"
     \/ "behavior_rejected" \in Disturbances /\ rec' = "rejected"
  /\ UNCHANGED <<life, fsm, slots, goal, power, fault, tree, nav, phase,
                 attempt, history>>

-----------------------------------------------------------------------------
(***************************************************************************)
(* ChargeBattery, RequestTask, ExecutePickDrop, ReportStatus               *)
(***************************************************************************)

(* Mutant of ChargeStart: it does not fire LOW_BATTERY. *)
ChargeStart_Silent ==
  /\ cursor = "ChargeBattery" /\ ~Running("ChargeBattery")
  /\ charging' = TRUE /\ moving' = FALSE
  /\ StaysRunning("ChargeBattery")
  /\ UNCHANGED <<life, fsm, slots, goal, soc, fault, tries, nav, recover,
                 history>>

ChargeStart ==
  /\ cursor = "ChargeBattery" /\ ~Running("ChargeBattery")
  /\ charging' = TRUE /\ moving' = FALSE
  /\ fsm' = Process(fsm, "LOW_BATTERY")
  /\ StaysRunning("ChargeBattery")
  /\ UNCHANGED <<life, slots, goal, soc, fault, tries, nav, recover, history>>

(* Mutant of ChargeTick: is_charging_ stays set. *)
ChargeTick_StaysCharging ==
  /\ cursor = "ChargeBattery" /\ Running("ChargeBattery")
  /\ IF IsFull(soc)
       THEN /\ fsm' = Process(fsm, "BATTERY_FULL")
            /\ Returns("ChargeBattery", AfterSuccess("ChargeBattery"))
       ELSE /\ StaysRunning("ChargeBattery")
            /\ UNCHANGED fsm
  /\ UNCHANGED <<life, slots, goal, power, fault, tries, nav, recover,
                 history>>

ChargeTick ==
  /\ cursor = "ChargeBattery" /\ Running("ChargeBattery")
  /\ IF IsFull(soc)
       THEN /\ charging' = FALSE
            /\ fsm' = Process(fsm, "BATTERY_FULL")
            /\ Returns("ChargeBattery", AfterSuccess("ChargeBattery"))
       ELSE /\ StaysRunning("ChargeBattery")
            /\ UNCHANGED <<charging, fsm>>
  /\ UNCHANGED <<life, slots, goal, soc, moving, fault, tries, nav, recover,
                 history>>

(* Mutant of TakeTask: the poses of the first task stay on the blackboard. *)
TakeTask_StalePoses(t) ==
  /\ current' = t
  /\ goal' = IF goal = NoTask THEN t ELSE goal
  /\ fsm' = Process(fsm, "TASK_RECEIVED")
  /\ reached' = {}
  /\ Returns("RequestTask", AfterSuccess("RequestTask"))

(* current_task_ is overwritten, whatever it held. *)
TakeTask(t) ==
  /\ current' = t
  /\ goal' = t
  /\ fsm' = Process(fsm, "TASK_RECEIVED")
  /\ reached' = {}
  /\ Returns("RequestTask", AfterSuccess("RequestTask"))

(* Mutant of RequestTask: only the queue is looked at. *)
RequestTask_QueueOnly ==
  /\ cursor = "RequestTask"
  /\ \/ /\ pending # <<>>
        /\ TakeTask(Head(pending))
        /\ pending' = Tail(pending)
     \/ /\ pending = <<>>
        /\ StaysRunning("RequestTask")
        /\ UNCHANGED <<pending, current, goal, fsm, reached>>
  /\ UNCHANGED <<life, interrupted, power, fault, tries, nav, recover,
                 arrived, reported, abandoned>>

(* An interrupted task goes before the queue; with neither, keep waiting. *)
RequestTask ==
  /\ cursor = "RequestTask"
  /\ \/ /\ interrupted # NoTask
        /\ TakeTask(interrupted)
        /\ interrupted' = NoTask
        /\ UNCHANGED pending
     \/ /\ interrupted = NoTask /\ pending # <<>>
        /\ TakeTask(Head(pending))
        /\ pending' = Tail(pending)
        /\ UNCHANGED interrupted
     \/ /\ interrupted = NoTask /\ pending = <<>>
        /\ StaysRunning("RequestTask")
        /\ UNCHANGED <<slots, goal, fsm, reached>>
  /\ UNCHANGED <<life, power, fault, tries, nav, recover, arrived, reported,
                 abandoned>>

ExecStart(l) ==
  /\ cursor = l /\ ~Running(l)
  /\ StaysRunning(l)
  /\ UNCHANGED <<life, fsm, slots, goal, power, fault, tries, nav, recover,
                 history>>

(* elapsed < duration_secs_ *)
ExecWait(l) ==
  /\ cursor = l /\ Running(l)
  /\ StaysRunning(l)
  /\ UNCHANGED <<life, fsm, slots, goal, power, fault, tries, nav, recover,
                 history>>

ExecFinish(l) ==
  /\ cursor = l /\ Running(l)
  /\ fsm' = IF l = "DoPick" THEN Process(fsm, "EXECUTION_DONE") ELSE fsm
  /\ Returns(l, AfterSuccess(l))
  /\ UNCHANGED <<life, slots, goal, power, fault, tries, nav, recover,
                 history>>

(* A TaskCompletion is published even when current_task_ is empty: it then *)
(* names no task.  Once completion_pub_ is deactivated nothing is          *)
(* published, and current_task_ is reset all the same.                     *)
Report ==
  /\ cursor = "Report"
  /\ reported' = IF life = "active" THEN reported \cup ({current} \ {NoTask})
                                   ELSE reported
  /\ current' = NoTask
  /\ fsm' = Process(fsm, "REPORT_SENT")
  /\ Returns("Report", AfterSuccess("Report"))
  /\ UNCHANGED <<life, pending, interrupted, goal, power, fault, tries, nav,
                 recover, arrived, abandoned, reached>>

-----------------------------------------------------------------------------
(***************************************************************************)
(* The other handlers of cb_group_timer_.                                  *)
(***************************************************************************)

(* Mutant of BatteryUpdate: the current task is copied, not moved. *)
BatteryUpdate_Copies(dt) ==
  /\ TimersRun /\ cursor = "free"
  /\ soc' = Update(soc, dt, moving, charging)
  /\ interrupted' = IF IsLow(soc') /\ interrupted = NoTask
                      THEN current ELSE interrupted
  /\ UNCHANGED <<life, fsm, pending, current, goal, moving, charging, fault,
                 tree, nav, recover, history>>

(* battery_update_cb: the battery, then the save of the current task. *)
BatteryUpdate(dt) ==
  /\ TimersRun /\ cursor = "free"
  /\ soc' = Update(soc, dt, moving, charging)
  /\ IF IsLow(soc') /\ current # NoTask /\ interrupted = NoTask
       THEN interrupted' = current /\ current' = NoTask
       ELSE UNCHANGED <<interrupted, current>>
  /\ UNCHANGED <<life, fsm, pending, goal, moving, charging, fault, tree, nav,
                 recover, history>>

(* Mutant of TaskAssignment: the queue is a single slot. *)
TaskAssignment_Overwrites(t) ==
  /\ life # "unconfigured" /\ cursor = "free"
  /\ t \notin arrived
  /\ pending' = <<t>>
  /\ arrived' = arrived \cup {t}
  /\ UNCHANGED <<life, fsm, current, interrupted, goal, power, fault, tree,
                 nav, recover, reported, abandoned, reached>>

(* Mutant of TaskAssignment: push_front. *)
TaskAssignment_PushFront(t) ==
  /\ life # "unconfigured" /\ cursor = "free"
  /\ t \notin arrived
  /\ pending' = <<t>> \o pending
  /\ arrived' = arrived \cup {t}
  /\ UNCHANGED <<life, fsm, current, interrupted, goal, power, fault, tree,
                 nav, recover, reported, abandoned, reached>>

(* task_assignment_cb, active or not, until a cleanup drops task_sub_.     *)
(* The fleet server sends each task once.                                  *)
TaskAssignment(t) ==
  /\ life # "unconfigured" /\ cursor = "free"
  /\ t \notin arrived
  /\ pending' = Append(pending, t)
  /\ arrived' = arrived \cup {t}
  /\ UNCHANGED <<life, fsm, current, interrupted, goal, power, fault, tree,
                 nav, recover, reported, abandoned, reached>>

(* fault_service_cb with data = true; data = false changes nothing.  No    *)
(* transition takes the service down.                                      *)
InjectFault ==
  /\ cursor = "free"
  /\ "fault" \in Disturbances
  /\ fault' = TRUE
  /\ UNCHANGED <<life, fsm, slots, goal, power, tree, nav, recover, history>>

-----------------------------------------------------------------------------
(***************************************************************************)
(* The lifecycle service, in a callback group of its own: a transition may *)
(* fall anywhere in a tick, which goes on to its end.                      *)
(***************************************************************************)

(* on_deactivate: no timer fires any more; completion_pub_ is silent. *)
Deactivate ==
  /\ "deactivated" \in Disturbances
  /\ life = "active" /\ life' = "inactive"
  /\ UNCHANGED <<fsm, slots, goal, power, fault, tree, nav, recover, history>>

(* on_activate starts new timers over the same tree and the same tasks. *)
Activate ==
  /\ life = "inactive" /\ life' = "active"
  /\ UNCHANGED <<fsm, slots, goal, power, fault, tree, nav, recover, history>>

(* bt_tree_.reset() destroys the tree, which halts what is RUNNING.  A     *)
(* tick it falls into does not survive.                                    *)
DestroyTree ==
  /\ charge' = "idle" /\ task' = "idle" /\ cursor' = "free" /\ tries' = 0
  /\ moving' = (moving /\ \A l \in NavLeaves : ~Running(l))
  /\ charging' = (charging /\ ~Running("ChargeBattery"))
  /\ nav' = [l \in NavLeaves |-> IF Running(l) THEN "none" ELSE nav[l]]
  /\ rec' = IF task \in RecoverLeaves THEN "none" ELSE rec
  /\ UNCHANGED <<fsm, slots, goal, soc, fault, phase, attempt, history>>

(* on_cleanup destroys the tree and the subscription.  The node is not     *)
(* configured again: its factory has the builders already.                 *)
Cleanup ==
  /\ "cleaned_up" \in Disturbances
  /\ life = "inactive" /\ life' = "unconfigured"
  /\ DestroyTree

(* on_shutdown destroys the tree and nothing else: where the node was      *)
(* active the battery timer goes on, and bt_tick_cb returns at once.  It   *)
(* changes nothing in a node that is unconfigured.                         *)
Shutdown ==
  /\ "shut_down" \in Disturbances
  /\ \/ life = "active" /\ life' = "finalized_active"
     \/ life = "inactive" /\ life' = "finalized_inactive"
  /\ DestroyTree

-----------------------------------------------------------------------------
Navigation(l) ==
  NavStart(l) \/ NavFault(l) \/ NavWait(l) \/ NavFail(l) \/ NavSucceed(l)

Recovery(l) ==
  \/ RecoverStart(l) \/ RecoverWait(l) \/ RecoverAdvance(l)
  \/ RecoverSetback(l) \/ RecoverDone(l) \/ RecoverFail(l)

Execution(l) == ExecStart(l) \/ ExecWait(l) \/ ExecFinish(l)

(* One step of bt_tick_cb. *)
Tick ==
  \/ BeginTick \/ BatteryOK \/ HaltTask
  \/ ChargeStart \/ ChargeTick \/ RequestTask \/ Report
  \/ \E l \in NavLeaves : Navigation(l)
  \/ \E l \in RecoverLeaves : Recovery(l)
  \/ \E l \in ExecLeaves : Execution(l)

Callback ==
  \/ \E l \in NavLeaves : NavResponse(l) \/ NavResult(l)
  \/ RecResult

Handler ==
  \/ \E dt \in Elapsed : BatteryUpdate(dt)
  \/ \E t \in Tasks : TaskAssignment(t)
  \/ InjectFault

Transition == Deactivate \/ Activate \/ Cleanup \/ Shutdown

Next == Tick \/ Callback \/ Handler \/ Transition

Spec == Init /\ [][Next]_vars

(* The executor keeps running the ready timers (a tick, once begun, runs   *)
(* to its end, and the battery timer cannot be passed over forever), Nav2  *)
(* answers every goal it received, and a pick or drop takes finite time.   *)
Fairness ==
  /\ WF_vars(Tick)
  /\ SF_vars(\E dt \in Elapsed : BatteryUpdate(dt))
  /\ \A l \in NavLeaves : WF_vars(NavResponse(l)) /\ WF_vars(NavResult(l))
  /\ WF_vars(RecResult)
  /\ \A l \in ExecLeaves : SF_vars(ExecFinish(l))

FairSpec == Spec /\ Fairness

(* The same for a robot that is not low when it is activated. *)
ChargedInit == Init /\ ~IsLow(soc)

FairChargedSpec == ChargedInit /\ [][Next]_vars /\ Fairness

-----------------------------------------------------------------------------
(***************************************************************************)
(* Safety on every site.                                                   *)
(***************************************************************************)

(* The charging flag, the published CHARGING state and the ChargeBattery   *)
(* node agree at every step, and a charging robot does not move: the       *)
(* battery model relies on it (battery_model.hpp:14), the fleet server on  *)
(* the state.                                                              *)
ChargingAgrees ==
  /\ HasTree => (charging <=> fsm = "CHARGING")
  /\ charging <=> charge = "ChargeBattery"
  /\ charging => ~moving

(* Between two handlers at most one branch of the tree is RUNNING, and the *)
(* robot counts as moving only while a navigation node is RUNNING; the two *)
(* legs of a task always count.                                            *)
OneBranchMoves ==
  /\ cursor = "free" => "idle" \in {charge, task}
  /\ moving => \E l \in NavLeaves : Running(l)
  /\ cursor = "free" /\ task \in NavLeaves => moving

(* What a halted goal left behind is never seen by the next one: a         *)
(* navigation result or a recovery result only exists for a node that is   *)
(* RUNNING.  (A node that returns leaves its result in nav_state_ or       *)
(* spin_state_, unread, for the next onStart to replace; the model resets  *)
(* it at once, so of goals that ended this says nothing.)                  *)
NoStaleResult ==
  /\ \A l \in NavLeaves : nav[l] # "none" => Running(l)
  /\ rec # "none" => task \in RecoverLeaves

(* Where the tick may be, given what the tree remembers: the strengthening  *)
(* that makes the three invariants above inductive.  TaskExecution is      *)
(* ticked only while ChargeWhenLow is idle, a node finds itself RUNNING or *)
(* its branch idle, a halted branch is idle, and the results of a recovery *)
(* are used up when it is decided.                                         *)
TickFollowsTree ==
  /\ fsm # "REPORTING"
  /\ cursor \in {"BatteryOK", "Report"} \cup TaskLeaves => charge = "idle"
  /\ cursor \in ChargeLeaves => charge \in {"idle", cursor}
  /\ cursor = "HaltTask" => charge # "idle"
  /\ cursor \in TaskLeaves => task \in {"idle", cursor}
  /\ cursor = "Report" => task = "idle"
  /\ charge # "idle" /\ cursor # "HaltTask" => task = "idle"
  /\ task \in NavLeaves /\ cursor # "HaltTask" => moving
  /\ phase \in {"DONE", "FAILED"} => rec = "none"

(* A task is never in two places: queued twice, in hand and queued, current *)
(* and interrupted at once, or back in the robot after it was reported.    *)
TaskHeldOnce ==
  /\ IsInjective(pending)
  /\ NoTask \in {current, interrupted}
  /\ ToSet(pending) \cap {current, interrupted} = {}
  /\ reported \cap (ToSet(pending) \cup {current, interrupted}) = {}
  /\ ToSet(pending) \cup ({current, interrupted} \ {NoTask}) \cup reported
       \subseteq arrived

(* From the moment a task's poses are on the blackboard until its report,  *)
(* every leg, pick and drop is for a task the robot still holds, even when *)
(* the battery timer has set it aside in the meantime.                     *)
WorksForHeldTask ==
  task \in WorkLeaves \/ cursor \in WorkLeaves \cup {"Report"}
    => goal # NoTask /\ goal \in {current, interrupted}

(* ReportStatus publishes an empty task_id when current_task_ is empty     *)
(* (report_status.cpp:15-30).  A tick gets there only while the battery is *)
(* still low and the charger could not be set out for, and the task that   *)
(* was driven is the one set aside: it stays in hand, to be driven and     *)
(* completed again.                                                        *)
NamelessMeansSetAside ==
  cursor = "Report" /\ current = NoTask
    => IsLow(soc) /\ goal # NoTask /\ interrupted = goal

(* The agent implements TaskCustody.  The robot holds the current or the   *)
(* interrupted task; a task is lost when it arrived and is nowhere.        *)
Custody == INSTANCE TaskCustody WITH
  waiting <- pending,
  held    <- IF current # NoTask THEN current ELSE interrupted,
  done    <- reported,
  lost    <- arrived \ (ToSet(pending) \cup {current, interrupted} \cup reported)

CustodySpec == Custody!Spec

(* Each navigation node has one goal at a time, answered once, as NavGoals *)
(* shows of the goals Nav2 holds.                                          *)
NavView == INSTANCE NavClient WITH Nodes <- NavLeaves

NavViewSpec == NavView!Spec

-----------------------------------------------------------------------------
(***************************************************************************)
(* Safety on sites where some disturbances cannot happen.                  *)
(***************************************************************************)

(* Every assigned task is queued, in hand or reported.                     *)
NoTaskLost ==
  arrived \subseteq ToSet(pending) \cup {current, interrupted} \cup reported

(* The state the fleet server sees follows from what the tree is doing.    *)
(* Off the charger's branch it is the state of the leaf that is RUNNING.   *)
(* On the way to the charger it is the one the robot had when it turned    *)
(* round: IDLE where no task was in hand (robot_fsm.cpp:24-27 has no       *)
(* NAV_STARTED there), and one a task is worked for in only if that task   *)
(* was set aside.  CHARGING comes with ChargeBattery.                      *)
ExpectedState ==
  CASE task \in {"idle", "RequestTask"}        -> "IDLE"
    [] task \in {"NavToPick", "NavToDrop"}     -> "NAVIGATING"
    [] task \in {"DoPick", "DoDrop"}           -> "EXECUTING"
    [] task \in {"RecoverPick", "RecoverDrop"} -> "RECOVERING"

StateMatchesTree ==
  cursor = "free" =>
    /\ charge = "idle" => fsm = ExpectedState
    /\ charge = "NavToCharger" =>
         /\ fsm \in {"IDLE", "NAVIGATING", "EXECUTING"}
         /\ interrupted = NoTask => fsm = "IDLE"
    /\ charge = "ChargeBattery" => fsm = "CHARGING"

(* A completion says SUCCESS only for a task that was picked up and        *)
(* dropped where it should be.                                             *)
SuccessMeansServed ==
  cursor = "Report" => reached = {"NavToPick", "NavToDrop"}

(* A completion says which task it completes.                              *)
CompletionNamesTask ==
  cursor = "Report" => current # NoTask

-----------------------------------------------------------------------------
(***************************************************************************)
(* Liveness                                                                *)
(***************************************************************************)

(* Charging ends. *)
ChargingEnds == charging ~> ~charging

(* A low battery brings the robot to its charger. *)
LowBatteryCharges == IsLow(soc) ~> charging

(* A task the battery set aside is taken up again. *)
InterruptedResumes ==
  \A t \in Tasks : interrupted = t ~> current = t

(* RequestRecovery returns: after a success, or after MaxAttempts failures *)
(* (request_recovery.hpp:14).                                              *)
RecoveryReturns == task \in RecoverLeaves ~> task \notin RecoverLeaves

(* Unless the battery runs low on the way, a queued task is reported, or   *)
(* given up after its retries.                                             *)
QueuedIsReported ==
  \A t \in Tasks :
    t \in ToSet(pending) ~> t \in reported \cup abandoned \/ IsLow(soc)
=============================================================================
