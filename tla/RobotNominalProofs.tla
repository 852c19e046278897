------------------------- MODULE RobotNominalProofs -------------------------
(***************************************************************************)
(* Proofs about a robot agent on a site where its navigations are answered *)
(* with success, nobody injects a fault and nobody stops the node: no task *)
(* is lost, every completion names a task that was picked up and dropped   *)
(* where it should be, and the published state follows from what the tree  *)
(* is doing, on the way to the charger too, for every set of tasks and     *)
(* however the battery drains and charges.                                 *)
(***************************************************************************)
EXTENDS RobotTaskProofs

(* What the behaviour servers do does not matter: no recovery begins. *)
Undisturbed ==
  Disturbances \subseteq {"behavior_not_ready", "behavior_failed",
                          "behavior_rejected"}

(* Nothing fails. *)
NothingFails ==
  /\ life = "active" /\ ~fault
  /\ {task, cursor} \cap RecoverLeaves = {}
  /\ \A l \in NavLeaves : nav[l] \notin {"rejected", "failed"}

(* The robot has a current task exactly while it works for it: the battery *)
(* takes the task away no later than the charger takes the tree, and a     *)
(* tick goes to the task's branch only with charge left.                   *)
CurrentIsWorkedFor ==
  /\ current # NoTask =>
       /\ Working /\ charge = "idle" /\ ~IsLow(soc)
       /\ cursor \notin ChargeLeaves \cup {"HaltTask"}
  /\ cursor \in WorkLeaves \cup {"Report"} => current # NoTask
  /\ task \in WorkLeaves /\ charge = "idle" /\ current = NoTask => IsLow(soc)
  /\ cursor \in TaskLeaves => ~IsLow(soc)

(* The legs driven so far. *)
LegsReached ==
  /\ {task, cursor} \cap {"DoPick", "NavToDrop", "DoDrop", "Report"} # {}
       => "NavToPick" \in reached
  /\ {task, cursor} \cap {"DoDrop", "Report"} # {} => "NavToDrop" \in reached

(* The state between two leaves of a task. *)
EnteringState ==
  CASE cursor = "NavToPick" -> "ASSIGNED"
    [] cursor = "NavToDrop" -> "NAVIGATING"
    [] cursor \in {"DoPick", "DoDrop", "Report"} -> "EXECUTING"

StateFollowsTree ==
  charge = "idle" /\ cursor \notin ChargeLeaves =>
    fsm = IF task = "idle" /\ cursor \in WorkLeaves \cup {"Report"}
            THEN EnteringState ELSE ExpectedState

NominalInv ==
  /\ NothingFails /\ CurrentIsWorkedFor /\ LegsReached /\ StateFollowsTree
  /\ NoTaskLost

(* The events of a task's course, each in the state that lists it. *)
LEMMA CourseOfEvents ==
  /\ Process("IDLE", "TASK_RECEIVED") = "ASSIGNED"
  /\ Process("ASSIGNED", "NAV_STARTED") = "NAVIGATING"
  /\ Process("NAVIGATING", "NAV_STARTED") = "NAVIGATING"
  /\ Process("NAVIGATING", "NAV_SUCCEEDED") = "EXECUTING"
  /\ Process("EXECUTING", "EXECUTION_DONE") = "NAVIGATING"
  /\ Process("EXECUTING", "REPORT_SENT") = "IDLE"
  /\ Process("CHARGING", "BATTERY_FULL") = "IDLE"
BY DEF Process, Move

(* The state a robot sets out for the charger in is not the one of a start. *)
LEMMA TripEvents ==
  ASSUME NEW s \in {"IDLE", "NAVIGATING", "EXECUTING"}
  PROVE  Process(s, "NAV_STARTED") = s
BY DEF Process, Move

(***************************************************************************)
(* The steps of a tick                                                     *)
(***************************************************************************)

(* A navigation starts, goes on, or succeeds. *)
LEMMA NominalNavigation ==
  ASSUME Undisturbed, TypeOK, ControlInv, NominalInv,
         NEW l \in NavLeaves, Navigation(l)
  PROVE  NominalInv'
<1> USE DEF NominalInv, Running, NavLeaves, ChargeLeaves, TaskLeaves,
            WorkLeaves, RecoverLeaves
<1>0. UNCHANGED taskVars /\ NoTaskLost'
  BY NavigationKeepsTasks DEF taskVars, slots, NoTaskLost
<1>1. UNCHANGED <<life, fault, current, soc>> /\ cursor = l
  BY <1>0 DEF Navigation, NavStart, NavFault, NavWait, NavFail, NavSucceed,
              NothingFails, power, taskVars, slots
<1>2. CASE NavStart(l)
  <2>1. /\ StaysRunning(l) /\ nav' = [nav EXCEPT ![l] = "sent"]
        /\ fsm' = Process(fsm, "NAV_STARTED") /\ UNCHANGED reached
        /\ l \notin {charge, task}
    BY <1>2 DEF NavStart, Undisturbed, history
  <2>2. NothingFails'
    BY <1>1, <2>1 DEF NothingFails, StaysRunning, TypeOK
  <2>3. CurrentIsWorkedFor' /\ LegsReached'
    BY <1>1, <2>1
       DEF CurrentIsWorkedFor, LegsReached, StaysRunning, Working
  <2>4. CASE l = "NavToCharger"
    BY <1>0, <1>1, <2>1, <2>2, <2>3, <2>4 DEF StateFollowsTree, StaysRunning
  <2>5. CASE l # "NavToCharger"
    <3>1. charge = "idle" /\ task = "idle"
      BY <1>1, <2>1, <2>5 DEF ControlInv, TickFollowsTree
    <3>2. fsm = EnteringState
      BY <1>1, <2>5, <3>1 DEF StateFollowsTree
    <3>3. fsm' = "NAVIGATING"
      BY <1>1, <2>1, <2>5, <3>2, CourseOfEvents DEF EnteringState
    <3>4. QED
      BY <1>0, <2>1, <2>2, <2>3, <2>5, <3>1, <3>3
         DEF StateFollowsTree, StaysRunning, ExpectedState
  <2>6. QED
    BY <2>4, <2>5
<1>3. CASE NavWait(l)
  <2>1. StaysRunning(l) /\ UNCHANGED <<fsm, nav, reached>> /\ l \in {charge, task}
    BY <1>3 DEF NavWait, history
  <2>2. NothingFails'
    BY <1>1, <2>1 DEF NothingFails, StaysRunning
  <2>3. CurrentIsWorkedFor' /\ LegsReached'
    BY <1>1, <2>1
       DEF CurrentIsWorkedFor, LegsReached, StaysRunning, Working
  <2>4. StateFollowsTree'
    BY <1>1, <2>1
       DEF StateFollowsTree, StaysRunning, ControlInv, TickFollowsTree, TypeOK,
           ExpectedState
  <2>5. QED
    BY <1>0, <2>2, <2>3, <2>4
<1>4. CASE NavSucceed(l)
  <2>1. /\ Returns(l, AfterSuccess(l)) /\ nav' = [nav EXCEPT ![l] = "none"]
        /\ fsm' = Process(fsm, "NAV_SUCCEEDED") /\ l \in {charge, task}
        /\ reached' = reached \cup ({l} \ {"NavToCharger"})
    BY <1>4 DEF NavSucceed
  <2>2. NothingFails'
    BY <1>1, <2>1 DEF NothingFails, Returns, AfterSuccess, TypeOK
  <2>3. CASE l = "NavToCharger"
    <3>1. charge = l /\ cursor' = "ChargeBattery" /\ task = "idle"
          /\ task' = "idle" /\ charge' = "idle"
      BY <1>1, <2>1, <2>3
         DEF Returns, AfterSuccess, ControlInv, TickFollowsTree, TypeOK
    <3>2. CurrentIsWorkedFor' /\ LegsReached' /\ StateFollowsTree'
      BY <1>1, <2>3, <3>1
         DEF CurrentIsWorkedFor, LegsReached, StateFollowsTree
    <3>3. QED
      BY <1>0, <2>2, <3>2
  <2>4. CASE l # "NavToCharger"
    <3>1. task = l /\ charge = "idle" /\ task' = "idle" /\ charge' = "idle"
      BY <1>1, <2>1, <2>4 DEF Returns, ControlInv, TickFollowsTree, TypeOK
    <3>2. /\ l = "NavToPick" => cursor' = "DoPick"
          /\ l = "NavToDrop" => cursor' = "DoDrop"
      BY <2>1 DEF Returns, AfterSuccess
    <3>3. fsm = "NAVIGATING" /\ fsm' = "EXECUTING"
      BY <1>1, <2>1, <2>4, <3>1, CourseOfEvents
         DEF StateFollowsTree, ExpectedState
    <3>4. CurrentIsWorkedFor'
      BY <1>1, <2>4, <3>1, <3>2 DEF CurrentIsWorkedFor, Working
    <3>5. LegsReached' /\ StateFollowsTree'
      BY <1>1, <2>1, <2>4, <3>1, <3>2, <3>3
         DEF LegsReached, StateFollowsTree, EnteringState
    <3>6. QED
      BY <1>0, <2>2, <3>4, <3>5
  <2>5. QED
    BY <2>3, <2>4
<1>5. ~NavFault(l) /\ ~NavFail(l)
  BY DEF NavFault, NavFail, NothingFails
<1>6. QED
  BY <1>2, <1>3, <1>4, <1>5 DEF Navigation

(* A pick or a drop starts, goes on, or is done. *)
LEMMA NominalExecution ==
  ASSUME TypeOK, ControlInv, NominalInv, NEW l \in ExecLeaves, Execution(l)
  PROVE  NominalInv'
<1> USE DEF NominalInv, Running, NavLeaves, ChargeLeaves, TaskLeaves,
            WorkLeaves, RecoverLeaves, ExecLeaves
<1>0. UNCHANGED taskVars /\ NoTaskLost'
  BY ExecutionKeepsTasks DEF taskVars, slots, NoTaskLost
<1>1. /\ UNCHANGED <<life, fault, current, soc, nav, reached>> /\ cursor = l
      /\ charge = "idle" /\ task \in {"idle", l}
  BY <1>0 DEF Execution, ExecStart, ExecWait, ExecFinish, power, history,
              taskVars, slots, ControlInv, TickFollowsTree
<1>2. CASE ExecStart(l) \/ ExecWait(l)
  <2>1. StaysRunning(l) /\ UNCHANGED fsm
    BY <1>2 DEF ExecStart, ExecWait
  <2>2. fsm = "EXECUTING"
    BY <1>1 DEF StateFollowsTree, EnteringState, ExpectedState
  <2>3. task' = l /\ cursor' = "free" /\ charge' = "idle"
    BY <1>1, <2>1 DEF StaysRunning
  <2>4. NothingFails' /\ StateFollowsTree'
    BY <1>1, <2>1, <2>2, <2>3 DEF NothingFails, StateFollowsTree, ExpectedState
  <2>5. CurrentIsWorkedFor' /\ LegsReached'
    BY <1>1, <2>3 DEF CurrentIsWorkedFor, LegsReached, Working
  <2>6. QED
    BY <1>0, <2>4, <2>5
<1>3. CASE ExecFinish(l)
  <2>1. /\ task = l /\ task' = "idle" /\ charge' = "idle"
        /\ l = "DoPick" => cursor' = "NavToDrop"
        /\ l = "DoDrop" => cursor' = "Report"
    BY <1>1, <1>3 DEF ExecFinish, Returns, AfterSuccess
  <2>2. fsm = "EXECUTING"
    BY <1>1, <2>1 DEF StateFollowsTree, ExpectedState
  <2>3. /\ l = "DoPick" => fsm' = "NAVIGATING"
        /\ l = "DoDrop" => fsm' = "EXECUTING"
    BY <1>3, <2>2, CourseOfEvents DEF ExecFinish
  <2>4. NothingFails' /\ StateFollowsTree'
    BY <1>1, <2>1, <2>3 DEF NothingFails, StateFollowsTree, EnteringState
  <2>5. CurrentIsWorkedFor' /\ LegsReached'
    BY <1>1, <2>1 DEF CurrentIsWorkedFor, LegsReached, Working
  <2>6. QED
    BY <1>0, <2>4, <2>5
<1>4. QED
  BY <1>2, <1>3 DEF Execution

(* A tick begins, and goes to the charger or to the task as the battery    *)
(* says; halting finds no current task.                                    *)
LEMMA NominalBranch ==
  ASSUME TypeOK, ControlInv, NominalInv, BeginTick \/ BatteryOK \/ HaltTask
  PROVE  NominalInv'
<1> USE DEF NominalInv, NavLeaves, ChargeLeaves, TaskLeaves, WorkLeaves,
            RecoverLeaves
<1>0. UNCHANGED <<life, fault, slots, current, soc, fsm, charge, history,
                  reached, arrived, reported>>
  BY DEF BeginTick, BatteryOK, HaltTask, power, slots, history
<1>1. NoTaskLost'
  BY <1>0 DEF NoTaskLost, slots
<1>2. CASE BeginTick
  <2>1. /\ UNCHANGED <<task, nav>> /\ cursor = "free"
        /\ cursor' = IF charge = "idle" THEN "BatteryOK" ELSE charge
    BY <1>2 DEF BeginTick
  <2>2. NothingFails' /\ LegsReached' /\ StateFollowsTree'
    BY <1>0, <2>1
       DEF NothingFails, LegsReached, StateFollowsTree, ExpectedState, TypeOK
  <2>3. CurrentIsWorkedFor'
    BY <1>0, <2>1 DEF CurrentIsWorkedFor, Working, TypeOK
  <2>4. QED
    BY <1>1, <2>2, <2>3
<1>3. CASE BatteryOK
  <2>1. /\ UNCHANGED <<task, nav>> /\ cursor = "BatteryOK" /\ charge = "idle"
    BY <1>3 DEF BatteryOK, ControlInv, TickFollowsTree
  <2>2. CASE soc >= LowThreshold
    <3>1. cursor' = TaskEntry /\ ~IsLow(soc)
      BY <1>3, <2>2, BatteryAssumption DEF BatteryOK, IsLow, TypeOK, Soc
    <3>2. \/ cursor' = "RequestTask" /\ task = "idle"
          \/ cursor' = task /\ task # "idle"
      BY <3>1 DEF TaskEntry
    <3>3. NothingFails' /\ LegsReached' /\ StateFollowsTree'
      BY <1>0, <2>1, <3>2
         DEF NothingFails, LegsReached, StateFollowsTree, ExpectedState, TypeOK
    <3>4. CurrentIsWorkedFor'
      BY <1>0, <2>1, <3>1, <3>2 DEF CurrentIsWorkedFor, Working, TypeOK
    <3>5. QED
      BY <1>1, <3>3, <3>4
  <2>3. CASE ~(soc >= LowThreshold)
    <3>1. cursor' = "NavToCharger" /\ IsLow(soc)
      BY <1>3, <2>3, BatteryAssumption DEF BatteryOK, IsLow, TypeOK, Soc
    <3>2. NothingFails' /\ LegsReached' /\ StateFollowsTree'
      BY <1>0, <2>1, <3>1 DEF NothingFails, LegsReached, StateFollowsTree
    <3>3. CurrentIsWorkedFor'
      BY <1>0, <2>1, <3>1 DEF CurrentIsWorkedFor, Working
    <3>4. QED
      BY <1>1, <3>2, <3>3
  <2>4. QED
    BY <2>2, <2>3
<1>4. CASE HaltTask
  <2>1. /\ cursor = "HaltTask" /\ cursor' = "free" /\ task' = "idle"
        /\ charge # "idle"
        /\ \A l \in NavLeaves : nav'[l] \in {"none", nav[l]}
    BY <1>4 DEF HaltTask, ControlInv, TickFollowsTree
  <2>2. NothingFails' /\ LegsReached' /\ StateFollowsTree'
    BY <1>0, <2>1 DEF NothingFails, LegsReached, StateFollowsTree
  <2>3. CurrentIsWorkedFor'
    BY <1>0, <2>1 DEF CurrentIsWorkedFor
  <2>4. QED
    BY <1>1, <2>2, <2>3
<1>5. QED
  BY <1>2, <1>3, <1>4

(* Charging starts, goes on, and ends with the tree idle. *)
LEMMA NominalCharging ==
  ASSUME TypeOK, ControlInv, NominalInv, ChargeStart \/ ChargeTick
  PROVE  NominalInv'
<1> USE DEF NominalInv, NavLeaves, ChargeLeaves, TaskLeaves, WorkLeaves,
            RecoverLeaves
<1>0. /\ UNCHANGED <<life, fault, slots, current, soc, nav, reached, arrived,
                     reported>>
      /\ cursor = "ChargeBattery"
  BY DEF ChargeStart, ChargeTick, slots, history
<1>1. NoTaskLost'
  BY <1>0 DEF NoTaskLost, slots
<1>2. current = NoTask
  BY <1>0 DEF CurrentIsWorkedFor
<1>3. CASE StaysRunning("ChargeBattery")
  <2>1. charge' = "ChargeBattery" /\ cursor' = "HaltTask" /\ UNCHANGED task
    BY <1>3 DEF StaysRunning
  <2>2. NothingFails' /\ LegsReached' /\ StateFollowsTree'
    BY <1>0, <2>1 DEF NothingFails, LegsReached, StateFollowsTree
  <2>3. CurrentIsWorkedFor'
    BY <1>0, <1>2, <2>1 DEF CurrentIsWorkedFor
  <2>4. QED
    BY <1>1, <2>2, <2>3
<1>4. CASE ~StaysRunning("ChargeBattery")
  <2>1. /\ charge = "ChargeBattery" /\ fsm' = Process(fsm, "BATTERY_FULL")
        /\ Returns("ChargeBattery", AfterSuccess("ChargeBattery"))
    BY <1>0, <1>4
       DEF ChargeStart, ChargeTick, Running, ControlInv, TickFollowsTree, TypeOK
  <2>2. task = "idle" /\ task' = "idle" /\ cursor' = "free" /\ charge' = "idle"
    BY <1>0, <2>1 DEF Returns, AfterSuccess, ControlInv, TickFollowsTree
  <2>3. fsm' = "IDLE"
    BY <2>1, CourseOfEvents DEF ControlInv, ChargingAgrees, HasTree, NothingFails
  <2>4. NothingFails' /\ LegsReached' /\ StateFollowsTree'
    BY <1>0, <2>2, <2>3
       DEF NothingFails, LegsReached, StateFollowsTree, ExpectedState
  <2>5. CurrentIsWorkedFor'
    BY <1>0, <1>2, <2>2 DEF CurrentIsWorkedFor
  <2>6. QED
    BY <1>1, <2>4, <2>5
<1>5. QED
  BY <1>3, <1>4

(* A task is taken by a robot that has none. *)
LEMMA NominalRequest ==
  ASSUME TypeOK, ControlInv, TaskInv, NominalInv, RequestTask
  PROVE  NominalInv'
<1> USE DEF NominalInv, NavLeaves, ChargeLeaves, TaskLeaves, WorkLeaves,
            RecoverLeaves
<1>0. /\ UNCHANGED <<life, fault, soc, nav, arrived, reported>>
      /\ cursor = "RequestTask" /\ charge = "idle"
      /\ task \in {"idle", "RequestTask"} /\ ~IsLow(soc)
  BY DEF RequestTask, power, ControlInv, TickFollowsTree, CurrentIsWorkedFor
<1>1. current = NoTask
  BY <1>0 DEF CurrentIsWorkedFor, Working
<1>2. fsm = "IDLE"
  BY <1>0 DEF StateFollowsTree, ExpectedState
<1>3. CASE StaysRunning("RequestTask") /\ UNCHANGED <<slots, goal, fsm, reached>>
  <2>1. /\ task' = "RequestTask" /\ cursor' = "free" /\ charge' = "idle"
        /\ UNCHANGED <<current, interrupted, pending>>
    BY <1>0, <1>3 DEF StaysRunning, slots
  <2>2. NothingFails' /\ LegsReached' /\ StateFollowsTree'
    BY <1>0, <1>2, <1>3, <2>1
       DEF NothingFails, LegsReached, StateFollowsTree, ExpectedState
  <2>3. CurrentIsWorkedFor' /\ NoTaskLost'
    BY <1>0, <1>1, <2>1 DEF CurrentIsWorkedFor, NoTaskLost
  <2>4. QED
    BY <2>2, <2>3
<1>4. ASSUME NEW t \in Tasks, TakeTask(t),
             ToSet(pending') \cup {current', interrupted'}
               = ToSet(pending) \cup {current, interrupted}
      PROVE  NominalInv'
  <2>1. /\ task' = "idle" /\ cursor' = "NavToPick" /\ charge' = "idle"
        /\ fsm' = "ASSIGNED" /\ current' = t
    BY <1>0, <1>2, <1>4, CourseOfEvents DEF TakeTask, Returns, AfterSuccess
  <2>2. NothingFails' /\ LegsReached' /\ StateFollowsTree'
    BY <1>0, <2>1 DEF NothingFails, LegsReached, StateFollowsTree, EnteringState
  <2>3. t # NoTask
    BY AgentAssumption
  <2>4. CurrentIsWorkedFor'
    BY <1>0, <2>1, <2>3 DEF CurrentIsWorkedFor, Working
  <2>5. NoTaskLost'
    BY <1>0, <1>4 DEF NoTaskLost
  <2>6. QED
    BY <2>2, <2>4, <2>5
<1>5. CASE /\ interrupted # NoTask /\ TakeTask(interrupted)
           /\ interrupted' = NoTask /\ UNCHANGED pending
  <2>1. current' = interrupted /\ interrupted \in Tasks
    BY <1>5 DEF TakeTask, TypeOK
  <2>2. ToSet(pending') \cup {current', interrupted'}
          = ToSet(pending) \cup {current, interrupted}
    BY <1>1, <1>5, <2>1
  <2>3. QED
    BY <1>4, <1>5, <2>1, <2>2
<1>6. CASE /\ interrupted = NoTask /\ pending # <<>>
           /\ TakeTask(Head(pending)) /\ pending' = Tail(pending)
           /\ UNCHANGED interrupted
  <2>1. /\ current' = Head(pending) /\ Head(pending) \in Tasks
        /\ ToSet(pending) = {Head(pending)} \cup ToSet(Tail(pending))
    BY <1>6, TailLemma DEF TakeTask, TypeOK
  <2>2. ToSet(pending') \cup {current', interrupted'}
          = ToSet(pending) \cup {current, interrupted}
    BY <1>1, <1>6, <2>1
  <2>3. QED
    BY <1>4, <1>6, <2>1, <2>2
<1>7. QED
  BY <1>3, <1>5, <1>6 DEF RequestTask

(* The current task is reported, and the robot is idle. *)
LEMMA NominalReport ==
  ASSUME TypeOK, ControlInv, NominalInv, Report
  PROVE  NominalInv'
<1> USE DEF NominalInv, NavLeaves, ChargeLeaves, TaskLeaves, WorkLeaves,
            RecoverLeaves
<1>0. /\ UNCHANGED <<life, fault, soc, nav, arrived, pending, interrupted, reached>>
      /\ cursor = "Report" /\ charge = "idle" /\ task = "idle"
      /\ current' = NoTask
      /\ cursor' = "free" /\ charge' = "idle" /\ task' = "idle"
  BY DEF Report, power, Returns, AfterSuccess, ControlInv, TickFollowsTree
<1>1. reported' = reported \cup ({current} \ {NoTask})
  BY DEF Report, NothingFails
<1>2. fsm = "EXECUTING"
  BY <1>0 DEF StateFollowsTree, EnteringState
<1>3. fsm' = "IDLE"
  BY <1>2, CourseOfEvents DEF Report
<1>4. NothingFails' /\ LegsReached' /\ StateFollowsTree'
  BY <1>0, <1>3 DEF NothingFails, LegsReached, StateFollowsTree, ExpectedState
<1>5. CurrentIsWorkedFor'
  BY <1>0 DEF CurrentIsWorkedFor
<1>6. NoTaskLost'
  BY <1>0, <1>1 DEF NoTaskLost
<1>7. QED
  BY <1>4, <1>5, <1>6

(***************************************************************************)
(* The other handlers                                                      *)
(***************************************************************************)

LEMMA NominalCallback ==
  ASSUME Undisturbed, TypeOK, NominalInv, Callback
  PROVE  NominalInv'
<1>1. UNCHANGED <<life, fault, slots, current, soc, fsm, tree, charge, task,
                  cursor, arrived, reported, reached>>
  BY DEF Callback, NavResponse, NavResult, RecResult, power, tree, history, slots
<1>2. \A l \in NavLeaves : nav'[l] \notin {"rejected", "failed"}
  BY DEF Callback, NavResponse, NavResult, RecResult, Undisturbed, NominalInv,
         NothingFails, TypeOK
<1>3. QED
  BY <1>1, <1>2
     DEF NominalInv, NothingFails, CurrentIsWorkedFor, Working, LegsReached,
         StateFollowsTree, EnteringState, ExpectedState, NoTaskLost, slots

LEMMA NominalBattery ==
  ASSUME TypeOK, ControlInv, TaskInv, NominalInv,
         NEW dt \in Elapsed, BatteryUpdate(dt)
  PROVE  NominalInv'
<1>0. /\ UNCHANGED <<life, fault, pending, fsm, nav, charge, task, cursor,
                     arrived, reported, reached>>
      /\ cursor = "free"
  BY DEF BatteryUpdate, tree, history
<1>1. {current', interrupted'} = {current, interrupted}
  BY BatteryKeepsTaskInv
<1>2. /\ NothingFails' /\ LegsReached' /\ StateFollowsTree' /\ NoTaskLost'
  BY <1>0, <1>1
     DEF NominalInv, NothingFails, LegsReached, StateFollowsTree, EnteringState,
         ExpectedState, NoTaskLost
<1>3. soc' = Update(soc, dt, moving, charging) /\ dt \in Nat
  BY AgentAssumption DEF BatteryUpdate
<1>4. charge = "idle" /\ IsLow(soc) => IsLow(soc')
  BY <1>3, LowStaysLow DEF ControlInv, ChargingAgrees, TypeOK
<1>5. /\ current' # NoTask => current' = current /\ ~IsLow(soc')
      /\ current' = NoTask /\ current # NoTask => IsLow(soc')
  BY DEF BatteryUpdate, TaskInv, TaskHeldOnce
<1>6. CurrentIsWorkedFor'
  BY <1>0, <1>4, <1>5
     DEF NominalInv, CurrentIsWorkedFor, Working, WorkLeaves, TaskLeaves
<1>7. QED
  BY <1>2, <1>6 DEF NominalInv

LEMMA NominalAssignment ==
  ASSUME TypeOK, NominalInv, NEW t \in Tasks, TaskAssignment(t)
  PROVE  NominalInv'
<1>1. /\ pending' = Append(pending, t) /\ arrived' = arrived \cup {t}
      /\ UNCHANGED <<life, fault, current, interrupted, soc, fsm, nav, charge,
                     task, cursor, reported, reached>>
  BY DEF TaskAssignment, power, tree
<1>2. ToSet(pending') = ToSet(pending) \cup {t}
  BY <1>1, AppendLemma DEF TypeOK
<1>3. NoTaskLost'
  BY <1>1, <1>2 DEF NominalInv, NoTaskLost
<1>4. QED
  BY <1>1, <1>3
     DEF NominalInv, NothingFails, CurrentIsWorkedFor, Working, LegsReached,
         StateFollowsTree, EnteringState, ExpectedState

LEMMA NoTransition ==
  ASSUME Undisturbed, NominalInv
  PROVE  ~Transition
BY DEF Transition, Deactivate, Activate, Cleanup, Shutdown, Undisturbed,
       NominalInv, NothingFails

LEMMA NoRecovery ==
  ASSUME NominalInv, NEW l \in RecoverLeaves
  PROVE  ~Recovery(l)
BY DEF Recovery, RecoverStart, RecoverWait, RecoverAdvance, RecoverSetback,
       RecoverDone, RecoverFail, NominalInv, NothingFails

LEMMA NominalInvariant ==
  ASSUME Undisturbed
  PROVE  Spec => []NominalInv
<1>1. Init => NominalInv
  BY DEF Init, NominalInv, NothingFails, CurrentIsWorkedFor, LegsReached,
         StateFollowsTree, ExpectedState, NoTaskLost, NavLeaves, RecoverLeaves,
         WorkLeaves, TaskLeaves, ChargeLeaves
<1>2. TypeOK /\ ControlInv /\ TaskInv /\ NominalInv /\ [Next]_vars => NominalInv'
  <2>1. ASSUME TypeOK, ControlInv, TaskInv, NominalInv, Next
        PROVE  NominalInv'
    <3>1. CASE Tick
      BY <2>1, <3>1, NoRecovery, NominalNavigation, NominalExecution,
         NominalBranch, NominalCharging, NominalRequest, NominalReport DEF Tick
    <3>2. CASE Callback
      BY <2>1, <3>2, NominalCallback
    <3>3. CASE Handler
      <4>1. ~InjectFault
        BY DEF InjectFault, Undisturbed
      <4>2. QED
        BY <2>1, <3>3, <4>1, NominalBattery, NominalAssignment DEF Handler
    <3>4. ~Transition
      BY <2>1, NoTransition
    <3>5. QED
      BY <2>1, <3>1, <3>2, <3>3, <3>4 DEF Next
  <2>2. ASSUME NominalInv, UNCHANGED vars
        PROVE  NominalInv'
    BY <2>2 DEF vars, slots, power, tree, history, NominalInv, NothingFails,
                CurrentIsWorkedFor, Working, LegsReached, StateFollowsTree,
                EnteringState, ExpectedState, NoTaskLost
  <2>3. QED
    BY <2>1, <2>2
<1>3. QED
  BY <1>1, <1>2, TypeCorrect, ControlInvariant, TaskInvariant, PTL DEF Spec

(***************************************************************************)
(* The way to the charger                                                  *)
(***************************************************************************)

(* A robot sets out in the state of the leaf it is called away from, with  *)
(* that leaf's task set aside, or idle; no event of the trip changes it.   *)
TripState ==
  charge = "NavToCharger" \/ cursor = "NavToCharger" =>
    /\ fsm \in {"IDLE", "NAVIGATING", "EXECUTING"}
    /\ interrupted = NoTask => fsm = "IDLE"

LEMMA TripStep ==
  ASSUME Undisturbed, TypeOK, ControlInv, TaskInv, NominalInv, TripState, Next
  PROVE  TripState'
<1> USE DEF TripState, NavLeaves, ChargeLeaves, TaskLeaves, WorkLeaves
<1>1. ASSUME NEW l \in NavLeaves, Navigation(l)
      PROVE  TripState'
  <2>1. cursor = l /\ UNCHANGED interrupted
    BY <1>1, NavigationKeepsTasks
       DEF Navigation, NavStart, NavFault, NavWait, NavFail, NavSucceed,
           taskVars, slots
  <2>2. l # "NavToCharger" => charge = "idle"
    BY <2>1 DEF ControlInv, TickFollowsTree
  <2>3. CASE NavStart(l)
    <3>1. StaysRunning(l) /\ fsm' = Process(fsm, "NAV_STARTED")
      BY <2>3 DEF NavStart, Undisturbed
    <3>2. CASE l = "NavToCharger"
      BY <2>1, <3>1, <3>2, TripEvents
    <3>3. CASE l # "NavToCharger"
      BY <2>2, <3>1, <3>3 DEF StaysRunning
    <3>4. QED
      BY <3>2, <3>3
  <2>4. CASE NavWait(l)
    BY <2>1, <2>2, <2>4 DEF NavWait, StaysRunning
  <2>5. CASE NavSucceed(l)
    <3>1. Returns(l, AfterSuccess(l)) /\ Running(l)
      BY <2>5 DEF NavSucceed
    <3>2. charge' = "idle"
      BY <2>1, <2>2, <3>1
         DEF Returns, Running, ControlInv, TickFollowsTree, TypeOK
    <3>3. cursor' # "NavToCharger"
      BY <3>1 DEF Returns, AfterSuccess
    <3>4. QED
      BY <3>2, <3>3
  <2>6. ~NavFault(l) /\ ~NavFail(l)
    BY DEF NavFault, NavFail, NominalInv, NothingFails
  <2>7. QED
    BY <1>1, <2>3, <2>4, <2>5, <2>6 DEF Navigation
<1>2. ASSUME NEW l \in ExecLeaves, Execution(l)
      PROVE  TripState'
  <2>1. cursor = l /\ charge = "idle"
    BY <1>2 DEF Execution, ExecStart, ExecWait, ExecFinish, ExecLeaves,
                ControlInv, TickFollowsTree
  <2>2. StaysRunning(l) \/ Returns(l, AfterSuccess(l))
    BY <1>2 DEF Execution, ExecStart, ExecWait, ExecFinish
  <2>3. charge' = "idle" /\ cursor' # "NavToCharger"
    BY <2>1, <2>2 DEF StaysRunning, Returns, AfterSuccess, ExecLeaves
  <2>4. QED
    BY <2>3
<1>3. CASE BeginTick \/ HaltTask
  <2>1. UNCHANGED <<fsm, interrupted, charge>>
    BY <1>3 DEF BeginTick, HaltTask, slots
  <2>2. cursor' = "NavToCharger" => charge = "NavToCharger"
    BY <1>3 DEF BeginTick, HaltTask, TypeOK
  <2>3. QED
    BY <2>1, <2>2
<1>4. CASE BatteryOK
  <2>1. /\ UNCHANGED <<fsm, interrupted, charge>>
        /\ charge = "idle" /\ cursor = "BatteryOK"
    BY <1>4 DEF BatteryOK, slots, ControlInv, TickFollowsTree
  <2>2. CASE soc >= LowThreshold
    BY <1>4, <2>1, <2>2 DEF BatteryOK, TaskEntry, TypeOK
  <2>3. CASE ~(soc >= LowThreshold)
    <3>1. IsLow(soc)
      BY <2>3, BatteryAssumption DEF IsLow, TypeOK, Soc
    <3>2. current = NoTask
      BY <3>1 DEF NominalInv, CurrentIsWorkedFor
    <3>3. task \in WorkLeaves => interrupted # NoTask
      BY <3>2 DEF TaskInv, WorksForHeldTask
    <3>4. fsm = ExpectedState /\ task \notin RecoverLeaves
      BY <2>1 DEF NominalInv, StateFollowsTree, NothingFails
    <3>5. QED
      BY <2>1, <3>3, <3>4 DEF ExpectedState, TypeOK, RecoverLeaves
  <2>4. QED
    BY <2>2, <2>3
<1>5. CASE ChargeStart \/ ChargeTick
  <2>1. cursor = "ChargeBattery" /\ charge # "NavToCharger"
    BY <1>5 DEF ChargeStart, ChargeTick, ControlInv, TickFollowsTree
  <2>2. \/ StaysRunning("ChargeBattery")
        \/ Returns("ChargeBattery", AfterSuccess("ChargeBattery"))
    BY <1>5 DEF ChargeStart, ChargeTick
  <2>3. charge' # "NavToCharger" /\ cursor' # "NavToCharger"
    BY <2>1, <2>2 DEF StaysRunning, Returns, AfterSuccess
  <2>4. QED
    BY <2>3
<1>6. CASE RequestTask \/ Report
  <2>1. charge = "idle"
    BY <1>6 DEF RequestTask, Report, ControlInv, TickFollowsTree
  <2>2. \/ StaysRunning("RequestTask")
        \/ Returns("RequestTask", AfterSuccess("RequestTask"))
        \/ Returns("Report", AfterSuccess("Report"))
    BY <1>6 DEF RequestTask, Report, TakeTask
  <2>3. charge' = "idle" /\ cursor' # "NavToCharger"
    BY <2>1, <2>2 DEF StaysRunning, Returns, AfterSuccess
  <2>4. QED
    BY <2>3
<1>7. CASE Callback \/ Handler
  <2>1. UNCHANGED <<fsm, charge, cursor>>
    BY <1>7 DEF Callback, NavResponse, NavResult, RecResult, Handler,
                BatteryUpdate, TaskAssignment, InjectFault, tree
  <2>2. interrupted' = NoTask => interrupted = NoTask
    BY <1>7 DEF Callback, NavResponse, NavResult, RecResult, Handler,
                BatteryUpdate, TaskAssignment, InjectFault, slots
  <2>3. QED
    BY <2>1, <2>2
<1>8. QED
  BY <1>1, <1>2, <1>3, <1>4, <1>5, <1>6, <1>7, NoTransition, NoRecovery
     DEF Next, Tick

LEMMA TripInvariant ==
  ASSUME Undisturbed
  PROVE  Spec => []TripState
<1>1. Init => TripState
  BY DEF Init, TripState
<1>2. TypeOK /\ ControlInv /\ TaskInv /\ NominalInv /\ TripState /\ [Next]_vars
        => TripState'
  <2>1. UNCHANGED vars /\ TripState => TripState'
    BY DEF vars, slots, tree, TripState
  <2>2. QED
    BY <2>1, TripStep
<1>3. QED
  BY <1>1, <1>2, TypeCorrect, ControlInvariant, TaskInvariant, NominalInvariant,
     PTL DEF Spec

(***************************************************************************)
(* What an undisturbed robot promises                                      *)
(***************************************************************************)

(* No assigned task is lost, however often the battery interrupts it.      *)
THEOREM NominalNoTaskLost ==
  ASSUME Undisturbed
  PROVE  Spec => []NoTaskLost
<1>1. NominalInv => NoTaskLost
  BY DEF NominalInv
<1>2. QED
  BY <1>1, NominalInvariant, PTL

(* Between two handlers the published state is that of the leaf RUNNING;   *)
(* on the way to the charger it is still the one the robot set out in,     *)
(* IDLE unless a task was set aside; and CHARGING is published while the   *)
(* ChargeBattery node is RUNNING.                                          *)
THEOREM NominalStateMatchesTree ==
  ASSUME Undisturbed
  PROVE  Spec => []StateMatchesTree
<1>1. TypeOK /\ ControlInv /\ NominalInv /\ TripState => StateMatchesTree
  <2>1. SUFFICES ASSUME TypeOK, ControlInv, NominalInv, TripState,
                        cursor = "free"
                 PROVE  /\ charge = "idle" => fsm = ExpectedState
                        /\ charge = "NavToCharger" =>
                             /\ fsm \in {"IDLE", "NAVIGATING", "EXECUTING"}
                             /\ interrupted = NoTask => fsm = "IDLE"
                        /\ charge = "ChargeBattery" => fsm = "CHARGING"
    BY DEF StateMatchesTree
  <2>2. charge = "idle" => fsm = ExpectedState
    BY <2>1 DEF NominalInv, StateFollowsTree, ChargeLeaves, WorkLeaves
  <2>3. charge = "ChargeBattery" => fsm = "CHARGING"
    BY <2>1 DEF ControlInv, ChargingAgrees, HasTree, NominalInv, NothingFails
  <2>4. QED
    BY <2>1, <2>2, <2>3 DEF TripState
<1>2. QED
  BY <1>1, TypeCorrect, ControlInvariant, NominalInvariant, TripInvariant, PTL

(* A completion is published only after both legs were driven to their     *)
(* end for the task in hand.                                               *)
THEOREM NominalSuccessMeansServed ==
  ASSUME Undisturbed
  PROVE  Spec => []SuccessMeansServed
<1>1. TypeOK /\ NominalInv => SuccessMeansServed
  BY DEF TypeOK, NominalInv, LegsReached, SuccessMeansServed
<1>2. QED
  BY <1>1, TypeCorrect, NominalInvariant, PTL

(* A completion always says which task it completes.                       *)
THEOREM NominalCompletionNamesTask ==
  ASSUME Undisturbed
  PROVE  Spec => []CompletionNamesTask
<1>1. NominalInv => CompletionNamesTask
  BY DEF NominalInv, CurrentIsWorkedFor, CompletionNamesTask
<1>2. QED
  BY <1>1, NominalInvariant, PTL
=============================================================================
