--------------------------- MODULE RobotTaskProofs ---------------------------
(***************************************************************************)
(* Proofs about the tasks of a robot agent, for every set of tasks, every  *)
(* battery and every disturbance: where a task is, which task the robot    *)
(* works for, and that the agent implements TaskCustody.                   *)
(***************************************************************************)
EXTENDS RobotAgentProofs, QueueLemmas

(* The tree is at a leaf of a task's legs, or about to report it. *)
Working == task \in WorkLeaves \/ cursor \in WorkLeaves \cup {"Report"}

(* Where the tasks are. *)
taskVars == <<slots, goal, arrived, reported>>

TaskInv == TaskHeldOnce /\ WorksForHeldTask

(***************************************************************************)
(* The steps that do not concern a task.                                   *)
(***************************************************************************)

LEMMA NavigationKeepsTasks ==
  ASSUME TypeOK, NEW l \in NavLeaves, Navigation(l)
  PROVE  UNCHANGED taskVars /\ (Working' => Working)
<1> USE DEF taskVars, Working, NavLeaves, WorkLeaves, history
<1>1. UNCHANGED taskVars /\ cursor = l
  BY DEF Navigation, NavStart, NavFault, NavWait, NavFail, NavSucceed
<1>2. \/ StaysRunning(l) \/ Returns(l, AfterNavFailure(l))
      \/ Returns(l, AfterSuccess(l))
  BY DEF Navigation, NavStart, NavFault, NavWait, NavFail, NavSucceed
<1>3. CASE StaysRunning(l)
  BY <1>1, <1>3 DEF StaysRunning, ChargeLeaves
<1>4. CASE Returns(l, AfterNavFailure(l))
  BY <1>1, <1>4 DEF Returns, AfterNavFailure, TaskEntry, TypeOK, TaskLeaves
<1>5. CASE Returns(l, AfterSuccess(l))
  BY <1>1, <1>5 DEF Returns, AfterSuccess
<1>6. QED
  BY <1>1, <1>2, <1>3, <1>4, <1>5

LEMMA RecoveryKeepsTasks ==
  ASSUME NEW l \in RecoverLeaves, Recovery(l)
  PROVE  UNCHANGED taskVars /\ (Working' => Working)
<1>1. UNCHANGED taskVars /\ cursor = l
  BY DEF Recovery, RecoverStart, RecoverWait, RecoverAdvance, RecoverSetback,
         RecoverDone, RecoverFail, taskVars, history
<1>2. QED
  BY <1>1 DEF Working, RecoverLeaves, WorkLeaves

LEMMA ExecutionKeepsTasks ==
  ASSUME NEW l \in ExecLeaves, Execution(l)
  PROVE  UNCHANGED taskVars /\ (Working' => Working)
<1>1. UNCHANGED taskVars /\ cursor = l
  BY DEF Execution, ExecStart, ExecWait, ExecFinish, taskVars, history
<1>2. QED
  BY <1>1 DEF Working, ExecLeaves, WorkLeaves

(* Of the steps of a tick, only RequestTask and Report touch a task, and   *)
(* only RequestTask begins to work for one.                                *)
LEMMA TickKeepsTasks ==
  ASSUME TypeOK, Tick, ~RequestTask, ~Report
  PROVE  UNCHANGED taskVars /\ (Working' => Working)
<1> USE DEF taskVars, Working, WorkLeaves, ChargeLeaves, history
<1>1. CASE BeginTick
  BY <1>1 DEF BeginTick, TypeOK
<1>2. CASE BatteryOK
  BY <1>2 DEF BatteryOK, TaskEntry, TypeOK, TaskLeaves
<1>3. CASE HaltTask
  BY <1>3 DEF HaltTask
<1>4. CASE ChargeStart \/ ChargeTick
  BY <1>4 DEF ChargeStart, ChargeTick, StaysRunning, Returns, AfterSuccess
<1>5. QED
  BY <1>1, <1>2, <1>3, <1>4, NavigationKeepsTasks, RecoveryKeepsTasks,
     ExecutionKeepsTasks DEF Tick

(* Nor do the callbacks, the operator's services and the transitions.      *)
LEMMA OthersKeepTasks ==
  ASSUME TypeOK, Callback \/ InjectFault \/ Transition
  PROVE  UNCHANGED taskVars /\ (Working' => Working)
<1> USE DEF taskVars, Working, WorkLeaves, tree, history
<1>1. CASE Callback \/ InjectFault
  BY <1>1 DEF Callback, NavResponse, NavResult, RecResult, InjectFault
<1>2. CASE Transition
  BY <1>2 DEF Transition, Deactivate, Activate, Cleanup, Shutdown, DestroyTree
<1>3. QED
  BY <1>1, <1>2

(* The invariants depend on nothing else. *)
LEMMA KeptTasks ==
  ASSUME TaskInv, UNCHANGED taskVars, Working' => Working
  PROVE  TaskInv'
<1>1. TaskHeldOnce'
  BY DEF TaskInv, TaskHeldOnce, taskVars, slots
<1>2. WorksForHeldTask'
  BY DEF TaskInv, WorksForHeldTask, Working, taskVars, slots
<1>3. QED
  BY <1>1, <1>2 DEF TaskInv

(***************************************************************************)
(* The four steps that do.                                                 *)
(***************************************************************************)

(* RequestTask: an interrupted task becomes current again, or the head of  *)
(* the queue does, in the place of whatever was current.                   *)
LEMMA RequestKeepsTaskInv ==
  ASSUME TypeOK, TaskInv, RequestTask
  PROVE  TaskInv'
<1> USE AgentAssumption DEF TaskInv, TaskHeldOnce, TypeOK
<1>1. CASE /\ interrupted # NoTask /\ TakeTask(interrupted)
           /\ interrupted' = NoTask /\ UNCHANGED pending
  <2>1. /\ current = NoTask /\ current' = interrupted /\ goal' = interrupted
        /\ interrupted' = NoTask
        /\ UNCHANGED <<pending, reported, arrived>>
    BY <1>1 DEF RequestTask, TakeTask
  <2>2. TaskHeldOnce'
    BY <1>1, <2>1
  <2>3. QED
    BY <1>1, <2>1, <2>2 DEF WorksForHeldTask
<1>2. CASE /\ interrupted = NoTask /\ pending # <<>>
           /\ TakeTask(Head(pending)) /\ pending' = Tail(pending)
           /\ UNCHANGED interrupted
  <2>1. /\ current' = Head(pending) /\ goal' = Head(pending)
        /\ interrupted' = NoTask /\ pending' = Tail(pending)
        /\ UNCHANGED <<reported, arrived>>
    BY <1>2 DEF RequestTask, TakeTask
  <2>2. /\ Head(pending) \in Tasks
        /\ ToSet(pending) = {Head(pending)} \cup ToSet(Tail(pending))
        /\ IsInjective(Tail(pending)) /\ Head(pending) \notin ToSet(Tail(pending))
    BY <1>2, TailLemma, InjectiveLemma
  <2>3. NoTask \notin ToSet(pending)
    BY <1>2
  <2>4. TaskHeldOnce'
    BY <1>2, <2>1, <2>2, <2>3
  <2>5. QED
    BY <2>1, <2>2, <2>4 DEF WorksForHeldTask
<1>3. CASE /\ StaysRunning("RequestTask")
           /\ UNCHANGED <<slots, goal, fsm, reached>>
  <2>1. UNCHANGED taskVars
    BY <1>3 DEF RequestTask, taskVars, slots, TakeTask
  <2>2. ~Working'
    BY <1>3 DEF StaysRunning, ChargeLeaves, Working, WorkLeaves
  <2>3. QED
    BY <2>1, <2>2, KeptTasks
<1>4. QED
  BY <1>1, <1>2, <1>3 DEF RequestTask

(* Report: the robot has no current task, and works for none, afterwards.  *)
LEMMA ReportKeepsTaskInv ==
  ASSUME TypeOK, ControlInv, TaskInv, Report
  PROVE  TaskInv' /\ goal # NoTask /\ goal \in {current, interrupted}
<1>1. /\ current' = NoTask /\ UNCHANGED <<pending, interrupted, goal, arrived>>
      /\ reported' \subseteq reported \cup ({current} \ {NoTask})
      /\ cursor' = "free" /\ cursor = "Report"
  BY DEF Report, Returns, AfterSuccess
<1>2. task' = "idle"
  BY DEF Report, Returns, ControlInv, TickFollowsTree
<1>3. goal # NoTask /\ goal \in {current, interrupted}
  BY <1>1 DEF TaskInv, WorksForHeldTask
<1>4. TaskHeldOnce'
  BY <1>1 DEF TaskInv, TaskHeldOnce
<1>5. WorksForHeldTask'
  BY <1>1, <1>2 DEF WorksForHeldTask, WorkLeaves
<1>6. QED
  BY <1>3, <1>4, <1>5 DEF TaskInv

(* battery_update_cb moves the current task, if it does anything to it.    *)
LEMMA BatteryKeepsTaskInv ==
  ASSUME TypeOK, TaskInv, NEW dt \in Elapsed, BatteryUpdate(dt)
  PROVE  TaskInv' /\ {current', interrupted'} = {current, interrupted}
<1>1. UNCHANGED <<pending, goal, task, cursor, arrived, reported>>
  BY DEF BatteryUpdate, tree, history
<1>2. /\ {current', interrupted'} = {current, interrupted}
      /\ NoTask \in {current', interrupted'}
  BY DEF BatteryUpdate, TaskInv, TaskHeldOnce
<1>3. TaskInv'
  BY <1>1, <1>2 DEF TaskInv, TaskHeldOnce, WorksForHeldTask
<1>4. QED
  BY <1>2, <1>3

(* task_assignment_cb adds a task the robot never saw. *)
LEMMA AssignmentKeepsTaskInv ==
  ASSUME TypeOK, TaskInv, NEW t \in Tasks, TaskAssignment(t)
  PROVE  TaskInv'
<1>1. /\ t \notin arrived /\ pending' = Append(pending, t)
      /\ arrived' = arrived \cup {t}
      /\ UNCHANGED <<current, interrupted, goal, task, cursor, reported>>
  BY DEF TaskAssignment, tree
<1>2. t \notin ToSet(pending) \cup {current, interrupted} \cup reported
  BY <1>1, AgentAssumption DEF TaskInv, TaskHeldOnce
<1>3. /\ ToSet(pending') = ToSet(pending) \cup {t} /\ IsInjective(pending')
  BY <1>1, <1>2, AppendLemma, InjectiveLemma DEF TypeOK, TaskInv, TaskHeldOnce
<1>4. TaskHeldOnce'
  BY <1>1, <1>2, <1>3 DEF TaskInv, TaskHeldOnce
<1>5. QED
  BY <1>1, <1>4 DEF TaskInv, WorksForHeldTask

LEMMA TaskInvariant == Spec => []TaskInv
<1>1. Init => TaskInv
  <2>1. Init => IsInjective(pending) /\ ToSet(pending) = {}
    BY DEF Init, IsInjective, ToSet
  <2>2. QED
    BY <2>1 DEF Init, TaskInv, TaskHeldOnce, WorksForHeldTask, WorkLeaves
<1>2. TypeOK /\ ControlInv /\ TaskInv /\ [Next]_vars => TaskInv'
  <2>1. ASSUME TypeOK, ControlInv, TaskInv, Next
        PROVE  TaskInv'
    <3>1. CASE RequestTask
      BY <2>1, <3>1, RequestKeepsTaskInv
    <3>2. CASE Report
      BY <2>1, <3>2, ReportKeepsTaskInv
    <3>3. CASE Tick /\ ~RequestTask /\ ~Report
      BY <2>1, <3>3, TickKeepsTasks, KeptTasks
    <3>4. CASE Callback \/ InjectFault \/ Transition
      BY <2>1, <3>4, OthersKeepTasks, KeptTasks
    <3>5. QED
      BY <2>1, <3>1, <3>2, <3>3, <3>4, BatteryKeepsTaskInv,
         AssignmentKeepsTaskInv DEF Next, Handler
  <2>2. ASSUME TaskInv, UNCHANGED vars
        PROVE  TaskInv'
    <3>1. UNCHANGED taskVars /\ (Working' => Working)
      BY <2>2 DEF vars, taskVars, history, tree, Working
    <3>2. QED
      BY <2>2, <3>1, KeptTasks
  <2>3. QED
    BY <2>1, <2>2
<1>3. QED
  BY <1>1, <1>2, TypeCorrect, ControlInvariant, PTL DEF Spec

(* No task is in two places, or back in the robot once it is reported.     *)
THEOREM TaskAlwaysHeldOnce == Spec => []TaskHeldOnce
<1>1. TaskInv => TaskHeldOnce
  BY DEF TaskInv
<1>2. QED
  BY <1>1, TaskInvariant, PTL

(* Every leg, pick and drop is for a task the robot still holds.           *)
THEOREM AlwaysWorksForHeldTask == Spec => []WorksForHeldTask
<1>1. TaskInv => WorksForHeldTask
  BY DEF TaskInv
<1>2. QED
  BY <1>1, TaskInvariant, PTL

(***************************************************************************)
(* Completions that name no task                                           *)
(***************************************************************************)

(* A battery that is not charging and is low stays low. *)
LEMMA LowStaysLow ==
  ASSUME soc \in Soc, NEW dt \in Nat, moving \in BOOLEAN, IsLow(soc)
  PROVE  IsLow(Update(soc, dt, moving, FALSE))
<1>1. /\ DrainMoving * dt \in Nat /\ DrainIdle * dt \in Nat
  BY BatteryAssumption
<1>2. \A w \in Int : w <= soc => Clamp(w) <= soc
  BY BatteryAssumption DEF Clamp, Soc
<1>3. \A w \in Int : Clamp(w) \in Soc
  BY BatteryAssumption DEF Clamp, Soc
<1>4. \A d \in Nat : Clamp(soc - d) \in Soc /\ Clamp(soc - d) <= soc
  BY <1>2, <1>3 DEF Soc
<1>5. /\ Update(soc, dt, moving, FALSE) \in Soc
      /\ Update(soc, dt, moving, FALSE) <= soc
  BY <1>1, <1>4 DEF Update
<1>6. \A w \in Soc : w <= soc => IsLow(w)
  BY BatteryAssumption DEF IsLow, Soc
<1>7. QED
  BY <1>5, <1>6

(* The strengthening: a robot that goes on with a task it was relieved of  *)
(* has a low battery, whether a tick is at a leaf of the task or the tree  *)
(* only remembers one.                                                     *)
StrandedInv ==
  /\ cursor \in WorkLeaves \cup {"Report"} /\ current = NoTask => IsLow(soc)
  /\ task \in WorkLeaves /\ charge = "idle" /\ current = NoTask => IsLow(soc)

(* A leaf of the task's branch changes neither the charge nor, unless it   *)
(* is RequestTask or Report, the current task.                             *)
LEMMA LeafStranded ==
  ASSUME StrandedInv, cursor \in WorkLeaves, UNCHANGED <<current, soc>>
  PROVE  StrandedInv'
BY DEF StrandedInv

LEMMA TickStranded ==
  ASSUME TypeOK, ControlInv, StrandedInv, Tick, ~RequestTask, ~Report
  PROVE  StrandedInv'
<1> USE DEF WorkLeaves, ChargeLeaves, TaskLeaves
<1>1. UNCHANGED current
  BY TickKeepsTasks DEF taskVars, slots
<1>2. ASSUME NEW l \in NavLeaves, Navigation(l)
      PROVE  StrandedInv'
  <2>1. UNCHANGED soc /\ cursor = l
    BY <1>2 DEF Navigation, NavStart, NavFault, NavWait, NavFail, NavSucceed,
                power
  <2>2. CASE l # "NavToCharger"
    BY <1>1, <2>1, <2>2, LeafStranded DEF NavLeaves
  <2>3. CASE l = "NavToCharger"
    <3>1. \/ StaysRunning(l) \/ Returns(l, AfterNavFailure(l))
          \/ Returns(l, AfterSuccess(l))
      BY <1>2 DEF Navigation, NavStart, NavFault, NavWait, NavFail, NavSucceed
    <3>2. charge # "idle" => task = "idle"
      BY <2>1, <2>3 DEF ControlInv, TickFollowsTree
    <3>3. CASE StaysRunning(l)
      BY <2>3, <3>3 DEF StaysRunning, StrandedInv
    <3>4. CASE Returns(l, AfterNavFailure(l))
      <4>1. task' = task /\ cursor' = TaskEntry
        BY <2>3, <3>4 DEF Returns, AfterNavFailure, TypeOK
      <4>2. cursor' \in WorkLeaves \cup {"Report"} => task \in WorkLeaves
        BY <4>1 DEF TaskEntry, TypeOK
      <4>3. QED
        BY <1>1, <2>1, <3>2, <4>1, <4>2 DEF StrandedInv
    <3>5. CASE Returns(l, AfterSuccess(l))
      <4>1. task' = task /\ cursor' = "ChargeBattery"
        BY <2>3, <3>5 DEF Returns, AfterSuccess, TypeOK
      <4>2. QED
        BY <1>1, <2>1, <3>2, <4>1 DEF StrandedInv
    <3>6. QED
      BY <3>1, <3>3, <3>4, <3>5
  <2>4. QED
    BY <2>2, <2>3
<1>3. ASSUME NEW l \in RecoverLeaves, Recovery(l)
      PROVE  StrandedInv'
  <2>1. UNCHANGED soc /\ cursor = l
    BY <1>3 DEF Recovery, RecoverStart, RecoverWait, RecoverAdvance,
                RecoverSetback, RecoverDone, RecoverFail, power
  <2>2. QED
    BY <1>1, <2>1, LeafStranded DEF RecoverLeaves
<1>4. ASSUME NEW l \in ExecLeaves, Execution(l)
      PROVE  StrandedInv'
  <2>1. UNCHANGED soc /\ cursor = l
    BY <1>4 DEF Execution, ExecStart, ExecWait, ExecFinish, power
  <2>2. QED
    BY <1>1, <2>1, LeafStranded DEF ExecLeaves
<1>5. CASE BeginTick
  <2>1. /\ UNCHANGED <<soc, charge, task>>
        /\ cursor' \notin WorkLeaves \cup {"Report"}
    BY <1>5 DEF BeginTick, power, TypeOK
  <2>2. QED
    BY <1>1, <2>1 DEF StrandedInv
<1>6. CASE BatteryOK
  <2>1. /\ UNCHANGED <<soc, charge, task>> /\ charge = "idle"
        /\ cursor' \in {TaskEntry, "NavToCharger"}
    BY <1>6 DEF BatteryOK, power, ControlInv, TickFollowsTree
  <2>2. cursor' \in WorkLeaves \cup {"Report"} => task \in WorkLeaves
    BY <2>1 DEF TaskEntry, TypeOK
  <2>3. QED
    BY <1>1, <2>1, <2>2 DEF StrandedInv
<1>7. CASE HaltTask
  BY <1>7 DEF HaltTask, StrandedInv
<1>8. CASE ChargeStart \/ ChargeTick
  <2>1. cursor = "ChargeBattery" /\ (charge # "idle" => task = "idle")
    BY <1>8 DEF ChargeStart, ChargeTick, ControlInv, TickFollowsTree
  <2>2. CASE StaysRunning("ChargeBattery")
    BY <2>2 DEF StaysRunning, StrandedInv
  <2>3. CASE ~StaysRunning("ChargeBattery")
    <3>1. /\ charge = "ChargeBattery"
          /\ Returns("ChargeBattery", AfterSuccess("ChargeBattery"))
      BY <1>8, <2>1, <2>3
         DEF ChargeStart, ChargeTick, Running, ControlInv, TickFollowsTree,
             TypeOK
    <3>2. task' = "idle" /\ cursor' = "free"
      BY <2>1, <3>1 DEF Returns, AfterSuccess
    <3>3. QED
      BY <3>2 DEF StrandedInv
  <2>4. QED
    BY <2>2, <2>3
<1>9. QED
  BY <1>2, <1>3, <1>4, <1>5, <1>6, <1>7, <1>8 DEF Tick

(* A task is taken, or reported: with a current task, or with none left to *)
(* go on with.                                                             *)
LEMMA TurnStranded ==
  ASSUME TypeOK, ControlInv, StrandedInv, RequestTask \/ Report
  PROVE  StrandedInv'
<1> USE DEF WorkLeaves, ChargeLeaves, TaskLeaves
<1>1. CASE RequestTask
  <2>1. CASE StaysRunning("RequestTask")
    BY <2>1 DEF StaysRunning, StrandedInv
  <2>2. ASSUME NEW t \in Tasks, TakeTask(t)
        PROVE  StrandedInv'
    BY <2>2, AgentAssumption DEF TakeTask, StrandedInv
  <2>3. pending # <<>> => Head(pending) \in Tasks
    BY TailLemma DEF TypeOK
  <2>4. QED
    BY <1>1, <2>1, <2>2, <2>3 DEF RequestTask, TypeOK
<1>2. CASE Report
  <2>1. cursor' = "free" /\ task' = "idle"
    BY <1>2 DEF Report, Returns, AfterSuccess, ControlInv, TickFollowsTree
  <2>2. QED
    BY <2>1 DEF StrandedInv
<1>3. QED
  BY <1>1, <1>2

(* The battery timer relieves the robot only of a task it has no charge    *)
(* for, and what does not charge does not recover.                         *)
LEMMA BatteryStranded ==
  ASSUME TypeOK, ControlInv, StrandedInv, NEW dt \in Elapsed, BatteryUpdate(dt)
  PROVE  StrandedInv'
<1>1. UNCHANGED <<charge, task, cursor>> /\ cursor = "free"
  BY DEF BatteryUpdate, tree
<1>2. soc' = Update(soc, dt, moving, charging) /\ dt \in Nat
  BY AgentAssumption DEF BatteryUpdate
<1>3. charge = "idle" /\ IsLow(soc) => IsLow(soc')
  BY <1>2, LowStaysLow DEF ControlInv, ChargingAgrees, TypeOK
<1>4. current' = NoTask => current = NoTask \/ IsLow(soc')
  BY DEF BatteryUpdate
<1>5. QED
  BY <1>1, <1>3, <1>4 DEF StrandedInv, WorkLeaves

LEMMA StrandedInvariant == Spec => []StrandedInv
<1>1. Init => StrandedInv
  BY DEF Init, StrandedInv, WorkLeaves
<1>2. TypeOK /\ ControlInv /\ StrandedInv /\ [Next]_vars => StrandedInv'
  <2>1. ASSUME TypeOK, ControlInv, StrandedInv, Next
        PROVE  StrandedInv'
    <3>1. CASE Tick
      BY <2>1, <3>1, TickStranded, TurnStranded
    <3>2. CASE Callback \/ InjectFault \/ \E t \in Tasks : TaskAssignment(t)
      <4>1. UNCHANGED <<current, soc, charge, task, cursor>>
        BY <3>2 DEF Callback, NavResponse, NavResult, RecResult, InjectFault,
                    TaskAssignment, slots, power, tree
      <4>2. QED
        BY <2>1, <4>1 DEF StrandedInv
    <3>3. CASE Transition
      <4>1. CASE Deactivate \/ Activate
        BY <2>1, <4>1 DEF Deactivate, Activate, slots, power, tree, StrandedInv
      <4>2. CASE Cleanup \/ Shutdown
        BY <4>2 DEF Cleanup, Shutdown, DestroyTree, StrandedInv, WorkLeaves
      <4>3. QED
        BY <3>3, <4>1, <4>2 DEF Transition
    <3>4. QED
      BY <2>1, <3>1, <3>2, <3>3, BatteryStranded DEF Next, Handler
  <2>2. ASSUME StrandedInv, UNCHANGED vars
        PROVE  StrandedInv'
    BY <2>2 DEF vars, slots, power, tree, StrandedInv
  <2>3. QED
    BY <2>1, <2>2
<1>3. QED
  BY <1>1, <1>2, TypeCorrect, ControlInvariant, PTL DEF Spec

(* Whatever the battery, the faults, Nav2 and the operator do, a           *)
(* completion without a task comes only from a robot whose battery is      *)
(* still low, and the task it drove for stays set aside in its hands.      *)
THEOREM NamelessAlwaysSetAside == Spec => []NamelessMeansSetAside
<1>1. TaskInv /\ StrandedInv => NamelessMeansSetAside
  BY DEF TaskInv, WorksForHeldTask, StrandedInv, NamelessMeansSetAside
<1>2. QED
  BY <1>1, TaskInvariant, StrandedInvariant, PTL

(***************************************************************************)
(* The agent implements TaskCustody.                                       *)
(***************************************************************************)

LEMMA CustodyUnchanged ==
  ASSUME UNCHANGED taskVars
  PROVE  UNCHANGED Custody!custody
BY DEF taskVars, slots, Custody!custody

(* Taking the interrupted task up again is no step of custody; taking the  *)
(* head of the queue displaces what the robot held.                        *)
LEMMA RequestCustody ==
  ASSUME TypeOK, TaskInv, RequestTask
  PROVE  [Custody!Next]_(Custody!custody)
<1> USE AgentAssumption DEF TaskInv, TaskHeldOnce, TypeOK
<1>1. CASE /\ interrupted # NoTask /\ TakeTask(interrupted)
           /\ interrupted' = NoTask /\ UNCHANGED pending
  <2>1. /\ current = NoTask /\ current' = interrupted
        /\ interrupted' = NoTask /\ UNCHANGED <<pending, reported, arrived>>
    BY <1>1 DEF RequestTask, TakeTask
  <2>2. {current', interrupted'} = {current, interrupted}
    BY <2>1
  <2>3. UNCHANGED Custody!custody
    BY <1>1, <2>1, <2>2 DEF Custody!custody
  <2>4. QED
    BY <2>3
<1>2. CASE /\ interrupted = NoTask /\ pending # <<>>
           /\ TakeTask(Head(pending)) /\ pending' = Tail(pending)
           /\ UNCHANGED interrupted
  <2>1. /\ current' = Head(pending) /\ interrupted' = NoTask
        /\ pending' = Tail(pending) /\ UNCHANGED <<reported, arrived>>
    BY <1>2 DEF RequestTask, TakeTask
  <2>2. /\ Head(pending) \in Tasks
        /\ ToSet(pending) = {Head(pending)} \cup ToSet(Tail(pending))
    BY <1>2, TailLemma
  <2>3. CASE current = NoTask
    <3>1. ToSet(pending') \cup {current', interrupted'}
            = ToSet(pending) \cup {current, interrupted}
      BY <1>2, <2>1, <2>2, <2>3
    <3>2. Custody!Take
      BY <1>2, <2>1, <2>2, <2>3, <3>1 DEF Custody!Take
    <3>3. QED
      BY <3>2 DEF Custody!Next
  <2>4. CASE current # NoTask
    <3>1. /\ current \in arrived
          /\ current \notin ToSet(pending) \cup {Head(pending)} \cup reported
      BY <1>2, <2>2, <2>4
    <3>2. arrived \ (ToSet(pending') \cup {current', interrupted'} \cup reported')
            = (arrived \ (ToSet(pending) \cup {current, interrupted} \cup reported))
                \cup {current}
      BY <1>2, <2>1, <2>2, <2>4, <3>1
    <3>3. Custody!Displace
      BY <1>2, <2>1, <2>2, <2>4, <3>2 DEF Custody!Displace
    <3>4. QED
      BY <3>3 DEF Custody!Next
  <2>5. QED
    BY <2>3, <2>4
<1>3. CASE /\ StaysRunning("RequestTask")
           /\ UNCHANGED <<slots, goal, fsm, reached>>
  <2>1. UNCHANGED taskVars
    BY <1>3 DEF RequestTask, taskVars, slots
  <2>2. QED
    BY <2>1, CustodyUnchanged
<1>4. QED
  BY <1>1, <1>2, <1>3 DEF RequestTask

(* A report completes the current task, or, where it may not publish,      *)
(* forgets it; with no current task it is no step of custody.              *)
LEMMA ReportCustody ==
  ASSUME TypeOK, TaskInv, Report
  PROVE  [Custody!Next]_(Custody!custody)
<1> USE AgentAssumption DEF TaskInv, TaskHeldOnce, TypeOK
<1>1. /\ current' = NoTask /\ UNCHANGED <<pending, interrupted, arrived>>
      /\ reported' = IF life = "active" THEN reported \cup ({current} \ {NoTask})
                                        ELSE reported
  BY DEF Report
<1>2. CASE current = NoTask
  <2>1. UNCHANGED <<pending, current, interrupted, reported, arrived>>
    BY <1>1, <1>2
  <2>2. QED
    BY <2>1 DEF Custody!custody
<1>3. CASE current # NoTask /\ life = "active"
  <2>1. interrupted = NoTask /\ reported' = reported \cup {current}
    BY <1>1, <1>3
  <2>2. arrived \ (ToSet(pending') \cup {current', interrupted'} \cup reported')
          = arrived \ (ToSet(pending) \cup {current, interrupted} \cup reported)
    BY <1>1, <1>3, <2>1
  <2>3. Custody!Complete
    BY <1>1, <1>3, <2>1, <2>2 DEF Custody!Complete
  <2>4. QED
    BY <2>3 DEF Custody!Next
<1>4. CASE current # NoTask /\ life # "active"
  <2>1. interrupted = NoTask /\ reported' = reported
    BY <1>1, <1>4
  <2>2. /\ current \in arrived
        /\ current \notin ToSet(pending) \cup reported
    BY <1>4
  <2>3. arrived \ (ToSet(pending') \cup {current', interrupted'} \cup reported')
          = (arrived \ (ToSet(pending) \cup {current, interrupted} \cup reported))
              \cup {current}
    BY <1>1, <1>4, <2>1, <2>2
  <2>4. Custody!Forget
    BY <1>1, <1>4, <2>1, <2>3 DEF Custody!Forget
  <2>5. QED
    BY <2>4 DEF Custody!Next
<1>5. QED
  BY <1>2, <1>3, <1>4

(* Setting a task aside moves it from one slot to the other. *)
LEMMA BatteryCustody ==
  ASSUME TypeOK, TaskInv, NEW dt \in Elapsed, BatteryUpdate(dt)
  PROVE  UNCHANGED Custody!custody
<1>1. {current', interrupted'} = {current, interrupted}
  BY BatteryKeepsTaskInv
<1>2. UNCHANGED <<pending, arrived, reported>>
  BY DEF BatteryUpdate, history
<1>3. (IF current' # NoTask THEN current' ELSE interrupted')
        = (IF current # NoTask THEN current ELSE interrupted)
  BY DEF BatteryUpdate
<1>4. QED
  BY <1>1, <1>2, <1>3 DEF Custody!custody

LEMMA AssignmentCustody ==
  ASSUME TypeOK, TaskInv, NEW t \in Tasks, TaskAssignment(t)
  PROVE  Custody!Next
<1>1. /\ t \notin arrived /\ pending' = Append(pending, t)
      /\ arrived' = arrived \cup {t}
      /\ UNCHANGED <<current, interrupted, reported>>
  BY DEF TaskAssignment
<1>2. t \notin ToSet(pending) \cup {current, interrupted} \cup reported
  BY <1>1, AgentAssumption DEF TaskInv, TaskHeldOnce
<1>3. ToSet(pending') = ToSet(pending) \cup {t}
  BY <1>1, AppendLemma DEF TypeOK
<1>4. arrived' \ (ToSet(pending') \cup {current', interrupted'} \cup reported')
        = arrived \ (ToSet(pending) \cup {current, interrupted} \cup reported)
  BY <1>1, <1>2, <1>3
<1>5. t \notin ToSet(pending)
               \cup {IF current # NoTask THEN current ELSE interrupted}
               \cup reported
               \cup (arrived \ (ToSet(pending) \cup {current, interrupted}
                                 \cup reported))
  BY <1>1, <1>2
<1>6. Custody!Assign(t)
  BY <1>1, <1>4, <1>5 DEF Custody!Assign, Custody!ToSet, ToSet
<1>7. QED
  BY <1>6 DEF Custody!Next

(* Whatever the battery, the faults, Nav2 and the operator do, a task      *)
(* waits in arrival order, is held by the robot, and is done at most once; *)
(* it is lost only when another takes its place or nobody hears of it.     *)
THEOREM ImplementsTaskCustody == Spec => CustodySpec
<1>1. Init => Custody!Init
  BY DEF Init, Custody!Init, ToSet
<1>2. TypeOK /\ TaskInv /\ [Next]_vars => [Custody!Next]_(Custody!custody)
  <2>1. ASSUME TypeOK, TaskInv, Next
        PROVE  [Custody!Next]_(Custody!custody)
    <3>1. CASE Tick /\ ~RequestTask /\ ~Report
      BY <2>1, <3>1, TickKeepsTasks, CustodyUnchanged
    <3>2. CASE Callback \/ InjectFault \/ Transition
      BY <2>1, <3>2, OthersKeepTasks, CustodyUnchanged
    <3>3. QED
      BY <2>1, <3>1, <3>2, RequestCustody, ReportCustody, BatteryCustody,
         AssignmentCustody DEF Next, Handler
  <2>2. ASSUME UNCHANGED vars
        PROVE  UNCHANGED Custody!custody
    BY <2>2 DEF vars, slots, history, Custody!custody
  <2>3. QED
    BY <2>1, <2>2
<1>3. QED
  BY <1>1, <1>2, TypeCorrect, TaskInvariant, PTL
     DEF Spec, CustodySpec, Custody!Spec
=============================================================================
