-------------------------- MODULE RobotAgentProofs --------------------------
(***************************************************************************)
(* Proofs about RobotAgent for every set of tasks, battery, retry bounds   *)
(* and set of disturbances.                                                *)
(***************************************************************************)
EXTENDS RobotAgent, TLAPS

(***************************************************************************)
(* The state machine                                                       *)
(***************************************************************************)

(* An event takes a state to a state. *)
LEMMA ProcessType ==
  ASSUME NEW s \in States, NEW e \in Events
  PROVE  Process(s, e) \in States
BY DEF Process, Move, States, Events

(* REPORTING is entered by no event. *)
LEMMA NeverReporting ==
  ASSUME NEW s \in States, NEW e \in Events, s # "REPORTING"
  PROVE  Process(s, e) # "REPORTING"
BY DEF Process, Move, States, Events

(* Only LOW_BATTERY enters CHARGING and only BATTERY_FULL leaves it. *)
LEMMA ChargingEvents ==
  ASSUME NEW s \in States, NEW e \in Events
  PROVE  /\ e \notin {"LOW_BATTERY", "BATTERY_FULL"}
              => (Process(s, e) = "CHARGING" <=> s = "CHARGING")
         /\ s # "REPORTING" => Process(s, "LOW_BATTERY") = "CHARGING"
         /\ Process(s, "BATTERY_FULL") # "CHARGING"
BY DEF Process, Move, States, Events

(* The battery stays between empty and full, whatever dt the timer sees. *)
LEMMA BatteryType ==
  ASSUME NEW v \in Soc, NEW dt \in Nat, NEW m \in BOOLEAN, NEW c \in BOOLEAN
  PROVE  Update(v, dt, m, c) \in Soc
<1>1. /\ ChargeRate * dt \in Int /\ DrainMoving * dt \in Int
      /\ DrainIdle * dt \in Int
  BY BatteryAssumption
<1>2. \A w \in Int : Clamp(w) \in Soc
  BY BatteryAssumption DEF Clamp, Soc
<1>3. /\ v + ChargeRate * dt \in Int /\ v - DrainMoving * dt \in Int
      /\ v - DrainIdle * dt \in Int
  BY <1>1, BatteryAssumption DEF Soc
<1>4. QED
  BY <1>2, <1>3 DEF Update

(***************************************************************************)
(* The tree                                                                *)
(***************************************************************************)

(* A tick goes from a leaf to a leaf of the tree. *)
LEMMA TreeType ==
  ASSUME task \in TaskLeaves \cup {"idle"}
  PROVE  /\ TaskEntry \in Cursors
         /\ \A l \in ChargeLeaves \cup TaskLeaves \cup {"Report"} :
              AfterSuccess(l) \in Cursors
         /\ \A l \in NavLeaves : AfterNavFailure(l) \in Cursors
         /\ \A l \in RecoverLeaves : NavOf(l) \in Cursors
BY DEF TaskEntry, AfterSuccess, AfterNavFailure, NavOf, Cursors, ChargeLeaves,
       TaskLeaves, WorkLeaves, NavLeaves, RecoverLeaves

(* Whatever a leaf returns, the tree's memory stays well formed. *)
LEMMA ReturnType ==
  ASSUME charge \in ChargeLeaves \cup {"idle"},
         task \in TaskLeaves \cup {"idle"},
         NEW l \in ChargeLeaves \cup TaskLeaves \cup {"Report"},
         NEW next \in Cursors,
         \/ l # "Report" /\ StaysRunning(l)
         \/ Returns(l, next)
  PROVE  /\ charge' \in ChargeLeaves \cup {"idle"}
         /\ task' \in TaskLeaves \cup {"idle"}
         /\ cursor' \in Cursors
BY DEF StaysRunning, Returns, ChargeLeaves, TaskLeaves, WorkLeaves, Cursors

(* RequestRecovery keeps trying only while attempt_ < max_attempts, so     *)
(* attempt_ never passes the bound.                                        *)
AttemptBounded == phase \in {"SPIN", "BACKUP"} => attempt < MaxAttempts

TypeInv == TypeOK /\ AttemptBounded

LEMMA NavigationType ==
  ASSUME TypeInv, NEW l \in NavLeaves, Navigation(l)
  PROVE  TypeInv'
<1> USE DEF TypeInv, TypeOK, AttemptBounded, slots, power, recover, history
<1>0. /\ l \in ChargeLeaves \cup TaskLeaves \cup {"Report"}
      /\ AfterNavFailure(l) \in Cursors /\ AfterSuccess(l) \in Cursors
  BY TreeType DEF NavLeaves, ChargeLeaves, TaskLeaves, WorkLeaves
<1>1. /\ charge' \in ChargeLeaves \cup {"idle"}
      /\ task' \in TaskLeaves \cup {"idle"}
      /\ cursor' \in Cursors
  BY <1>0, ReturnType DEF Navigation, NavStart, NavFault, NavWait, NavFail,
                          NavSucceed, NavLeaves
<1>2. fsm' \in States
  BY ProcessType DEF Navigation, NavStart, NavFault, NavWait, NavFail,
                     NavSucceed, Events
<1>3. nav' \in [NavLeaves -> NavStates] /\ moving' \in BOOLEAN
      /\ fault' \in BOOLEAN
  BY DEF Navigation, NavStart, NavFault, NavWait, NavFail, NavSucceed,
         NavStates
<1>4. tries' \in 0 .. NumAttempts - 1
  BY AgentAssumption DEF Navigation, NavStart, NavFault, NavWait, NavFail, NavSucceed
<1>5. reached' \subseteq {"NavToPick", "NavToDrop"}
  BY DEF Navigation, NavStart, NavFault, NavWait, NavFail, NavSucceed,
         NavLeaves
<1>6. UNCHANGED <<life, slots, goal, soc, charging, recover, arrived,
                  reported, abandoned>>
  BY DEF Navigation, NavStart, NavFault, NavWait, NavFail, NavSucceed
<1>7. QED
  BY <1>1, <1>2, <1>3, <1>4, <1>5, <1>6

LEMMA RecoveryType ==
  ASSUME TypeInv, NEW l \in RecoverLeaves, Recovery(l)
  PROVE  TypeInv'
<1> USE DEF TypeInv, TypeOK, AttemptBounded, slots, power, recover, history
<1>0. /\ l \in ChargeLeaves \cup TaskLeaves \cup {"Report"}
      /\ NavOf(l) \in Cursors /\ AfterSuccess(l) \in Cursors
      /\ "free" \in Cursors
  BY TreeType DEF RecoverLeaves, ChargeLeaves, TaskLeaves, WorkLeaves, Cursors
<1>1. /\ charge' \in ChargeLeaves \cup {"idle"}
      /\ task' \in TaskLeaves \cup {"idle"}
      /\ cursor' \in Cursors
  BY <1>0, ReturnType DEF Recovery, RecoverStart, RecoverWait, RecoverAdvance,
                  RecoverSetback, RecoverDone, RecoverFail, RecoverLeaves
<1>2. fsm' \in States
  BY ProcessType DEF Recovery, RecoverStart, RecoverWait, RecoverAdvance,
                     RecoverSetback, RecoverDone, RecoverFail, Events
<1>3. /\ phase' \in Phases /\ rec' \in RecStates
      /\ attempt' \in 0 .. MaxAttempts /\ AttemptBounded'
  BY AgentAssumption
     DEF Recovery, RecoverStart, RecoverWait, RecoverAdvance, RecoverSetback,
         RecoverDone, RecoverFail, StartBehavior, Phases, RecStates
<1>4. tries' \in 0 .. NumAttempts - 1
  BY AgentAssumption
     DEF Recovery, RecoverStart, RecoverWait, RecoverAdvance, RecoverSetback,
         RecoverDone, RecoverFail
<1>5. abandoned' \subseteq Tasks \cup {NoTask}
  BY DEF Recovery, RecoverStart, RecoverWait, RecoverAdvance, RecoverSetback,
         RecoverDone, RecoverFail
<1>6. UNCHANGED <<life, slots, goal, power, fault, nav, arrived, reported,
                  reached>>
  BY DEF Recovery, RecoverStart, RecoverWait, RecoverAdvance, RecoverSetback,
         RecoverDone, RecoverFail
<1>7. QED
  BY <1>1, <1>2, <1>3, <1>4, <1>5, <1>6

LEMMA ExecutionType ==
  ASSUME TypeInv, NEW l \in ExecLeaves, Execution(l)
  PROVE  TypeInv'
<1> USE DEF TypeInv, TypeOK, AttemptBounded, slots, power, recover, history
<1>0. /\ l \in ChargeLeaves \cup TaskLeaves \cup {"Report"}
      /\ AfterSuccess(l) \in Cursors
  BY TreeType DEF ExecLeaves, ChargeLeaves, TaskLeaves, WorkLeaves
<1>1. /\ charge' \in ChargeLeaves \cup {"idle"}
      /\ task' \in TaskLeaves \cup {"idle"}
      /\ cursor' \in Cursors
  BY <1>0, ReturnType DEF Execution, ExecStart, ExecWait, ExecFinish, ExecLeaves
<1>2. fsm' \in States
  BY ProcessType DEF Execution, ExecStart, ExecWait, ExecFinish, Events
<1>3. UNCHANGED <<life, slots, goal, power, fault, tries, nav, recover,
                  history>>
  BY DEF Execution, ExecStart, ExecWait, ExecFinish
<1>4. QED
  BY <1>1, <1>2, <1>3

LEMMA TickType ==
  ASSUME TypeInv, Tick
  PROVE  TypeInv'
<1> USE DEF TypeInv, TypeOK, AttemptBounded, slots, power, recover, history
<1>0. /\ TaskEntry \in Cursors
      /\ \A l \in ChargeLeaves \cup TaskLeaves \cup {"Report"} :
           AfterSuccess(l) \in Cursors
      /\ {"ChargeBattery", "RequestTask"} \subseteq ChargeLeaves \cup TaskLeaves
  BY TreeType DEF ChargeLeaves, TaskLeaves
<1>1. CASE BeginTick
  BY <1>1 DEF BeginTick, Cursors
<1>2. CASE BatteryOK
  BY <1>0, <1>2 DEF BatteryOK, Cursors, ChargeLeaves
<1>3. CASE HaltTask
  <2>1. /\ cursor' \in Cursors /\ task' \in TaskLeaves \cup {"idle"}
        /\ tries' \in 0 .. NumAttempts - 1
        /\ moving' \in BOOLEAN /\ rec' \in RecStates
    BY <1>3, AgentAssumption DEF HaltTask, Cursors, RecStates
  <2>2. nav' \in [NavLeaves -> NavStates]
    BY <1>3 DEF HaltTask, NavStates
  <2>3. QED
    BY <1>3, <2>1, <2>2 DEF HaltTask
<1>4. CASE ChargeStart
  <2>1. /\ charge' \in ChargeLeaves \cup {"idle"}
        /\ task' \in TaskLeaves \cup {"idle"}
        /\ cursor' \in Cursors
    BY <1>0, <1>4, ReturnType DEF ChargeStart
  <2>2. fsm' \in States
    BY <1>4, ProcessType DEF ChargeStart, Events
  <2>3. QED
    BY <1>4, <2>1, <2>2 DEF ChargeStart
<1>5. CASE ChargeTick
  <2>1. /\ charge' \in ChargeLeaves \cup {"idle"}
        /\ task' \in TaskLeaves \cup {"idle"}
        /\ cursor' \in Cursors
    BY <1>0, <1>5, ReturnType DEF ChargeTick
  <2>2. fsm' \in States /\ charging' \in BOOLEAN
    BY <1>5, ProcessType DEF ChargeTick, Events
  <2>3. QED
    BY <1>5, <2>1, <2>2 DEF ChargeTick
<1>6. CASE RequestTask
  <2>1. /\ charge' \in ChargeLeaves \cup {"idle"}
        /\ task' \in TaskLeaves \cup {"idle"}
        /\ cursor' \in Cursors
    BY <1>0, <1>6, ReturnType DEF RequestTask, TakeTask
  <2>2. fsm' \in States
    BY <1>6, ProcessType DEF RequestTask, TakeTask, Events
  <2>3. /\ pending' \in Seq(Tasks)
        /\ current' \in Tasks \cup {NoTask}
        /\ interrupted' \in Tasks \cup {NoTask}
        /\ goal' \in Tasks \cup {NoTask}
    BY <1>6 DEF RequestTask, TakeTask
  <2>4. reached' \subseteq {"NavToPick", "NavToDrop"}
    BY <1>6 DEF RequestTask, TakeTask
  <2>5. UNCHANGED <<life, power, fault, tries, nav, recover, arrived, reported,
                    abandoned>>
    BY <1>6 DEF RequestTask
  <2>6. QED
    BY <2>1, <2>2, <2>3, <2>4, <2>5
<1>7. CASE Report
  <2>1. /\ charge' \in ChargeLeaves \cup {"idle"}
        /\ task' \in TaskLeaves \cup {"idle"}
        /\ cursor' \in Cursors
    BY <1>0, <1>7, ReturnType DEF Report
  <2>2. fsm' \in States
    BY <1>7, ProcessType DEF Report, Events
  <2>3. current' \in Tasks \cup {NoTask} /\ reported' \subseteq Tasks
    BY <1>7 DEF Report
  <2>4. QED
    BY <1>7, <2>1, <2>2, <2>3 DEF Report
<1>8. QED
  BY <1>1, <1>2, <1>3, <1>4, <1>5, <1>6, <1>7, NavigationType, RecoveryType,
     ExecutionType DEF Tick

LEMMA CallbackType ==
  ASSUME TypeInv, Callback
  PROVE  TypeInv'
<1> USE DEF TypeInv, TypeOK, AttemptBounded, slots, power, tree, recover,
            history
<1>1. ASSUME NEW l \in NavLeaves, NavResponse(l) \/ NavResult(l)
      PROVE  TypeInv'
  BY <1>1 DEF NavResponse, NavResult, NavStates
<1>2. CASE RecResult
  BY <1>2 DEF RecResult, RecStates
<1>3. QED
  BY <1>1, <1>2 DEF Callback

LEMMA HandlerType ==
  ASSUME TypeInv, Handler
  PROVE  TypeInv'
<1> USE DEF TypeInv, TypeOK, AttemptBounded, slots, power, tree, recover,
            history
<1>1. ASSUME NEW dt \in Elapsed, BatteryUpdate(dt)
      PROVE  TypeInv'
  <2>1. dt \in Nat
    BY AgentAssumption
  <2>2. soc' \in Soc
    BY <1>1, <2>1, BatteryType DEF BatteryUpdate
  <2>3. /\ current' \in Tasks \cup {NoTask}
        /\ interrupted' \in Tasks \cup {NoTask}
    BY <1>1 DEF BatteryUpdate
  <2>4. QED
    BY <1>1, <2>2, <2>3 DEF BatteryUpdate
<1>2. ASSUME NEW t \in Tasks, TaskAssignment(t)
      PROVE  TypeInv'
  BY <1>2 DEF TaskAssignment
<1>3. CASE InjectFault
  BY <1>3 DEF InjectFault
<1>4. QED
  BY <1>1, <1>2, <1>3 DEF Handler

LEMMA TransitionType ==
  ASSUME TypeInv, Transition
  PROVE  TypeInv'
<1> USE DEF TypeInv, TypeOK, AttemptBounded, slots, power, tree, recover,
            history, LifeStates
<1>1. CASE Deactivate \/ Activate
  BY <1>1 DEF Deactivate, Activate
<1>2. CASE Cleanup \/ Shutdown
  <2>1. life' \in LifeStates /\ DestroyTree
    BY <1>2 DEF Cleanup, Shutdown
  <2> HIDE DEF LifeStates
  <2>2. /\ cursor' \in Cursors /\ tries' \in 0 .. NumAttempts - 1
        /\ moving' \in BOOLEAN /\ charging' \in BOOLEAN /\ rec' \in RecStates
    BY <2>1, AgentAssumption DEF DestroyTree, Cursors, RecStates
  <2>3. nav' \in [NavLeaves -> NavStates]
    BY <2>1 DEF DestroyTree, NavStates
  <2>4. QED
    BY <2>1, <2>2, <2>3 DEF DestroyTree
<1>3. QED
  BY <1>1, <1>2 DEF Transition

(* Every variable keeps its type: the battery stays within its capacity,   *)
(* the retry and attempt counters within their bounds, and the state       *)
(* machine within its states (robot_fsm.cpp, request_recovery.cpp,         *)
(* battery_model.hpp).                                                     *)
THEOREM TypeCorrect == Spec => []TypeOK
<1>1. Init => TypeInv
  <2> SUFFICES ASSUME Init PROVE TypeInv
    OBVIOUS
  <2>1. pending \in Seq(Tasks)
    BY DEF Init
  <2>2. nav \in [NavLeaves -> NavStates]
    BY DEF Init, NavStates
  <2>3. /\ tries \in 0 .. NumAttempts - 1 /\ attempt \in 0 .. MaxAttempts
        /\ AttemptBounded
    BY AgentAssumption DEF Init, AttemptBounded
  <2>4. /\ life \in LifeStates /\ fsm \in States /\ cursor \in Cursors
        /\ phase \in Phases /\ rec \in RecStates
    BY DEF Init, LifeStates, States, Cursors, Phases, RecStates
  <2>5. QED
    BY <2>1, <2>2, <2>3, <2>4 DEF Init, TypeInv, TypeOK
<1>2. TypeInv /\ [Next]_vars => TypeInv'
  <2>1. CASE Next
    BY <2>1, TickType, CallbackType, HandlerType, TransitionType DEF Next
  <2>2. CASE UNCHANGED vars
    BY <2>2 DEF vars, TypeInv, TypeOK, AttemptBounded, slots, power, tree,
                recover, history
  <2>3. QED
    BY <2>1, <2>2
<1>3. TypeInv => TypeOK
  BY DEF TypeInv
<1>4. QED
  BY <1>1, <1>2, <1>3, PTL DEF Spec

-----------------------------------------------------------------------------
(***************************************************************************)
(* The control state: flags, published state and tree agree                *)
(***************************************************************************)

ControlInv == ChargingAgrees /\ OneBranchMoves /\ NoStaleResult /\ TickFollowsTree

LEMMA NavigationControl ==
  ASSUME TypeOK, ControlInv, NEW l \in NavLeaves, Navigation(l)
  PROVE  ControlInv'
<1> USE DEF ControlInv, TickFollowsTree, Running, NavLeaves, ChargeLeaves,
            TaskLeaves, WorkLeaves
<1>0. /\ fsm' # "REPORTING"
      /\ fsm' = "CHARGING" <=> fsm = "CHARGING"
  BY NeverReporting, ChargingEvents
     DEF TypeOK, Navigation, NavStart, NavFault, NavWait, NavFail, NavSucceed,
         Events
<1>1. UNCHANGED <<life, charging, phase, rec>>
  BY DEF Navigation, NavStart, NavFault, NavWait, NavFail, NavSucceed, power,
         recover
<1>2. CASE NavStart(l)
  <2>1. CASE Returns(l, AfterNavFailure(l)) /\ UNCHANGED <<moving, nav>>
    BY <1>0, <1>1, <1>2, <2>1
       DEF NavStart, Returns, AfterNavFailure, TaskEntry, ChargingAgrees,
           HasTree, OneBranchMoves, NoStaleResult, TypeOK, RecoverLeaves
  <2>2. CASE /\ nav' = [nav EXCEPT ![l] = "sent"]
             /\ moving' = TRUE
             /\ StaysRunning(l)
    BY <1>0, <1>1, <1>2, <2>2
       DEF NavStart, StaysRunning, ChargingAgrees, HasTree,
           OneBranchMoves, NoStaleResult, TypeOK, RecoverLeaves
  <2>3. QED
    BY <1>2, <2>1, <2>2 DEF NavStart
<1>3. CASE NavWait(l)
  BY <1>0, <1>1, <1>3
     DEF NavWait, StaysRunning, ChargingAgrees, HasTree, OneBranchMoves,
         NoStaleResult, TypeOK, RecoverLeaves, power
<1>4. CASE NavFault(l) \/ NavFail(l)
  BY <1>0, <1>1, <1>4
     DEF NavFault, NavFail, Returns, AfterNavFailure, TaskEntry,
         ChargingAgrees, HasTree, OneBranchMoves, NoStaleResult, TypeOK,
         RecoverLeaves
<1>5. CASE NavSucceed(l)
  BY <1>0, <1>1, <1>5
     DEF NavSucceed, Returns, AfterSuccess, ChargingAgrees, HasTree,
         OneBranchMoves, NoStaleResult, TypeOK, RecoverLeaves
<1>6. QED
  BY <1>2, <1>3, <1>4, <1>5 DEF Navigation

LEMMA RecoveryControl ==
  ASSUME TypeOK, ControlInv, NEW l \in RecoverLeaves, Recovery(l)
  PROVE  ControlInv'
<1> USE DEF ControlInv, TickFollowsTree, Running, NavLeaves, ChargeLeaves,
            TaskLeaves, WorkLeaves, RecoverLeaves, TypeOK
<1>0. /\ fsm' # "REPORTING"
      /\ fsm' = "CHARGING" <=> fsm = "CHARGING"
  BY NeverReporting, ChargingEvents
     DEF Recovery, RecoverStart, RecoverWait, RecoverAdvance, RecoverSetback,
         RecoverDone, RecoverFail, Events
<1>1. UNCHANGED <<life, charging, moving, nav>> /\ cursor = l
  BY DEF Recovery, RecoverStart, RecoverWait, RecoverAdvance, RecoverSetback,
         RecoverDone, RecoverFail, power
<1>2. ~moving
  BY <1>1 DEF OneBranchMoves
<1>3. CASE RecoverStart(l) \/ RecoverWait(l) \/ RecoverAdvance(l)
             \/ RecoverSetback(l)
  <2>1. StaysRunning(l) /\ (phase' \in {"DONE", "FAILED"} => rec' = "none")
    BY <1>3 DEF RecoverStart, RecoverWait, RecoverAdvance, RecoverSetback,
                StartBehavior, recover
  <2>2. QED
    BY <1>0, <1>1, <1>2, <2>1
       DEF StaysRunning, ChargingAgrees, HasTree, OneBranchMoves, NoStaleResult
<1>4. CASE RecoverDone(l) \/ RecoverFail(l)
  <2>1. /\ cursor' \in {"free"} \cup TaskLeaves
        /\ Returns(l, cursor')
        /\ phase \in {"DONE", "FAILED"} /\ UNCHANGED <<phase, rec>>
    BY <1>4 DEF RecoverDone, RecoverFail, Returns, AfterSuccess, NavOf, recover
  <2>2. QED
    BY <1>0, <1>1, <1>2, <2>1
       DEF Returns, ChargingAgrees, HasTree, OneBranchMoves, NoStaleResult
<1>5. QED
  BY <1>3, <1>4 DEF Recovery

LEMMA ExecutionControl ==
  ASSUME TypeOK, ControlInv, NEW l \in ExecLeaves, Execution(l)
  PROVE  ControlInv'
<1> USE DEF ControlInv, TickFollowsTree, Running, NavLeaves, ChargeLeaves,
            TaskLeaves, WorkLeaves, RecoverLeaves, ExecLeaves, TypeOK
<1>0. /\ fsm' # "REPORTING"
      /\ fsm' = "CHARGING" <=> fsm = "CHARGING"
  BY NeverReporting, ChargingEvents
     DEF Execution, ExecStart, ExecWait, ExecFinish, Events
<1>1. /\ UNCHANGED <<life, charging, moving, nav, phase, rec>> /\ cursor = l
      /\ StaysRunning(l) \/ Returns(l, AfterSuccess(l))
  BY DEF Execution, ExecStart, ExecWait, ExecFinish, power, recover
<1>2. ~moving /\ rec = "none"
  BY <1>1 DEF OneBranchMoves, NoStaleResult
<1>3. QED
  BY <1>0, <1>1, <1>2
     DEF StaysRunning, Returns, AfterSuccess, ChargingAgrees, HasTree,
         OneBranchMoves, NoStaleResult

LEMMA TickControl ==
  ASSUME TypeOK, ControlInv, Tick
  PROVE  ControlInv'
<1> USE DEF ControlInv, TickFollowsTree, Running, NavLeaves, ChargeLeaves,
            TaskLeaves, WorkLeaves, RecoverLeaves, TypeOK, ChargingAgrees,
            HasTree, OneBranchMoves, NoStaleResult, power, recover
<1>1. CASE BeginTick
  BY <1>1 DEF BeginTick
<1>2. CASE BatteryOK
  BY <1>2 DEF BatteryOK, TaskEntry
<1>3. CASE HaltTask
  BY <1>3 DEF HaltTask
<1>4. CASE ChargeStart
  <2>1. fsm' = "CHARGING"
    BY <1>4, ChargingEvents DEF ChargeStart, Events
  <2>2. QED
    BY <1>4, <2>1 DEF ChargeStart, StaysRunning
<1>5. CASE ChargeTick
  <2>1. CASE IsFull(soc)
    <3>1. fsm' # "CHARGING" /\ fsm' # "REPORTING"
      BY <1>5, <2>1, ChargingEvents, NeverReporting DEF ChargeTick, Events
    <3>2. QED
      BY <1>5, <2>1, <3>1 DEF ChargeTick, Returns, AfterSuccess
  <2>2. CASE ~IsFull(soc)
    BY <1>5, <2>2 DEF ChargeTick, StaysRunning
  <2>3. QED
    BY <2>1, <2>2
<1>6. CASE RequestTask
  <2>1. /\ fsm' # "REPORTING"
        /\ fsm' = "CHARGING" <=> fsm = "CHARGING"
    BY <1>6, NeverReporting, ChargingEvents DEF RequestTask, TakeTask, Events
  <2>2. /\ UNCHANGED <<life, charging, moving, nav, phase, rec>>
        /\ cursor = "RequestTask"
        /\ \/ StaysRunning("RequestTask")
           \/ Returns("RequestTask", AfterSuccess("RequestTask"))
    BY <1>6 DEF RequestTask, TakeTask
  <2>3. ~moving /\ rec = "none"
    BY <2>2
  <2>4. QED
    BY <2>1, <2>2, <2>3 DEF StaysRunning, Returns, AfterSuccess
<1>7. CASE Report
  <2>1. /\ fsm' # "REPORTING"
        /\ fsm' = "CHARGING" <=> fsm = "CHARGING"
    BY <1>7, NeverReporting, ChargingEvents DEF Report, Events
  <2>2. QED
    BY <1>7, <2>1 DEF Report, Returns, AfterSuccess
<1>8. QED
  BY <1>1, <1>2, <1>3, <1>4, <1>5, <1>6, <1>7, NavigationControl,
     RecoveryControl, ExecutionControl DEF Tick

LEMMA CallbackControl ==
  ASSUME TypeOK, ControlInv, Callback
  PROVE  ControlInv'
<1> USE DEF ControlInv, TickFollowsTree, Running, TypeOK, ChargingAgrees,
            HasTree, OneBranchMoves, NoStaleResult, power, tree
<1>1. ASSUME NEW l \in NavLeaves, NavResponse(l) \/ NavResult(l)
      PROVE  ControlInv'
  <2>1. /\ UNCHANGED <<life, fsm, charging, moving, charge, task, cursor, phase,
                    rec>>
        /\ nav[l] # "none"
        /\ \A k \in NavLeaves : nav'[k] # "none" => nav[k] # "none"
    BY <1>1 DEF NavResponse, NavResult, recover
  <2>2. QED
    BY <2>1
<1>2. CASE RecResult
  BY <1>2 DEF RecResult
<1>3. QED
  BY <1>1, <1>2 DEF Callback

LEMMA HandlerControl ==
  ASSUME ControlInv, Handler
  PROVE  ControlInv'
<1>1. UNCHANGED <<life, fsm, charging, moving, charge, task, cursor, nav,
                  phase, rec>>
  BY DEF Handler, BatteryUpdate, TaskAssignment, InjectFault, power, tree,
         recover
<1>2. QED
  BY <1>1 DEF ControlInv, TickFollowsTree, Running, ChargingAgrees, HasTree,
              OneBranchMoves, NoStaleResult

(* A transition leaves the tree as it is, or nothing of it RUNNING. *)
LEMMA TransitionControl ==
  ASSUME TypeOK, ControlInv, Transition
  PROVE  ControlInv'
<1> USE DEF ControlInv, TickFollowsTree, ChargingAgrees, HasTree,
            OneBranchMoves, NoStaleResult, Running, power, tree, recover
<1>1. CASE Deactivate \/ Activate
  BY <1>1 DEF Deactivate, Activate
<1>2. CASE Cleanup \/ Shutdown
  <2>1. /\ ~HasTree' /\ UNCHANGED <<fsm, phase>>
        /\ charge' = "idle" /\ task' = "idle" /\ cursor' = "free"
        /\ ~moving' /\ ~charging' /\ rec' = "none"
    BY <1>2 DEF Cleanup, Shutdown, DestroyTree
  <2>2. \A l \in NavLeaves : nav'[l] = "none"
    BY <1>2 DEF Cleanup, Shutdown, DestroyTree
  <2>3. QED
    BY <2>1, <2>2 DEF ChargeLeaves, TaskLeaves, WorkLeaves, NavLeaves
<1>3. QED
  BY <1>1, <1>2 DEF Transition

LEMMA ControlInvariant == Spec => []ControlInv
<1>1. Init => ControlInv
  BY DEF Init, ControlInv, TickFollowsTree, ChargingAgrees, HasTree,
         OneBranchMoves, NoStaleResult, NavLeaves, ChargeLeaves, TaskLeaves,
         WorkLeaves
<1>2. TypeOK /\ ControlInv /\ [Next]_vars => ControlInv'
  <2>1. ASSUME TypeOK, ControlInv, Next
        PROVE  ControlInv'
    BY <2>1, TickControl, CallbackControl, HandlerControl, TransitionControl
       DEF Next
  <2>2. ASSUME ControlInv, UNCHANGED vars
        PROVE  ControlInv'
    BY <2>2 DEF vars, power, tree, recover, ControlInv, TickFollowsTree,
                Running, ChargingAgrees, HasTree, OneBranchMoves, NoStaleResult
  <2>3. QED
    BY <2>1, <2>2
<1>3. QED
  BY <1>1, <1>2, TypeCorrect, PTL DEF Spec

(* The charging flag, the published state and the ChargeBattery node agree *)
(* at every step, whatever Nav2, the faults and the battery do.            *)
THEOREM ChargingAlwaysAgrees == Spec => []ChargingAgrees
<1>1. ControlInv => ChargingAgrees
  BY DEF ControlInv
<1>2. QED
  BY <1>1, ControlInvariant, PTL

(* Between two handlers one branch of the tree is RUNNING at most, and the *)
(* robot counts as moving only for a navigation node that is RUNNING.      *)
THEOREM OneBranchAlwaysMoves == Spec => []OneBranchMoves
<1>1. ControlInv => OneBranchMoves
  BY DEF ControlInv
<1>2. QED
  BY <1>1, ControlInvariant, PTL

(* No result of a halted goal survives to be taken for that of the next.   *)
THEOREM NeverStaleResult == Spec => []NoStaleResult
<1>1. ControlInv => NoStaleResult
  BY DEF ControlInv
<1>2. QED
  BY <1>1, ControlInvariant, PTL

(***************************************************************************)
(* The agent sees its navigations as NavClient says.                       *)
(***************************************************************************)

(* A node that returns or is halted leaves its goal, if it has one.        *)
LEMMA LeaveNavigation ==
  ASSUME NEW L \in SUBSET NavLeaves, nav \in [NavLeaves -> NavStates],
         nav' = [n \in NavLeaves |-> IF n \in L THEN "none" ELSE nav[n]]
  PROVE  [NavView!Next]_nav
<1>1. CASE \E n \in L : nav[n] # "none"
  <2>1. NavView!Leave(L)
    BY <1>1 DEF NavView!Leave
  <2>2. QED
    BY <2>1 DEF NavView!Next
<1>2. CASE \A n \in L : nav[n] = "none"
  BY <1>2
<1>3. QED
  BY <1>1, <1>2

LEMMA NavigationView ==
  ASSUME TypeOK, NoStaleResult, NEW l \in NavLeaves, Navigation(l)
  PROVE  [NavView!Next]_nav
<1>1. nav \in [NavLeaves -> NavStates]
  BY DEF TypeOK
<1>2. CASE nav' = [nav EXCEPT ![l] = "sent"] /\ NavStart(l)
  <2>1. nav[l] = "none"
    BY <1>2 DEF NavStart, NoStaleResult
  <2>2. NavView!Send(l)
    BY <1>2, <2>1 DEF NavView!Send
  <2>3. QED
    BY <2>2 DEF NavView!Next
<1>3. CASE nav' = [nav EXCEPT ![l] = "none"]
  <2>1. nav' = [n \in NavLeaves |-> IF n \in {l} THEN "none" ELSE nav[n]]
    BY <1>1, <1>3
  <2>2. QED
    BY <1>1, <2>1, LeaveNavigation
<1>4. CASE UNCHANGED nav
  BY <1>4
<1>5. QED
  BY <1>2, <1>3, <1>4
     DEF Navigation, NavStart, NavFault, NavWait, NavFail, NavSucceed

(* The callbacks answer a goal that was sent, and end one that was         *)
(* accepted.                                                               *)
LEMMA CallbackView ==
  ASSUME TypeOK, Callback
  PROVE  [NavView!Next]_nav
<1>1. ASSUME NEW l \in NavLeaves, NavResponse(l)
      PROVE  NavView!Next
  <2>1. NavView!Response(l)
    BY <1>1 DEF NavResponse, NavView!Response
  <2>2. QED
    BY <2>1 DEF NavView!Next
<1>2. ASSUME NEW l \in NavLeaves, NavResult(l)
      PROVE  NavView!Next
  <2>1. NavView!Result(l)
    BY <1>2 DEF NavResult, NavView!Result
  <2>2. QED
    BY <2>1 DEF NavView!Next
<1>3. QED
  BY <1>1, <1>2 DEF Callback, RecResult

(* Halting TaskExecution, and destroying the tree, leave every goal of a   *)
(* node that was RUNNING; the other steps leave nav_state_ alone.          *)
LEMMA OtherView ==
  ASSUME TypeOK, HaltTask \/ Handler \/ Transition
  PROVE  [NavView!Next]_nav
<1>1. nav \in [NavLeaves -> NavStates]
  BY DEF TypeOK
<1>2. CASE HaltTask
  <2>1. {task} \cap NavLeaves \in SUBSET NavLeaves
    OBVIOUS
  <2>2. nav' = [n \in NavLeaves |->
                  IF n \in {task} \cap NavLeaves THEN "none" ELSE nav[n]]
    BY <1>2 DEF HaltTask
  <2>3. QED
    BY <1>1, <2>1, <2>2, LeaveNavigation
<1>3. CASE Cleanup \/ Shutdown
  <2>1. {n \in NavLeaves : Running(n)} \in SUBSET NavLeaves
    OBVIOUS
  <2>2. nav' = [n \in NavLeaves |->
                  IF n \in {k \in NavLeaves : Running(k)} THEN "none"
                  ELSE nav[n]]
    BY <1>3 DEF Cleanup, Shutdown, DestroyTree
  <2>3. QED
    BY <1>1, <2>1, <2>2, LeaveNavigation
<1>4. CASE Handler \/ Deactivate \/ Activate
  BY <1>4 DEF Handler, BatteryUpdate, TaskAssignment, InjectFault, Deactivate,
              Activate
<1>5. QED
  BY <1>2, <1>3, <1>4 DEF Transition

(* Each navigation node has at most one goal at a time; it is answered     *)
(* once, ends once, and is not seen again once the node has left it.       *)
THEOREM ImplementsNavClient == Spec => NavViewSpec
<1>1. Init => NavView!Init
  BY DEF Init, NavView!Init
<1>2. TypeOK /\ ControlInv /\ [Next]_vars => [NavView!Next]_nav
  <2>1. ASSUME TypeOK, ControlInv, Next
        PROVE  [NavView!Next]_nav
    <3>1. NoStaleResult
      BY <2>1 DEF ControlInv
    <3>2. CASE \E l \in NavLeaves : Navigation(l)
      BY <2>1, <3>1, <3>2, NavigationView
    <3>3. CASE \/ BeginTick \/ BatteryOK \/ ChargeStart \/ ChargeTick
               \/ RequestTask \/ Report
               \/ \E l \in RecoverLeaves : Recovery(l)
               \/ \E l \in ExecLeaves : Execution(l)
      BY <3>3 DEF BeginTick, BatteryOK, ChargeStart, ChargeTick, RequestTask,
                  Report, Recovery, RecoverStart, RecoverWait, RecoverAdvance,
                  RecoverSetback, RecoverDone, RecoverFail, Execution,
                  ExecStart, ExecWait, ExecFinish
    <3>4. CASE HaltTask \/ Handler \/ Transition
      BY <2>1, <3>4, OtherView
    <3>5. CASE Callback
      BY <2>1, <3>5, CallbackView
    <3>6. QED
      BY <2>1, <3>2, <3>3, <3>4, <3>5 DEF Next, Tick
  <2>2. UNCHANGED vars => UNCHANGED nav
    BY DEF vars
  <2>3. QED
    BY <2>1, <2>2
<1>3. QED
  BY <1>1, <1>2, TypeCorrect, ControlInvariant, PTL
     DEF Spec, NavViewSpec, NavView!Spec
=============================================================================
