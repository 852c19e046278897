# Warehouse fleet management: TLA+ specifications

TLA+ specifications, TLC models and TLAPS proofs of the task path of the
warehouse fleet management system: from a task request, through the fleet
server, to the behaviour tree of a robot and back to the record in MongoDB.
Paths are relative to the repository root; the ROS packages are in `src/`
(here `src/src/`).

Contents: [1 the system](#1-the-system) · [2 the modules](#2-the-modules) ·
[3 how the models correspond to the code](#3-how-the-models-correspond-to-the-code) ·
[4 runs](#4-runs) · [5 fairness](#5-fairness) · [6 proofs](#6-proofs) ·
[7 where code and documentation disagree](#7-where-code-and-documentation-disagree) ·
[8 limits](#8-what-is-not-modelled) · [9 plan](#9-plan)

## 1 The system

```
 REST gateway ──gRPC──┐
 load_test.py ──gRPC──┤                     ┌─ MongoDB (tasks, robots, telemetry)
 scripts ──RabbitMQ───┼──► fleet server ────┤
 scripts ──ROS topic──┘    │        ▲       └─ RabbitMQ (tasks.incoming, tasks.failed)
             task_assignment│        │robot_status, task_completion
                            ▼        │
                        robot agent (one per robot) ──actions──► Nav2
```

| component | state it keeps | operations |
|---|---|---|
| robot state machine, `robot_fsm.cpp` | the published state | `process(event)` |
| battery model, `battery_model.hpp` | state of charge | `update(dt, is_moving, is_charging)`, `is_low`, `is_full` |
| behaviour tree, `robot_agent.xml`, `bt_nodes/` | which leaf of each branch is RUNNING; per node the goal's progress, attempt counters, phases | start, run and halt of every leaf; callbacks of the Nav2 action clients |
| robot agent node, `robot_agent_node.cpp` | `pending_tasks_`, `current_task_`, `interrupted_task_`, `is_moving_`, `is_charging_`, `fault_injected_`, the blackboard | 50 ms tree tick, battery timer, task subscription, fault service, status timer, lifecycle transitions |
| task allocator, `task_allocator.cpp` | none | `select_best_robot` |
| fleet server node, `fleet_server_node.cpp` | `latest_status_`, one AMQP connection | status and completion callbacks, three request paths, consume loop, `send_robot_command` |
| MongoDB store, `mongo_store.cpp` | the collections `robots`, `telemetry`, `tasks` | `upsert_robot`, `insert_telemetry`, `insert_task`, `update_task_completion`, `find_task` |
| RabbitMQ client, `rabbitmq_client.cpp` | one connection, one channel; the durable queues `tasks.incoming`, `tasks.failed` | `setup_topology`, `consume_incoming`, `ack`, `reject`, `publish_failed` |
| gRPC front end, `fleet_grpc_server.cpp` | none | SubmitTask, GetFleetStatus, GetTaskStatus, SendRobotCommand |
| REST gateway, `fms_api` | a gRPC channel | four routes, each one RPC |
| simulation and navigation configuration | – | launch files, worlds, Nav2 parameters |

### What is hard

* **Inside a robot.** A tick is not atomic: the action-client callbacks of
  Nav2 run on another thread and may fall between any two leaves. The battery
  timer moves the current task aside while the tree is still working for it.
  The ReactiveFallback starts the charger branch before it halts the task
  branch. A task travels through three slots. The published state machine
  ignores events it does not expect, so it may fall behind the tree. The
  lifecycle service has a callback group of its own, so a deactivation may fall
  into a tick, and a shutdown destroys the tree under timers that go on.
* **Between a robot and Nav2.** A goal lives in Nav2, its progress in a
  NavState the node shares with two callbacks. A node may turn away from a goal
  before Nav2 has answered it, cancels travel while the next goal is already
  sent, and Nav2 keeps its goals when the agent's process ends.
* **Inside the server.** The ROS executor, the RabbitMQ thread and the gRPC
  threads share `latest_status_`, the store and the publishers, and dispatch is
  *select, publish, insert, acknowledge* with a lock around each step and none
  around the whole. An exception at each step has a different outcome on each
  thread.
* **Across processes.** MongoDB and RabbitMQ survive a crash; memory and ROS
  messages on their way do not. RabbitMQ delivers again what was not
  acknowledged. A command to a robot is given up after two seconds, but not
  taken back.

`PROJECT.json` lists the hazards one by one, at the line where each bites,
with the properties that would catch it.

### What makes each component correct

* state machine and battery: the state, the flags and the tree agree; the
  charge stays in range; charging ends;
* tree: one branch works at a time, a halted goal leaves no answer behind, a
  task is in one place only, what the tree drives for is a task the robot holds,
  a completion without a name completes nothing, retries end;
* navigation goals: a node acts on its own goal only, and no cancel ends a goal
  somebody waits for;
* commands: the answer is true, and a fault ends one navigation at most;
* allocator: the first robot of lowest score among the IDLE ones;
* server, store and broker: no message disappears, an accepted task is
  recorded, a record follows its task to its end, a final status stays final,
  the dead-letter queue tells the truth.

## 2 The modules

| module | what it is |
|---|---|
| `RobotFSM` | the transition table of `RobotFSM::process` as a function of state and event |
| `BatteryModel` | `update` with clamping and the two thresholds |
| `TaskCustody` | abstract: what an agent promises about its tasks – waiting in order, held one at a time, done once, lost only by being displaced |
| `RobotAgent` | the behaviour tree and the node around it; EXTENDS `RobotFSM`, `BatteryModel`; implements `TaskCustody` and, per navigation node, `NavClient` |
| `RobotAgentProofs` | theorems about `RobotAgent`: types, control, `NavClient` |
| `RobotTaskProofs` | EXTENDS `RobotAgentProofs`: where the tasks are, `TaskCustody` |
| `RobotNominalProofs` | EXTENDS `RobotTaskProofs`: what holds where no navigation fails |
| `NavClient` | abstract: what a navigation node sees of its goals – one at a time, answered once, ended once |
| `NavGoals` | the navigation goals with their identities: the NavigateToPose nodes and their callbacks, the cancels, Nav2's action server, an agent that restarts; implements `NavClient` |
| `NavGoalsProofs` | the invariant of `NavGoals`, and that it implements `NavClient` |
| `RobotCommand` | EXTENDS `NavGoals`: the command route from the REST gateway to the agent's fault service |
| `RobotCommandProofs` | theorems about `RobotCommand`, which implements `NavGoals` |
| `TaskAllocator` | the scoring loop over a changing fleet |
| `TaskAllocatorProofs` | theorems about `TaskAllocator` |
| `FleetServer` | the server with its threads, MongoDB, RabbitMQ and the robots as `TaskCustody` describes them |
| `FleetCustody` | EXTENDS `FleetServer`: one robot, `AnyRobot`, as the server sees it; implements `TaskCustody` |
| `FleetServerProofs` | theorems about `FleetServer` and `FleetCustody` |
| `QueueLemmas` | what a queue contains after an append and after a removal |
| `MCRobotAgent`, `MCRobotCommand`, `MCTaskAllocator`, `MCFleetServer`, `MCFleetCustody` (one `AnyRobot`) | values for TLC |

Operators named `X_Something` next to an `X` are mutants: `X` with a plausible
bug, used to make sure that the properties can fail. They are part of no
specification.

## 3 How the models correspond to the code

### RobotAgent

The timers, the subscription and the service are in one mutually exclusive
callback group, so they exclude one another; only the action callbacks run
beside them. A tick is therefore a sequence of steps, one per leaf reached, and
`cursor` is the leaf the tick reaches next (`"free"`: no handler is running).
`charge` and `task` are the leaf at which each of the two branches is RUNNING;
BehaviorTree.CPP's sequences keep exactly that. `AfterSuccess`,
`AfterNavFailure` and `StaysRunning` are the control nodes of
`robot_agent.xml`; `HaltTask` is the ReactiveFallback halting its second child
after the first became RUNNING.

| code | model |
|---|---|
| `fsm_`, `pending_tasks_`, `current_task_`, `interrupted_task_` | `fsm`, `pending`, `current`, `interrupted` |
| `pick_pose`, `drop_pose` on the blackboard | `goal`: the task they belong to |
| `battery_`, `is_moving_`, `is_charging_`, `fault_injected_` | `soc`, `moving`, `charging`, `fault` |
| `try_count_` of the active Retry node | `tries` |
| `nav_state_` and the goal's callbacks of each NavigateToPose | `nav` |
| `phase_`, `attempt_`, `spin_state_`/`backup_state_` of RequestRecovery | `phase`, `attempt`, `rec` |
| BatteryOK, ChargeBattery, RequestTask, ExecutePickDrop, ReportStatus | `BatteryOK`, `ChargeStart`/`ChargeTick`, `RequestTask`, `ExecStart`/`ExecWait`/`ExecFinish`, `Report` |
| NavigateToPose `onStart`, `onRunning` by what it finds | `NavStart`; `NavFault`, `NavWait`, `NavFail`, `NavSucceed` |
| goal_response and result callbacks | `NavResponse`, `NavResult`, `RecResult` |
| lifecycle state; `on_deactivate`, `on_activate`, `on_cleanup`, `on_shutdown` | `life`; `Deactivate`, `Activate`, `Cleanup`, `Shutdown` |
| `battery_update_cb`, `task_assignment_cb`, `fault_service_cb` | `BatteryUpdate`, `TaskAssignment`, `InjectFault` |

`arrived`, `reported`, `abandoned` and `reached` are history variables.
Charge is a natural number of units instead of a percentage in a double, and
the time between two updates comes from `Elapsed`; both keep every comparison
and the clamping. A pick takes an unknown finite time. `Disturbances` says
which failures of Nav2, of the behaviour servers and of the operator are
possible on a site. Each task is assigned at most once; the server's own
duplicates are studied in `FleetServer`.

A deactivated node has no timers and a silent `completion_pub_`, but its
subscription and its fault service go on; a tick the deactivation falls into
runs to its end, and a completion it reaches is lost (`Report` with `life` not
active, `TaskCustody`'s `Forget`). `Cleanup` destroys the tree, which halts
every RUNNING leaf (`DestroyTree`), and ends the subscription. A tick still
running at that point works on freed memory; the model lets it end there.
`on_shutdown` destroys the tree and nothing else. Of a node that was active
(`"finalized_active"`) the battery timer goes on, and may still set a task
aside; the status timer goes on publishing the last state, IDLE perhaps; and
the subscription goes on queueing assignments, which nobody will execute. Of an
inactive one (`"finalized_inactive"`) only the subscription and the fault
service are left, and an unconfigured one has no tree to lose.

A node that returns leaves its last result in `nav_state_`, or in
`spin_state_` and `backup_state_`, until its next `onStart` replaces it. Nobody
reads it there, and the model resets `nav` and `rec` at once (`NavSucceed`,
`NavFail`, `RecoverDone`, `RecoverFail`). `NoStaleResult` is therefore about
goals that were *halted*, where the reset is the code's own; that a late result
of an earlier goal is not taken for the new one's needs identities, and is
`ViewIsOwnGoal` of `NavGoals`.

### NavGoals and RobotCommand

`RobotAgent` has of a goal only what its node sees. `NavGoals` has the goals:
`running`, `nav` and `handle` are the nodes (the value of `nav_state_`, and the
goal it was made for, which is what the weak pointers of the callbacks decide);
`requests`, `server` and `cancels` are Nav2 and the messages to it. That both
modules implement `NavClient` – `ClientSpec` here, `NavViewSpec` there – is what
justifies looking at them separately. Nav2 is modelled from how the
code uses it: goals are taken in the order sent, accepted or rejected, and a
goal that is accepted preempts the one before (`src/docs/PHASE2_PLAN.md:946`).

| code | model |
|---|---|
| `NavigateToPoseBT::onStart`, `onRunning`, `onHalted` | `Start`; `NavFault`, `Return`; `OnHalted` with `CancelGoal` |
| ReactiveFallback halting the leg | `HaltLeg` |
| goal_response and result callbacks | `GoalResponse`, `GoalResult` |
| end of the agent's process and its restart | `AgentRestarts`, with commands `RobotRestarts` |
| `send_robot_command`: early returns, request, `wait_for`, answer | `Refuse`, `Send`, `TimeOut`, `Answer` |
| `fault_service_cb` | `Serve`, `SetFault`, `InjectFault` |
| the route's 200, 400 and 502 | `reply`: success; refused or no_answer; no_answer (`ServerGone`) |

A goal id that nothing refers to any more may be used again, so that the runs
need only as many ids as goals are alive at once. `adrift`, `served` and `hits`
are history variables. Ticks are reduced to the steps that touch a goal: while
the charger's node and a leg are both RUNNING the tick has not ended, and only
`HaltLeg` may follow. Recovery, charging, picks and drops appear as pauses
between two `Start`s.

### FleetServer

`step[t]` is how far the handler of task `t` has come: *selected* (robot
chosen, lock released), *published*, *recorded*. The ROS executor runs one
callback at a time (`RosFree`); the RabbitMQ thread takes the head of
`incoming`, which stays in the queue until acknowledged; each SubmitTask has a
thread of its own.

| code | model |
|---|---|
| `latest_status_` | `latest` (IDLE or not; an unknown robot is not IDLE) |
| the `tasks` collection | `records`: per task id its documents in insertion order |
| `tasks.incoming`, `tasks.failed` | `incoming`, `failed` |
| assignments published and not yet taken, the task in hand, completions on their way | `waiting`, `held`, `completions` |
| `task_request_cb`, `submit_task`, a client publishing to the exchange | `TaskRequest`, `SubmitTask`, `Enqueue` |
| `rabbitmq_consume_loop` | `Consume`, then `Publish`, `Store`, `Acknowledge` |
| `dispatch_assignment` | `Publish`, `Store` (or `StoreFails`) |
| `robot_status_cb`, `task_completion_cb`, `publish_failed` | `RobotStatus`, `TaskCompletion`, `PublishFailed` |

`reply`, `sent`, `submitted` and `crashes` are history variables. Which of the
IDLE robots wins is open (`Select`): `TaskAllocator` has the choice itself. A
status message may say anything at any time – the subscription queues ten of
them and the published state may lag the tree – which over-approximates what
robots send. A message carries its own task id, as `task_request_amqp.py`
sends it; without one, each delivery would get a fresh id and therefore its own
document. `Consume` takes a message and rejects the one that finds no robot, or
does not parse, in one step: a reject lost on a connection that breaks in
between leaves the message queued, as a broken connection does anyway.
`Outcomes` has no CANCELLED: it is final and goes to `publish_failed`, as
FAILED does. An uncaught exception is `Crash`: what was not acknowledged is back
in `incoming`, memory and messages in flight are gone. `Failures` says which
failures may occur – among them that two threads use the one AMQP connection at
once, after which a letter or the connection may be lost (`"amqp_race"`), and
that a robot loses a task (`RobotAbandons`, `RobotForgets`: the two ways of
`TaskCustody`) –, `MaxCrashes` how many crashes; `SlowRobots` assumes that no
robot finishes a task before the server has recorded it (see
CompletionOvertakes below).

### TaskAllocator

The loop as a recursive function (`Scan`) over the robots in map order, one `Improve`
per round with the strict comparison of the code, while statuses and requests
arrive in any order. Positions are on one aisle, so the Euclidean distance is
an absolute difference.

## 4 Runs

All from this directory, e.g. `tlc -config AgentSafety.cfg MCRobotAgent`.

| run | shows | bounds |
|---|---|---|
| AgentSafety | `TypeOK`, `ChargingAgrees`, `OneBranchMoves`, `NoStaleResult`, `TaskHeldOnce`, `WorksForHeldTask`, `NamelessMeansSetAside` and the refinements `CustodySpec` and `NavViewSpec`, with every disturbance and lifecycle transition | 2 tasks, 6 units of charge, 2 attempts, 2 retries; 2.1 million states |
| AgentNominal | nothing fails: no task is lost to a battery interruption, the published state is that of the RUNNING leaf and, on the way to the charger, the one the robot turned round in (`StateMatchesTree`), SUCCESS was served on both legs and names its task, a low battery leads to the charger | as above, no disturbance |
| AgentLiveness | charging ends, an interrupted task is taken up again, RequestRecovery returns, a queued task is reported or given up unless the battery runs low | 2 tasks, 2 units of charge; every goal that is sent is answered |
| Commands | a node believes only what became of its own goal (`ViewIsOwnGoal`), no cancel hits an awaited goal, a goal that outlives its node was let go before its answer or orphaned by a restart (`AdriftIsKnown`), replies are true, a fault ends at most one navigation, the goals are as `NavClient` says | the charger and one leg, 3 goals, a call with value true and one with false, 1 restart of the agent; 0.8 million states |
| FleetSafety | messages, records, replies and sends agree whatever crashes, throws, disconnects or restarts; a final status is final; a task recorded as ASSIGNED leaves the robots only when its record ends or a robot loses it (`RecordedTaskLeavesByEnding`) | 2 robots, 1 message, 1 RPC, 1 crash, every failure |
| FleetService | an ASSIGNED task is in somebody's hands, dead letters are true, every recorded task ends, a robot is a `TaskCustody` seen from the server too (`RobotIsCustodian`) | 2 robots, 1 request per entry point, robots that may fail a task, no crash |
| FleetRestart | every message leaves `tasks.incoming`, unless the connection is lost | 2 messages, one malformed, 1 crash, a connection that may break |
| Allocator | the loop selects the best robot; a better winner stays the winner | 3 robots, 3 positions, 3 levels of charge |

The four runs that TLC must find violated are in section 7.

**Why the bounds are enough.** *Agent*: two tasks are what interruption,
displacement and overtaking need (one in hand, one waiting). Six units with a
drain of two while moving, one while standing and a charge of three cross each
threshold in one update and hit both ends. Two attempts and two retries have a
first, a last and an exhausted one. *Goals*: only the charger's node and one
leg are ever RUNNING together, and pick and drop differ in nothing but their
pose; the third goal is one that was left behind while both others are awaited.
One command injects a fault, which a timeout, a restart or a navigation may
meet, and another clears nothing. *Server*: a crash can fall at every step
of a dispatch; after a second one nothing new can happen that the first did
not show, except a third copy, and `SentOncePerLife` counts copies against
crashes; what FleetSafety checks for one crash is proved for any number
(section 6). Two robots give a choice and let a redelivery go elsewhere; one
request of each kind puts the three threads next to each other. *Allocator*:
three robots have a first, a middle and a last in the map, ties included.

**Choices that a reader should know.**

* In AgentLiveness a robot that stands still does not drain (`DrainIdle` 0).
  With drain, a robot may go low again between charging and the next task for
  ever, which only says that a battery that is too small never works.
* AgentLiveness leaves out `behavior_rejected`, after which RequestRecovery
  never returns (section 7), `nav_not_ready`, with which a robot may fail to
  reach its charger for ever, and the lifecycle transitions, after which
  nothing has to happen; every other disturbance is possible.
* `QueuedIsReported` ends where the battery runs low, because a task the
  charger trip displaces may be lost, and where the retries run out, because
  the task is then lost by AbandonedTaskLost.
* AbandonedTaskLost starts from `ChargedInit`, so that the counterexample is not
  about a battery.
* HaltedGoalDrivesOn lets no agent restart, and asks only while no new goal is
  on its way, which would preempt the old one.
* FleetService assumes `SlowRobots`: without it AssignedMeansInHand fails
  (CompletionOvertakes).
* FleetRestart includes the loss of the broker connection, which only a restart
  repairs: `MessageLeaves` ends where the process runs on a broken one. Robots
  and their statuses do what they like.
* Symmetry is used in the safety runs only.

Every property of a passing run is paired in `PROJECT.json` with a mutant that
breaks it.

## 5 Fairness

*RobotAgent*: the executor has two threads and runs every ready callback, so a
tick once begun ends (`WF(Tick)`) and the battery timer, which competes with
the tick for its group, is served again and again (`SF(BatteryUpdate)`). Nav2
and the behaviour servers answer goals they received (`WF` of the callbacks;
the action protocol's promise, not this repository's). `ExecFinish` has `SF`
because every tick asks whether the time is over and eventually it is. Nothing
is assumed of assignments or faults.

*FleetServer*: the RabbitMQ and gRPC threads run (`WF` of `Consume` and of each
`Dispatch`), the executor serves every subscription although other callbacks
come between (`SF(TaskCompletion)`), the process is restarted after a crash
(`WF(Restart)`), and robots take and finish what they hold. Nothing is assumed
of requests, of statuses or of failures.

## 6 Proofs

`tlapm` on each of the eight proof modules checks every proof. Every invariant,
action property and refinement of section 4 is proved; liveness is not. The
constants are only assumed to satisfy `BatteryAssumption` (thresholds and rates
are natural numbers within the capacity), `AgentAssumption`, `NavAssumption`,
`CommandAssumption`, `AllocatorAssumption` and `FleetAssumption` (the sets of
requests are disjoint, `NoTask` and `NoRobot` are no task and no robot, bounds
are natural numbers): any number of tasks, robots, goals and calls, any
battery, any retry bounds, any set of disturbances or failures, any number of
crashes. Seven theorems hold on some sites only and say which, as an assumption
on the constants: `Undisturbed`, `RobotsKeepTasks`, `StoresWork` below.

### RobotAgent

| theorem | states | module |
|---|---|---|
| `TypeCorrect` | `[]TypeOK` | `RobotAgentProofs` |
| `ChargingAlwaysAgrees` | `[]ChargingAgrees` | |
| `OneBranchAlwaysMoves` | `[]OneBranchMoves` | |
| `NeverStaleResult` | `[]NoStaleResult` | |
| `ImplementsNavClient` | `NavViewSpec` | |
| `TaskAlwaysHeldOnce` | `[]TaskHeldOnce` | `RobotTaskProofs` |
| `AlwaysWorksForHeldTask` | `[]WorksForHeldTask` | |
| `NamelessAlwaysSetAside` | `[]NamelessMeansSetAside` | |
| `ImplementsTaskCustody` | `CustodySpec` | |
| `NominalNoTaskLost`, `NominalStateMatchesTree`, `NominalSuccessMeansServed`, `NominalCompletionNamesTask` | `[]NoTaskLost`, `[]StateMatchesTree`, `[]SuccessMeansServed`, `[]CompletionNamesTask`, all if `Undisturbed` | `RobotNominalProofs` |

`TypeOK` bounds `attempt` by `MaxAttempts`; a failure increments it, so the
type is inductive only together with `AttemptBounded`: the phases that can
fail are entered below the bound. `BatteryType` carries the charge.

The next three are proved at once as `ControlInv`. None is inductive alone:
that a halted branch leaves no result behind depends on which branch is halted
when, and that depends on where the tick is. `TickFollowsTree` says it: the
task branch is ticked only while the charge branch is idle, a leaf is reached
only when its branch is idle or RUNNING at that leaf, between the start of the
charge branch and `HaltTask` both may be RUNNING, and REPORTING is never
entered. There is one lemma per group of leaves (`NavigationControl`, ...) and
one for the callbacks and handlers. With it, each step of the agent is for each
navigation node a step of `NavClient` or a stutter.

The tasks are proved apart from the control. `TaskHeldOnce` and
`WorksForHeldTask` together are inductive (`TaskInv`): the steps that do not
concern a task keep the slots and never begin work (`Working'` implies
`Working`), and each of the others – an assignment, `RequestTask`, a report, the
battery setting a task aside, a cleanup – has a lemma of its own. The refinement of
`TaskCustody` maps the robot's three slots to one held task; an interruption
and its return are stutters, `RequestTask` is a take, a return or a
displacement, a report a completion, or silence when the node is inactive.

`NamelessMeansSetAside` says when a report may be without a name. It is not
inductive: that the battery is low where the current task is gone must be known
at every leaf a tick passes, and at the leaf the tree remembers between two
ticks (`StrandedInv`). It rests on `LowStaysLow`: a battery that is low and
not charging stays low.

`Undisturbed` allows failures of the behaviour servers only, which are asked
for nothing when no navigation fails. There `NominalInv` is inductive: nothing
fails (`NothingFails`), the robot has a current task exactly while it works for
it, and loses it no later than the charger takes the tree
(`CurrentIsWorkedFor`), the legs are driven in order (`LegsReached`), the
published state is the one that goes with the leaf, between two leaves too
(`StateFollowsTree`). The crucial lemma is again `LowStaysLow`.

`StateFollowsTree` is about the task's branch. `StateMatchesTree` also says
what is published on the way to the charger, where the published state is not
the leaf's but left over from the leaf that was halted. That takes an invariant
of its own (`TripState`, `TripStep`): the trip is made in IDLE, NAVIGATING or
EXECUTING, and in IDLE unless a task was set aside – a statement about a task
taken away by the battery timer some ticks before.

### NavGoals and RobotCommand

| theorem | states | module |
|---|---|---|
| `GoalInvariant` | `NavSpec => []GoalInv` | `NavGoalsProofs` |
| `GoalsImplementClient` | `NavSpec => ClientSpec` | |
| `ViewAlwaysOwnGoal`, `AwaitedNeverCancelled`, `AdriftAlwaysKnown` | `[]ViewIsOwnGoal`, `[]AwaitedNotCancelled`, `[]AdriftIsKnown` | `RobotCommandProofs` |
| `CommandsImplementClient` | `ClientSpec` | |
| `CommandTypeCorrect` | `[]CommandTypeOK` | |
| `RepliesAlwaysTrue`, `FaultsAlwaysAccounted` | `[]RepliesAreTrue`, `[]FaultsAccounted` | |

`GoalInv` adds two facts to the three properties of the run: no two nodes keep
the same goal (`NodesOwnGoals`), and a goal on its way to Nav2 is there once,
undecided, uncancelled, and awaited or known to be adrift
(`RequestsUndecided`). Without the second, Nav2 could accept a goal nobody
knows of. By the way `RobotCommand` is written each of its steps is one of
`NavGoals` or leaves the goals alone (the lemma `CommandsKeepGoals`), so what
is proved of the goals holds with commands and faults too. `FaultsAccounted` counts, so it needs that
`served` is finite and that a call is served once (`ServedOnce`).

### FleetServer

| theorem | states | strengthening |
|---|---|---|
| `TypeCorrect` | `[]FleetTypeOK` | a handler that has begun has a robot; the message being handled is the head of the queue |
| `FinalStatusIsFinal` | `TerminalIsFinal` | – (an action property, from the type invariant) |
| `NoMessageIsLost`, `AcceptedIsAlwaysRecorded` | `[]MessageIsKept`, `[]AcceptedIsRecorded` | `RecordedHasRecord`: only a handler that has recorded its task acknowledges or answers |
| `RecordsNameRobots` | `[]RecordNamesRobot` | `PublishedIsSent` |
| `RefusedIsNeverSent` | `[]RefusedNeverSent` | `NotYetRequested`, `RefusedIsOver` |
| `OneSendPerLife` | `[]SentOncePerLife` | `SendBound`: a task that may still be published in this life has used up only the earlier ones; `QueueInv` |
| `RecordedTasksLeaveByEnding` | `RecordedTaskLeavesByEnding` | – (an action property, with no assumption on the site: `PublishKeeps`, `CompletionKeeps`, `EndingStep`) |
| `AssignedIsInHand` | `[]AssignedMeansInHand` if `RobotsKeepTasks` | `HandInv`: a task published and not yet recorded is with its robot |
| `DeadLettersAreAlwaysTrue` | `[]DeadLettersAreTrue` if `StoresWork` | `LetterInv` |
| `EveryRobotIsCustodian` | `RobotIsCustodian` if `StoresWork` and no agent restarts | `LetterInv`, `SendBound` |

`InsertLemma` and `SettleLemma` say what the two writes to MongoDB keep,
`InsertFind` and `SettleFind` what `find_task` reads afterwards; `StepCases`
sorts the steps of `Next` by what they do to requests and records, so that each
invariant has a dozen short cases. `OneSendPerLife` needs the subtlest argument: a
message handled on a broken connection stays in the queue, unacknowledged, and
must not count as one that may be sent again until the process has ended
(`MaySend`, `MaySendStep`).

The last three theorems are about a process that does not crash (`MaxCrashes` 0)
and robots slower than the store (`SlowRobots`); section 7 has the
counterexamples without either. `SlowRobots` is an assumption on timing that no
code ensures: MongoDB need only be slow. What holds without it is
`RecordedTasksLeaveByEnding`: once the record is there, the task does not leave
the robots without ending it. `RobotsKeepTasks` moreover lets no robot lose a
task; MongoDB may throw for a SubmitTask, whose thread survives it, and RabbitMQ
may fail in every way that does not end the process. A
record then says ASSIGNED only while its task is somewhere: a robot lets go of
a task only by completing it, not before it is recorded, and the completion
leaves its queue in the step that settles the record.

`StoresWork` lets robots fail, lose and forget tasks, but MongoDB and RabbitMQ
work. `LetterInv` has four parts: a rejected message was not published and may
not be any more (`RejectedForGood`); a robot has the tasks published to it, and
each of them once – waiting, in hand or completed (`OnePlace`); the document of a task a
robot has is not settled, and that of a completed one says ASSIGNED
(`RecordsFollow`); and the failures are told (`FailuresTold`). A completion
therefore always finds its record, and finds it unsettled, which is why every
letter and every FAILED come in pairs. That a task has one robot is
`SendBound` for a process without crashes.

`EveryRobotIsCustodian` links the two halves of the system. `RobotAgent` is
proved to be a `TaskCustody` if no assignment comes twice: `TaskAssignment` has
that as a guard, for `task_assignment_cb` queues whatever arrives. Here the
server is proved to keep to it: for `AnyRobot`, a constant of which only
`AnyRobot \in Robots` is assumed, every step of the whole server is a step of
`TaskCustody` or a stutter. Done is what the robot's completions or the records
say it has completed, so that a step which settles a record must stutter – and
does, as the completion was on its way before (`CompletionCustody`). A robot
that restarts drops several tasks at once, and a process that crashes drops
completions or sends a task again; neither is a step of `TaskCustody`. Robots
that lose tasks are covered by the theorem and not by the run, whose other
properties need robots that keep theirs.

### TaskAllocator

| theorem | states |
|---|---|
| `AlwaysSelectsTheBest` | `[]SelectsTheBest` |
| `BetterAlwaysWins` | `BetterNeverLoses` |

The loop is a recursive function, and the induction theorems of the library take an
operator as a parameter, which the provers cannot instantiate. Both inductions are
therefore made by hand: if something failed at some round, it would fail at a
least one (`LeastElement`, from the well-foundedness of the naturals). So
`RoundsExist` and `ScanLemma` prove that `Scan` satisfies its equation, and
`EveryRound` the loop's invariant `BestOfFirst`: `best` is the first of the
best among the robots seen. `ScoreLemma` bounds every score below the
`numeric_limits::max()` the loop starts from.

### What is only model-checked

Liveness – `LowBatteryCharges`, `ChargingEnds`, `InterruptedResumes`,
`RecoveryReturns`, `QueuedIsReported`, `RecordedTaskEnds`, `MessageLeaves` –
needs fairness and ENABLED, which are out of the provers' reach. The four
violations of section 7 are counterexamples, which TLC finds. That each
strengthening above is an invariant was checked with TLC on the configurations
of section 4 before it was proved.

## 7 Where code and documentation disagree

Each is a run TLC must find violated; `PROJECT.json` quotes the line.

| run | what the code does |
|---|---|
| RecoveryCountsAsArrival | after a failed navigation and a successful recovery the tree goes on as if the robot had arrived |
| AbandonedTaskLost | a task whose retries ran out is overwritten by the next one and never reported |
| HaltedGoalDrivesOn | a navigation that a fault halts before Nav2 answered its goal is not cancelled, and the robot drives on while the tree recovers |
| CompletionOvertakes | a completion handled between publish and insert leaves the record ASSIGNED for ever |

Further disagreements were met while modelling. They have no run of their own,
but each follows from a configuration that is easy to change:

* a rejected spin or backup goal leaves RequestRecovery RUNNING for ever: no
  goal_response_callback is set (`request_recovery.cpp:112`), and
  `request_recovery.hpp:14` promises FAILURE after max_attempts. AgentLiveness
  with `"behavior_rejected"` among its disturbances violates `RecoveryReturns`;
* a trip to the charger that interrupts a leg drains at the idle rate, because
  the halted node clears `is_moving_` after the charger's node set it
  (`navigate_to_pose_bt.cpp:132`); `battery_model.hpp:34` says the moving rate
  applies "while navigating". `OneBranchMoves` extended to `charge` in
  `NavLeaves` fails;
* `src/docs/PHASE2_PLAN.md:948` has a `canceling_` flag that makes a node wait for the
  confirmation of its cancel; the code has none and sends the next goal at
  once. `AwaitedNotCancelled` shows that this harms no goal, since a cancel
  names the goal it is for;
* a fault injected while nothing navigates is answered with success and ends
  the next navigation, a trip to the charger included, where
  `src/docs/PHASE2_PLAN.md:786` says it cancels the active goal; after a
  timeout, too, it may still strike;
* a recovery after a navigation that never started (server not ready) runs
  while the published state is ASSIGNED, and a report then leaves it there:
  AgentNominal with `Disturbances` `{"nav_not_ready"}` violates
  `StateMatchesTree`. Such a robot is never offered a task again;
* a robot that cannot reach its charger goes on to the task branch with a low
  battery (`AfterNavFailure` of NavToCharger): AgentNominal with the same
  disturbance violates `LowBatteryCharges`;
* a completion published while the server restarts is lost, and the record
  stays ASSIGNED: FleetService with `MaxCrashes` 1 violates
  `AssignedMeansInHand`; so does a robot agent that restarts
  (`"robot_restart"`);
* a request on `/fleet/task_request` that finds no IDLE robot is dropped with
  a warning (`TaskRequest`), one in RabbitMQ becomes a dead letter and one by
  gRPC is refused;
* `src/docs/GLOSSARY.md:136` speaks of queue depth; the allocator does not look at it,
  and a second task may go to a robot with a waiting one while another is free;
* `load_test.py` still describes a robot with a single pending slot; the agent
  has a queue;
* `fleet.proto:79` documents `value = false` as clearing a fault; the agent's
  service answers success and leaves the fault set (`SetFault`), which
  `src/docs/PHASE2_PLAN.md:785` has as "no-op (status query only)". The two
  documents disagree, and no property takes a side;
* the way to the charger may be IDLE. `src/docs/PHASE2_PLAN.md:253` and `:258`
  have CHARGING from any state, fired "from the BatteryModel timer", `:330` as
  soon as `is_low()` returns true, and `src/docs/SYSTEM_ARCHITECTURE.md:359`
  has the tree's decisions "kept consistent with" the state machine as "the
  ground-truth". The code fires LOW_BATTERY in `ChargeBattery::onStart`, at the
  dock, and IDLE ignores NAV_STARTED (`robot_fsm.cpp:24`). A robot without a
  task therefore drives to its charger as IDLE and may be offered tasks on the
  way, which wait until it is charged; one that was interrupted publishes the
  state it was interrupted in. `StateMatchesTree` says just that. AgentNominal
  with the invariant `charge # "idle" /\ cursor = "free" => fsm = "CHARGING"`
  is violated;
* a failed recovery publishes IDLE while the task goes on: after
  RECOVERY_FAILED the Retry node navigates again for the same task, and IDLE
  ignores NAV_STARTED. AgentNominal with `{"nav_failed"}` or with
  `{"nav_failed", "behavior_failed"}` violates `StateMatchesTree`;
* a completion may name no task. When the battery timer has set the task aside
  and the trip to the charger cannot be set out for, the tree goes on with the
  task and may reach ReportStatus with `current_task_` empty
  (`report_status.cpp:15`): it publishes SUCCESS for no task, which updates no
  record, and the task is driven a second time.
  `src/docs/COMMAND_REFERENCE.md:460` says a completion "fires once per
  finished task". AgentNominal with `{"nav_not_ready"}` violates
  `CompletionNamesTask`; `NamelessMeansSetAside` shows, with every disturbance,
  that the task is the one set aside and not lost. A completion that does name
  a task names it once (`TaskHeldOnce`);
* an agent that is shut down while active goes on publishing its last state
  and queueing assignments, which nobody executes (`Shutdown`).

## 8 What is not modelled

* `status_publish_cb`, `get_fleet_status`, the summary timer and the `robots`
  and `telemetry` collections change no state the task path reads.
* A second `on_configure` after `on_cleanup`: the factory has the builders
  already, and registering them again throws. A tick that `on_cleanup` falls
  into uses a tree that is being destroyed.
* What interleaved frames do inside librabbitmq beyond losing a letter or the
  connection; the table of pending requests inside rclcpp, where every command
  given up leaves an entry.
* Locks within one handler: a critical section is part of one step.
* The pacing of `load_test.py`, a client that waits between two requests; the
  length of a robot's queue decides nothing.
* Doubles, NaN and poses; the contents of messages and documents.
* The other routes of the REST gateway, which translate one RPC each; Gazebo,
  Nav2 and their configuration.

## 9 Plan

Done, in this order: `RobotFSM`, `BatteryModel`, `TaskCustody`, `RobotAgent`,
its control proofs, `TaskAllocator`, `FleetServer`, its proofs, the lifecycle of
the agent, `NavGoals`, `RobotCommand`; then the proofs of the agent's tasks and
refinements, of the nominal agent, of the goals and the commands, of the
server without crashes, its robots as `TaskCustody` included, and of the
allocator.

Next, most important first:

1. weaken `StoresWork` and `RobotsKeepTasks` per task: a task whose handler met
   no error keeps what they promise although others did not;
2. weaken `Undisturbed` to what each of its four theorems needs: a robot whose
   navigations fail still loses no task while its retries last.
