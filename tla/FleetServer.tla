----------------------------- MODULE FleetServer -----------------------------
(***************************************************************************)
(* The fleet server: how a task request becomes an assignment and a record *)
(* in MongoDB, and how the record follows the task.                        *)
(*                                                                         *)
(* Three kinds of thread run in the process.  The ROS executor runs one    *)
(* callback at a time (robot_status_cb, task_completion_cb,                *)
(* task_request_cb), the RabbitMQ thread handles one message of            *)
(* tasks.incoming at a time, and each gRPC request has a thread of its     *)
(* own.  All of them select a robot, publish the assignment and insert the *)
(* record, in separate critical sections: `step' is how far the handler of *)
(* a task has come.                                                        *)
(*                                                                         *)
(* MongoDB and RabbitMQ outlive the process; what it holds in memory and   *)
(* the ROS messages it has not handled do not.  A robot is what            *)
(* TaskCustody says of it: a queue, a task in hand, a completion.          *)
(***************************************************************************)
EXTENDS SequencesExt

CONSTANTS Robots,
          RosTasks,     \* requests on /fleet/task_request
          AmqpTasks,    \* messages for tasks.incoming
          RpcTasks,     \* SubmitTask requests
          Malformed,    \* the messages that do not parse
          NoTask, NoRobot,
          MaxCrashes,   \* how often the process may end unexpectedly
          SlowRobots,   \* a robot takes longer for a task than the server
                        \* takes from publishing it to recording it
          Failures      \* what else may go wrong

FailureKinds ==
  {"mongo_error",    \* an operation on MongoDB throws
   "broker_lost",    \* the connection to RabbitMQ breaks
   "amqp_race",      \* two threads use that connection at once
   "task_failed",    \* a robot reports a task that did not succeed
   "task_lost",      \* a robot loses a task (TaskCustody!Displace, Forget)
   "robot_restart"}  \* a robot agent restarts with an empty queue

Tasks == RosTasks \cup AmqpTasks \cup RpcTasks

ASSUME FleetAssumption ==
  /\ RosTasks \cap AmqpTasks = {}
  /\ RosTasks \cap RpcTasks = {}
  /\ AmqpTasks \cap RpcTasks = {}
  /\ Malformed \subseteq AmqpTasks
  /\ NoTask \notin Tasks
  /\ NoRobot \notin Robots
  /\ MaxCrashes \in Nat
  /\ SlowRobots \in BOOLEAN
  /\ Failures \subseteq FailureKinds

VARIABLES
  up,           \* the process runs
  connected,    \* its connection to RabbitMQ works
  latest,       \* latest_status_: the last state received from each robot,
                \* "other" when it is not IDLE or nothing was received
  step,         \* how far the handler of each task has come
  choice,       \* the robot that handler selected
  failing,      \* the task whose failure task_completion_cb has still to
                \* publish
  records,      \* MongoDB: the documents of the tasks collection, by task
                \* and in the order of insertion
  incoming,     \* RabbitMQ: tasks.incoming, delivered messages included
                \* until they are acknowledged
  failed,       \* RabbitMQ: tasks.failed
  waiting,      \* the assignments a robot has not taken yet
  held,         \* the task a robot works on
  completions,  \* the task_completion messages on their way
  crashes,      \* history: how often the process crashed
  submitted,    \* history: the tasks ever requested
  sent,         \* history: the robots each task was published to
  reply         \* history: the answer to each SubmitTask

memory  == <<up, connected, latest, step, choice, failing>>
stored  == <<records, incoming, failed>>
robots  == <<waiting, held, completions>>
history == <<crashes, submitted, sent, reply>>
vars    == <<memory, stored, robots, history>>

Steps    == {"idle", "selected", "published", "recorded"}
Statuses == {"IDLE", "other"}
Outcomes == {"COMPLETED", "FAILED"}
Record   == [robot : Robots, status : Outcomes \cup {"ASSIGNED"}]
Report   == [task : Tasks, result : Outcomes]
Letter   == [task : Tasks, cause : {"rejected", "failed"}]

FleetTypeOK ==
  /\ up \in BOOLEAN /\ connected \in BOOLEAN
  /\ latest \in [Robots -> Statuses]
  /\ step \in [Tasks -> Steps]
  /\ choice \in [Tasks -> Robots \cup {NoRobot}]
  /\ failing \in Tasks \cup {NoTask}
  /\ records \in [Tasks -> Seq(Record)]
  /\ incoming \in Seq(AmqpTasks)
  /\ failed \subseteq Letter
  /\ waiting \in [Robots -> Seq(Tasks)]
  /\ held \in [Robots -> Tasks \cup {NoTask}]
  /\ completions \in [Robots -> Seq(Report)]
  /\ crashes \in 0 .. MaxCrashes
  /\ submitted \subseteq Tasks
  /\ sent \in [Tasks -> Seq(Robots)]
  /\ reply \in [RpcTasks -> {"none", "accepted", "refused", "error"}]

Init ==
  /\ up = TRUE /\ connected = TRUE
  /\ latest = [r \in Robots |-> "other"]
  /\ step = [t \in Tasks |-> "idle"]
  /\ choice = [t \in Tasks |-> NoRobot]
  /\ failing = NoTask
  /\ records = [t \in Tasks |-> <<>>]
  /\ incoming = <<>> /\ failed = {}
  /\ waiting = [r \in Robots |-> <<>>]
  /\ held = [r \in Robots |-> NoTask]
  /\ completions = [r \in Robots |-> <<>>]
  /\ crashes = 0 /\ submitted = {}
  /\ sent = [t \in Tasks |-> <<>>]
  /\ reply = [t \in RpcTasks |-> "none"]

-----------------------------------------------------------------------------
(***************************************************************************)
(* The end of the process: an exception that leaves the RabbitMQ thread or *)
(* the ROS executor, or a kill.  Its memory and the ROS messages on their  *)
(* way to it are gone, an open SubmitTask fails, and RabbitMQ takes back   *)
(* what was not acknowledged.                                              *)
(***************************************************************************)
Crash ==
  /\ up /\ crashes < MaxCrashes
  /\ crashes' = crashes + 1
  /\ up' = FALSE /\ connected' = FALSE
  /\ latest' = [r \in Robots |-> "other"]
  /\ step' = [t \in Tasks |-> "idle"]
  /\ choice' = [t \in Tasks |-> NoRobot]
  /\ failing' = NoTask
  /\ completions' = [r \in Robots |-> <<>>]
  /\ reply' = [t \in RpcTasks |->
                 IF t \in submitted /\ reply[t] = "none" THEN "error"
                                                         ELSE reply[t]]
  /\ UNCHANGED <<stored, waiting, held, submitted, sent>>

(* The constructor connects to RabbitMQ before anything else runs. *)
Restart ==
  /\ ~up
  /\ up' = TRUE /\ connected' = TRUE
  /\ UNCHANGED <<latest, step, choice, failing, stored, robots, history>>

(* rabbitmq_consume_loop logs the error and tries again on the same        *)
(* connection: only a restart opens another.                               *)
BrokerLost ==
  /\ "broker_lost" \in Failures
  /\ connected
  /\ connected' = FALSE
  /\ UNCHANGED <<up, latest, step, choice, failing, stored, robots, history>>

-----------------------------------------------------------------------------
(***************************************************************************)
(* Requests                                                                *)
(***************************************************************************)

(* The ROS executor is between two callbacks. *)
RosFree ==
  /\ up /\ failing = NoTask
  /\ \A t \in RosTasks : step[t] = "idle"

(* The robots select_best_robot chooses from.  The score decides between   *)
(* them; it depends on positions and charge, so any of them may win.       *)
Available == {r \in Robots : latest[r] = "IDLE"}

(* Mutant of Select: an empty answer of the allocator is used. *)
Select_Unchecked(t) ==
  /\ choice' = [choice EXCEPT ![t] = IF Available = {} THEN NoRobot
                                     ELSE CHOOSE r \in Available : TRUE]
  /\ step' = [step EXCEPT ![t] = "selected"]

Select(t) ==
  /\ \E r \in Available : choice' = [choice EXCEPT ![t] = r]
  /\ step' = [step EXCEPT ![t] = "selected"]

(* task_request_cb: with no robot available the request is dropped. *)
TaskRequest(t) ==
  /\ t \in RosTasks \ submitted /\ RosFree
  /\ submitted' = submitted \cup {t}
  /\ \/ Select(t)
     \/ Available = {} /\ UNCHANGED <<step, choice>>
  /\ UNCHANGED <<up, connected, latest, failing, stored, robots, crashes,
                 sent, reply>>

(* Mutant of SubmitTask: the refusal does not return. *)
SubmitTask_GoesOn(t) ==
  /\ t \in RpcTasks \ submitted /\ up
  /\ submitted' = submitted \cup {t}
  /\ \E r \in Robots : choice' = [choice EXCEPT ![t] = r]
  /\ step' = [step EXCEPT ![t] = "selected"]
  /\ reply' = IF Available = {} THEN [reply EXCEPT ![t] = "refused"] ELSE reply
  /\ UNCHANGED <<up, connected, latest, failing, stored, robots, crashes,
                 sent>>

(* submit_task: with no robot available the request is refused. *)
SubmitTask(t) ==
  /\ t \in RpcTasks \ submitted /\ up
  /\ submitted' = submitted \cup {t}
  /\ \/ Select(t) /\ UNCHANGED reply
     \/ /\ Available = {}
        /\ reply' = [reply EXCEPT ![t] = "refused"]
        /\ UNCHANGED <<step, choice>>
  /\ UNCHANGED <<up, connected, latest, failing, stored, robots, crashes,
                 sent>>

(* A client publishes to the exchange `tasks', whether the server runs or  *)
(* not.                                                                    *)
Enqueue(t) ==
  /\ t \in AmqpTasks \ submitted
  /\ submitted' = submitted \cup {t}
  /\ incoming' = Append(incoming, t)
  /\ UNCHANGED <<memory, records, failed, robots, crashes, sent, reply>>

(* Mutant of Consume: a message that does not parse is not rejected. *)
Consume_Skips(t) ==
  /\ up /\ connected
  /\ incoming # <<>> /\ t = Head(incoming) /\ step[t] = "idle"
  /\ t \notin Malformed
  /\ \/ Select(t) /\ UNCHANGED <<incoming, failed>>
     \/ /\ Available = {}
        /\ incoming' = Tail(incoming)
        /\ failed' = failed \cup {[task |-> t, cause |-> "rejected"]}
        /\ UNCHANGED <<step, choice>>
  /\ UNCHANGED <<up, connected, latest, failing, records, robots, history>>

(* The RabbitMQ thread takes the next message.  One that does not parse or *)
(* that no robot is available for is rejected, which RabbitMQ turns into a *)
(* dead letter in tasks.failed.                                            *)
Consume(t) ==
  /\ up /\ connected
  /\ incoming # <<>> /\ t = Head(incoming) /\ step[t] = "idle"
  /\ \/ /\ t \notin Malformed
        /\ Select(t)
        /\ UNCHANGED <<incoming, failed>>
     \/ /\ t \in Malformed \/ Available = {}
        /\ incoming' = Tail(incoming)
        /\ failed' = failed \cup {[task |-> t, cause |-> "rejected"]}
        /\ UNCHANGED <<step, choice>>
  /\ UNCHANGED <<up, connected, latest, failing, records, robots, history>>

-----------------------------------------------------------------------------
(***************************************************************************)
(* dispatch_assignment, and what follows it                                *)
(***************************************************************************)

(* Mutant of Publish: the publisher of another robot is used. *)
Publish_WrongIndex(t) ==
  /\ step[t] = "selected"
  /\ step' = [step EXCEPT ![t] = "published"]
  /\ \E r \in Robots \ {choice[t]} :
       /\ waiting' = [waiting EXCEPT ![r] = Append(@, t)]
       /\ sent' = [sent EXCEPT ![t] = Append(@, r)]
  /\ UNCHANGED <<up, connected, latest, choice, failing, stored, held,
                 completions, crashes, submitted, reply>>

Publish(t) ==
  /\ step[t] = "selected"
  /\ step' = [step EXCEPT ![t] = "published"]
  /\ waiting' = [waiting EXCEPT ![choice[t]] = Append(@, t)]
  /\ sent' = [sent EXCEPT ![t] = Append(@, choice[t])]
  /\ UNCHANGED <<up, connected, latest, choice, failing, stored, held,
                 completions, crashes, submitted, reply>>

(* The step after insert_task. *)
AfterRecord(t) == IF t \in RosTasks THEN "idle" ELSE "recorded"

(* Mutant of Insert: a document of the same task is replaced. *)
Insert_Replaces(t) ==
  records' = [records EXCEPT ![t] =
                <<[robot |-> choice[t], status |-> "ASSIGNED"]>>]

(* insert_task: a new document, whether or not the task has one. *)
Insert(t) ==
  records' = [records EXCEPT ![t] =
                Append(@, [robot |-> choice[t], status |-> "ASSIGNED"])]

Store(t) ==
  /\ step[t] = "published"
  /\ Insert(t)
  /\ step' = [step EXCEPT ![t] = AfterRecord(t)]
  /\ UNCHANGED <<up, connected, latest, choice, failing, incoming, failed,
                 robots, history>>

(* insert_task throws: gRPC answers with an error; nothing catches the     *)
(* exception on the other two threads.                                     *)
StoreFails(t) ==
  /\ "mongo_error" \in Failures
  /\ step[t] = "published"
  /\ \/ t \notin RpcTasks /\ Crash
     \/ /\ t \in RpcTasks
        /\ reply' = [reply EXCEPT ![t] = "error"]
        /\ step' = [step EXCEPT ![t] = "idle"]
        /\ UNCHANGED <<up, connected, latest, choice, failing, stored, robots,
                       crashes, submitted, sent>>

(* Mutant of Acknowledge: the message is acknowledged before it is         *)
(* dispatched.                                                             *)
Acknowledge_Early(t) ==
  /\ t \in AmqpTasks /\ step[t] \in {"selected", "recorded"}
  /\ incoming # <<>> /\ t = Head(incoming)
  /\ step' = IF step[t] = "recorded" THEN [step EXCEPT ![t] = "idle"] ELSE step
  /\ incoming' = IF connected THEN Tail(incoming) ELSE incoming
  /\ UNCHANGED <<up, connected, latest, choice, failing, records, failed,
                 robots, history>>

(* Mutant of Acknowledge: the message is put back. *)
Acknowledge_Requeues(t) ==
  /\ t \in AmqpTasks /\ step[t] = "recorded"
  /\ step' = [step EXCEPT ![t] = "idle"]
  /\ UNCHANGED <<up, connected, latest, choice, failing, stored, robots,
                 history>>

(* On a broken connection the acknowledgement does not arrive. *)
Acknowledge(t) ==
  /\ t \in AmqpTasks /\ step[t] = "recorded"
  /\ step' = [step EXCEPT ![t] = "idle"]
  /\ incoming' = IF connected THEN Tail(incoming) ELSE incoming
  /\ UNCHANGED <<up, connected, latest, choice, failing, records, failed,
                 robots, history>>

(* Mutant of Answer: the answer does not wait for the record. *)
Answer_Early(t) ==
  /\ t \in RpcTasks /\ step[t] \in {"published", "recorded"}
  /\ step' = [step EXCEPT ![t] = "idle"]
  /\ reply' = [reply EXCEPT ![t] = "accepted"]
  /\ UNCHANGED <<up, connected, latest, choice, failing, stored, robots,
                 crashes, submitted, sent>>

Answer(t) ==
  /\ t \in RpcTasks /\ step[t] = "recorded"
  /\ step' = [step EXCEPT ![t] = "idle"]
  /\ reply' = [reply EXCEPT ![t] = "accepted"]
  /\ UNCHANGED <<up, connected, latest, choice, failing, stored, robots,
                 crashes, submitted, sent>>

-----------------------------------------------------------------------------
(***************************************************************************)
(* The other callbacks of the ROS executor                                 *)
(***************************************************************************)

(* robot_status_cb.  The message may be as old as the subscription's       *)
(* queue, and the state a robot publishes may lag its tree (RobotAgent), so *)
(* any state may arrive at any time.  An exception of MongoDB comes after  *)
(* the update of latest_status_ and ends the process.                      *)
RobotStatus(r) ==
  /\ RosFree
  /\ \/ /\ \E s \in Statuses : latest' = [latest EXCEPT ![r] = s]
        /\ UNCHANGED <<up, connected, step, choice, failing, stored, robots,
                       history>>
     \/ "mongo_error" \in Failures /\ Crash

(* Mutant of Settle: only a success is written. *)
Settle_SuccessOnly(t, result) ==
  records' = IF records[t] = <<>> \/ result = "FAILED" THEN records
             ELSE [records EXCEPT ![t][1].status = result]

(* Mutant of Settle: the document inserted last is written. *)
Settle_Last(t, result) ==
  records' = IF records[t] = <<>> THEN records
             ELSE [records EXCEPT ![t][Len(records[t])].status = result]

(* update_task_completion: the first document of the task, if it has one. *)
Settle(t, result) ==
  records' = IF records[t] = <<>> THEN records
             ELSE [records EXCEPT ![t][1].status = result]

(* Mutant of TaskCompletion: a failure is not published. *)
TaskCompletion_Quiet(r) ==
  /\ RosFree /\ completions[r] # <<>>
  /\ LET c == Head(completions[r])
     IN  Settle(c.task, c.result) /\ failing' = NoTask
  /\ completions' = [completions EXCEPT ![r] = Tail(@)]
  /\ UNCHANGED <<up, connected, latest, step, choice, incoming, failed,
                 waiting, held, history>>

(* task_completion_cb: the record, then the failure. *)
TaskCompletion(r) ==
  /\ RosFree /\ completions[r] # <<>>
  /\ \/ /\ LET c == Head(completions[r])
           IN  /\ Settle(c.task, c.result)
               /\ failing' = IF c.result = "COMPLETED" THEN NoTask ELSE c.task
        /\ completions' = [completions EXCEPT ![r] = Tail(@)]
        /\ UNCHANGED <<up, connected, latest, step, choice, incoming, failed,
                       waiting, held, history>>
     \/ "mongo_error" \in Failures /\ Crash

(* publish_failed; on a broken connection it throws, or what it wrote to   *)
(* the socket never arrives.  The RabbitMQ thread may be using the         *)
(* connection, which no lock protects: the letter, the connection or both  *)
(* may be lost.                                                            *)
PublishFailed ==
  /\ failing # NoTask
  /\ \/ /\ failed' = IF connected
                       THEN failed \cup {[task |-> failing, cause |-> "failed"]}
                       ELSE failed
        /\ failing' = NoTask
        /\ UNCHANGED <<up, connected, latest, step, choice, records, incoming,
                       robots, history>>
     \/ /\ "amqp_race" \in Failures /\ connected
        /\ connected' \in BOOLEAN
        /\ failing' = NoTask
        /\ UNCHANGED <<up, latest, step, choice, stored, robots, history>>
     \/ ~connected /\ Crash

-----------------------------------------------------------------------------
(***************************************************************************)
(* The robots                                                              *)
(***************************************************************************)

RobotTakes(r) ==
  /\ held[r] = NoTask /\ waiting[r] # <<>>
  /\ held' = [held EXCEPT ![r] = Head(waiting[r])]
  /\ waiting' = [waiting EXCEPT ![r] = Tail(@)]
  /\ UNCHANGED <<memory, stored, completions, history>>

(* A completion nobody subscribes to is gone. *)
RobotCompletes(r) ==
  /\ held[r] # NoTask
  /\ SlowRobots => step[held[r]] # "published"
  /\ \E result \in Outcomes :
       /\ result = "FAILED" => "task_failed" \in Failures
       /\ completions' = IF up
            THEN [completions EXCEPT ![r] =
                    Append(@, [task |-> held[r], result |-> result])]
            ELSE completions
  /\ held' = [held EXCEPT ![r] = NoTask]
  /\ UNCHANGED <<memory, stored, waiting, history>>

RobotAbandons(r) ==
  /\ "task_lost" \in Failures
  /\ held[r] # NoTask /\ waiting[r] # <<>>
  /\ held' = [held EXCEPT ![r] = Head(waiting[r])]
  /\ waiting' = [waiting EXCEPT ![r] = Tail(@)]
  /\ UNCHANGED <<memory, stored, completions, history>>

(* A robot that was deactivated completes its task and tells nobody.       *)
RobotForgets(r) ==
  /\ "task_lost" \in Failures
  /\ held[r] # NoTask
  /\ held' = [held EXCEPT ![r] = NoTask]
  /\ UNCHANGED <<memory, stored, waiting, completions, history>>

RobotRestarts(r) ==
  /\ "robot_restart" \in Failures
  /\ held' = [held EXCEPT ![r] = NoTask]
  /\ waiting' = [waiting EXCEPT ![r] = <<>>]
  /\ UNCHANGED <<memory, stored, completions, history>>

-----------------------------------------------------------------------------
Requests ==
  \E t \in Tasks : TaskRequest(t) \/ SubmitTask(t) \/ Enqueue(t)

Dispatch(t) ==
  Publish(t) \/ Store(t) \/ StoreFails(t) \/ Acknowledge(t) \/ Answer(t)

Callbacks ==
  \/ \E r \in Robots : RobotStatus(r) \/ TaskCompletion(r)
  \/ PublishFailed

Robot(r) ==
  \/ RobotTakes(r) \/ RobotCompletes(r) \/ RobotAbandons(r)
  \/ RobotForgets(r) \/ RobotRestarts(r)

Next ==
  \/ Requests
  \/ \E t \in Tasks : Consume(t) \/ Dispatch(t)
  \/ Callbacks
  \/ \E r \in Robots : Robot(r)
  \/ Crash \/ Restart \/ BrokerLost

Spec == Init /\ [][Next]_vars

(* Every thread runs, the supervisor restarts the process, the executor    *)
(* serves every subscription, and a robot finishes what it takes.          *)
Fairness ==
  /\ \A t \in Tasks : WF_vars(Consume(t)) /\ WF_vars(Dispatch(t))
  /\ \A r \in Robots : SF_vars(TaskCompletion(r))
  /\ WF_vars(PublishFailed) /\ WF_vars(Restart)
  /\ \A r \in Robots : WF_vars(RobotTakes(r)) /\ WF_vars(RobotCompletes(r))

FairSpec == Spec /\ Fairness

-----------------------------------------------------------------------------
(***************************************************************************)
(* Whatever crashes, fails or restarts                                     *)
(***************************************************************************)

(* find_task: what GetTaskStatus says of a task, from its first document.   *)
FindTask(t) == IF records[t] = <<>> THEN "not found" ELSE records[t][1].status

Settled(t) == FindTask(t) \in Outcomes

InHand(t) ==
  \E r \in Robots :
    \/ t = held[r] \/ t \in ToSet(waiting[r])
    \/ \E c \in ToSet(completions[r]) : c.task = t

Rejected(t) == [task |-> t, cause |-> "rejected"]
Failed(t)   == [task |-> t, cause |-> "failed"]

(* A message leaves tasks.incoming only as a dead letter or with a record  *)
(* of its assignment, at whatever step the process ends                    *)
(* (rabbitmq_consume_loop).                                                *)
MessageIsKept ==
  \A t \in AmqpTasks \cap submitted :
    t \in ToSet(incoming) \/ Rejected(t) \in failed \/ records[t] # <<>>

(* A client told "accepted" finds its task with GetTaskStatus              *)
(* (submit_task, find_task).                                               *)
AcceptedIsRecorded ==
  \A t \in RpcTasks : reply[t] = "accepted" => FindTask(t) # "not found"

(* A client told "No IDLE robot available" may submit again: no robot was  *)
(* ever sent the task.                                                     *)
RefusedNeverSent ==
  \A t \in RpcTasks : reply[t] = "refused" => sent[t] = <<>>

(* A record names a robot the assignment was published to.                 *)
RecordNamesRobot ==
  \A t \in Tasks : \A i \in DOMAIN records[t] :
    records[t][i].robot \in ToSet(sent[t])

(* One life of the process publishes a task at most once: a second         *)
(* assignment takes a crash between publishing and acknowledging.          *)
SentOncePerLife ==
  \A t \in Tasks : Len(sent[t]) <= crashes + 1

(* Once GetTaskStatus says a task has ended it never says ASSIGNED again,  *)
(* even when the task is dispatched a second time.                         *)
TerminalIsFinal ==
  [][\A t \in Tasks : Settled(t) => Settled(t)']_vars

(* A robot loses a task it has. *)
RobotLoses(r) == RobotAbandons(r) \/ RobotForgets(r) \/ RobotRestarts(r)

(* While the process runs, a task recorded as ASSIGNED that a robot has,   *)
(* or has completed, leaves the robots only in the step that writes its    *)
(* final status where GetTaskStatus reads it, or when a robot loses it:    *)
(* even with a second document of it, and a second robot driving for it,   *)
(* no completion that arrives leaves the record behind                     *)
(* (task_completion_cb, update_task_completion).                           *)
RecordedTaskLeavesByEnding ==
  [][up' => \A t \in Tasks :
       FindTask(t) = "ASSIGNED" /\ InHand(t)
         => InHand(t)' \/ Settled(t)' \/ \E r \in Robots : RobotLoses(r)]_vars

-----------------------------------------------------------------------------
(***************************************************************************)
(* Where the process does not crash and the robots keep what they have     *)
(***************************************************************************)

(* A task whose record says ASSIGNED is with a robot, or its completion is *)
(* on its way.                                                             *)
AssignedMeansInHand ==
  \A t \in Tasks : FindTask(t) = "ASSIGNED" => InHand(t)

(* tasks.failed says what happened: a rejected message was never assigned, *)
(* and exactly the tasks recorded as FAILED are there as failures.         *)
DeadLettersAreTrue ==
  \A t \in Tasks :
    /\ Rejected(t) \in failed => sent[t] = <<>>
    /\ Failed(t) \in failed \/ failing = t
         <=> FindTask(t) = "FAILED"

(* A message does not stay in tasks.incoming, one that does not parse      *)
(* included, unless the process runs on a connection that is broken        *)
(* (rabbitmq_consume_loop opens no other).                                 *)
MessageLeaves ==
  \A t \in AmqpTasks :
    t \in ToSet(incoming) ~> \/ t \notin ToSet(incoming)
                             \/ up /\ ~connected

(* A recorded task ends.                                                   *)
RecordedTaskEnds ==
  \A t \in Tasks : FindTask(t) = "ASSIGNED" ~> Settled(t)

=============================================================================
