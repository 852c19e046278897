------------------------- MODULE FleetServerProofs -------------------------
(***************************************************************************)
(* Proofs about FleetServer for every set of robots and requests, every    *)
(* number of crashes and every set of failures.                            *)
(***************************************************************************)
EXTENDS FleetCustody, QueueLemmas

(***************************************************************************)
(* MongoDB                                                                 *)
(***************************************************************************)

(* insert_task adds a document behind those a task has.                    *)
LEMMA InsertLemma ==
  ASSUME records \in [Tasks -> Seq(Record)], NEW t \in Tasks,
         choice[t] \in Robots, Insert(t)
  PROVE  /\ records' \in [Tasks -> Seq(Record)]
         /\ \A u \in Tasks \ {t} : records'[u] = records[u]
         /\ records'[t] # <<>>
         /\ records[t] # <<>> => records'[t][1] = records[t][1]
         /\ \A i \in DOMAIN records'[t] :
              records'[t][i].robot \in
                {records[t][j].robot : j \in DOMAIN records[t]} \cup {choice[t]}
<1> DEFINE doc == [robot |-> choice[t], status |-> "ASSIGNED"]
<1>1. doc \in Record /\ doc.robot = choice[t]
  BY DEF Record
<1>2. /\ records' = [records EXCEPT ![t] = Append(records[t], doc)]
      /\ records[t] \in Seq(Record)
  BY DEF Insert
<1> HIDE DEF doc
<1>3. /\ Append(records[t], doc) \in Seq(Record)
      /\ DOMAIN Append(records[t], doc) = 1 .. (Len(records[t]) + 1)
      /\ DOMAIN records[t] = 1 .. Len(records[t]) /\ Len(records[t]) \in Nat
      /\ Append(records[t], doc)[Len(records[t]) + 1] = doc
      /\ \A j \in 1 .. Len(records[t]) :
           Append(records[t], doc)[j] = records[t][j]
      /\ Append(records[t], doc) # <<>>
      /\ records[t] # <<>> => 1 \in 1 .. Len(records[t])
  BY <1>1, <1>2
<1>4. records'[t] = Append(records[t], doc)
      /\ \A u \in Tasks \ {t} : records'[u] = records[u]
  BY <1>2
<1>5. ASSUME NEW i \in DOMAIN records'[t]
      PROVE  records'[t][i].robot \in
               {records[t][j].robot : j \in DOMAIN records[t]} \cup {choice[t]}
  <2>1. CASE i = Len(records[t]) + 1
    BY <2>1, <1>1, <1>3, <1>4
  <2>2. CASE i # Len(records[t]) + 1
    <3>1. i \in 1 .. Len(records[t])
      BY <2>2, <1>3, <1>4
    <3>2. records'[t][i] = records[t][i]
      BY <3>1, <1>3, <1>4
    <3>3. QED
      BY <3>1, <3>2, <1>3
  <2>3. QED
    BY <2>1, <2>2
<1>6. QED
  BY <1>2, <1>3, <1>4, <1>5

(* update_task_completion changes the status of the first document only.   *)
LEMMA SettleLemma ==
  ASSUME records \in [Tasks -> Seq(Record)], NEW t \in Tasks,
         NEW result \in Outcomes, Settle(t, result)
  PROVE  /\ records' \in [Tasks -> Seq(Record)]
         /\ \A u \in Tasks :
              /\ records'[u] = <<>> <=> records[u] = <<>>
              /\ DOMAIN records'[u] = DOMAIN records[u]
              /\ \A i \in DOMAIN records[u] :
                   records'[u][i].robot = records[u][i].robot
              /\ Settled(u) => Settled(u)'
<1>1. CASE records[t] = <<>>
  BY <1>1 DEF Settle, Settled, FindTask
<1>2. CASE records[t] # <<>>
  <2> DEFINE s == records[t]
             doc == [s[1] EXCEPT !.status = result]
             new == [s EXCEPT ![1] = doc]
  <2>1. s \in Seq(Record) /\ 1 \in DOMAIN s /\ s[1] \in Record
    BY <1>2
  <2>2. doc \in Record /\ doc.robot = s[1].robot /\ doc.status = result
    BY <2>1 DEF Record, Outcomes
  <2>3. records' = [records EXCEPT ![t] = new]
    BY <1>2 DEF Settle
  <2> HIDE DEF doc
  <2>4. /\ new \in Seq(Record) /\ DOMAIN new = DOMAIN s /\ new[1] = doc
        /\ \A i \in DOMAIN s : i # 1 => new[i] = s[i]
    BY <2>1, <2>2
  <2>5. new # <<>>
    BY <2>1, <2>4
  <2> HIDE DEF new
  <2>6. records'[t] = new /\ \A u \in Tasks \ {t} : records'[u] = records[u]
    BY <2>3
  <2>7. records' \in [Tasks -> Seq(Record)]
    BY <2>3, <2>4
  <2>8. ASSUME NEW u \in Tasks
        PROVE  /\ records'[u] = <<>> <=> records[u] = <<>>
               /\ DOMAIN records'[u] = DOMAIN records[u]
               /\ \A i \in DOMAIN records[u] :
                    records'[u][i].robot = records[u][i].robot
               /\ Settled(u) => Settled(u)'
    <3>1. CASE u = t
      BY <3>1, <1>2, <2>2, <2>4, <2>5, <2>6 DEF Settled, FindTask
    <3>2. CASE u # t
      <4>1. records'[u] = records[u]
        BY <3>2, <2>6
      <4>2. QED
        BY <4>1 DEF Settled, FindTask
    <3>3. QED
      BY <3>1, <3>2
  <2>9. QED
    BY <2>7, <2>8
<1>3. QED
  BY <1>1, <1>2

(***************************************************************************)
(* Type correctness                                                        *)
(***************************************************************************)

(* Two facts make FleetTypeOK inductive.  A handler that has begun has a   *)
(* robot, which dispatch_assignment uses; and the message the RabbitMQ     *)
(* thread handles is the head of the queue, which ack removes.             *)
HandlerHasRobot == \A t \in Tasks : step[t] # "idle" => choice[t] \in Robots

HandlesHead ==
  \A t \in AmqpTasks :
    step[t] # "idle" => incoming # <<>> /\ Head(incoming) = t

TypeInv == FleetTypeOK /\ HandlerHasRobot /\ HandlesHead

LEMMA InitType == Init => TypeInv
<1> SUFFICES ASSUME Init PROVE TypeInv
  OBVIOUS
<1>1. AmqpTasks \subseteq Tasks
  BY DEF Tasks
<1>2. HandlerHasRobot /\ HandlesHead
  BY <1>1 DEF Init, HandlerHasRobot, HandlesHead
<1>3. FleetTypeOK
  BY FleetAssumption DEF Init, FleetTypeOK, Statuses, Steps
<1>4. QED
  BY <1>2, <1>3 DEF TypeInv

LEMMA CrashType ==
  ASSUME FleetTypeOK, Crash
  PROVE  TypeInv'
<1>1. AmqpTasks \subseteq Tasks
  BY DEF Tasks
<1>2. (HandlerHasRobot /\ HandlesHead)'
  BY <1>1 DEF Crash, HandlerHasRobot, HandlesHead
<1>3. crashes' \in 0 .. MaxCrashes
  BY FleetAssumption DEF Crash, FleetTypeOK
<1>4. reply' \in [RpcTasks -> {"none", "accepted", "refused", "error"}]
  BY DEF Crash, FleetTypeOK
<1>5. /\ latest' \in [Robots -> Statuses]
      /\ step' \in [Tasks -> Steps]
      /\ choice' \in [Tasks -> Robots \cup {NoRobot}]
      /\ failing' \in Tasks \cup {NoTask}
      /\ completions' \in [Robots -> Seq(Report)]
  BY DEF Crash, Statuses, Steps
<1>6. /\ up' \in BOOLEAN /\ connected' \in BOOLEAN
      /\ UNCHANGED <<records, incoming, failed, waiting, held, submitted,
                     sent>>
  BY DEF Crash, stored
<1>7. FleetTypeOK'
  BY <1>3, <1>4, <1>5, <1>6 DEF FleetTypeOK
<1>8. QED
  BY <1>2, <1>7 DEF TypeInv

(* Selecting a robot, or not, and what becomes of the request.             *)
LEMMA RequestType ==
  ASSUME TypeInv, NEW t \in Tasks,
         TaskRequest(t) \/ SubmitTask(t) \/ Enqueue(t) \/ Consume(t)
  PROVE  TypeInv'
<1> USE DEF TypeInv, FleetTypeOK, HandlerHasRobot, HandlesHead
<1>0. AmqpTasks \subseteq Tasks
  BY DEF Tasks
<1>1. ASSUME Select(t)
      PROVE  /\ step' \in [Tasks -> Steps]
             /\ choice' \in [Tasks -> Robots \cup {NoRobot}]
             /\ \A u \in Tasks : step'[u] # "idle" => choice'[u] \in Robots
  BY <1>1 DEF Select, Steps, Available
<1>2. CASE TaskRequest(t)
  <2>1. HandlesHead'
    BY <1>0, <1>2, FleetAssumption DEF TaskRequest, Select, stored
  <2>2. QED
    BY <1>1, <1>2, <2>1 DEF TaskRequest, stored, robots
<1>3. CASE SubmitTask(t)
  <2>1. HandlesHead'
    BY <1>0, <1>3, FleetAssumption DEF SubmitTask, Select, stored
  <2>2. QED
    BY <1>1, <1>3, <2>1 DEF SubmitTask, stored, robots
<1>4. CASE Enqueue(t)
  <2>1. /\ incoming' \in Seq(AmqpTasks) /\ incoming' # <<>>
        /\ incoming # <<>> => Head(incoming') = Head(incoming)
    BY <1>4, AppendLemma DEF Enqueue
  <2>2. QED
    BY <1>4, <2>1 DEF Enqueue, memory, robots
<1>5. CASE Consume(t)
  <2>0. incoming # <<>> /\ Tail(incoming) \in Seq(AmqpTasks)
    BY <1>5, TailLemma DEF Consume
  <2>1. incoming' \in Seq(AmqpTasks)
    BY <1>5, <2>0 DEF Consume
  <2>2. t \in AmqpTasks
    BY <1>5, TailLemma DEF Consume
  <2>3. failed' \subseteq Letter
    BY <1>5, <2>2 DEF Consume, Letter, Tasks
  <2>4. /\ step' \in [Tasks -> Steps]
        /\ choice' \in [Tasks -> Robots \cup {NoRobot}]
        /\ \A u \in Tasks : step'[u] # "idle" => choice'[u] \in Robots
    BY <1>1, <1>5 DEF Consume
  <2>5. HandlesHead'
    BY <1>0, <1>5 DEF Consume, Select
  <2>6. QED
    BY <1>5, <2>1, <2>3, <2>4, <2>5 DEF Consume, robots, history
<1>6. QED
  BY <1>2, <1>3, <1>4, <1>5

(* Publishing, recording, acknowledging and answering.                     *)
LEMMA DispatchType ==
  ASSUME TypeInv, NEW t \in Tasks, Dispatch(t)
  PROVE  TypeInv'
<1> USE DEF TypeInv, FleetTypeOK, HandlerHasRobot, HandlesHead
<1>0. AmqpTasks \subseteq Tasks
  BY DEF Tasks
<1>1. CASE Publish(t)
  <2>1. choice[t] \in Robots
    BY <1>1 DEF Publish
  <2>2. /\ Append(waiting[choice[t]], t) \in Seq(Tasks)
        /\ Append(sent[t], choice[t]) \in Seq(Robots)
    BY <2>1, AppendLemma
  <2>3. waiting' \in [Robots -> Seq(Tasks)] /\ sent' \in [Tasks -> Seq(Robots)]
    BY <1>1, <2>1, <2>2 DEF Publish
  <2>4. step' \in [Tasks -> Steps] /\ choice' = choice
        /\ \A u \in Tasks : step'[u] # "idle" => choice'[u] \in Robots
    BY <1>1, <2>1 DEF Publish, Steps
  <2>5. HandlesHead'
    BY <1>0, <1>1 DEF Publish, stored
  <2>6. QED
    BY <1>1, <2>3, <2>4, <2>5 DEF Publish, stored
<1>2. CASE Store(t)
  <2>1. records' \in [Tasks -> Seq(Record)]
    BY <1>2, InsertLemma DEF Store
  <2>2. step' \in [Tasks -> Steps] /\ choice' = choice
        /\ \A u \in Tasks : step'[u] # "idle" => choice'[u] \in Robots
    BY <1>2 DEF Store, AfterRecord, Steps
  <2>3. HandlesHead'
    BY <1>0, <1>2 DEF Store
  <2>4. QED
    BY <1>2, <2>1, <2>2, <2>3 DEF Store, robots, history
<1>3. CASE StoreFails(t)
  <2>1. CASE Crash
    BY <2>1, CrashType
  <2>2. CASE ~Crash
    BY <1>0, <1>3, <2>2 DEF StoreFails, stored, robots, Steps
  <2>3. QED
    BY <2>1, <2>2
<1>4. CASE Acknowledge(t)
  <2>1. t = Head(incoming) /\ Tail(incoming) \in Seq(AmqpTasks)
    BY <1>4, TailLemma DEF Acknowledge
  <2>2. incoming' \in Seq(AmqpTasks)
    BY <1>4, <2>1 DEF Acknowledge
  <2>3. HandlesHead'
    BY <1>0, <1>4, <2>1 DEF Acknowledge
  <2>4. QED
    BY <1>4, <2>2, <2>3 DEF Acknowledge, robots, history, Steps
<1>5. CASE Answer(t)
  BY <1>0, <1>5 DEF Answer, stored, robots, Steps
<1>6. QED
  BY <1>1, <1>2, <1>3, <1>4, <1>5 DEF Dispatch

(* The callbacks of the ROS executor.                                      *)
LEMMA CallbackType ==
  ASSUME TypeInv, Callbacks
  PROVE  TypeInv'
<1> USE DEF TypeInv, FleetTypeOK, HandlerHasRobot, HandlesHead
<1>0. AmqpTasks \subseteq Tasks
  BY DEF Tasks
<1>1. CASE Crash
  BY <1>1, CrashType
<1>2. ASSUME ~Crash, NEW r \in Robots, RobotStatus(r)
      PROVE  TypeInv'
  BY <1>2 DEF RobotStatus, stored, robots, history
<1>3. ASSUME ~Crash, NEW r \in Robots, TaskCompletion(r)
      PROVE  TypeInv'
  <2> DEFINE c == Head(completions[r])
  <2>1. c \in Report /\ Tail(completions[r]) \in Seq(Report)
    BY <1>3, TailLemma DEF TaskCompletion
  <2>2. c.task \in Tasks /\ c.result \in Outcomes
    BY <2>1 DEF Report
  <2>3. Settle(c.task, c.result)
    BY <1>3 DEF TaskCompletion
  <2>4. records' \in [Tasks -> Seq(Record)]
    BY <2>2, <2>3, SettleLemma
  <2>5. /\ completions' \in [Robots -> Seq(Report)]
        /\ failing' \in Tasks \cup {NoTask}
    BY <1>3, <2>1, <2>2 DEF TaskCompletion
  <2>6. QED
    BY <1>3, <2>4, <2>5 DEF TaskCompletion, history
<1>4. ASSUME ~Crash, PublishFailed
      PROVE  TypeInv'
  BY <1>4 DEF PublishFailed, stored, robots, history, Letter
<1>5. QED
  BY <1>1, <1>2, <1>3, <1>4 DEF Callbacks

(* The robots. *)
LEMMA RobotType ==
  ASSUME TypeInv, NEW r \in Robots, Robot(r)
  PROVE  TypeInv'
<1> USE DEF TypeInv, FleetTypeOK, HandlerHasRobot, HandlesHead
<1>0. AmqpTasks \subseteq Tasks
  BY DEF Tasks
<1>1. CASE RobotTakes(r) \/ RobotAbandons(r)
  <2>1. Head(waiting[r]) \in Tasks /\ Tail(waiting[r]) \in Seq(Tasks)
    BY <1>1, TailLemma DEF RobotTakes, RobotAbandons
  <2>2. /\ waiting' = [waiting EXCEPT ![r] = Tail(waiting[r])]
        /\ held' = [held EXCEPT ![r] = Head(waiting[r])]
    BY <1>1 DEF RobotTakes, RobotAbandons
  <2>3. /\ waiting' \in [Robots -> Seq(Tasks)]
        /\ held' \in [Robots -> Tasks \cup {NoTask}]
    BY <2>1, <2>2
  <2>4. QED
    BY <1>1, <2>3 DEF RobotTakes, RobotAbandons, memory, stored, history
<1>2. CASE RobotCompletes(r)
  <2>1. ASSUME NEW result \in Outcomes
        PROVE  Append(completions[r], [task |-> held[r], result |-> result])
                 \in Seq(Report)
    BY <1>2, AppendLemma DEF RobotCompletes, Report
  <2>2. completions' \in [Robots -> Seq(Report)]
    BY <1>2, <2>1 DEF RobotCompletes
  <2>3. QED
    BY <1>2, <2>2 DEF RobotCompletes, memory, stored, history
<1>3. CASE RobotForgets(r)
  BY <1>3 DEF RobotForgets, memory, stored, history
<1>4. CASE RobotRestarts(r)
  BY <1>4 DEF RobotRestarts, memory, stored, history
<1>5. QED
  BY <1>1, <1>2, <1>3, <1>4 DEF Robot

LEMMA NextType == TypeInv /\ [Next]_vars => TypeInv'
<1> SUFFICES ASSUME TypeInv, [Next]_vars
             PROVE  TypeInv'
  OBVIOUS
<1>1. CASE Requests \/ \E t \in Tasks : Consume(t)
  BY <1>1, RequestType DEF Requests
<1>2. CASE \E t \in Tasks : Dispatch(t)
  BY <1>2, DispatchType
<1>3. CASE Callbacks
  BY <1>3, CallbackType
<1>4. CASE \E r \in Robots : Robot(r)
  BY <1>4, RobotType
<1>5. CASE Crash
  BY <1>5, CrashType DEF TypeInv
<1>6. CASE Restart \/ BrokerLost
  BY <1>6 DEF Restart, BrokerLost, TypeInv, FleetTypeOK, HandlerHasRobot,
              HandlesHead, stored, robots, history
<1>7. CASE UNCHANGED vars
  BY <1>7 DEF vars, memory, stored, robots, history, TypeInv, FleetTypeOK,
              HandlerHasRobot, HandlesHead
<1>8. QED
  BY <1>1, <1>2, <1>3, <1>4, <1>5, <1>6, <1>7 DEF Next

LEMMA TypeInvariant == Spec => []TypeInv
BY InitType, NextType, PTL DEF Spec

(* Every variable keeps its type, so a handler that publishes has a robot  *)
(* to publish to and the store holds well-formed documents.                *)
THEOREM TypeCorrect == Spec => []FleetTypeOK
<1>1. TypeInv => FleetTypeOK
  BY DEF TypeInv
<1>2. QED
  BY <1>1, TypeInvariant, PTL

(***************************************************************************)
(* The steps of the server, by what they do to requests and records.  The  *)
(* robots, the statuses they send, a restart and the loss of the broker    *)
(* leave both alone.                                                       *)
(***************************************************************************)

Quiet ==
  /\ UNCHANGED <<step, choice, records, incoming, failed, crashes, submitted,
                 sent, reply>>
  /\ connected' \/ ~up' => connected \/ ~up

(* A SubmitTask ends with an error because insert_task threw. *)
RpcFails(t) ==
  /\ t \in RpcTasks /\ step[t] = "published"
  /\ reply' = [reply EXCEPT ![t] = "error"]
  /\ step' = [step EXCEPT ![t] = "idle"]
  /\ UNCHANGED <<up, connected, choice, records, incoming, failed, crashes,
                 submitted, sent>>

(* A completion is written to the store. *)
Settles(t, result) ==
  /\ Settle(t, result)
  /\ UNCHANGED <<up, connected, step, choice, incoming, failed, crashes,
                 submitted, sent, reply>>

(* A dead letter is added. *)
LetterAdded ==
  /\ failed \subseteq failed'
  /\ UNCHANGED <<up, connected, step, choice, records, incoming, crashes,
                 submitted, sent, reply>>

LEMMA StepCases ==
  ASSUME TypeInv, [Next]_vars
  PROVE  \/ Crash \/ Quiet \/ LetterAdded
         \/ \E t \in Tasks :
              \/ TaskRequest(t) \/ SubmitTask(t) \/ Enqueue(t) \/ Consume(t)
              \/ Publish(t) \/ Store(t) \/ RpcFails(t) \/ Acknowledge(t)
              \/ Answer(t)
              \/ \E result \in Outcomes : Settles(t, result)
<1> SUFFICES ASSUME ~Crash
             PROVE  \/ Quiet \/ LetterAdded
                    \/ \E t \in Tasks :
                         \/ TaskRequest(t) \/ SubmitTask(t) \/ Enqueue(t)
                         \/ Consume(t) \/ Publish(t) \/ Store(t) \/ RpcFails(t)
                         \/ Acknowledge(t) \/ Answer(t)
                         \/ \E result \in Outcomes : Settles(t, result)
  OBVIOUS
<1>1. ASSUME NEW t \in Tasks, Dispatch(t)
      PROVE  \/ Publish(t) \/ Store(t) \/ RpcFails(t) \/ Acknowledge(t)
             \/ Answer(t)
  BY <1>1 DEF Dispatch, StoreFails, RpcFails, stored
<1>2. ASSUME NEW r \in Robots, TaskCompletion(r)
      PROVE  \E t \in Tasks, result \in Outcomes : Settles(t, result)
  <2>1. Head(completions[r]) \in Report
    BY <1>2, TailLemma DEF TaskCompletion, TypeInv, FleetTypeOK
  <2>2. /\ Head(completions[r]).task \in Tasks
        /\ Head(completions[r]).result \in Outcomes
    BY <2>1 DEF Report
  <2>3. Settles(Head(completions[r]).task, Head(completions[r]).result)
    BY <1>2 DEF TaskCompletion, Settles, history
  <2>4. QED
    BY <2>2, <2>3
<1>3. ASSUME NEW r \in Robots, RobotStatus(r)
      PROVE  Quiet
  BY <1>3 DEF RobotStatus, Quiet, stored, robots, history
<1>4. PublishFailed => LetterAdded \/ Quiet
  BY DEF PublishFailed, LetterAdded, Quiet, stored, robots, history
<1>5. ASSUME NEW r \in Robots, Robot(r)
      PROVE  Quiet
  BY <1>5 DEF Robot, RobotTakes, RobotCompletes, RobotAbandons, RobotForgets,
              RobotRestarts, Quiet, memory, stored, history
<1>6. Restart \/ BrokerLost => Quiet
  BY DEF Restart, BrokerLost, Quiet, stored, robots, history
<1>7. UNCHANGED vars => Quiet
  BY DEF Quiet, vars, memory, stored, robots, history
<1>8. QED
  BY <1>1, <1>2, <1>3, <1>4, <1>5, <1>6, <1>7
     DEF Next, Requests, Callbacks

(***************************************************************************)
(* The store                                                               *)
(***************************************************************************)

(* A final status stays final: insert_task adds behind the document        *)
(* find_task reads, and update_task_completion writes a final status.      *)
LEMMA SettledStays ==
  ASSUME TypeInv, [Next]_vars, NEW u \in Tasks, Settled(u)
  PROVE  Settled(u)'
<1> USE DEF TypeInv, FleetTypeOK
<1>1. records[u] # <<>>
  BY DEF Settled, FindTask, Outcomes
<1>2. CASE UNCHANGED records
  BY <1>2 DEF Settled, FindTask
<1>3. ASSUME NEW t \in Tasks, Store(t)
      PROVE  Settled(u)'
  <2>1. Insert(t) /\ choice[t] \in Robots
    BY <1>3 DEF Store, HandlerHasRobot
  <2>2. records'[u] # <<>> /\ records'[u][1] = records[u][1]
    <3>1. CASE u = t
      BY <3>1, <1>1, <2>1, InsertLemma
    <3>2. CASE u # t
      BY <3>2, <1>1, <2>1, InsertLemma
    <3>3. QED
      BY <3>1, <3>2
  <2>3. QED
    BY <1>1, <2>2 DEF Settled, FindTask
<1>4. ASSUME NEW t \in Tasks, NEW result \in Outcomes, Settles(t, result)
      PROVE  Settled(u)'
  BY <1>4, SettleLemma DEF Settles
<1>5. ASSUME Crash \/ Quiet \/ LetterAdded
      PROVE  UNCHANGED records
  BY <1>5 DEF Crash, Quiet, LetterAdded, stored
<1>6. ASSUME NEW t \in Tasks,
             \/ TaskRequest(t) \/ SubmitTask(t) \/ Enqueue(t) \/ Consume(t)
             \/ Publish(t) \/ RpcFails(t) \/ Acknowledge(t) \/ Answer(t)
      PROVE  UNCHANGED records
  BY <1>6 DEF TaskRequest, SubmitTask, Enqueue, Consume, Publish, RpcFails,
              Acknowledge, Answer, stored
<1>7. QED
  BY <1>2, <1>3, <1>4, <1>5, <1>6, StepCases

(* Once a task is recorded as ended, GetTaskStatus says so for ever,       *)
(* whatever crashes, is delivered again or is completed twice.             *)
THEOREM FinalStatusIsFinal == Spec => TerminalIsFinal
<1>1. TypeInv /\ [Next]_vars
        => [\A t \in Tasks : Settled(t) => Settled(t)']_vars
  BY SettledStays
<1>2. QED
  BY <1>1, TypeInvariant, PTL DEF Spec, TerminalIsFinal

(* No step removes the documents of a task, a dead letter or a robot an    *)
(* assignment was published to.                                            *)
LEMMA NothingIsTakenBack ==
  ASSUME TypeInv, [Next]_vars
  PROVE  /\ \A u \in Tasks : records[u] # <<>> => records'[u] # <<>>
         /\ failed \subseteq failed'
         /\ \A u \in Tasks : ToSet(sent[u]) \subseteq ToSet(sent'[u])
<1> USE DEF TypeInv, FleetTypeOK
<1>1. CASE Crash \/ Quiet \/ LetterAdded
  BY <1>1 DEF Crash, Quiet, LetterAdded, stored
<1>2. ASSUME NEW t \in Tasks,
             \/ TaskRequest(t) \/ SubmitTask(t) \/ Enqueue(t) \/ Consume(t)
             \/ RpcFails(t) \/ Acknowledge(t) \/ Answer(t)
      PROVE  UNCHANGED <<records, sent>> /\ failed \subseteq failed'
  BY <1>2 DEF TaskRequest, SubmitTask, Enqueue, Consume, RpcFails, Acknowledge,
              Answer, stored, history
<1>3. ASSUME NEW t \in Tasks, Publish(t)
      PROVE  /\ UNCHANGED <<records, failed>>
             /\ \A u \in Tasks : ToSet(sent[u]) \subseteq ToSet(sent'[u])
  <2>1. choice[t] \in Robots
    BY <1>3 DEF Publish, HandlerHasRobot
  <2>2. ToSet(Append(sent[t], choice[t])) = ToSet(sent[t]) \cup {choice[t]}
    BY <2>1, AppendLemma
  <2>3. QED
    BY <1>3, <2>2 DEF Publish, stored
<1>4. ASSUME NEW t \in Tasks, Store(t)
      PROVE  /\ UNCHANGED <<failed, sent>>
             /\ \A u \in Tasks : records[u] # <<>> => records'[u] # <<>>
  <2>1. Insert(t) /\ choice[t] \in Robots
    BY <1>4 DEF Store, HandlerHasRobot
  <2>2. /\ \A u \in Tasks \ {t} : records'[u] = records[u]
        /\ records'[t] # <<>>
    BY <2>1, InsertLemma
  <2>3. QED
    BY <1>4, <2>2 DEF Store, history
<1>5. ASSUME NEW t \in Tasks, NEW result \in Outcomes, Settles(t, result)
      PROVE  /\ UNCHANGED <<failed, sent>>
             /\ \A u \in Tasks : records[u] # <<>> => records'[u] # <<>>
  BY <1>5, SettleLemma DEF Settles
<1>6. QED
  BY <1>1, <1>2, <1>3, <1>4, <1>5, StepCases

(***************************************************************************)
(* Messages and answers                                                    *)
(***************************************************************************)

(* The strengthening: a message is acknowledged, and an RPC answered, only *)
(* by a handler that has recorded the task.                                *)
RecordedHasRecord ==
  \A t \in Tasks : step[t] = "recorded" => records[t] # <<>>

LEMMA RecordedStep ==
  ASSUME TypeInv, [Next]_vars, RecordedHasRecord
  PROVE  RecordedHasRecord'
<1> USE DEF TypeInv, FleetTypeOK
<1>1. SUFFICES ASSUME NEW u \in Tasks, step'[u] = "recorded",
                      step[u] # "recorded"
               PROVE  records'[u] # <<>>
  BY NothingIsTakenBack DEF RecordedHasRecord
<1>2. CASE Crash \/ Quiet \/ LetterAdded
  BY <1>1, <1>2 DEF Crash, Quiet, LetterAdded
<1>3. ASSUME NEW t \in Tasks,
             \/ TaskRequest(t) \/ SubmitTask(t) \/ Enqueue(t) \/ Consume(t)
             \/ Publish(t) \/ RpcFails(t) \/ Acknowledge(t) \/ Answer(t)
      PROVE  step'[u] = "recorded" => step[u] = "recorded"
  BY <1>3 DEF TaskRequest, SubmitTask, Enqueue, Consume, Publish, RpcFails,
              Acknowledge, Answer, Select, memory
<1>4. ASSUME NEW t \in Tasks, Store(t)
      PROVE  records'[u] # <<>>
  <2>1. Insert(t) /\ choice[t] \in Robots /\ t = u
    BY <1>1, <1>4 DEF Store, HandlerHasRobot
  <2>2. QED
    BY <2>1, InsertLemma
<1>5. ASSUME NEW t \in Tasks, NEW result \in Outcomes, Settles(t, result)
      PROVE  step'[u] = step[u]
  BY <1>5 DEF Settles
<1>6. QED
  BY <1>1, <1>2, <1>3, <1>4, <1>5, StepCases

LEMMA MessageStep ==
  ASSUME TypeInv, [Next]_vars, RecordedHasRecord, MessageIsKept
  PROVE  MessageIsKept'
<1> USE DEF TypeInv, FleetTypeOK
<1>1. SUFFICES ASSUME NEW u \in AmqpTasks, u \in submitted'
               PROVE  \/ u \in ToSet(incoming')
                      \/ Rejected(u) \in failed'
                      \/ records'[u] # <<>>
  BY DEF MessageIsKept, Rejected
<1>2. u \in Tasks
  BY DEF Tasks
<1>3. CASE u \in submitted /\ ToSet(incoming) \subseteq ToSet(incoming')
  BY <1>2, <1>3, NothingIsTakenBack DEF MessageIsKept
<1>4. ASSUME NEW t \in Tasks, Enqueue(t)
      PROVE  \/ u \in ToSet(incoming')
             \/ u \in submitted /\ ToSet(incoming) \subseteq ToSet(incoming')
  <2>1. ToSet(incoming') = ToSet(incoming) \cup {t}
    BY <1>4, AppendLemma DEF Enqueue
  <2>2. QED
    BY <1>1, <1>4, <2>1 DEF Enqueue
<1>5. ASSUME NEW t \in Tasks, Consume(t)
      PROVE  \/ u \in submitted /\ ToSet(incoming) \subseteq ToSet(incoming')
             \/ u \in submitted /\ u \in ToSet(incoming')
             \/ Rejected(u) \in failed' \/ records'[u] # <<>>
  <2>1. ToSet(incoming) = {t} \cup ToSet(Tail(incoming)) /\ UNCHANGED submitted
    BY <1>5, TailLemma DEF Consume, history
  <2>2. CASE incoming' = Tail(incoming) /\ Rejected(t) \in failed'
    BY <1>1, <1>2, <2>1, <2>2, NothingIsTakenBack DEF MessageIsKept
  <2>3. CASE UNCHANGED incoming
    BY <1>1, <2>1, <2>3
  <2>4. QED
    BY <1>5, <2>2, <2>3 DEF Consume, Rejected
<1>6. ASSUME NEW t \in Tasks, Acknowledge(t)
      PROVE  \/ u \in submitted /\ ToSet(incoming) \subseteq ToSet(incoming')
             \/ u \in submitted /\ u \in ToSet(incoming')
             \/ Rejected(u) \in failed' \/ records'[u] # <<>>
  <2>0. ToSet(incoming) = {t} \cup ToSet(Tail(incoming)) /\ UNCHANGED submitted
    BY <1>6, TailLemma DEF Acknowledge, history, HandlesHead
  <2>1. /\ ToSet(incoming) = {t} \cup ToSet(Tail(incoming))
        /\ UNCHANGED submitted /\ records'[t] # <<>>
    BY <1>6, <2>0, NothingIsTakenBack DEF Acknowledge, RecordedHasRecord
  <2>2. CASE incoming' = Tail(incoming)
    BY <1>1, <1>2, <2>1, <2>2, NothingIsTakenBack DEF MessageIsKept
  <2>3. CASE UNCHANGED incoming
    BY <1>1, <2>1, <2>3
  <2>4. QED
    BY <1>6, <2>2, <2>3 DEF Acknowledge
<1>7. ASSUME Crash \/ Quiet \/ LetterAdded
      PROVE  UNCHANGED <<incoming, submitted>>
  BY <1>7 DEF Crash, Quiet, LetterAdded, stored
<1>8. ASSUME NEW t \in Tasks,
             \/ TaskRequest(t) \/ SubmitTask(t) \/ Publish(t) \/ Store(t)
             \/ RpcFails(t) \/ Answer(t)
             \/ \E result \in Outcomes : Settles(t, result)
      PROVE  UNCHANGED incoming /\ u \in submitted
  BY <1>1, <1>8, FleetAssumption
     DEF TaskRequest, SubmitTask, Publish, Store, RpcFails, Answer, Settles,
         stored, history
<1>9. QED
  BY <1>1, <1>3, <1>4, <1>5, <1>6, <1>7, <1>8, StepCases

LEMMA AnswerStep ==
  ASSUME TypeInv, [Next]_vars, RecordedHasRecord, AcceptedIsRecorded
  PROVE  AcceptedIsRecorded'
<1> USE DEF TypeInv, FleetTypeOK
<1>1. SUFFICES ASSUME NEW u \in RpcTasks, reply'[u] = "accepted"
               PROVE  FindTask(u)' # "not found"
  BY DEF AcceptedIsRecorded
<1>2. u \in Tasks
  BY DEF Tasks
<1>3. ASSUME records[u] # <<>>
      PROVE  FindTask(u)' # "not found"
  <2>1. records'[u] # <<>>
    BY <1>2, <1>3, NothingIsTakenBack
  <2>2. records' \in [Tasks -> Seq(Record)]
    BY NextType
  <2>3. records'[u][1] \in Record
    BY <1>2, <2>1, <2>2
  <2>4. records'[u][1].status \in Outcomes \cup {"ASSIGNED"}
    BY <2>3 DEF Record
  <2>5. QED
    BY <2>1, <2>4 DEF FindTask, Outcomes
<1>4. CASE reply[u] = "accepted"
  BY <1>3, <1>4 DEF AcceptedIsRecorded, FindTask
<1>5. CASE reply[u] # "accepted"
  <2>1. ASSUME Crash \/ Quiet \/ LetterAdded
        PROVE  FALSE
    BY <1>1, <1>5, <2>1 DEF Crash, Quiet, LetterAdded
  <2>2. ASSUME NEW t \in Tasks,
               \/ TaskRequest(t) \/ SubmitTask(t) \/ Enqueue(t) \/ Consume(t)
               \/ Publish(t) \/ Store(t) \/ RpcFails(t) \/ Acknowledge(t)
               \/ \E result \in Outcomes : Settles(t, result)
        PROVE  FALSE
    BY <1>1, <1>5, <2>2
       DEF TaskRequest, SubmitTask, Enqueue, Consume, Publish, Store, RpcFails,
           Acknowledge, Settles, history
  <2>3. ASSUME NEW t \in Tasks, Answer(t)
        PROVE  records[u] # <<>>
    BY <1>1, <1>2, <1>5, <2>3 DEF Answer, RecordedHasRecord
  <2>4. QED
    BY <1>3, <2>1, <2>2, <2>3, StepCases
<1>6. QED
  BY <1>4, <1>5

LEMMA KeptInvariant ==
  Spec => [](TypeInv /\ RecordedHasRecord /\ MessageIsKept
               /\ AcceptedIsRecorded)
<1>1. Init => RecordedHasRecord /\ MessageIsKept /\ AcceptedIsRecorded
  <2>1. AmqpTasks \subseteq Tasks /\ RpcTasks \subseteq Tasks
    BY DEF Tasks
  <2>2. QED
    BY <2>1 DEF Init, RecordedHasRecord, MessageIsKept, AcceptedIsRecorded
<1>2. QED
  BY <1>1, TypeInvariant, RecordedStep, MessageStep, AnswerStep, PTL DEF Spec

(* No message is lost: at whatever step the process ends, a message is in  *)
(* tasks.incoming, in tasks.failed, or its assignment is in MongoDB.       *)
THEOREM NoMessageIsLost == Spec => []MessageIsKept
BY KeptInvariant, PTL

(* A client that was told "accepted" finds its task.                       *)
THEOREM AcceptedIsAlwaysRecorded == Spec => []AcceptedIsRecorded
BY KeptInvariant, PTL

(***************************************************************************)
(* Sends                                                                   *)
(***************************************************************************)

(* The strengthening of RecordNamesRobot: what dispatch_assignment inserts *)
(* names the robot it has just published to.                               *)
PublishedIsSent ==
  \A t \in Tasks : step[t] = "published" => choice[t] \in ToSet(sent[t])

LEMMA PublishedStep ==
  ASSUME TypeInv, [Next]_vars, PublishedIsSent
  PROVE  PublishedIsSent'
<1> USE DEF TypeInv, FleetTypeOK
<1>1. SUFFICES ASSUME NEW u \in Tasks, step'[u] = "published"
               PROVE  choice'[u] \in ToSet(sent'[u])
  BY DEF PublishedIsSent
<1>2. CASE step[u] = "published" /\ choice'[u] = choice[u]
  BY <1>2, NothingIsTakenBack DEF PublishedIsSent
<1>3. ASSUME Crash \/ Quiet \/ LetterAdded
      PROVE  step[u] = "published" /\ choice'[u] = choice[u]
  BY <1>1, <1>3 DEF Crash, Quiet, LetterAdded
<1>4. ASSUME NEW t \in Tasks,
             \/ TaskRequest(t) \/ SubmitTask(t) \/ Enqueue(t) \/ Consume(t)
             \/ Store(t) \/ RpcFails(t) \/ Acknowledge(t) \/ Answer(t)
             \/ \E result \in Outcomes : Settles(t, result)
      PROVE  step[u] = "published" /\ choice'[u] = choice[u]
  BY <1>1, <1>4
     DEF TaskRequest, SubmitTask, Enqueue, Consume, Store, AfterRecord,
         RpcFails, Acknowledge, Answer, Settles, Select, memory
<1>5. ASSUME NEW t \in Tasks, Publish(t)
      PROVE  \/ step[u] = "published" /\ choice'[u] = choice[u]
             \/ choice'[u] \in ToSet(sent'[u])
  <2>1. choice[t] \in Robots
    BY <1>5 DEF Publish, HandlerHasRobot
  <2>2. ToSet(Append(sent[t], choice[t])) = ToSet(sent[t]) \cup {choice[t]}
    BY <2>1, AppendLemma
  <2>3. QED
    BY <1>1, <1>5, <2>2 DEF Publish
<1>6. QED
  BY <1>2, <1>3, <1>4, <1>5, StepCases

LEMMA RecordStep ==
  ASSUME TypeInv, [Next]_vars, PublishedIsSent, RecordNamesRobot
  PROVE  RecordNamesRobot'
<1> USE DEF TypeInv, FleetTypeOK
<1>1. SUFFICES ASSUME NEW u \in Tasks, NEW i \in DOMAIN records'[u]
               PROVE  records'[u][i].robot \in ToSet(sent[u])
  BY NothingIsTakenBack DEF RecordNamesRobot
<1>2. CASE UNCHANGED records
  BY <1>2 DEF RecordNamesRobot
<1>3. ASSUME NEW t \in Tasks, Store(t)
      PROVE  records'[u][i].robot \in ToSet(sent[u])
  <2>1. Insert(t) /\ choice[t] \in Robots /\ choice[t] \in ToSet(sent[t])
    BY <1>3 DEF Store, HandlerHasRobot, PublishedIsSent
  <2>2. CASE u = t
    <3>1. records'[u][i].robot \in
            {records[u][j].robot : j \in DOMAIN records[u]} \cup {choice[u]}
      BY <2>1, <2>2, InsertLemma
    <3>2. QED
      BY <2>1, <2>2, <3>1 DEF RecordNamesRobot
  <2>3. CASE u # t
    <3>1. records'[u] = records[u]
      BY <2>1, <2>3, InsertLemma
    <3>2. QED
      BY <3>1 DEF RecordNamesRobot
  <2>4. QED
    BY <2>2, <2>3
<1>4. ASSUME NEW t \in Tasks, NEW result \in Outcomes, Settles(t, result)
      PROVE  records'[u][i].robot \in ToSet(sent[u])
  <2>1. i \in DOMAIN records[u] /\ records'[u][i].robot = records[u][i].robot
    BY <1>4, SettleLemma DEF Settles
  <2>2. QED
    BY <2>1 DEF RecordNamesRobot
<1>5. ASSUME Crash \/ Quiet \/ LetterAdded
      PROVE  UNCHANGED records
  BY <1>5 DEF Crash, Quiet, LetterAdded, stored
<1>6. ASSUME NEW t \in Tasks,
             \/ TaskRequest(t) \/ SubmitTask(t) \/ Enqueue(t) \/ Consume(t)
             \/ Publish(t) \/ RpcFails(t) \/ Acknowledge(t) \/ Answer(t)
      PROVE  UNCHANGED records
  BY <1>6 DEF TaskRequest, SubmitTask, Enqueue, Consume, Publish, RpcFails,
              Acknowledge, Answer, stored
<1>7. QED
  BY <1>2, <1>3, <1>4, <1>5, <1>6, StepCases

(* A document names a robot the assignment was really published to.        *)
THEOREM RecordsNameRobots == Spec => []RecordNamesRobot
<1>1. Init => PublishedIsSent /\ RecordNamesRobot
  BY DEF Init, PublishedIsSent, RecordNamesRobot
<1>2. QED
  BY <1>1, TypeInvariant, PublishedStep, RecordStep, PTL DEF Spec

(* Two strengthenings of RefusedNeverSent: nothing has happened to a       *)
(* request that was not made, and a refused one has no handler any more.   *)
NotYetRequested ==
  \A t \in Tasks \ submitted :
    /\ step[t] = "idle" /\ sent[t] = <<>> /\ t \notin ToSet(incoming)
    /\ t \in RpcTasks => reply[t] = "none"

RefusedIsOver ==
  \A t \in RpcTasks :
    reply[t] = "refused" => step[t] = "idle" /\ t \in submitted

RequestInv == NotYetRequested /\ RefusedIsOver /\ RefusedNeverSent

LEMMA RequestStep ==
  ASSUME TypeInv, [Next]_vars, RequestInv
  PROVE  RequestInv'
<1> USE DEF TypeInv, FleetTypeOK
<1>0. AmqpTasks \subseteq Tasks /\ RpcTasks \subseteq Tasks
  BY DEF Tasks
<1>1. CASE Crash
  BY <1>0, <1>1 DEF Crash, stored, RequestInv, NotYetRequested, RefusedIsOver,
               RefusedNeverSent
<1>2. CASE \/ Quiet \/ LetterAdded
           \/ \E t \in Tasks, result \in Outcomes : Settles(t, result)
  BY <1>2 DEF Quiet, LetterAdded, Settles, RequestInv, NotYetRequested,
              RefusedIsOver, RefusedNeverSent
<1>3. ASSUME NEW t \in Tasks, TaskRequest(t) \/ SubmitTask(t)
      PROVE  RequestInv'
  <2>1. /\ t \notin submitted /\ submitted' = submitted \cup {t}
        /\ UNCHANGED <<sent, incoming>>
        /\ \A u \in Tasks \ {t} : step'[u] = step[u]
        /\ \A u \in RpcTasks \ {t} : reply'[u] = reply[u]
        /\ t \in RpcTasks /\ reply'[t] = "refused" /\ reply[t] # "refused"
             => step'[t] = step[t]
    BY <1>3, FleetAssumption DEF TaskRequest, SubmitTask, Select, stored
  <2>2. step[t] = "idle" /\ sent[t] = <<>>
        /\ (t \in RpcTasks => reply[t] = "none")
    BY <2>1 DEF RequestInv, NotYetRequested
  <2>3. QED
    BY <1>0, <2>1, <2>2 DEF RequestInv, NotYetRequested, RefusedIsOver,
                            RefusedNeverSent
<1>4. ASSUME NEW t \in Tasks, Enqueue(t)
      PROVE  RequestInv'
  <2>1. ToSet(incoming') = ToSet(incoming) \cup {t}
    BY <1>4, AppendLemma DEF Enqueue
  <2>2. QED
    BY <1>4, <2>1 DEF Enqueue, memory, RequestInv, NotYetRequested,
                      RefusedIsOver, RefusedNeverSent
<1>5. ASSUME NEW t \in Tasks, Consume(t) \/ Acknowledge(t)
      PROVE  RequestInv'
  <2>1. ToSet(incoming) = {t} \cup ToSet(Tail(incoming))
    BY <1>5, TailLemma DEF Consume, Acknowledge, HandlesHead
  <2>2. t \in submitted
    BY <2>1 DEF RequestInv, NotYetRequested
  <2>3. /\ t \in AmqpTasks /\ UNCHANGED <<sent, submitted, reply>>
        /\ incoming' \in {incoming, Tail(incoming)}
        /\ \A u \in Tasks \ {t} : step'[u] = step[u]
    BY <1>5, TailLemma DEF Consume, Acknowledge, Select, history
  <2>4. \A u \in RpcTasks : step'[u] = step[u]
    BY <1>0, <2>3, FleetAssumption
  <2>5. QED
    BY <2>1, <2>2, <2>3, <2>4 DEF RequestInv, NotYetRequested, RefusedIsOver,
                                  RefusedNeverSent
<1>6. ASSUME NEW t \in Tasks,
             Publish(t) \/ Store(t) \/ RpcFails(t) \/ Answer(t)
      PROVE  RequestInv'
  <2>1. /\ step[t] # "idle" /\ UNCHANGED <<submitted, incoming>>
        /\ \A u \in Tasks \ {t} : step'[u] = step[u] /\ sent'[u] = sent[u]
        /\ \A u \in RpcTasks \ {t} : reply'[u] = reply[u]
        /\ t \in RpcTasks => reply'[t] \in {reply[t], "error", "accepted"}
    BY <1>6 DEF Publish, Store, RpcFails, Answer, stored, history
  <2>2. t \in submitted /\ (t \in RpcTasks => reply[t] # "refused")
    BY <2>1 DEF RequestInv, NotYetRequested, RefusedIsOver
  <2>3. QED
    BY <1>0, <2>1, <2>2 DEF RequestInv, NotYetRequested, RefusedIsOver,
                            RefusedNeverSent
<1>7. QED
  BY <1>1, <1>2, <1>3, <1>4, <1>5, <1>6, StepCases

LEMMA RequestInvariant == Spec => [](TypeInv /\ RequestInv)
<1>1. Init => RequestInv
  <2>1. RpcTasks \subseteq Tasks
    BY DEF Tasks
  <2>2. QED
    BY <2>1 DEF Init, RequestInv, NotYetRequested, RefusedIsOver,
                RefusedNeverSent, ToSet
<1>2. QED
  BY <1>1, TypeInvariant, RequestStep, PTL DEF Spec

(* A client told "No IDLE robot available" may submit again: no robot was  *)
(* sent the task, and none ever will be under that answer.                 *)
THEOREM RefusedIsNeverSent == Spec => []RefusedNeverSent
<1>1. RequestInv => RefusedNeverSent
  BY DEF RequestInv
<1>2. QED
  BY <1>1, RequestInvariant, PTL

(***************************************************************************)
(* How often a task is published                                           *)
(***************************************************************************)

(* This life of the process may still publish t: its handler has selected  *)
(* a robot, or its message waits on a connection that works.  A message    *)
(* that was handled and not acknowledged waits for the next life.          *)
MaySend(t) ==
  \/ step[t] = "selected"
  \/ /\ t \in AmqpTasks /\ step[t] = "idle"
     /\ t \in ToSet(incoming)
     /\ connected \/ ~up

(* The strengthening of SentOncePerLife: a task that may still be          *)
(* published has used up no more than the earlier lives.                   *)
SendBound ==
  \A t \in Tasks :
    /\ Len(sent[t]) <= crashes + 1
    /\ MaySend(t) => Len(sent[t]) <= crashes

(* Two facts it rests on: a message is in the queue once, and a process    *)
(* that does not run has no handlers.                                      *)
QueueInv ==
  /\ IsInjective(incoming)
  /\ ~up => \A t \in Tasks : step[t] = "idle"

LEMMA QueueStep ==
  ASSUME TypeInv, [Next]_vars, RequestInv, QueueInv
  PROVE  QueueInv'
<1> USE DEF TypeInv, FleetTypeOK
<1>1. IsInjective(incoming')
  <2>1. CASE UNCHANGED incoming
    BY <2>1 DEF QueueInv
  <2>2. ASSUME NEW t \in Tasks, Enqueue(t)
        PROVE  IsInjective(incoming')
    <3>1. t \notin ToSet(incoming)
      BY <2>2 DEF Enqueue, RequestInv, NotYetRequested
    <3>2. QED
      BY <2>2, <3>1, InjectiveLemma DEF Enqueue, QueueInv
  <2>3. ASSUME NEW t \in Tasks, Consume(t) \/ Acknowledge(t)
        PROVE  IsInjective(incoming')
    BY <2>3, InjectiveLemma DEF Consume, Acknowledge, HandlesHead, QueueInv
  <2>4. ASSUME NEW t \in Tasks,
               \/ TaskRequest(t) \/ SubmitTask(t) \/ Publish(t) \/ Store(t)
               \/ RpcFails(t) \/ Answer(t)
               \/ \E result \in Outcomes : Settles(t, result)
        PROVE  UNCHANGED incoming
    BY <2>4 DEF TaskRequest, SubmitTask, Publish, Store, RpcFails, Answer,
                Settles, stored
  <2>5. Crash \/ Quiet \/ LetterAdded => UNCHANGED incoming
    BY DEF Crash, Quiet, LetterAdded, stored
  <2>6. QED
    BY <2>1, <2>2, <2>3, <2>4, <2>5, StepCases
<1>2. ASSUME ~up', NEW u \in Tasks
      PROVE  step'[u] = "idle"
  <2>1. CASE Crash
    BY <2>1 DEF Crash
  <2>2. CASE UNCHANGED <<up, step>>
    BY <1>2, <2>2 DEF QueueInv
  <2>3. ASSUME NEW t \in Tasks, Dispatch(t), ~Crash
        PROVE  step'[u] = "idle"
    <3>1. UNCHANGED up /\ step[t] # "idle"
      BY <2>3 DEF Dispatch, Publish, Store, StoreFails, Acknowledge, Answer
    <3>2. QED
      BY <1>2, <3>1 DEF QueueInv
  <2>4. ASSUME NEW t \in Tasks,
               TaskRequest(t) \/ SubmitTask(t) \/ Enqueue(t) \/ Consume(t)
        PROVE  UNCHANGED <<up, step>>
    BY <1>2, <2>4 DEF TaskRequest, SubmitTask, Enqueue, Consume, RosFree,
                      memory
  <2>5. Restart \/ BrokerLost \/ (Callbacks /\ ~Crash)
          \/ (\E r \in Robots : Robot(r)) \/ UNCHANGED vars
          => up' \/ UNCHANGED <<up, step>>
    BY DEF Restart, BrokerLost, Callbacks, RobotStatus, TaskCompletion,
           PublishFailed, Robot, RobotTakes, RobotCompletes, RobotAbandons,
           RobotForgets, RobotRestarts, memory, vars
  <2>6. QED
    BY <1>2, <2>1, <2>2, <2>3, <2>4, <2>5 DEF Next, Requests
<1>3. QED
  BY <1>1, <1>2 DEF QueueInv

(* Only a request makes a task one that may be published.                  *)
LEMMA MaySendStep ==
  ASSUME TypeInv, [Next]_vars, RequestInv, QueueInv, ~Crash, NEW u \in Tasks
  PROVE  MaySend(u)' => MaySend(u) \/ u \notin submitted
<1> USE DEF TypeInv, FleetTypeOK
<1>1. CASE MaySend(u)' => MaySend(u)
  BY <1>1
<1>2. ASSUME Quiet \/ LetterAdded
             \/ \E t \in Tasks, result \in Outcomes : Settles(t, result)
      PROVE  MaySend(u)' => MaySend(u)
  BY <1>2 DEF Quiet, LetterAdded, Settles, MaySend
<1>3. ASSUME NEW t \in Tasks, TaskRequest(t) \/ SubmitTask(t) \/ Enqueue(t)
      PROVE  MaySend(u)' => MaySend(u) \/ u \notin submitted
  <2>1. UNCHANGED <<up, connected>> /\ t \notin submitted
    BY <1>3 DEF TaskRequest, SubmitTask, Enqueue, memory
  <2>2. ToSet(incoming') \subseteq ToSet(incoming) \cup {t}
    <3>1. CASE Enqueue(t)
      BY <3>1, AppendLemma DEF Enqueue
    <3>2. CASE UNCHANGED incoming
      BY <3>2
    <3>3. QED
      BY <1>3, <3>1, <3>2 DEF TaskRequest, SubmitTask, stored
  <2>3. u # t => step'[u] = step[u]
    BY <1>3 DEF TaskRequest, SubmitTask, Enqueue, Select, memory
  <2>4. QED
    BY <2>1, <2>2, <2>3 DEF MaySend
<1>4. ASSUME NEW t \in Tasks, Consume(t)
      PROVE  MaySend(u)' => MaySend(u)
  <2>1. /\ ToSet(incoming) = {t} \cup ToSet(Tail(incoming))
        /\ t \in AmqpTasks
    BY <1>4, TailLemma DEF Consume
  <2>2. MaySend(t)
    BY <1>4, <2>1 DEF Consume, MaySend
  <2>3. /\ UNCHANGED <<up, connected>>
        /\ ToSet(incoming') \subseteq ToSet(incoming)
        /\ u # t => step'[u] = step[u]
    BY <1>4, <2>1 DEF Consume, Select, history
  <2>4. QED
    BY <2>2, <2>3 DEF MaySend
<1>5. ASSUME NEW t \in Tasks,
             Publish(t) \/ Store(t) \/ RpcFails(t) \/ Answer(t)
      PROVE  MaySend(u)' => MaySend(u)
  <2>1. /\ UNCHANGED <<up, connected, incoming>>
        /\ u # t => step'[u] = step[u]
        /\ step'[t] # "selected" /\ (step'[t] = "idle" => t \notin AmqpTasks)
    BY <1>5, FleetAssumption
       DEF Publish, Store, AfterRecord, RpcFails, Answer, stored, history
  <2>2. QED
    BY <2>1 DEF MaySend
<1>6. ASSUME NEW t \in Tasks, Acknowledge(t)
      PROVE  MaySend(u)' => MaySend(u)
  <2>1. /\ ToSet(incoming) = {t} \cup ToSet(Tail(incoming))
        /\ t \notin ToSet(Tail(incoming))
    BY <1>6, TailLemma, InjectiveLemma DEF Acknowledge, HandlesHead, QueueInv
  <2>2. /\ UNCHANGED <<up, connected>> /\ up
        /\ step' = [step EXCEPT ![t] = "idle"]
        /\ incoming' = IF connected THEN Tail(incoming) ELSE incoming
    BY <1>6 DEF Acknowledge, history, QueueInv
  <2>3. QED
    BY <2>1, <2>2 DEF MaySend
<1>7. QED
  BY <1>1, <1>2, <1>3, <1>4, <1>5, <1>6, StepCases

LEMMA SendStep ==
  ASSUME TypeInv, [Next]_vars, RequestInv, QueueInv, SendBound
  PROVE  SendBound'
<1> USE DEF TypeInv, FleetTypeOK
<1>0. /\ crashes \in Nat
      /\ \A u \in Tasks : Len(sent[u]) \in Nat
  BY FleetAssumption
<1>1. SUFFICES ASSUME NEW u \in Tasks
               PROVE  /\ Len(sent'[u]) <= crashes' + 1
                      /\ MaySend(u)' => Len(sent'[u]) <= crashes'
  BY DEF SendBound
<1>2. CASE Crash
  BY <1>0, <1>2 DEF Crash, SendBound
<1>3. CASE ~Crash /\ UNCHANGED <<sent, crashes>>
  <2>1. u \notin submitted => Len(sent[u]) <= crashes
    BY <1>0 DEF RequestInv, NotYetRequested
  <2>2. QED
    BY <1>0, <1>3, <2>1, MaySendStep DEF SendBound
<1>4. ASSUME NEW t \in Tasks, Publish(t)
      PROVE  /\ Len(sent'[u]) <= crashes' + 1
             /\ MaySend(u)' => Len(sent'[u]) <= crashes'
  <2>1. choice[t] \in Robots /\ MaySend(t)
    BY <1>4 DEF Publish, HandlerHasRobot, MaySend
  <2>2. Len(Append(sent[t], choice[t])) = Len(sent[t]) + 1
    BY <2>1, AppendLemma
  <2>3. CASE u = t
    <3>1. ~MaySend(u)'
      BY <1>4, <2>3 DEF Publish, MaySend
    <3>2. QED
      BY <1>0, <1>4, <2>1, <2>2, <2>3, <3>1 DEF Publish, SendBound
  <2>4. CASE u # t
    <3>1. /\ sent'[u] = sent[u] /\ crashes' = crashes
          /\ MaySend(u)' => MaySend(u)
      BY <1>4, <2>4 DEF Publish, stored, MaySend
    <3>2. QED
      BY <3>1 DEF SendBound
  <2>5. QED
    BY <2>3, <2>4
<1>5. Quiet \/ LetterAdded => UNCHANGED <<sent, crashes>>
  BY DEF Quiet, LetterAdded
<1>6. ASSUME NEW t \in Tasks,
             \/ TaskRequest(t) \/ SubmitTask(t) \/ Enqueue(t) \/ Consume(t)
             \/ Store(t) \/ RpcFails(t) \/ Acknowledge(t) \/ Answer(t)
             \/ \E result \in Outcomes : Settles(t, result)
      PROVE  UNCHANGED <<sent, crashes>>
  BY <1>6 DEF TaskRequest, SubmitTask, Enqueue, Consume, Store, RpcFails,
              Acknowledge, Answer, Settles, history
<1>7. QED
  BY <1>2, <1>3, <1>4, <1>5, <1>6, StepCases

LEMMA SendInvariant == Spec => [](QueueInv /\ SendBound)
<1>1. Init => QueueInv /\ SendBound
  BY FleetAssumption DEF Init, QueueInv, SendBound, MaySend, IsInjective, ToSet
<1>2. QED
  BY <1>1, RequestInvariant, QueueStep, SendStep, PTL DEF Spec

(* One life of the process publishes a task at most once: a second         *)
(* assignment of a task takes a crash.                                     *)
THEOREM OneSendPerLife == Spec => []SentOncePerLife
<1>1. SendBound => SentOncePerLife
  BY DEF SendBound, SentOncePerLife
<1>2. QED
  BY <1>1, SendInvariant, PTL

(***************************************************************************)
(* Which tasks the robots have.                                            *)
(***************************************************************************)

At(r, t)   == t = held[r] \/ t \in ToSet(waiting[r])
Done(r, t) == \E c \in ToSet(completions[r]) : c.task = t

(* What find_task reads, from the documents a task has.                    *)
LEMMA FindLemma ==
  ASSUME records \in [Tasks -> Seq(Record)], NEW u \in Tasks
  PROVE  /\ FindTask(u) \in Outcomes \cup {"ASSIGNED", "not found"}
         /\ FindTask(u) = "not found" <=> records[u] = <<>>
<1>1. records[u] # <<>> => records[u][1] \in Record
  OBVIOUS
<1>2. records[u] # <<>> =>
        records[u][1].status \in Outcomes \cup {"ASSIGNED"}
  BY <1>1 DEF Record
<1>3. "not found" \notin Outcomes \cup {"ASSIGNED"}
  BY DEF Outcomes
<1>4. QED
  BY <1>2, <1>3 DEF FindTask

(* The first document of a task is the one find_task reads, and the second *)
(* assignment of a task does not change it.                                *)
LEMMA InsertFind ==
  ASSUME records \in [Tasks -> Seq(Record)], NEW t \in Tasks,
         choice[t] \in Robots, Insert(t)
  PROVE  /\ \A u \in Tasks \ {t} : FindTask(u)' = FindTask(u)
         /\ FindTask(t)' = IF records[t] = <<>> THEN "ASSIGNED"
                                               ELSE FindTask(t)
<1>1. /\ \A u \in Tasks \ {t} : records'[u] = records[u]
      /\ records'[t] # <<>>
      /\ records[t] # <<>> => records'[t][1] = records[t][1]
  BY InsertLemma
<1>2. ASSUME records[t] = <<>>
      PROVE  records'[t][1].status = "ASSIGNED"
  <2> DEFINE doc == [robot |-> choice[t], status |-> "ASSIGNED"]
  <2>1. records'[t] = Append(<<>>, doc)
    BY <1>2 DEF Insert
  <2>2. records'[t][1] = doc
    BY <2>1
  <2>3. QED
    BY <2>2
<1>3. QED
  BY <1>1, <1>2 DEF FindTask

(* update_task_completion changes what find_task reads of its task only,   *)
(* and of that one if it has a document.                                   *)
LEMMA SettleFind ==
  ASSUME records \in [Tasks -> Seq(Record)], NEW t \in Tasks,
         NEW result \in Outcomes, Settle(t, result)
  PROVE  /\ \A u \in Tasks \ {t} : FindTask(u)' = FindTask(u)
         /\ FindTask(t)' = IF records[t] = <<>> THEN "not found" ELSE result
<1>1. CASE records[t] = <<>>
  BY <1>1 DEF Settle, FindTask
<1>2. CASE records[t] # <<>>
  <2>1. records[t] \in Seq(Record) /\ 1 \in DOMAIN records[t]
        /\ records[t][1] \in Record
    BY <1>2
  <2> DEFINE doc == [records[t][1] EXCEPT !.status = result]
             new == [records[t] EXCEPT ![1] = doc]
  <2>2. doc.status = result
    BY <2>1 DEF Record
  <2>3. records' = [records EXCEPT ![t] = new]
    BY <1>2 DEF Settle
  <2> HIDE DEF doc
  <2>4. new # <<>> /\ new[1] = doc
    BY <2>1
  <2> HIDE DEF new
  <2>5. QED
    BY <1>2, <2>2, <2>3, <2>4 DEF FindTask
<1>3. QED
  BY <1>1, <1>2

LEMMA NoCrash ==
  ASSUME TypeInv, MaxCrashes = 0
  PROVE  ~Crash
BY DEF TypeInv, FleetTypeOK, Crash

(* A robot that keeps its tasks loses one only by completing it, and a     *)
(* slow robot not while the server is recording it.                        *)
LEMMA RobotKeeps ==
  ASSUME TypeInv, up, NEW r \in Robots, RobotTakes(r) \/ RobotCompletes(r),
         NEW u \in Tasks
  PROVE  /\ \A s \in Robots : At(s, u) =>
              \/ At(s, u)'
              \/ (SlowRobots => step[u] # "published") /\ Done(s, u)'
         /\ \A s \in Robots : Done(s, u) => Done(s, u)'
<1> USE DEF TypeInv, FleetTypeOK
<1>1. RobotTakes(r) \/ RobotCompletes(r)
  OBVIOUS
<1>2. CASE RobotTakes(r)
  <2>1. ToSet(waiting[r]) = {Head(waiting[r])} \cup ToSet(Tail(waiting[r]))
    BY <1>2, TailLemma DEF RobotTakes
  <2>2. /\ held'[r] = Head(waiting[r]) /\ waiting'[r] = Tail(waiting[r])
        /\ held[r] = NoTask /\ UNCHANGED completions
        /\ \A s \in Robots \ {r} : held'[s] = held[s]
                                  /\ waiting'[s] = waiting[s]
    BY <1>2 DEF RobotTakes
  <2>3. QED
    BY <2>1, <2>2, FleetAssumption DEF At, Done
<1>3. CASE RobotCompletes(r)
  <2>1. PICK result \in Outcomes :
          completions' = [completions EXCEPT ![r] =
            Append(completions[r], [task |-> held[r], result |-> result])]
    BY <1>3 DEF RobotCompletes
  <2> DEFINE c == [task |-> held[r], result |-> result]
  <2>2. c \in Report /\ c.task = held[r]
    BY <1>3 DEF RobotCompletes, Report
  <2> HIDE DEF c
  <2>3. ToSet(Append(completions[r], c)) = ToSet(completions[r]) \cup {c}
    BY <2>2, AppendLemma
  <2>4. /\ completions'[r] = Append(completions[r], c)
        /\ \A s \in Robots \ {r} : completions'[s] = completions[s]
                                  /\ held'[s] = held[s]
        /\ UNCHANGED waiting /\ (SlowRobots => step[held[r]] # "published")
    BY <1>3, <2>1 DEF RobotCompletes, c
  <2>5. QED
    BY <2>2, <2>3, <2>4 DEF At, Done
<1>4. QED
  BY <1>1, <1>2, <1>3

(* The steps that only the handlers see: no robot, no completion and no    *)
(* document changes, and nothing new is published.                         *)
LEMMA HandlersOnly ==
  ASSUME TypeInv, ~Crash,
         \/ Requests
         \/ \E t \in Tasks : \/ Consume(t) \/ StoreFails(t) \/ Acknowledge(t)
                            \/ Answer(t)
         \/ \E r \in Robots : RobotStatus(r)
         \/ PublishFailed \/ BrokerLost \/ UNCHANGED vars
  PROVE  /\ UNCHANGED <<up, robots, records, sent>>
         /\ \A u \in Tasks : step'[u] = "published" => step[u] = "published"
<1> USE DEF TypeInv, FleetTypeOK
<1>1. ASSUME NEW t \in Tasks,
             \/ TaskRequest(t) \/ SubmitTask(t) \/ Enqueue(t) \/ Consume(t)
             \/ StoreFails(t) \/ Acknowledge(t) \/ Answer(t)
      PROVE  /\ UNCHANGED <<up, robots, records, sent>>
             /\ \A u \in Tasks :
                  step'[u] = "published" => step[u] = "published"
  BY <1>1 DEF TaskRequest, SubmitTask, Enqueue, Consume, StoreFails,
              Acknowledge, Answer, Select, stored, memory, history
<1>2. ASSUME \/ \E r \in Robots : RobotStatus(r)
             \/ PublishFailed \/ BrokerLost \/ UNCHANGED vars
      PROVE  UNCHANGED <<up, robots, records, sent, step>>
  BY <1>2 DEF RobotStatus, PublishFailed, BrokerLost, vars, memory, stored,
              history
<1>3. QED
  BY <1>1, <1>2 DEF Requests

LEMMA StaysUp ==
  ASSUME TypeInv, [Next]_vars, up, ~Crash
  PROVE  up'
<1>1. ASSUME NEW t \in Tasks,
             TaskRequest(t) \/ SubmitTask(t) \/ Enqueue(t) \/ Consume(t)
      PROVE  UNCHANGED up
  BY <1>1 DEF TaskRequest, SubmitTask, Enqueue, Consume, memory
<1>2. ASSUME NEW t \in Tasks, Dispatch(t)
      PROVE  UNCHANGED up
  BY <1>2 DEF Dispatch, Publish, Store, StoreFails, Acknowledge, Answer
<1>3. Callbacks => UNCHANGED up
  BY DEF Callbacks, RobotStatus, TaskCompletion, PublishFailed
<1>4. ASSUME NEW r \in Robots, Robot(r)
      PROVE  UNCHANGED up
  BY <1>4 DEF Robot, RobotTakes, RobotCompletes, RobotAbandons, RobotForgets,
              RobotRestarts, memory
<1>5. Restart \/ BrokerLost \/ UNCHANGED vars => up'
  BY DEF Restart, BrokerLost, vars, memory
<1>6. QED
  BY <1>1, <1>2, <1>3, <1>4, <1>5 DEF Next, Requests

(* Publishing adds to what the robots have; task_completion_cb takes the   *)
(* completion it settles, and no other.                                    *)
LEMMA PublishKeeps ==
  ASSUME TypeInv, NEW t \in Tasks, Publish(t), NEW u \in Tasks
  PROVE  /\ UNCHANGED <<up, records>>
         /\ \A s \in Robots : /\ At(s, u) => At(s, u)'
                              /\ Done(s, u) => Done(s, u)'
<1> USE DEF TypeInv, FleetTypeOK
<1>1. choice[t] \in Robots
  BY DEF Publish, HandlerHasRobot
<1>2. ToSet(Append(waiting[choice[t]], t)) = ToSet(waiting[choice[t]]) \cup {t}
  BY <1>1, AppendLemma
<1>3. /\ UNCHANGED <<up, records, held, completions>>
      /\ waiting'[choice[t]] = Append(waiting[choice[t]], t)
      /\ \A r \in Robots \ {choice[t]} : waiting'[r] = waiting[r]
  BY <1>1 DEF Publish, stored
<1>4. QED
  BY <1>1, <1>2, <1>3 DEF At, Done

LEMMA CompletionKeeps ==
  ASSUME TypeInv, ~Crash, NEW r \in Robots, TaskCompletion(r), NEW u \in Tasks,
         records[u] # <<>>
  PROVE  \/ Settled(u)'
         \/ \A s \in Robots : /\ At(s, u) => At(s, u)'
                              /\ Done(s, u) => Done(s, u)'
<1> USE DEF TypeInv, FleetTypeOK
<1> DEFINE c == Head(completions[r])
<1>1. /\ completions[r] # <<>> /\ Settle(c.task, c.result)
      /\ completions' = [completions EXCEPT ![r] = Tail(completions[r])]
      /\ UNCHANGED <<waiting, held>>
  BY DEF TaskCompletion
<1>2. c \in Report /\ ToSet(completions[r]) = {c} \cup ToSet(Tail(completions[r]))
  BY <1>1, TailLemma
<1>3. c.task \in Tasks /\ c.result \in Outcomes
  BY <1>2 DEF Report
<1> HIDE DEF c
<1>4. CASE u = c.task
  BY <1>1, <1>3, <1>4, SettleFind DEF Settled
<1>5. CASE u # c.task
  BY <1>1, <1>2, <1>5 DEF At, Done
<1>6. QED
  BY <1>4, <1>5

(* The robots lose sight of a recorded task only when its end is written.  *)
LEMMA EndingStep ==
  ASSUME TypeInv, [Next]_vars, up', NEW u \in Tasks,
         FindTask(u) = "ASSIGNED", InHand(u),
         \A r \in Robots : ~RobotLoses(r)
  PROVE  InHand(u)' \/ Settled(u)'
<1>0. ~Crash
  BY DEF Crash
<1>1. /\ InHand(u) <=> \E s \in Robots : At(s, u) \/ Done(s, u)
      /\ InHand(u)' <=> \E s \in Robots : At(s, u)' \/ Done(s, u)'
  BY DEF InHand, At, Done
<1>2. records[u] # <<>>
  BY DEF FindTask
<1>3. CASE UNCHANGED robots
  BY <1>3 DEF robots, InHand
<1>4. ASSUME NEW t \in Tasks, Publish(t)
      PROVE  InHand(u)'
  <2>1. PICK s \in Robots : At(s, u) \/ Done(s, u)
    BY <1>1
  <2>2. (At(s, u) => At(s, u)') /\ (Done(s, u) => Done(s, u)')
    BY <1>4, PublishKeeps
  <2>3. QED
    BY <1>1, <2>1, <2>2
<1>5. ASSUME NEW t \in Tasks, Store(t)
      PROVE  UNCHANGED robots
  BY <1>5 DEF Store
<1>6. ASSUME NEW r \in Robots, TaskCompletion(r)
      PROVE  InHand(u)' \/ Settled(u)'
  <2>1. PICK s \in Robots : At(s, u) \/ Done(s, u)
    BY <1>1
  <2>2. Settled(u)' \/ ((At(s, u) => At(s, u)') /\ (Done(s, u) => Done(s, u)'))
    BY <1>0, <1>2, <1>6, CompletionKeeps
  <2>3. QED
    BY <1>1, <2>1, <2>2
<1>7. ASSUME NEW r \in Robots, Robot(r)
      PROVE  InHand(u)'
  <2>1. RobotTakes(r) \/ RobotCompletes(r)
    BY <1>7 DEF Robot, RobotLoses
  <2>2. up
    BY <2>1 DEF RobotTakes, RobotCompletes, memory
  <2>3. QED
    BY <1>1, <2>1, <2>2, RobotKeeps
<1>8. Restart => UNCHANGED robots
  BY DEF Restart
<1>9. QED
  BY <1>0, <1>3, <1>4, <1>5, <1>6, <1>7, <1>8, HandlersOnly
     DEF Next, Dispatch, Callbacks

(* Whatever crashes, fails or restarts, and however fast the robots are, a *)
(* recorded task a robot has leaves the robots of a running server by its  *)
(* end being recorded, or by a robot that loses it.                        *)
THEOREM RecordedTasksLeaveByEnding == Spec => RecordedTaskLeavesByEnding
<1>1. TypeInv /\ [Next]_vars
        => [up' => \A t \in Tasks :
              FindTask(t) = "ASSIGNED" /\ InHand(t)
                => InHand(t)' \/ Settled(t)'
                     \/ \E r \in Robots : RobotLoses(r)]_vars
  BY EndingStep
<1>2. QED
  BY <1>1, TypeInvariant, PTL DEF Spec, RecordedTaskLeavesByEnding

(***************************************************************************)
(* A process that does not crash, and robots that are slow and keep their  *)
(* tasks.                                                                  *)
(***************************************************************************)

(* The robots keep their tasks, and the process outlives all of them;      *)
(* MongoDB and RabbitMQ may fail.                                          *)
RobotsKeepTasks ==
  /\ MaxCrashes = 0 /\ SlowRobots
  /\ Failures \cap {"task_lost", "robot_restart"} = {}

(* A task that is published and not yet recorded is still with its robot:  *)
(* what AssignedMeansInHand needs when the record is inserted.             *)
HandInv ==
  /\ up
  /\ \A t \in Tasks : step[t] = "published" => \E r \in Robots : At(r, t)
  /\ AssignedMeansInHand

LEMMA HandStep ==
  ASSUME RobotsKeepTasks, TypeInv, [Next]_vars, HandInv
  PROVE  HandInv'
<1> USE DEF TypeInv, FleetTypeOK
<1>0. ~Crash /\ up
  BY NoCrash DEF RobotsKeepTasks, HandInv
<1>1. SUFFICES ASSUME NEW u \in Tasks
               PROVE  /\ step'[u] = "published"
                           => \E r \in Robots : At(r, u)'
                      /\ FindTask(u)' = "ASSIGNED"
                           => \E r \in Robots : At(r, u)' \/ Done(r, u)'
  BY <1>0, StaysUp DEF HandInv, AssignedMeansInHand, InHand, At, Done
<1>2. /\ step[u] = "published" => \E r \in Robots : At(r, u)
      /\ FindTask(u) = "ASSIGNED"
           => \E r \in Robots : At(r, u) \/ Done(r, u)
  BY DEF HandInv, AssignedMeansInHand, InHand, At, Done
<1>3. ASSUME /\ UNCHANGED <<up, robots, records>>
             /\ step'[u] = "published" => step[u] = "published"
      PROVE  /\ step'[u] = "published" => \E r \in Robots : At(r, u)'
             /\ FindTask(u)' = "ASSIGNED"
                  => \E r \in Robots : At(r, u)' \/ Done(r, u)'
  BY <1>0, <1>2, <1>3 DEF robots, FindTask, At, Done
<1>4. ASSUME NEW t \in Tasks, Publish(t)
      PROVE  /\ step'[u] = "published" => \E r \in Robots : At(r, u)'
             /\ FindTask(u)' = "ASSIGNED"
                  => \E r \in Robots : At(r, u)' \/ Done(r, u)'
  <2>1. choice[t] \in Robots
    BY <1>4 DEF Publish, HandlerHasRobot
  <2>2. ToSet(Append(waiting[choice[t]], t))
          = ToSet(waiting[choice[t]]) \cup {t}
    BY <2>1, AppendLemma
  <2>3. u = t => \E r \in Robots : At(r, u)'
    BY <1>4, <2>1, <2>2 DEF Publish, At
  <2>4. u # t => step'[u] = step[u]
    BY <1>4 DEF Publish
  <2>5. /\ FindTask(u)' = FindTask(u)
        /\ \A s \in Robots : /\ At(s, u) => At(s, u)'
                             /\ Done(s, u) => Done(s, u)'
    BY <1>4, PublishKeeps DEF FindTask
  <2>6. CASE u = t
    BY <2>1, <2>3, <2>6
  <2>7. CASE u # t
    BY <1>2, <2>4, <2>5, <2>7
  <2>8. QED
    BY <2>6, <2>7
<1>5. ASSUME NEW t \in Tasks, Store(t)
      PROVE  /\ step'[u] = "published" => \E r \in Robots : At(r, u)'
             /\ FindTask(u)' = "ASSIGNED"
                  => \E r \in Robots : At(r, u)' \/ Done(r, u)'
  <2>1. Insert(t) /\ choice[t] \in Robots
    BY <1>5 DEF Store, HandlerHasRobot
  <2>2. u # t => FindTask(u)' = FindTask(u)
    BY <2>1, InsertFind
  <2>3. /\ UNCHANGED <<up, robots>> /\ step[t] = "published"
        /\ step'[u] = "published" => step[u] = "published"
    BY <1>5 DEF Store, AfterRecord
  <2>4. QED
    BY <1>0, <1>2, <2>2, <2>3 DEF robots, At, Done
<1>6. ASSUME NEW r \in Robots, TaskCompletion(r)
      PROVE  /\ step'[u] = "published" => \E s \in Robots : At(s, u)'
             /\ FindTask(u)' = "ASSIGNED"
                  => \E s \in Robots : At(s, u)' \/ Done(s, u)'
  <2> DEFINE c == Head(completions[r])
  <2>1. /\ completions[r] # <<>> /\ Settle(c.task, c.result)
        /\ UNCHANGED <<step, waiting, held>>
    BY <1>0, <1>6 DEF TaskCompletion
  <2>2. c \in Report
    BY <2>1, TailLemma
  <2>3. c.task \in Tasks /\ c.result \in Outcomes
    BY <2>2 DEF Report
  <2> HIDE DEF c
  <2>4. FindTask(u)' = "ASSIGNED" => u # c.task /\ FindTask(u) = "ASSIGNED"
    BY <2>1, <2>3, SettleFind DEF Outcomes
  <2>5. FindTask(u)' = "ASSIGNED" => records[u] # <<>> /\ ~Settled(u)'
    BY <2>4 DEF FindTask, Settled, Outcomes
  <2>6. QED
    BY <1>0, <1>2, <1>6, <2>1, <2>4, <2>5, CompletionKeeps DEF At
<1>7. ASSUME NEW r \in Robots, Robot(r)
      PROVE  /\ step'[u] = "published" => \E s \in Robots : At(s, u)'
             /\ FindTask(u)' = "ASSIGNED"
                  => \E s \in Robots : At(s, u)' \/ Done(s, u)'
  <2>1. UNCHANGED <<up, step, records>>
    BY <1>7 DEF Robot, RobotTakes, RobotCompletes, RobotAbandons, RobotForgets,
                RobotRestarts, memory, stored
  <2>2. RobotTakes(r) \/ RobotCompletes(r)
    BY <1>7 DEF Robot, RobotAbandons, RobotForgets, RobotRestarts,
                RobotsKeepTasks
  <2>3. QED
    BY <1>0, <1>2, <2>1, <2>2, RobotKeeps DEF FindTask, RobotsKeepTasks
<1>8. ~Restart
  BY <1>0 DEF Restart
<1>9. QED
  BY <1>0, <1>1, <1>3, <1>4, <1>5, <1>6, <1>7, <1>8, HandlersOnly
     DEF Next, Dispatch, Callbacks

(* While the process runs, if every robot keeps its tasks and takes longer *)
(* for one than the server takes from publishing to recording it, a task   *)
(* that GetTaskStatus reports as ASSIGNED is with a robot or its           *)
(* completion is on its way.  Nothing in the code makes the robots slow:   *)
(* without that assumption the run CompletionOvertakes is a                *)
(* counterexample.  No crash means no exception of MongoDB on the ROS and  *)
(* RabbitMQ threads; the insert_task of a SubmitTask may throw.            *)
THEOREM AssignedIsInHand ==
  ASSUME RobotsKeepTasks
  PROVE  Spec => []AssignedMeansInHand
<1>1. Init => HandInv
  BY DEF Init, HandInv, AssignedMeansInHand, FindTask
<1>2. TypeInv /\ HandInv /\ [Next]_vars => HandInv'
  BY HandStep
<1>3. HandInv => AssignedMeansInHand
  BY DEF HandInv
<1>4. QED
  BY <1>1, <1>2, <1>3, TypeInvariant, PTL DEF Spec

(* MongoDB and RabbitMQ answer, the process does not crash and the robots  *)
(* are slower than the store; they may lose tasks.                         *)
StoresWork ==
  /\ MaxCrashes = 0 /\ SlowRobots
  /\ Failures \subseteq {"task_failed", "task_lost", "robot_restart"}

(* A rejected message has not been published and will not be.              *)
RejectedForGood ==
  \A t \in Tasks :
    Rejected(t) \in failed =>
      sent[t] = <<>> /\ ~MaySend(t) /\ t \in submitted

(* A robot has the tasks published to it, each in one place.               *)
Distinct(reports) ==
  \A i, j \in DOMAIN reports : reports[i].task = reports[j].task => i = j

Place(r) ==
  /\ \A t \in Tasks : At(r, t) \/ Done(r, t) => sent[t] = <<r>>
  /\ \A t \in Tasks : ~(At(r, t) /\ Done(r, t))
  /\ IsInjective(waiting[r]) /\ held[r] \notin ToSet(waiting[r])
  /\ Distinct(completions[r])

OnePlace == \A r \in Robots : Place(r)

(* A task a robot has is not settled; it is recorded before its completion *)
(* is on its way.                                                          *)
RecordsFollow ==
  \A r \in Robots, t \in Tasks :
    /\ At(r, t) => ~Settled(t) /\ (step[t] = "published" \/ records[t] # <<>>)
    /\ Done(r, t) => FindTask(t) = "ASSIGNED"

FailuresTold ==
  \A t \in Tasks :
    Failed(t) \in failed \/ failing = t <=> FindTask(t) = "FAILED"

LetterInv ==
  up /\ connected /\ RejectedForGood /\ OnePlace /\ RecordsFollow /\ FailuresTold

LEMMA DistinctLemma ==
  ASSUME NEW q \in Seq(Report), Distinct(q)
  PROVE  /\ \A c \in Report :
              (\A d \in ToSet(q) : d.task # c.task) => Distinct(Append(q, c))
         /\ q # <<>> => /\ Distinct(Tail(q))
                       /\ \A d \in ToSet(Tail(q)) : d.task # Head(q).task
<1>1. Len(q) \in Nat /\ DOMAIN q = 1 .. Len(q)
  OBVIOUS
<1>2. \A i, j \in 1 .. Len(q) : q[i].task = q[j].task => i = j
  BY <1>1 DEF Distinct
<1>3. ASSUME NEW c \in Report, \A d \in ToSet(q) : d.task # c.task
      PROVE  Distinct(Append(q, c))
  <2>1. \A i \in 1 .. Len(q) : q[i].task # c.task
    BY <1>1, <1>3 DEF ToSet
  <2>2. /\ DOMAIN Append(q, c) = 1 .. (Len(q) + 1)
        /\ \A i \in 1 .. Len(q) : Append(q, c)[i] = q[i]
        /\ Append(q, c)[Len(q) + 1] = c
    OBVIOUS
  <2>3. QED
    BY <1>1, <1>2, <2>1, <2>2 DEF Distinct
<1>4. ASSUME q # <<>>
      PROVE  /\ Distinct(Tail(q))
             /\ \A d \in ToSet(Tail(q)) : d.task # Head(q).task
  <2>1. /\ DOMAIN Tail(q) = 1 .. (Len(q) - 1) /\ Len(q) \in Nat \ {0}
        /\ \A i \in 1 .. (Len(q) - 1) : Tail(q)[i] = q[i + 1]
        /\ Head(q) = q[1]
    BY <1>4
  <2>2. \A i \in 1 .. (Len(q) - 1) : i + 1 \in 1 .. Len(q) /\ i + 1 # 1
    BY <2>1
  <2>3. \A i \in 1 .. (Len(q) - 1) : Tail(q)[i].task # Head(q).task
    BY <1>2, <2>1, <2>2
  <2>4. Distinct(Tail(q))
    BY <1>2, <2>1, <2>2 DEF Distinct
  <2>5. QED
    BY <2>1, <2>3, <2>4 DEF ToSet
<1>5. QED
  BY <1>3, <1>4

(* What the removal of a completion leaves.                                *)
LEMMA ReportGone ==
  ASSUME TypeInv, OnePlace, NEW r \in Robots, completions[r] # <<>>,
         completions' = [completions EXCEPT ![r] = Tail(completions[r])],
         UNCHANGED <<waiting, held, sent>>
  PROVE  /\ OnePlace'
         /\ Head(completions[r]) \in Report
         /\ Done(r, Head(completions[r]).task)
         /\ \A s \in Robots, u \in Tasks :
              /\ At(s, u)' => At(s, u) /\ u # Head(completions[r]).task
              /\ Done(s, u)' => Done(s, u) /\ u # Head(completions[r]).task
<1> USE DEF TypeInv, FleetTypeOK
<1> DEFINE c == Head(completions[r])
<1>1. c \in Report /\ ToSet(completions[r])
                       = {c} \cup ToSet(Tail(completions[r]))
  BY TailLemma
<1>2. /\ Distinct(Tail(completions[r]))
      /\ \A d \in ToSet(Tail(completions[r])) : d.task # c.task
  BY DistinctLemma DEF OnePlace, Place
<1> HIDE DEF c
<1>3. c.task \in Tasks /\ Done(r, c.task)
  BY <1>1 DEF Report, Done
<1>4. /\ completions'[r] = Tail(completions[r])
      /\ \A s \in Robots \ {r} : completions'[s] = completions[s]
  OBVIOUS
<1>5. ASSUME NEW s \in Robots, NEW u \in Tasks
      PROVE  (At(s, u)' => At(s, u)) /\ (Done(s, u)' => Done(s, u))
  BY <1>1, <1>4 DEF At, Done
<1>6. /\ sent[c.task] = <<r>> /\ ~At(r, c.task)
      /\ \A u \in Tasks : Done(r, u)' => u # c.task
  <2>1. sent[c.task] = <<r>> /\ ~At(r, c.task)
    BY <1>3 DEF OnePlace, Place
  <2>2. QED
    BY <1>2, <1>4, <2>1 DEF Done
<1>7. ASSUME NEW s \in Robots, s # r
      PROVE  ~At(s, c.task) /\ ~Done(s, c.task)
  <2>1. <<s>> # <<r>>
    BY <1>7
  <2>2. QED
    BY <1>3, <1>6, <2>1 DEF OnePlace, Place
<1>8. ASSUME NEW s \in Robots
      PROVE  Place(s)'
  <2>1. Distinct(completions'[s])
    BY <1>2, <1>4 DEF OnePlace, Place
  <2>2. QED
    BY <1>5, <2>1 DEF OnePlace, Place
<1>9. ASSUME NEW s \in Robots, NEW u \in Tasks
      PROVE  /\ At(s, u)' => At(s, u) /\ u # c.task
             /\ Done(s, u)' => Done(s, u) /\ u # c.task
  BY <1>5, <1>6, <1>7
<1>10. QED
  BY <1>1, <1>3, <1>8, <1>9 DEF OnePlace, c

(* What a robot does to its tasks.                                         *)
LEMMA RobotPlaces ==
  ASSUME SlowRobots, up, TypeInv, OnePlace, NEW r \in Robots, Robot(r)
  PROVE  /\ OnePlace'
         /\ \A s \in Robots, u \in Tasks :
              /\ At(s, u)' => At(s, u)
              /\ Done(s, u)' => \/ Done(s, u)
                                \/ At(s, u) /\ step[u] # "published"
<1> USE DEF TypeInv, FleetTypeOK
<1>0. Place(r)
  BY DEF OnePlace
<1>1. SUFFICES
        /\ \A s \in Robots \ {r} :
             /\ waiting'[s] = waiting[s] /\ held'[s] = held[s]
             /\ completions'[s] = completions[s]
        /\ UNCHANGED <<sent, step>>
        /\ \A u \in Tasks :
             /\ At(r, u)' => At(r, u) /\ ~Done(r, u)'
             /\ Done(r, u)' => \/ Done(r, u)
                               \/ At(r, u) /\ step[u] # "published"
        /\ IsInjective(waiting'[r]) /\ held'[r] \notin ToSet(waiting'[r])
        /\ Distinct(completions'[r])
  <2>1. ASSUME NEW s \in Robots, s # r
        PROVE  Place(s)'
    BY <1>1, <2>1 DEF OnePlace, Place, At, Done
  <2>2. Place(r)'
    BY <1>0, <1>1 DEF Place
  <2>3. ASSUME NEW s \in Robots, NEW u \in Tasks
        PROVE  /\ At(s, u)' => At(s, u)
               /\ Done(s, u)' => \/ Done(s, u)
                                 \/ At(s, u) /\ step[u] # "published"
    <3>1. CASE s = r
      BY <1>1, <3>1
    <3>2. CASE s # r
      BY <1>1, <3>2 DEF At, Done
    <3>3. QED
      BY <3>1, <3>2
  <2>4. OnePlace'
    BY <2>1, <2>2 DEF OnePlace
  <2>5. QED
    BY <2>3, <2>4
<1>2. CASE RobotTakes(r) \/ RobotAbandons(r)
  <2>1. /\ waiting[r] # <<>>
        /\ held'[r] = Head(waiting[r]) /\ waiting'[r] = Tail(waiting[r])
        /\ UNCHANGED <<completions, sent, step>>
        /\ \A s \in Robots \ {r} : held'[s] = held[s]
                                  /\ waiting'[s] = waiting[s]
    BY <1>2 DEF RobotTakes, RobotAbandons, memory, history
  <2>2. /\ ToSet(waiting[r]) = {Head(waiting[r])} \cup ToSet(Tail(waiting[r]))
        /\ IsInjective(Tail(waiting[r]))
        /\ Head(waiting[r]) \notin ToSet(Tail(waiting[r]))
    BY <1>0, <2>1, TailLemma, InjectiveLemma DEF Place
  <2>3. QED
    BY <1>0, <2>1, <2>2 DEF Place, At, Done
<1>3. CASE RobotCompletes(r)
  <2>1. PICK result \in Outcomes :
          completions' = [completions EXCEPT ![r] =
            Append(completions[r], [task |-> held[r], result |-> result])]
    BY <1>3 DEF RobotCompletes
  <2> DEFINE c == [task |-> held[r], result |-> result]
  <2>2. c \in Report /\ c.task = held[r] /\ held[r] \in Tasks
    BY <1>3 DEF RobotCompletes, Report
  <2>3. /\ completions'[r] = Append(completions[r], c)
        /\ \A s \in Robots \ {r} : completions'[s] = completions[s]
                                  /\ held'[s] = held[s]
        /\ held'[r] = NoTask /\ held[r] # NoTask
        /\ UNCHANGED <<waiting, sent, step>> /\ step[held[r]] # "published"
    BY <1>3, <2>1 DEF RobotCompletes, memory, history
  <2> HIDE DEF c
  <2>4. ToSet(Append(completions[r], c)) = ToSet(completions[r]) \cup {c}
    BY <2>2, AppendLemma
  <2>5. \A d \in ToSet(completions[r]) : d.task # c.task
    BY <1>0, <2>2 DEF Place, At, Done
  <2>6. Distinct(Append(completions[r], c))
    BY <1>0, <2>2, <2>5, DistinctLemma DEF Place
  <2>7. ToSet(waiting[r]) \subseteq Tasks /\ NoTask \notin Tasks
    BY FleetAssumption DEF ToSet
  <2>8. ASSUME NEW u \in Tasks
        PROVE  /\ At(r, u)' <=> At(r, u) /\ u # held[r]
               /\ Done(r, u)' <=> Done(r, u) \/ u = held[r]
    BY <1>0, <2>2, <2>3, <2>4, <2>7 DEF Place, At, Done
  <2>9. QED
    BY <1>0, <2>2, <2>3, <2>6, <2>7, <2>8 DEF Place, At
<1>4. CASE RobotForgets(r)
  <2>1. ToSet(waiting[r]) \subseteq Tasks /\ NoTask \notin Tasks
    BY FleetAssumption DEF ToSet
  <2>2. /\ UNCHANGED <<waiting, completions, sent, step>> /\ held'[r] = NoTask
        /\ \A s \in Robots \ {r} : held'[s] = held[s]
    BY <1>4 DEF RobotForgets, memory, history
  <2>3. QED
    BY <1>0, <2>1, <2>2 DEF Place, At, Done
<1>5. CASE RobotRestarts(r)
  <2>1. ToSet(<<>>) = {} /\ IsInjective(<<>>) /\ NoTask \notin Tasks
    BY FleetAssumption DEF ToSet, IsInjective
  <2>2. /\ UNCHANGED <<completions, sent, step>> /\ held'[r] = NoTask
        /\ waiting'[r] = <<>>
        /\ \A s \in Robots \ {r} : held'[s] = held[s]
                                  /\ waiting'[s] = waiting[s]
    BY <1>5 DEF RobotRestarts, memory, history
  <2>3. QED
    BY <1>0, <2>1, <2>2 DEF Place, At, Done
<1>6. QED
  BY <1>2, <1>3, <1>4, <1>5 DEF Robot

(* A process that does not crash publishes a task once: one that it may    *)
(* still publish is nowhere, and has no document.                          *)
LEMMA NotYetSent ==
  ASSUME MaxCrashes = 0, TypeInv, SendBound, RecordNamesRobot,
         NEW t \in Tasks, MaySend(t)
  PROVE  sent[t] = <<>> /\ records[t] = <<>>
<1> USE DEF TypeInv, FleetTypeOK
<1>1. crashes = 0 /\ sent[t] \in Seq(Robots) /\ Len(sent[t]) \in Nat
  OBVIOUS
<1>2. sent[t] = <<>>
  BY <1>1 DEF SendBound
<1>3. ASSUME records[t] # <<>>
      PROVE  FALSE
  <2>1. 1 \in DOMAIN records[t]
    BY <1>3
  <2>2. records[t][1].robot \in ToSet(<<>>)
    BY <1>2, <2>1 DEF RecordNamesRobot
  <2>3. QED
    BY <2>2 DEF ToSet
<1>4. QED
  BY <1>2, <1>3

LEMMA PublishPlaces ==
  ASSUME MaxCrashes = 0, TypeInv, SendBound, RecordNamesRobot, OnePlace,
         NEW t \in Tasks, Publish(t)
  PROVE  /\ OnePlace'
         /\ records[t] = <<>>
         /\ \A s \in Robots, u \in Tasks :
              /\ At(s, u)' => At(s, u) \/ u = t
              /\ Done(s, u)' => Done(s, u) /\ u # t
<1> USE DEF TypeInv, FleetTypeOK
<1> DEFINE r == choice[t]
<1>1. r \in Robots /\ sent[t] = <<>> /\ records[t] = <<>>
  BY NotYetSent DEF Publish, HandlerHasRobot, MaySend
<1>2. /\ waiting'[r] = Append(waiting[r], t)
      /\ \A s \in Robots \ {r} : waiting'[s] = waiting[s]
      /\ sent'[t] = Append(sent[t], r)
      /\ \A u \in Tasks \ {t} : sent'[u] = sent[u]
      /\ UNCHANGED <<held, completions>>
  BY <1>1 DEF Publish
<1> HIDE DEF r
<1>3. ASSUME NEW s \in Robots
      PROVE  ~At(s, t) /\ ~Done(s, t)
  <2>1. <<s>> # <<>>
    OBVIOUS
  <2>2. QED
    BY <1>1, <2>1 DEF OnePlace, Place
<1>4. sent'[t] = <<r>>
  BY <1>1, <1>2
<1>5. /\ ToSet(Append(waiting[r], t)) = ToSet(waiting[r]) \cup {t}
      /\ IsInjective(Append(waiting[r], t))
  <2>1. t \notin ToSet(waiting[r]) /\ IsInjective(waiting[r])
    BY <1>1, <1>3 DEF At, OnePlace, Place
  <2>2. QED
    BY <1>1, <2>1, AppendLemma, InjectiveLemma
<1>6. ASSUME NEW s \in Robots, NEW u \in Tasks
      PROVE  /\ At(s, u)' <=> At(s, u) \/ (s = r /\ u = t)
             /\ Done(s, u)' <=> Done(s, u)
  BY <1>1, <1>2, <1>5 DEF At, Done
<1>7. ASSUME NEW s \in Robots
      PROVE  Place(s)'
  <2>1. ASSUME NEW u \in Tasks
        PROVE  /\ At(s, u)' \/ Done(s, u)' => sent'[u] = <<s>>
               /\ ~(At(s, u)' /\ Done(s, u)')
    BY <1>2, <1>3, <1>4, <1>6 DEF OnePlace, Place
  <2>2. IsInjective(waiting'[s]) /\ held'[s] \notin ToSet(waiting'[s])
    BY <1>1, <1>2, <1>3, <1>5 DEF OnePlace, Place, At
  <2>3. QED
    BY <1>2, <2>1, <2>2 DEF OnePlace, Place
<1>8. QED
  BY <1>1, <1>3, <1>6, <1>7 DEF OnePlace

(***************************************************************************)
(* Where MongoDB and RabbitMQ answer                                       *)
(***************************************************************************)

LEMMA SoundRun ==
  ASSUME StoresWork, TypeInv, [Next]_vars, up, connected
  PROVE  up' /\ connected' /\ ~Crash
<1>1. ~Crash
  BY NoCrash DEF StoresWork
<1>2. /\ "mongo_error" \notin Failures /\ "broker_lost" \notin Failures
      /\ "amqp_race" \notin Failures
  BY DEF StoresWork
<1>3. ASSUME NEW t \in Tasks,
             \/ TaskRequest(t) \/ SubmitTask(t) \/ Enqueue(t) \/ Consume(t)
             \/ Dispatch(t)
      PROVE  UNCHANGED connected
  BY <1>1, <1>3 DEF TaskRequest, SubmitTask, Enqueue, Consume, Dispatch,
     Publish, Store, StoreFails, Acknowledge, Answer, memory
<1>4. Callbacks => UNCHANGED connected
  BY <1>1, <1>2 DEF Callbacks, RobotStatus, TaskCompletion, PublishFailed
<1>5. ASSUME NEW r \in Robots, Robot(r)
      PROVE  UNCHANGED connected
  BY <1>5 DEF Robot, RobotTakes, RobotCompletes, RobotAbandons, RobotForgets,
              RobotRestarts, memory
<1>6. Restart \/ BrokerLost \/ UNCHANGED vars => connected'
  BY <1>2 DEF Restart, BrokerLost, vars, memory
<1>7. connected'
  BY <1>1, <1>3, <1>4, <1>5, <1>6 DEF Next, Requests
<1>8. QED
  BY <1>1, <1>7, StaysUp

(* A handler that has published goes on to record.                         *)
LEMMA PublishedStays ==
  ASSUME StoresWork, TypeInv, RequestInv, [Next]_vars, ~Crash, NEW u \in Tasks,
         step[u] = "published"
  PROVE  step'[u] = "published" \/ Store(u)
<1> USE DEF TypeInv, FleetTypeOK
<1>1. "mongo_error" \notin Failures
  BY DEF StoresWork
<1>2. ASSUME NEW t \in Tasks,
             TaskRequest(t) \/ SubmitTask(t) \/ Enqueue(t) \/ Consume(t)
      PROVE  step'[u] = "published"
  <2>1. t \notin submitted => step[t] = "idle"
    BY DEF RequestInv, NotYetRequested
  <2>2. QED
    BY <1>2, <2>1 DEF TaskRequest, SubmitTask, Enqueue, Consume, Select, memory
<1>3. ASSUME NEW t \in Tasks, Dispatch(t), ~Store(t)
      PROVE  step'[u] = "published"
  BY <1>1, <1>3 DEF Dispatch, Publish, StoreFails, Acknowledge, Answer
<1>4. ASSUME NEW t \in Tasks, Store(t)
      PROVE  step'[u] = "published" \/ t = u
  BY <1>4 DEF Store
<1>5. Callbacks => UNCHANGED step
  BY DEF Callbacks, RobotStatus, TaskCompletion, PublishFailed
<1>6. ASSUME NEW r \in Robots, Robot(r)
      PROVE  UNCHANGED step
  BY <1>6 DEF Robot, RobotTakes, RobotCompletes, RobotAbandons, RobotForgets,
              RobotRestarts, memory
<1>7. Restart \/ BrokerLost \/ UNCHANGED vars => UNCHANGED step
  BY DEF Restart, BrokerLost, vars, memory
<1>8. QED
  BY <1>2, <1>3, <1>4, <1>5, <1>6, <1>7 DEF Next, Requests

LEMMA RejectedStep ==
  ASSUME StoresWork, TypeInv, [Next]_vars, RequestInv, QueueInv, SendBound,
         RecordNamesRobot, up, connected, RejectedForGood
  PROVE  RejectedForGood'
<1> USE DEF TypeInv, FleetTypeOK
<1>0. ~Crash /\ MaxCrashes = 0
  BY SoundRun DEF StoresWork
<1>1. SUFFICES ASSUME NEW u \in Tasks, Rejected(u) \in failed'
               PROVE  sent'[u] = <<>> /\ ~MaySend(u)' /\ u \in submitted'
  BY DEF RejectedForGood, Rejected
<1>2. CASE Rejected(u) \in failed
  <2>1. sent[u] = <<>> /\ ~MaySend(u) /\ u \in submitted
    BY <1>2 DEF RejectedForGood
  <2>2. ~MaySend(u)'
    BY <1>0, <2>1, MaySendStep
  <2>3. ASSUME NEW t \in Tasks, Publish(t)
        PROVE  sent'[u] = sent[u] /\ submitted' = submitted
    <3>1. MaySend(t)
      BY <2>3 DEF Publish, MaySend
    <3>2. QED
      BY <2>1, <2>3, <3>1 DEF Publish
  <2>4. ASSUME NEW t \in Tasks,
               \/ TaskRequest(t) \/ SubmitTask(t) \/ Enqueue(t) \/ Consume(t)
               \/ Store(t) \/ RpcFails(t) \/ Acknowledge(t) \/ Answer(t)
               \/ \E result \in Outcomes : Settles(t, result)
        PROVE  sent' = sent /\ submitted \subseteq submitted'
    BY <2>4 DEF TaskRequest, SubmitTask, Enqueue, Consume, Store, RpcFails,
                Acknowledge, Answer, Settles, history
  <2>5. Quiet \/ LetterAdded => UNCHANGED <<sent, submitted>>
    BY DEF Quiet, LetterAdded
  <2>6. QED
    BY <1>0, <2>1, <2>2, <2>3, <2>4, <2>5, StepCases
<1>3. CASE Rejected(u) \notin failed
  <2>1. ASSUME NEW t \in Tasks,
               TaskRequest(t) \/ SubmitTask(t) \/ Enqueue(t) \/ Dispatch(t)
        PROVE  UNCHANGED failed
    BY <1>0, <2>1
       DEF TaskRequest, SubmitTask, Enqueue, Dispatch, Publish, Store,
           StoreFails, Acknowledge, Answer, stored
  <2>2. ASSUME Callbacks
        PROVE  Rejected(u) \notin failed'
    <3>1. failed' \subseteq failed \cup {Failed(failing)}
      BY <1>0, <2>2 DEF Callbacks, RobotStatus, TaskCompletion, PublishFailed,
                        Failed, stored
    <3>2. Rejected(u) # Failed(failing)
      BY DEF Rejected, Failed
    <3>3. QED
      BY <1>3, <3>1, <3>2
  <2>3. ASSUME NEW r \in Robots, Robot(r)
        PROVE  UNCHANGED failed
    BY <2>3 DEF Robot, RobotTakes, RobotCompletes, RobotAbandons, RobotForgets,
                RobotRestarts, stored
  <2>4. Restart \/ BrokerLost \/ UNCHANGED vars => UNCHANGED failed
    BY DEF Restart, BrokerLost, vars, stored
  <2>5. PICK t \in Tasks : Consume(t)
    BY <1>0, <1>1, <1>3, <2>1, <2>2, <2>3, <2>4 DEF Next, Requests
  <2>6. /\ step[t] = "idle" /\ t = Head(incoming) /\ incoming # <<>>
        /\ t = u /\ incoming' = Tail(incoming)
        /\ UNCHANGED <<step, sent, submitted, connected>>
    BY <1>1, <1>3, <2>5 DEF Consume, Rejected, history
  <2>7. /\ t \in AmqpTasks /\ t \in ToSet(incoming)
        /\ t \notin ToSet(Tail(incoming))
    BY <2>6, TailLemma, InjectiveLemma DEF QueueInv
  <2>8. MaySend(t)
    BY <2>6, <2>7 DEF MaySend
  <2>9. sent[t] = <<>>
    BY <1>0, <2>8, NotYetSent
  <2>10. t \in submitted
    BY <2>7 DEF RequestInv, NotYetRequested
  <2>11. ~MaySend(u)'
    BY <2>6, <2>7 DEF MaySend
  <2>12. QED
    BY <2>6, <2>9, <2>10, <2>11
<1>4. QED
  BY <1>2, <1>3

(* Where the tasks of the robots are, and how far their records have come. *)
LEMMA PlaceStep ==
  ASSUME StoresWork, TypeInv, [Next]_vars, RequestInv, QueueInv, SendBound,
         RecordNamesRobot, up, connected, OnePlace, RecordsFollow
  PROVE  OnePlace' /\ RecordsFollow'
<1> USE DEF TypeInv, FleetTypeOK
<1>0. ~Crash /\ MaxCrashes = 0 /\ SlowRobots
      /\ "mongo_error" \notin Failures
  BY SoundRun DEF StoresWork
<1>1. ASSUME NEW u \in Tasks
      PROVE  /\ FindTask(u) = "not found" <=> records[u] = <<>>
             /\ Settled(u) => records[u] # <<>>
             /\ ~Settled(u) => FindTask(u) \in {"ASSIGNED", "not found"}
             /\ Settled(u) => FindTask(u) # "ASSIGNED"
  BY FindLemma DEF Settled, Outcomes
<1>2. ASSUME NEW s \in Robots, NEW u \in Tasks
      PROVE  /\ At(s, u) => ~Settled(u)
             /\ At(s, u) => step[u] = "published" \/ records[u] # <<>>
             /\ Done(s, u) => FindTask(u) = "ASSIGNED"
  BY DEF RecordsFollow
<1>3. CASE UNCHANGED <<robots, records, sent>>
           /\ \A u \in Tasks : step[u] = "published" => ~Store(u)
  <2>1. OnePlace'
    BY <1>3 DEF OnePlace, Place, robots, At, Done
  <2>2. ASSUME NEW u \in Tasks, NEW s \in Robots
        PROVE  /\ At(s, u)' => ~Settled(u)'
               /\ At(s, u)' => step'[u] = "published" \/ records'[u] # <<>>
               /\ Done(s, u)' => FindTask(u)' = "ASSIGNED"
    <3>1. step[u] = "published" => step'[u] = "published"
      BY <1>0, <1>3, PublishedStays
    <3>2. /\ At(s, u)' <=> At(s, u)
          /\ Done(s, u)' <=> Done(s, u)
          /\ FindTask(u)' = FindTask(u) /\ (Settled(u)' <=> Settled(u))
      BY <1>3 DEF robots, At, Done, FindTask, Settled
    <3>3. QED
      BY <1>2, <1>3, <3>1, <3>2
  <2>3. QED
    BY <2>1, <2>2 DEF RecordsFollow
<1>4. ASSUME NEW t \in Tasks, Publish(t)
      PROVE  OnePlace' /\ RecordsFollow'
  <2>1. /\ OnePlace'
        /\ records[t] = <<>>
        /\ \A s \in Robots, u \in Tasks :
             /\ At(s, u)' => At(s, u) \/ u = t
             /\ Done(s, u)' => Done(s, u) /\ u # t
    BY <1>0, <1>4, PublishPlaces
  <2>2. /\ UNCHANGED records /\ step'[t] = "published"
        /\ \A u \in Tasks \ {t} : step'[u] = step[u]
    BY <1>4 DEF Publish, stored
  <2>3. ASSUME NEW u \in Tasks, NEW s \in Robots
        PROVE  /\ At(s, u)' => ~Settled(u)'
               /\ At(s, u)' => step'[u] = "published" \/ records'[u] # <<>>
               /\ Done(s, u)' => FindTask(u)' = "ASSIGNED"
    <3>1. FindTask(u)' = FindTask(u) /\ (Settled(u)' <=> Settled(u))
      BY <2>2 DEF FindTask, Settled
    <3>2. CASE u = t
      BY <1>1, <2>1, <2>2, <3>1, <3>2
    <3>3. CASE u # t
      BY <1>2, <2>1, <2>2, <3>1, <3>3
    <3>4. QED
      BY <3>2, <3>3
  <2>4. QED
    BY <2>1, <2>3 DEF RecordsFollow
<1>5. ASSUME NEW t \in Tasks, Store(t)
      PROVE  OnePlace' /\ RecordsFollow'
  <2>1. Insert(t) /\ choice[t] \in Robots
    BY <1>5 DEF Store, HandlerHasRobot
  <2>2. /\ \A u \in Tasks \ {t} : FindTask(u)' = FindTask(u)
        /\ FindTask(t)' = IF records[t] = <<>> THEN "ASSIGNED"
                                              ELSE FindTask(t)
        /\ records'[t] # <<>>
        /\ \A u \in Tasks \ {t} : records'[u] = records[u]
    BY <2>1, InsertFind, InsertLemma
  <2>3. /\ UNCHANGED <<robots, sent>>
        /\ \A u \in Tasks \ {t} : step'[u] = step[u]
    BY <1>5 DEF Store, history
  <2>4. OnePlace'
    BY <2>3 DEF OnePlace, Place, robots, At, Done
  <2>5. ASSUME NEW u \in Tasks, NEW s \in Robots
        PROVE  /\ At(s, u)' => ~Settled(u)'
               /\ At(s, u)' => step'[u] = "published" \/ records'[u] # <<>>
               /\ Done(s, u)' => FindTask(u)' = "ASSIGNED"
    <3>1. (At(s, u)' <=> At(s, u)) /\ (Done(s, u)' <=> Done(s, u))
      BY <2>3 DEF robots, At, Done
    <3>2. Settled(u)' => Settled(u)
      BY <2>2 DEF Settled, Outcomes
    <3>3. FindTask(u) = "ASSIGNED" => FindTask(u)' = "ASSIGNED"
      BY <2>2
    <3>4. QED
      BY <1>2, <2>2, <2>3, <3>1, <3>2, <3>3
  <2>6. QED
    BY <2>4, <2>5 DEF RecordsFollow
<1>6. ASSUME NEW r \in Robots, TaskCompletion(r)
      PROVE  OnePlace' /\ RecordsFollow'
  <2> DEFINE c == Head(completions[r])
  <2>1. /\ completions[r] # <<>> /\ Settle(c.task, c.result)
        /\ completions' = [completions EXCEPT ![r] = Tail(completions[r])]
        /\ UNCHANGED <<step, waiting, held, sent>>
    BY <1>0, <1>6 DEF TaskCompletion, history
  <2>2. /\ OnePlace' /\ c \in Report
        /\ \A s \in Robots, u \in Tasks :
             /\ At(s, u)' => At(s, u) /\ u # c.task
             /\ Done(s, u)' => Done(s, u) /\ u # c.task
    BY <2>1, ReportGone
  <2> HIDE DEF c
  <2>3. c.task \in Tasks /\ c.result \in Outcomes
    BY <2>2 DEF Report
  <2>4. ASSUME NEW u \in Tasks
        PROVE  /\ u # c.task => FindTask(u)' = FindTask(u)
               /\ records'[u] = <<>> <=> records[u] = <<>>
    BY <2>1, <2>3, SettleFind, SettleLemma
  <2>5. ASSUME NEW u \in Tasks, NEW s \in Robots
        PROVE  /\ At(s, u)' => ~Settled(u)'
               /\ At(s, u)' => step'[u] = "published" \/ records'[u] # <<>>
               /\ Done(s, u)' => FindTask(u)' = "ASSIGNED"
    BY <1>2, <2>1, <2>2, <2>4 DEF Settled
  <2>6. QED
    BY <2>2, <2>5 DEF RecordsFollow
<1>7. ASSUME NEW r \in Robots, Robot(r)
      PROVE  OnePlace' /\ RecordsFollow'
  <2>1. /\ OnePlace'
        /\ \A s \in Robots, u \in Tasks :
             /\ At(s, u)' => At(s, u)
             /\ Done(s, u)' => \/ Done(s, u)
                               \/ At(s, u) /\ step[u] # "published"
    BY <1>0, <1>7, RobotPlaces
  <2>2. UNCHANGED <<step, records>>
    BY <1>7 DEF Robot, RobotTakes, RobotCompletes, RobotAbandons, RobotForgets,
                RobotRestarts, memory, stored
  <2>3. ASSUME NEW u \in Tasks, NEW s \in Robots
        PROVE  /\ At(s, u)' => ~Settled(u)'
               /\ At(s, u)' => step'[u] = "published" \/ records'[u] # <<>>
               /\ Done(s, u)' => FindTask(u)' = "ASSIGNED"
    <3>1. FindTask(u)' = FindTask(u) /\ (Settled(u)' <=> Settled(u))
      BY <2>2 DEF FindTask, Settled
    <3>2. At(s, u) /\ step[u] # "published" => FindTask(u) = "ASSIGNED"
      BY <1>1, <1>2
    <3>3. QED
      BY <1>2, <2>1, <2>2, <3>1, <3>2
  <2>4. QED
    BY <2>1, <2>3 DEF RecordsFollow
<1>8. ~Restart
  BY DEF Restart
<1>9. QED
  BY <1>0, <1>3, <1>4, <1>5, <1>6, <1>7, <1>8, HandlersOnly
     DEF Next, Dispatch, Callbacks

(* A failure is either in tasks.failed or the one task_completion_cb has   *)
(* still to publish.                                                       *)
LEMMA FailureStep ==
  ASSUME StoresWork, TypeInv, [Next]_vars, up, connected, OnePlace,
         RecordsFollow, FailuresTold
  PROVE  FailuresTold'
<1> USE DEF TypeInv, FleetTypeOK
<1>0. /\ ~Crash /\ "amqp_race" \notin Failures /\ "mongo_error" \notin Failures
      /\ NoTask \notin Tasks
  BY SoundRun, FleetAssumption DEF StoresWork
<1>1. SUFFICES ASSUME NEW u \in Tasks
               PROVE  Failed(u) \in failed' \/ failing' = u
                        <=> FindTask(u)' = "FAILED"
  BY DEF FailuresTold, Failed
<1>2. Failed(u) \in failed \/ failing = u <=> FindTask(u) = "FAILED"
  BY DEF FailuresTold
<1>3. CASE /\ UNCHANGED failing
           /\ Failed(u) \in failed' <=> Failed(u) \in failed
           /\ FindTask(u)' = "FAILED" <=> FindTask(u) = "FAILED"
  BY <1>2, <1>3
<1>4. ASSUME NEW t \in Tasks,
             \/ TaskRequest(t) \/ SubmitTask(t) \/ Enqueue(t) \/ Consume(t)
             \/ Dispatch(t)
      PROVE  /\ UNCHANGED failing
             /\ Failed(u) \in failed' <=> Failed(u) \in failed
             /\ FindTask(u)' = "FAILED" <=> FindTask(u) = "FAILED"
  <2>1. ASSUME ~Store(t)
        PROVE  UNCHANGED <<failing, records>>
    BY <1>0, <1>4, <2>1
       DEF TaskRequest, SubmitTask, Enqueue, Consume, Dispatch, Publish,
           StoreFails, Acknowledge, Answer, memory, stored
  <2>2. failed' \in {failed, failed \cup {Rejected(t)}}
    BY <1>0, <1>4
       DEF TaskRequest, SubmitTask, Enqueue, Consume, Dispatch, Publish, Store,
           StoreFails, Acknowledge, Answer, stored, Rejected
  <2>3. Rejected(t) # Failed(u)
    BY DEF Rejected, Failed
  <2>4. ASSUME Store(t)
        PROVE  /\ UNCHANGED failing
               /\ FindTask(u)' = "FAILED" <=> FindTask(u) = "FAILED"
    <3>1. Insert(t) /\ choice[t] \in Robots /\ UNCHANGED failing
      BY <2>4 DEF Store, HandlerHasRobot
    <3>2. /\ u # t => FindTask(u)' = FindTask(u)
          /\ FindTask(t)' = IF records[t] = <<>> THEN "ASSIGNED"
                                                ELSE FindTask(t)
      BY <3>1, InsertFind
    <3>3. records[t] = <<>> => FindTask(t) = "not found"
      BY FindLemma
    <3>4. QED
      BY <3>1, <3>2, <3>3
  <2>5. QED
    BY <2>1, <2>2, <2>3, <2>4 DEF FindTask
<1>5. ASSUME NEW r \in Robots, TaskCompletion(r)
      PROVE  Failed(u) \in failed' \/ failing' = u <=> FindTask(u)' = "FAILED"
  <2> DEFINE c == Head(completions[r])
  <2>1. /\ completions[r] # <<>> /\ Settle(c.task, c.result)
        /\ completions' = [completions EXCEPT ![r] = Tail(completions[r])]
        /\ UNCHANGED <<failed, waiting, held, sent>> /\ failing = NoTask
        /\ failing' = IF c.result = "COMPLETED" THEN NoTask ELSE c.task
    BY <1>0, <1>5 DEF TaskCompletion, RosFree, history
  <2>2. c \in Report /\ Done(r, c.task)
    BY <2>1, ReportGone
  <2> HIDE DEF c
  <2>3. /\ c.task \in Tasks /\ c.result \in Outcomes
        /\ FindTask(c.task) = "ASSIGNED" /\ records[c.task] # <<>>
    BY <2>2, FindLemma DEF Report, RecordsFollow
  <2>4. /\ u # c.task => FindTask(u)' = FindTask(u)
        /\ u = c.task => FindTask(u)' = c.result
    BY <2>1, <2>3, SettleFind
  <2>5. CASE u = c.task
    BY <1>0, <1>2, <2>1, <2>3, <2>4, <2>5 DEF Outcomes
  <2>6. CASE u # c.task
    BY <1>0, <1>2, <2>1, <2>4, <2>6
  <2>7. QED
    BY <2>5, <2>6
<1>6. ASSUME PublishFailed
      PROVE  Failed(u) \in failed' \/ failing' = u <=> FindTask(u)' = "FAILED"
  <2>1. /\ failed' = failed \cup {Failed(failing)} /\ failing' = NoTask
        /\ UNCHANGED records
    BY <1>0, <1>6 DEF PublishFailed, Failed
  <2>2. Failed(u) = Failed(failing) <=> u = failing
    BY DEF Failed
  <2>3. FindTask(u)' = FindTask(u)
    BY <2>1 DEF FindTask
  <2>4. QED
    BY <1>0, <1>2, <2>1, <2>2, <2>3
<1>7. ASSUME \/ \E r \in Robots : RobotStatus(r) \/ Robot(r)
             \/ BrokerLost \/ UNCHANGED vars
      PROVE  UNCHANGED <<failing, failed, records>>
  BY <1>0, <1>7
     DEF RobotStatus, Robot, RobotTakes, RobotCompletes, RobotAbandons,
         RobotForgets, RobotRestarts, BrokerLost, vars, memory, stored
<1>8. ~Restart
  BY DEF Restart
<1>9. QED
  BY <1>0, <1>3, <1>4, <1>5, <1>6, <1>7, <1>8
     DEF Next, Requests, Callbacks, FindTask

LEMMA LetterInvariant ==
  ASSUME StoresWork
  PROVE  Spec => []LetterInv
<1>1. Init => LetterInv
  BY FleetAssumption
     DEF Init, LetterInv, RejectedForGood, OnePlace, Place, RecordsFollow,
         FailuresTold, At, Done, Distinct, FindTask, Settled, Outcomes,
         IsInjective, ToSet
<1>2. TypeInv /\ RequestInv /\ QueueInv /\ SendBound /\ RecordNamesRobot
        /\ LetterInv /\ [Next]_vars => LetterInv'
  BY SoundRun, RejectedStep, PlaceStep, FailureStep DEF LetterInv
<1>3. QED
  BY <1>1, <1>2, TypeInvariant, RequestInvariant, SendInvariant,
     RecordsNameRobots, PTL DEF Spec

(* Where MongoDB and RabbitMQ answer, the process does not crash and a     *)
(* robot takes longer for a task than the server takes to record it,       *)
(* tasks.failed tells the truth: a rejected message was never assigned and *)
(* never will be, and the tasks recorded as FAILED are exactly those       *)
(* reported there, or about to be.                                         *)
THEOREM DeadLettersAreAlwaysTrue ==
  ASSUME StoresWork
  PROVE  Spec => []DeadLettersAreTrue
<1>1. LetterInv => DeadLettersAreTrue
  BY DEF LetterInv, RejectedForGood, FailuresTold, DeadLettersAreTrue
<1>2. QED
  BY <1>1, LetterInvariant, PTL

(***************************************************************************)
(* The server keeps to what a robot relies on                              *)
(***************************************************************************)

(* How the robot's view of its tasks follows from what a step did to each. *)
LEMMA ViewLemma ==
  ASSUME \A u \in Tasks :
           /\ (AnyRobot \in ToSet(sent[u]))' <=> AnyRobot \in ToSet(sent[u])
           /\ AnyRobot \in ToSet(sent[u]) =>
                (Settled(u) \/ Done(AnyRobot, u))'
                  <=> Settled(u) \/ Done(AnyRobot, u)
  PROVE  /\ DoneTasks' = DoneTasks
         /\ UNCHANGED <<waiting[AnyRobot], held[AnyRobot]>>
              => UNCHANGED Custody!custody
<1>1. DoneTasks' = DoneTasks
  BY DEF DoneTasks, Done
<1>2. UNCHANGED <<waiting[AnyRobot], held[AnyRobot]>>
        => LostTasks' = LostTasks
  BY <1>1 DEF LostTasks
<1>3. QED
  BY <1>1, <1>2 DEF Custody!custody

(* Nothing the server stores or forgets is seen by the robot.              *)
LEMMA StoreCustody ==
  ASSUME TypeInv, NEW t \in Tasks, Store(t)
  PROVE  UNCHANGED Custody!custody
<1> USE DEF TypeInv, FleetTypeOK
<1>1. Insert(t) /\ choice[t] \in Robots /\ UNCHANGED <<robots, sent>>
  BY DEF Store, HandlerHasRobot, history
<1>2. /\ \A u \in Tasks \ {t} : FindTask(u)' = FindTask(u)
      /\ FindTask(t)' = IF records[t] = <<>> THEN "ASSIGNED"
                                            ELSE FindTask(t)
      /\ records[t] = <<>> => FindTask(t) = "not found"
  BY <1>1, InsertFind, FindLemma
<1>3. \A u \in Tasks : Settled(u)' <=> Settled(u)
  BY <1>2 DEF Settled, Outcomes
<1>4. \A u \in Tasks : Done(AnyRobot, u)' <=> Done(AnyRobot, u)
  BY <1>1 DEF robots, Done
<1>5. QED
  BY <1>1, <1>3, <1>4, ViewLemma DEF robots

(* A completion that is recorded was on its way: to the robot it makes no  *)
(* difference.                                                             *)
LEMMA CompletionCustody ==
  ASSUME TypeInv, OnePlace, RecordsFollow, ~Crash, NEW r \in Robots,
         TaskCompletion(r)
  PROVE  UNCHANGED Custody!custody
<1> USE DEF TypeInv, FleetTypeOK
<1> DEFINE c == Head(completions[r])
<1>1. /\ completions[r] # <<>> /\ Settle(c.task, c.result)
      /\ completions' = [completions EXCEPT ![r] = Tail(completions[r])]
      /\ UNCHANGED <<waiting, held, sent>>
  BY DEF TaskCompletion, history
<1>2. c \in Report /\ Done(r, c.task)
      /\ ToSet(completions[r]) = {c} \cup ToSet(Tail(completions[r]))
  BY <1>1, ReportGone, TailLemma
<1> HIDE DEF c
<1>3. /\ c.task \in Tasks /\ c.result \in Outcomes
      /\ sent[c.task] = <<r>> /\ records[c.task] # <<>>
  BY <1>2, FindLemma DEF Report, OnePlace, Place, RecordsFollow
<1>4. ASSUME NEW u \in Tasks
      PROVE  /\ u # c.task => (Settled(u)' <=> Settled(u))
             /\ u = c.task => Settled(u)'
  BY <1>1, <1>3, SettleFind DEF Settled
<1>5. ASSUME NEW u \in Tasks, u # c.task
      PROVE  Done(AnyRobot, u)' <=> Done(AnyRobot, u)
  BY <1>1, <1>2, <1>5, CustodyAssumption DEF Done
<1>6. AnyRobot \in ToSet(sent[c.task]) => AnyRobot = r
  BY <1>3 DEF ToSet
<1>7. QED
  BY <1>1, <1>2, <1>4, <1>5, <1>6, ViewLemma

(* The server publishes a task to a robot that never had it.               *)
LEMMA PublishCustody ==
  ASSUME MaxCrashes = 0, TypeInv, SendBound, RecordNamesRobot, OnePlace,
         NEW t \in Tasks, Publish(t)
  PROVE  [Custody!Next]_(Custody!custody)
<1> USE DEF TypeInv, FleetTypeOK
<1> DEFINE r == choice[t]
<1>1. r \in Robots /\ sent[t] = <<>> /\ records[t] = <<>>
  BY NotYetSent DEF Publish, HandlerHasRobot, MaySend
<1>2. /\ waiting'[r] = Append(waiting[r], t)
      /\ \A s \in Robots \ {r} : waiting'[s] = waiting[s]
      /\ sent'[t] = Append(sent[t], r)
      /\ \A u \in Tasks \ {t} : sent'[u] = sent[u]
      /\ UNCHANGED <<held, completions, records>>
  BY <1>1 DEF Publish, stored
<1> HIDE DEF r
<1>3. sent'[t] = <<r>> /\ ToSet(sent'[t]) = {r} /\ ToSet(sent[t]) = {}
  BY <1>1, <1>2 DEF ToSet
<1>4. ~At(AnyRobot, t) /\ ~Done(AnyRobot, t) /\ ~Settled(t)
  <2>1. <<AnyRobot>> # <<>>
    OBVIOUS
  <2>2. ~Settled(t)
    BY <1>1 DEF Settled, FindTask, Outcomes
  <2>3. QED
    BY <1>1, <2>1, <2>2, CustodyAssumption DEF OnePlace, Place
<1>5. \A u \in Tasks : /\ Settled(u)' <=> Settled(u)
                       /\ Done(AnyRobot, u)' <=> Done(AnyRobot, u)
  BY <1>2 DEF Settled, FindTask, Done
<1>6. CASE r # AnyRobot
  BY <1>2, <1>3, <1>5, <1>6, ViewLemma, CustodyAssumption
<1>7. CASE r = AnyRobot
  <2>1. DoneTasks' = DoneTasks
    BY <1>2, <1>3, <1>4, <1>5 DEF DoneTasks, Done
  <2>2. ToSet(waiting'[AnyRobot]) = ToSet(waiting[AnyRobot]) \cup {t}
    <3>1. waiting[r] \in Seq(Tasks)
      BY <1>1
    <3>2. ToSet(Append(waiting[r], t)) = ToSet(waiting[r]) \cup {t}
      BY <3>1, AppendLemma
    <3>3. QED
      BY <1>2, <1>7, <3>2
  <2>3. LostTasks' = LostTasks
    BY <1>2, <1>3, <2>1, <2>2 DEF LostTasks
  <2>4. /\ t \notin DoneTasks \cup LostTasks
        /\ t # held[AnyRobot] /\ t \notin ToSet(waiting[AnyRobot])
    BY <1>3, <1>4 DEF DoneTasks, LostTasks, At
  <2>5. /\ waiting'[AnyRobot] = Append(waiting[AnyRobot], t)
        /\ UNCHANGED <<held[AnyRobot], DoneTasks, LostTasks>>
    BY <1>2, <1>7, <2>1, <2>3
  <2>6. Custody!Assign(t)
    BY <2>4, <2>5 DEF Custody!Assign, Custody!ToSet, ToSet
  <2>7. QED
    BY <2>6 DEF Custody!Next
<1>8. QED
  BY <1>6, <1>7

(* What a robot does is a step of TaskCustody.                             *)
LEMMA RobotCustody ==
  ASSUME StoresWork, "robot_restart" \notin Failures, up, TypeInv, OnePlace,
         RecordsFollow, NEW r \in Robots, Robot(r)
  PROVE  [Custody!Next]_(Custody!custody)
<1> USE DEF TypeInv, FleetTypeOK
<1>1. UNCHANGED <<records, sent>>
  BY DEF Robot, RobotTakes, RobotCompletes, RobotAbandons, RobotForgets,
         RobotRestarts, stored, history
<1>2. \A u \in Tasks : Settled(u)' <=> Settled(u)
  BY <1>1 DEF Settled, FindTask
<1>3. CASE r # AnyRobot
  <2>1. /\ waiting'[AnyRobot] = waiting[AnyRobot]
        /\ held'[AnyRobot] = held[AnyRobot]
        /\ completions'[AnyRobot] = completions[AnyRobot]
    BY <1>3, CustodyAssumption DEF Robot, RobotTakes, RobotCompletes,
       RobotAbandons, RobotForgets, RobotRestarts
  <2>2. \A u \in Tasks : Done(AnyRobot, u)' <=> Done(AnyRobot, u)
    BY <2>1 DEF Done
  <2>3. QED
    BY <1>1, <1>2, <2>1, <2>2, ViewLemma
<1> DEFINE had == held[AnyRobot]
<1>4. ASSUME had # NoTask
      PROVE  had \in Tasks /\ AnyRobot \in ToSet(sent[had])
             /\ had \notin DoneTasks \cup ToSet(waiting[AnyRobot])
  <2>1. had \in Tasks /\ At(AnyRobot, had)
    BY <1>4, CustodyAssumption DEF At
  <2>2. /\ sent[had] = <<AnyRobot>> /\ ~Done(AnyRobot, had) /\ ~Settled(had)
        /\ had \notin ToSet(waiting[AnyRobot])
    BY <2>1, CustodyAssumption DEF OnePlace, Place, RecordsFollow
  <2>3. AnyRobot \in ToSet(<<AnyRobot>>)
    BY DEF ToSet
  <2>4. had \notin DoneTasks
    BY <2>2 DEF DoneTasks, Done
  <2>5. QED
    BY <2>1, <2>2, <2>3, <2>4
<1>5. ToSet(waiting[AnyRobot]) \subseteq Tasks /\ NoTask \notin Tasks
  BY FleetAssumption, CustodyAssumption DEF ToSet
<1>6. ASSUME UNCHANGED completions
      PROVE  DoneTasks' = DoneTasks
  BY <1>1, <1>2, <1>6, ViewLemma DEF Done
<1>7. CASE r = AnyRobot /\ RobotTakes(r)
  <2>1. /\ had = NoTask /\ waiting[r] # <<>>
        /\ held'[r] = Head(waiting[r]) /\ waiting'[r] = Tail(waiting[r])
        /\ UNCHANGED completions
    BY <1>7 DEF RobotTakes
  <2>2. ToSet(waiting[r]) = {Head(waiting[r])} \cup ToSet(Tail(waiting[r]))
    BY <2>1, TailLemma
  <2>3. LostTasks' = LostTasks
    BY <1>1, <1>5, <1>6, <1>7, <2>1, <2>2 DEF LostTasks
  <2>4. Custody!Take
    BY <1>6, <1>7, <2>1, <2>3 DEF Custody!Take
  <2>5. QED
    BY <2>4 DEF Custody!Next
<1>8. CASE r = AnyRobot /\ RobotAbandons(r)
  <2>1. /\ had # NoTask /\ waiting[r] # <<>>
        /\ held'[r] = Head(waiting[r]) /\ waiting'[r] = Tail(waiting[r])
        /\ UNCHANGED completions
    BY <1>8 DEF RobotAbandons
  <2>2. ToSet(waiting[r]) = {Head(waiting[r])} \cup ToSet(Tail(waiting[r]))
    BY <2>1, TailLemma
  <2>3. LostTasks' = LostTasks \cup {had}
    BY <1>1, <1>4, <1>5, <1>6, <1>8, <2>1, <2>2 DEF LostTasks
  <2>4. Custody!Displace
    BY <1>6, <1>8, <2>1, <2>3 DEF Custody!Displace
  <2>5. QED
    BY <2>4 DEF Custody!Next
<1>9. CASE r = AnyRobot /\ RobotForgets(r)
  <2>1. /\ had # NoTask /\ held'[r] = NoTask
        /\ UNCHANGED <<waiting, completions>>
    BY <1>9 DEF RobotForgets
  <2>2. LostTasks' = LostTasks \cup {had}
    BY <1>1, <1>4, <1>5, <1>6, <1>9, <2>1 DEF LostTasks
  <2>3. Custody!Forget
    BY <1>6, <1>9, <2>1, <2>2 DEF Custody!Forget
  <2>4. QED
    BY <2>3 DEF Custody!Next
<1>10. CASE r = AnyRobot /\ RobotCompletes(r)
  <2>1. PICK result \in Outcomes :
          completions' = [completions EXCEPT ![r] =
            Append(completions[r], [task |-> had, result |-> result])]
    BY <1>10 DEF RobotCompletes
  <2> DEFINE c == [task |-> had, result |-> result]
  <2>2. /\ had # NoTask /\ held'[r] = NoTask /\ UNCHANGED waiting
        /\ completions'[r] = Append(completions[r], c)
    BY <1>10, <2>1 DEF RobotCompletes
  <2>3. c \in Report /\ c.task = had
    BY <1>4, <2>2 DEF Report
  <2> HIDE DEF c
  <2>4. ToSet(completions'[r]) = ToSet(completions[r]) \cup {c}
    BY <2>2, <2>3, AppendLemma
  <2>5. \A u \in Tasks : Done(r, u)' <=> Done(r, u) \/ u = had
    BY <2>3, <2>4 DEF Done
  <2>6. DoneTasks' = DoneTasks \cup {had}
    BY <1>1, <1>2, <1>4, <1>10, <2>2, <2>5 DEF DoneTasks, Done
  <2>7. LostTasks' = LostTasks
    BY <1>1, <1>4, <1>5, <1>10, <2>2, <2>6 DEF LostTasks
  <2>8. Custody!Complete
    BY <1>10, <2>2, <2>6, <2>7 DEF Custody!Complete
  <2>9. QED
    BY <2>8 DEF Custody!Next
<1>11. ~RobotRestarts(r)
  BY DEF RobotRestarts
<1>12. QED
  BY <1>3, <1>7, <1>8, <1>9, <1>10, <1>11 DEF Robot

LEMMA CustodyStep ==
  ASSUME StoresWork, "robot_restart" \notin Failures, TypeInv, [Next]_vars,
         SendBound, RecordNamesRobot, LetterInv
  PROVE  [Custody!Next]_(Custody!custody)
<1>0. ~Crash /\ MaxCrashes = 0 /\ up
  BY SoundRun DEF StoresWork, LetterInv
<1>1. CASE UNCHANGED <<robots, records, sent>>
  <2>1. \A u \in Tasks : /\ Settled(u)' <=> Settled(u)
                         /\ Done(AnyRobot, u)' <=> Done(AnyRobot, u)
    BY <1>1 DEF robots, Settled, FindTask, Done
  <2>2. QED
    BY <1>1, <2>1, ViewLemma DEF robots
<1>2. ASSUME NEW t \in Tasks, Publish(t)
      PROVE  [Custody!Next]_(Custody!custody)
  BY <1>0, <1>2, PublishCustody DEF LetterInv
<1>3. ASSUME NEW t \in Tasks, Store(t)
      PROVE  [Custody!Next]_(Custody!custody)
  BY <1>3, StoreCustody
<1>4. ASSUME NEW r \in Robots, TaskCompletion(r)
      PROVE  [Custody!Next]_(Custody!custody)
  BY <1>0, <1>4, CompletionCustody DEF LetterInv
<1>5. ASSUME NEW r \in Robots, Robot(r)
      PROVE  [Custody!Next]_(Custody!custody)
  BY <1>0, <1>5, RobotCustody DEF LetterInv
<1>6. ~Restart
  BY <1>0 DEF Restart
<1>7. QED
  BY <1>0, <1>1, <1>2, <1>3, <1>4, <1>5, <1>6, HandlersOnly
     DEF Next, Dispatch, Callbacks

(* The fleet server is the environment that a robot agent relies on: where *)
(* MongoDB and RabbitMQ answer, neither process ends, and a robot takes    *)
(* longer for a task than the server takes to record it, it assigns the    *)
(* robot no task that the robot has had before, and what it records and    *)
(* reports never takes a completion back.                                  *)
THEOREM EveryRobotIsCustodian ==
  ASSUME StoresWork, "robot_restart" \notin Failures
  PROVE  Spec => RobotIsCustodian
<1>1. Init => Custody!Init
  <2> SUFFICES ASSUME Init
               PROVE  Custody!Init
    OBVIOUS
  <2>1. DoneTasks = {} /\ LostTasks = {}
    BY DEF Init, DoneTasks, LostTasks, ToSet
  <2>2. QED
    BY <2>1, CustodyAssumption DEF Init, Custody!Init
<1>2. TypeInv /\ SendBound /\ RecordNamesRobot /\ LetterInv /\ [Next]_vars
        => [Custody!Next]_(Custody!custody)
  BY CustodyStep
<1>3. QED
  BY <1>1, <1>2, LetterInvariant, TypeInvariant, SendInvariant,
     RecordsNameRobots, PTL DEF Spec, RobotIsCustodian, Custody!Spec
=============================================================================
