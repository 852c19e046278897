-------------------------- MODULE RobotCommandProofs --------------------------
(***************************************************************************)
(* Proofs about RobotCommand, for every set of calls: the goals behave as  *)
(* NavGoals says whatever the commands do, the answers are true, and every *)
(* navigation ended by a fault is accounted for by a call that was served. *)
(***************************************************************************)
EXTENDS RobotCommand, NavGoalsProofs, FiniteSetTheorems

(* A command reaches the goals only through the fault flag: every step is  *)
(* one of NavGoals, or none.                                               *)
LEMMA CommandsKeepGoals == Spec => NavSpec
<1>1. Init => NavInit
  BY DEF Init
<1>2. [Next]_vars => [NavNext]_navVars
  <2>1. ASSUME NEW c \in Calls, Command(c)
        PROVE  [NavNext]_navVars
    BY <2>1 DEF Command, Refuse, Send, Serve, SetFault, ResponseArrives, Answer,
                TimeOut, ServerGone, NavNext
  <2>2. ASSUME NEW n \in Nodes, FaultStrikes(n)
        PROVE  NavNext
    BY <2>2 DEF FaultStrikes, NavNext
  <2>3. Navigate => NavNext
    BY DEF NavNext
  <2>4. RobotRestarts => NavNext
    BY DEF RobotRestarts, NavNext
  <2>5. UNCHANGED vars => UNCHANGED navVars
    BY DEF vars
  <2>6. QED
    BY <2>1, <2>2, <2>3, <2>4, <2>5 DEF Next
<1>3. QED
  BY <1>1, <1>2, PTL DEF Spec, NavSpec

LEMMA CommandGoals == Spec => []GoalInv
BY CommandsKeepGoals, GoalInvariant, PTL

(* What a node believes of its goal is what Nav2 made of that goal.        *)
THEOREM ViewAlwaysOwnGoal == Spec => []ViewIsOwnGoal
<1>1. GoalInv => ViewIsOwnGoal
  BY DEF GoalInv
<1>2. QED
  BY <1>1, CommandGoals, PTL

(* Nobody cancels a goal a RUNNING node waits for.                         *)
THEOREM AwaitedNeverCancelled == Spec => []AwaitedNotCancelled
<1>1. GoalInv => AwaitedNotCancelled
  BY DEF GoalInv
<1>2. QED
  BY <1>1, CommandGoals, PTL

(* A goal Nav2 works on is awaited, about to be cancelled, or one the      *)
(* agent let go of before it had an answer.                                *)
THEOREM AdriftAlwaysKnown == Spec => []AdriftIsKnown
<1>1. GoalInv => AdriftIsKnown
  BY DEF GoalInv
<1>2. QED
  BY <1>1, CommandGoals, PTL

(* With commands and restarts, a node still sees one goal at a time.       *)
THEOREM CommandsImplementClient == Spec => ClientSpec
BY CommandsKeepGoals, GoalsImplementClient, PTL

(***************************************************************************)
(* Answers and faults                                                      *)
(***************************************************************************)

(* A call is served once: while its request is on its way it has not been, *)
(* and it has been from the moment a response exists.                      *)
ServedOnce ==
  /\ IsFiniteSet(served)
  /\ \A c \in Calls : c \in served <=> request[c] \in {"served", "ready"}

CallInv == CommandTypeOK /\ ServedOnce /\ RepliesAreTrue /\ FaultsAccounted

(* The two histories as numbers. *)
LEMMA ServedNumber ==
  ASSUME IsFiniteSet(served), NEW c
  PROVE  /\ Cardinality(served \cap Injections) \in Nat
         /\ IsFiniteSet(served \cup {c})
         /\ c \in Injections \ served =>
              Cardinality((served \cup {c}) \cap Injections)
                = Cardinality(served \cap Injections) + 1
         /\ c \notin Injections =>
              (served \cup {c}) \cap Injections = served \cap Injections
<1>1. /\ IsFiniteSet(served \cap Injections)
      /\ Cardinality(served \cap Injections) \in Nat
  BY FS_Intersection, FS_CardinalityType
<1>2. IsFiniteSet(served \cup {c})
  BY FS_AddElement
<1>3. ASSUME c \in Injections \ served
      PROVE  Cardinality((served \cup {c}) \cap Injections)
               = Cardinality(served \cap Injections) + 1
  <2>1. (served \cup {c}) \cap Injections = (served \cap Injections) \cup {c}
    BY <1>3
  <2>2. c \notin served \cap Injections
    BY <1>3
  <2>3. QED
    BY <1>1, <2>1, <2>2, FS_AddElement
<1>4. c \notin Injections =>
        (served \cup {c}) \cap Injections = served \cap Injections
  OBVIOUS
<1>5. QED
  BY <1>1, <1>2, <1>3, <1>4

(* What a call tells its caller, and what becomes of its request, touches  *)
(* no fault unless the request is served.                                  *)
LEMMA CallKeepsCallInv ==
  ASSUME CallInv, NEW c \in Calls, Command(c), ~Serve(c), NavTypeOK'
  PROVE  CallInv'
<1> USE DEF CallInv
<1>1. UNCHANGED <<fault, served, hits>>
  BY DEF Command, Refuse, Send, ResponseArrives, Answer, TimeOut, ServerGone,
         navVars
<1>2. /\ request' \in [Calls -> Progress] /\ reply' \in [Calls -> Replies]
      /\ \A d \in Calls \ {c} : request'[d] = request[d] /\ reply'[d] = reply[d]
  BY DEF CommandTypeOK, Command, Refuse, Send, ResponseArrives, Answer, TimeOut,
         ServerGone, Tell, Progress, Replies
<1>3. \/ /\ request'[c] = request[c] /\ reply'[c] = "refused"
         /\ request[c] = "none"
      \/ request[c] = "none" /\ request'[c] = "sent" /\ reply'[c] = "none"
      \/ /\ request[c] = "served" /\ request'[c] = "ready"
         /\ reply'[c] = reply[c]
      \/ request[c] = "ready" /\ request'[c] = "ready" /\ reply'[c] = "success"
      \/ request'[c] = request[c] /\ reply'[c] = "no_answer"
  BY DEF CommandTypeOK, Command, Refuse, Send, ResponseArrives, Answer, TimeOut,
         ServerGone, Tell, Waiting
<1>4. CommandTypeOK' /\ ServedOnce' /\ FaultsAccounted'
  BY <1>1, <1>2, <1>3 DEF CommandTypeOK, ServedOnce, FaultsAccounted
<1>5. RepliesAreTrue'
  BY <1>1, <1>2, <1>3 DEF RepliesAreTrue, ServedOnce
<1>6. QED
  BY <1>4, <1>5

(* fault_service_cb serves a call for the first time, and sets the fault   *)
(* only for an injection.                                                  *)
LEMMA ServeKeepsCallInv ==
  ASSUME CallInv, NEW c \in Calls, Serve(c), NavTypeOK'
  PROVE  CallInv'
<1> USE DEF CallInv
<1>1. /\ request[c] = "sent" /\ request' = [request EXCEPT ![c] = "served"]
      /\ served' = served \cup {c} /\ UNCHANGED <<reply, hits>>
  BY DEF Serve
<1>2. c \notin served
  BY <1>1 DEF ServedOnce
<1>3. CommandTypeOK'
  BY <1>1 DEF CommandTypeOK, Progress
<1>4. ServedOnce' /\ RepliesAreTrue'
  BY <1>1, ServedNumber DEF CommandTypeOK, ServedOnce, RepliesAreTrue
<1>5. FaultsAccounted'
  <2>1. CASE c \in Injections
    <3>1. fault' = TRUE
      BY <2>1 DEF Serve, SetFault, InjectFault
    <3>2. Cardinality(served' \cap Injections)
            = Cardinality(served \cap Injections) + 1
      BY <1>1, <1>2, <2>1, ServedNumber DEF ServedOnce
    <3>3. Cardinality(served \cap Injections) \in Nat
      BY ServedNumber DEF ServedOnce
    <3>4. hits <= Cardinality(served \cap Injections) /\ hits \in Nat
      BY <3>3 DEF FaultsAccounted, CommandTypeOK
    <3>5. QED
      BY <1>1, <3>1, <3>2, <3>3, <3>4 DEF FaultsAccounted
  <2>2. CASE c \notin Injections
    <3>1. fault' = fault
      BY <2>2 DEF Serve, SetFault, navVars
    <3>2. served' \cap Injections = served \cap Injections
      BY <1>1, <2>2
    <3>3. QED
      BY <1>1, <3>1, <3>2 DEF FaultsAccounted
  <2>3. QED
    BY <2>1, <2>2
<1>6. QED
  BY <1>3, <1>4, <1>5

(* A navigation the fault ends uses the fault up. *)
LEMMA StrikeKeepsCallInv ==
  ASSUME CallInv, NEW n \in Nodes, FaultStrikes(n), NavTypeOK'
  PROVE  CallInv'
<1> USE DEF CallInv
<1>1. /\ fault = TRUE /\ fault' = FALSE /\ hits' = hits + 1
      /\ UNCHANGED <<request, reply, served>>
  BY DEF FaultStrikes, NavFault, Consume, CommandTypeOK, NavTypeOK
<1>2. CommandTypeOK' /\ ServedOnce' /\ RepliesAreTrue'
  BY <1>1 DEF CommandTypeOK, ServedOnce, RepliesAreTrue
<1>3. Cardinality(served \cap Injections) \in Nat
  BY ServedNumber DEF ServedOnce
<1>4. FaultsAccounted'
  BY <1>1, <1>3 DEF FaultsAccounted, CommandTypeOK
<1>5. QED
  BY <1>2, <1>4

(* A restart forgets the fault and the requests that were not served.      *)
LEMMA RestartKeepsCallInv ==
  ASSUME CallInv, RobotRestarts, NavTypeOK'
  PROVE  CallInv'
<1> USE DEF CallInv
<1>1. /\ fault' = FALSE /\ UNCHANGED <<reply, served, hits>>
      /\ request' = [c \in Calls |->
                       IF request[c] = "sent" THEN "lost" ELSE request[c]]
  BY DEF RobotRestarts, AgentRestarts
<1>2. CommandTypeOK' /\ ServedOnce' /\ RepliesAreTrue'
  BY <1>1 DEF CommandTypeOK, ServedOnce, RepliesAreTrue, Progress
<1>3. Cardinality(served \cap Injections) \in Nat
  BY ServedNumber DEF ServedOnce
<1>4. FaultsAccounted'
  BY <1>1, <1>3 DEF FaultsAccounted, CommandTypeOK
<1>5. QED
  BY <1>2, <1>4

(* The other steps of the robot leave the fault and the calls alone.       *)
LEMMA NavigateKeepsCallInv ==
  ASSUME CallInv, Navigate, UNCHANGED commandVars, NavTypeOK'
  PROVE  CallInv'
<1>1. fault' = fault
  BY DEF Navigate, Start, HaltLeg, Return, GoalResponse, GoalResult, Nav2,
         Accept, Reject, Finish, CancelArrives
<1>2. QED
  BY <1>1 DEF CallInv, CommandTypeOK, ServedOnce, RepliesAreTrue,
              FaultsAccounted, commandVars

LEMMA CallInvariant == Spec => []CallInv
<1>1. Init /\ NavTypeOK => CallInv
  <2>1. IsFiniteSet({}) /\ Cardinality({} \cap Injections) = 0
    BY FS_EmptySet
  <2>2. QED
    BY <2>1 DEF Init, NavInit, CallInv, CommandTypeOK, ServedOnce,
                RepliesAreTrue, FaultsAccounted, Progress, Replies
<1>2. CallInv /\ NavTypeOK' /\ [Next]_vars => CallInv'
  <2>1. ASSUME CallInv, NavTypeOK', Next
        PROVE  CallInv'
    BY <2>1, CallKeepsCallInv, ServeKeepsCallInv, StrikeKeepsCallInv,
       RestartKeepsCallInv, NavigateKeepsCallInv DEF Next
  <2>2. ASSUME CallInv, NavTypeOK', UNCHANGED vars
        PROVE  CallInv'
    BY <2>2 DEF vars, navVars, commandVars, CallInv, CommandTypeOK, ServedOnce,
                RepliesAreTrue, FaultsAccounted
  <2>3. QED
    BY <2>1, <2>2
<1>3. GoalInv => NavTypeOK
  BY DEF GoalInv
<1>4. QED
  BY <1>1, <1>2, <1>3, CommandGoals, PTL DEF Spec

(* Every variable has its type. *)
THEOREM CommandTypeCorrect == Spec => []CommandTypeOK
<1>1. CallInv => CommandTypeOK
  BY DEF CallInv
<1>2. QED
  BY <1>1, CallInvariant, PTL

(* Success means served and a refusal means never served, whatever timed   *)
(* out, was lost or restarted in between.                                  *)
THEOREM RepliesAlwaysTrue == Spec => []RepliesAreTrue
<1>1. CallInv => RepliesAreTrue
  BY DEF CallInv
<1>2. QED
  BY <1>1, CallInvariant, PTL

(* An injected fault ends one navigation at most, and none is ended that   *)
(* nobody injected.                                                        *)
THEOREM FaultsAlwaysAccounted == Spec => []FaultsAccounted
<1>1. CallInv => FaultsAccounted
  BY DEF CallInv
<1>2. QED
  BY <1>1, CallInvariant, PTL
=============================================================================
