--------------------------- MODULE NavGoalsProofs ---------------------------
(***************************************************************************)
(* Proofs about NavGoals, for every set of goals, every tree with its      *)
(* charger and legs, and any number of restarts.                           *)
(***************************************************************************)
EXTENDS NavGoals, QueueLemmas

(* A node keeps a NavState and a goal while it is RUNNING, and no two nodes *)
(* keep the same goal.                                                     *)
NodesOwnGoals ==
  /\ \A n \in Nodes : n \in running <=> nav[n] # "none"
  /\ \A n \in Nodes : n \in running <=> handle[n] \in Goals
  /\ \A m, n \in running : handle[m] = handle[n] => m = n

(* A goal on its way to Nav2 is there once, Nav2 has not heard of it and   *)
(* nobody cancels it; the agent waits for it or knows that it let it go.   *)
RequestsUndecided ==
  /\ IsInjective(requests)
  /\ \A g \in ToSet(requests) :
       server[g] = "unknown" /\ g \notin cancels /\ g \in Awaited \cup adrift

GoalInv ==
  /\ NavTypeOK /\ NodesOwnGoals /\ RequestsUndecided
  /\ ViewIsOwnGoal /\ AwaitedNotCancelled /\ AdriftIsKnown

(***************************************************************************)
(* The nodes                                                               *)
(***************************************************************************)

(* The goal onStart takes is nobody's, and forgetting the goals nobody     *)
(* refers to changes nothing for those somebody does.                      *)
LEMMA StartGoalInv ==
  ASSUME GoalInv, NEW n \in Nodes, Start(n)
  PROVE  GoalInv'
<1> DEFINE g == CHOOSE x \in Goals : Fresh(x)
<1> USE DEF GoalInv
<1>1. /\ g \in Goals /\ Fresh(g) /\ n \notin running
      /\ nav' = [nav EXCEPT ![n] = "sent"]
      /\ handle' = [handle EXCEPT ![n] = g]
      /\ requests' = Append(requests, g)
      /\ server' = [x \in Goals |-> IF Fresh(x) THEN "unknown" ELSE server[x]]
      /\ adrift' = {x \in adrift : ~Fresh(x)}
      /\ running' = running \cup {n}
      /\ UNCHANGED <<fault, cancels, restarts>>
  <2>1. \E x \in Goals : Fresh(x)
    BY DEF Start
  <2>2. n \notin running
    BY DEF Start
  <2>3. QED
    BY <2>1, <2>2 DEF Start
<1> HIDE DEF g
<1>2. /\ g \notin ToSet(requests) /\ g \notin cancels /\ server[g] # "active"
      /\ \A m \in Nodes : handle[m] # g
  BY <1>1 DEF Fresh
<1>3. /\ ToSet(requests') = ToSet(requests) \cup {g} /\ IsInjective(requests')
      /\ requests' \in Seq(Goals)
  BY <1>1, <1>2, AppendLemma, InjectiveLemma DEF NavTypeOK, RequestsUndecided
<1>4. \A m \in running : m \in Nodes /\ m # n /\ ~Fresh(handle[m])
  BY <1>1 DEF Fresh, NavTypeOK
<1>5. /\ \A m \in running : /\ handle'[m] = handle[m] /\ nav'[m] = nav[m]
                            /\ server'[handle[m]] = server[handle[m]]
      /\ handle'[n] = g /\ nav'[n] = "sent" /\ server'[g] = "unknown"
  BY <1>1, <1>4 DEF NavTypeOK, NodesOwnGoals
<1>6. Awaited' = Awaited \cup {g}
  BY <1>1, <1>5 DEF Awaited
<1>7. NavTypeOK'
  BY <1>1, <1>3 DEF NavTypeOK, Views, Outcomes
<1>8. NodesOwnGoals'
  <2>1. \A m \in Nodes \ {n} : handle'[m] = handle[m] /\ nav'[m] = nav[m]
    BY <1>1 DEF NavTypeOK
  <2>2. QED
    BY <1>1, <1>2, <1>5, <2>1 DEF NodesOwnGoals, NavTypeOK
<1>9. RequestsUndecided'
  <2>1. \A x \in ToSet(requests) : ~Fresh(x) /\ x \in Goals
    BY DEF Fresh, NavTypeOK, ToSet
  <2>2. \A x \in ToSet(requests) : server'[x] = server[x] /\ x \in Awaited' \cup adrift'
    BY <1>1, <1>6, <2>1 DEF RequestsUndecided
  <2>3. QED
    BY <1>1, <1>2, <1>3, <1>5, <1>6, <2>2 DEF RequestsUndecided
<1>10. ViewIsOwnGoal'
  BY <1>1, <1>5 DEF ViewIsOwnGoal
<1>11. AwaitedNotCancelled'
  BY <1>1, <1>2, <1>5, <1>6 DEF AwaitedNotCancelled, Awaited
<1>12. AdriftIsKnown'
  <2>1. \A x \in Goals : server'[x] = "active" => server[x] = "active" /\ ~Fresh(x)
    BY <1>1
  <2>2. QED
    BY <1>1, <1>6, <2>1 DEF AdriftIsKnown
<1>13. QED
  BY <1>7, <1>8, <1>9, <1>10, <1>11, <1>12

(* A node that is no longer RUNNING: its goal is cancelled, adrift, or     *)
(* over.                                                                   *)
LEMMA LeaveGoalInv ==
  ASSUME GoalInv, NEW n \in running,
         running' = running \ {n},
         nav' = [nav EXCEPT ![n] = "none"],
         handle' = [handle EXCEPT ![n] = NoGoal],
         cancels' = IF nav[n] = "accepted" THEN cancels \cup {handle[n]}
                    ELSE cancels,
         adrift' = IF nav[n] = "sent" THEN adrift \cup {handle[n]} ELSE adrift,
         fault' \in BOOLEAN, UNCHANGED <<requests, server, restarts>>
  PROVE  GoalInv'
<1> USE DEF GoalInv
<1>1. n \in Nodes /\ handle[n] \in Goals /\ nav[n] # "none"
  BY DEF NavTypeOK, NodesOwnGoals
<1>2. /\ \A m \in Nodes \ {n} : handle'[m] = handle[m] /\ nav'[m] = nav[m]
      /\ nav'[n] = "none" /\ handle'[n] = NoGoal
  BY <1>1 DEF NavTypeOK
<1>3. Awaited' = Awaited \ {handle[n]}
  <2>1. \A m \in running \ {n} : handle[m] # handle[n]
    BY DEF NodesOwnGoals
  <2>2. \A m \in running \ {n} : handle'[m] = handle[m]
    BY <1>2 DEF NavTypeOK
  <2>3. QED
    BY <2>1, <2>2 DEF Awaited
<1>4. NavTypeOK'
  BY <1>1 DEF NavTypeOK, Views
<1>5. NodesOwnGoals'
  <2>1. NoGoal \notin Goals
    BY NavAssumption
  <2>2. QED
    BY <1>1, <1>2, <2>1 DEF NodesOwnGoals, NavTypeOK
<1>6. nav[n] # "sent" =>
        /\ handle[n] \notin ToSet(requests)
        /\ nav[n] # "accepted" => server[handle[n]] # "active"
  BY <1>1 DEF ViewIsOwnGoal, RequestsUndecided, NavTypeOK, Views
<1>7. RequestsUndecided'
  <2>1. \A g \in ToSet(requests) : g \notin cancels'
    BY <1>6 DEF RequestsUndecided
  <2>2. \A g \in ToSet(requests) : g \in Awaited' \cup adrift'
    BY <1>3, <1>6 DEF RequestsUndecided
  <2>3. QED
    BY <2>1, <2>2 DEF RequestsUndecided
<1>8. ViewIsOwnGoal'
  BY <1>2 DEF ViewIsOwnGoal, NavTypeOK
<1>9. AwaitedNotCancelled'
  BY <1>3 DEF AwaitedNotCancelled
<1>10. AdriftIsKnown'
  <2>1. ASSUME NEW g \in Goals, server[g] = "active"
        PROVE  g \in Awaited' \cup cancels' \cup adrift'
    <3>1. CASE g = handle[n]
      BY <1>1, <1>6, <2>1, <3>1 DEF NavTypeOK, Views
    <3>2. CASE g # handle[n]
      BY <1>3, <2>1, <3>2 DEF AdriftIsKnown
    <3>3. QED
      BY <3>1, <3>2
  <2>2. QED
    BY <2>1 DEF AdriftIsKnown
<1>11. QED
  BY <1>4, <1>5, <1>7, <1>8, <1>9, <1>10

(* onRunning that ends its goal, by its result or by a fault, and onHalted *)
(* are all such.                                                           *)
LEMMA EndGoalInv ==
  ASSUME GoalInv, NEW n \in Nodes, HaltLeg(n) \/ NavFault(n) \/ Return(n)
  PROVE  GoalInv'
<1>1. CASE HaltLeg(n)
  <2>1. n \in running /\ fault' \in BOOLEAN
    BY <1>1 DEF HaltLeg, GoalInv, NavTypeOK
  <2>2. QED
    BY <1>1, <2>1, LeaveGoalInv DEF HaltLeg, OnHalted, CancelGoal
<1>2. CASE NavFault(n)
  <2>1. n \in running /\ fault' \in BOOLEAN
    BY <1>2 DEF NavFault, Ticked, Consume
  <2>2. QED
    BY <1>2, <2>1, LeaveGoalInv DEF NavFault, OnHalted, CancelGoal
<1>3. CASE Return(n)
  <2>1. /\ n \in running /\ running' = running \ {n}
        /\ nav[n] # "accepted" /\ nav[n] # "sent"
    BY <1>3 DEF Return, Ticked
  <2>2. fault' \in BOOLEAN
    BY <1>3 DEF Return, GoalInv, NavTypeOK
  <2>3. QED
    BY <1>3, <2>1, <2>2, LeaveGoalInv DEF Return, nav2Vars
<1>4. QED
  BY <1>1, <1>2, <1>3

(* A callback writes what Nav2 made of the node's own goal. *)
LEMMA CallbackGoalInv ==
  ASSUME GoalInv, NEW n \in Nodes, GoalResponse(n) \/ GoalResult(n)
  PROVE  GoalInv'
<1> USE DEF GoalInv
<1>1. UNCHANGED <<running, handle, fault, requests, server, cancels, adrift,
                  restarts, Awaited>>
  BY DEF GoalResponse, GoalResult, nav2Vars, Awaited
<1>2. nav[n] \in {"sent", "accepted"} /\ n \in running
  BY DEF GoalResponse, GoalResult, NodesOwnGoals
<1>3. handle[n] \in Goals
  BY <1>2 DEF NodesOwnGoals
<1>4. /\ nav'[n] \in {"accepted", "rejected", "succeeded", "failed"}
      /\ nav' \in [Nodes -> Views]
      /\ \A m \in Nodes \ {n} : nav'[m] = nav[m]
  BY DEF GoalResponse, GoalResult, View, NavTypeOK, Views
<1>5. /\ nav'[n] = "succeeded" => server[handle[n]] = "succeeded"
      /\ nav'[n] = "rejected" => server[handle[n]] = "rejected"
      /\ nav'[n] = "failed" => server[handle[n]] \in {"aborted", "canceled"}
      /\ nav'[n] = "accepted" => server[handle[n]] \notin {"unknown", "rejected"}
  <2>1. CASE GoalResponse(n)
    <3>1. /\ server[handle[n]] # "unknown"
          /\ nav'[n] = IF server[handle[n]] = "rejected" THEN "rejected"
                       ELSE "accepted"
      BY <2>1 DEF GoalResponse, NavTypeOK
    <3>2. QED
      BY <3>1
  <2>2. CASE GoalResult(n)
    <3>1. /\ server[handle[n]] \in Ended /\ server[handle[n]] # "rejected"
          /\ nav'[n] = View(server[handle[n]])
      BY <1>2, <2>2 DEF GoalResult, NavTypeOK, ViewIsOwnGoal
    <3>2. QED
      BY <3>1 DEF View, Ended
  <2>3. QED
    BY <2>1, <2>2
<1>6. NavTypeOK' /\ NodesOwnGoals'
  BY <1>1, <1>2, <1>4 DEF NavTypeOK, NodesOwnGoals
<1>7. ViewIsOwnGoal'
  BY <1>1, <1>3, <1>4, <1>5 DEF ViewIsOwnGoal, NavTypeOK
<1>8. RequestsUndecided' /\ AwaitedNotCancelled' /\ AdriftIsKnown'
  BY <1>1 DEF RequestsUndecided, AwaitedNotCancelled, AdriftIsKnown
<1>9. QED
  BY <1>6, <1>7, <1>8

(* A restart leaves every goal that was awaited adrift. *)
LEMMA RestartGoalInv ==
  ASSUME GoalInv, AgentRestarts
  PROVE  GoalInv'
<1> USE DEF GoalInv, AgentRestarts, nav2Vars
<1>1. Awaited \subseteq Goals /\ Awaited' = {}
  BY DEF Awaited, NodesOwnGoals, NavTypeOK
<1>2. NavTypeOK'
  <2>1. restarts' \in 0 .. MaxRestarts
    BY NavAssumption DEF NavTypeOK
  <2>2. /\ running' \subseteq Nodes /\ fault' \in BOOLEAN
        /\ nav' \in [Nodes -> Views]
        /\ handle' \in [Nodes -> Goals \cup {NoGoal}]
    BY DEF Views
  <2>3. adrift' \subseteq Goals
    BY <1>1 DEF NavTypeOK
  <2>4. QED
    BY <2>1, <2>2, <2>3 DEF NavTypeOK
<1>3. NodesOwnGoals'
  BY NavAssumption DEF NodesOwnGoals
<1>4. RequestsUndecided' /\ ViewIsOwnGoal' /\ AwaitedNotCancelled'
        /\ AdriftIsKnown'
  BY <1>1 DEF RequestsUndecided, ViewIsOwnGoal, AwaitedNotCancelled,
              AdriftIsKnown
<1>5. QED
  BY <1>2, <1>3, <1>4

(* A fault is a flag, and nothing else. *)
LEMMA FaultGoalInv ==
  ASSUME GoalInv, fault' \in BOOLEAN,
         UNCHANGED <<nodeVars, nav2Vars, adrift, restarts>>
  PROVE  GoalInv'
<1>1. UNCHANGED <<running, nav, handle, requests, server, cancels, Awaited>>
  BY DEF nodeVars, nav2Vars, Awaited
<1>2. QED
  BY <1>1 DEF GoalInv, NavTypeOK, NodesOwnGoals, RequestsUndecided,
              ViewIsOwnGoal, AwaitedNotCancelled, AdriftIsKnown

(***************************************************************************)
(* Nav2                                                                    *)
(***************************************************************************)

(* Nav2 takes the next request, which it had not heard of; accepting it    *)
(* aborts the goal that is active, and no other outcome changes.           *)
LEMMA RequestGoalInv ==
  ASSUME GoalInv, Accept \/ Reject
  PROVE  GoalInv'
<1> USE DEF GoalInv
<1>1. /\ requests # <<>> /\ requests' = Tail(requests)
      /\ UNCHANGED <<running, nav, handle, fault, cancels, adrift, restarts,
                     Awaited>>
  BY DEF Accept, Reject, nodeVars, Awaited
<1>2. /\ Head(requests) \in Goals
      /\ ToSet(requests) = {Head(requests)} \cup ToSet(Tail(requests))
      /\ IsInjective(Tail(requests)) /\ Tail(requests) \in Seq(Goals)
      /\ Head(requests) \notin ToSet(Tail(requests))
  BY <1>1, TailLemma, InjectiveLemma DEF NavTypeOK, RequestsUndecided
<1>3. /\ server[Head(requests)] = "unknown" /\ Head(requests) \notin cancels
      /\ Head(requests) \in Awaited \cup adrift
  BY <1>2 DEF RequestsUndecided
<1>4. /\ server' \in [Goals -> Outcomes]
      /\ server'[Head(requests)] \in {"active", "rejected"}
      /\ \A g \in Goals \ {Head(requests)} :
           \/ server'[g] = server[g]
           \/ server[g] = "active" /\ server'[g] = "aborted"
  <2>1. CASE Accept
    BY <1>2, <2>1 DEF Accept, NavTypeOK, Outcomes, Ended
  <2>2. CASE Reject
    BY <1>2, <2>2 DEF Reject, NavTypeOK, Outcomes, Ended
  <2>3. QED
    BY <2>1, <2>2
<1>5. NavTypeOK' /\ NodesOwnGoals'
  BY <1>1, <1>2, <1>4 DEF NavTypeOK, NodesOwnGoals
<1>6. RequestsUndecided'
  <2>1. \A g \in ToSet(Tail(requests)) :
          g \in Goals /\ g # Head(requests) /\ server[g] = "unknown"
    BY <1>2 DEF RequestsUndecided, ToSet
  <2>2. QED
    BY <1>1, <1>2, <1>4, <2>1 DEF RequestsUndecided
<1>7. ViewIsOwnGoal'
  <2>1. SUFFICES ASSUME NEW n \in running
                 PROVE  /\ handle[n] \in Goals /\ nav[n] # "none"
                        /\ nav[n] = "succeeded" => server'[handle[n]] = "succeeded"
                        /\ nav[n] = "rejected" => server'[handle[n]] = "rejected"
                        /\ nav[n] = "failed"
                             => server'[handle[n]] \in {"aborted", "canceled"}
                        /\ nav[n] = "accepted"
                             => server'[handle[n]] \notin {"unknown", "rejected"}
    BY <1>1 DEF ViewIsOwnGoal
  <2>2. CASE handle[n] = Head(requests)
    BY <1>3, <2>2 DEF ViewIsOwnGoal
  <2>3. CASE handle[n] # Head(requests)
    BY <1>4, <2>3 DEF ViewIsOwnGoal
  <2>4. QED
    BY <2>2, <2>3
<1>8. AwaitedNotCancelled'
  <2>1. Awaited \subseteq Goals
    BY DEF Awaited, NodesOwnGoals, NavTypeOK
  <2>2. QED
    BY <1>1, <1>4, <2>1 DEF AwaitedNotCancelled
<1>9. AdriftIsKnown'
  BY <1>1, <1>3, <1>4 DEF AdriftIsKnown
<1>10. QED
  BY <1>5, <1>6, <1>7, <1>8, <1>9

(* A goal that is active ends, by itself or cancelled; a cancel request    *)
(* for one that is not is spent.                                           *)
LEMMA OutcomeGoalInv ==
  ASSUME GoalInv, NEW g \in Goals, Finish(g) \/ CancelArrives(g)
  PROVE  GoalInv'
<1> USE DEF GoalInv
<1>1. UNCHANGED <<running, nav, handle, fault, requests, adrift, restarts,
                  Awaited>>
  BY DEF Finish, CancelArrives, nodeVars, Awaited
<1>2. /\ server' \in [Goals -> Outcomes]
      /\ \A x \in Goals \ {g} : server'[x] = server[x]
      /\ \/ server'[g] = server[g] /\ server[g] # "active"
         \/ server[g] = "active" /\ server'[g] \in {"succeeded", "aborted"}
         \/ /\ server[g] = "active" /\ server'[g] = "canceled"
            /\ g \in cancels
  BY DEF Finish, CancelArrives, NavTypeOK, Outcomes, Ended
<1>3. cancels' \subseteq cancels /\ cancels \ {g} \subseteq cancels'
  BY DEF Finish, CancelArrives
<1>4. NavTypeOK' /\ NodesOwnGoals'
  BY <1>1, <1>2, <1>3 DEF NavTypeOK, NodesOwnGoals
<1>5. RequestsUndecided'
  <2>1. ToSet(requests) \subseteq Goals
    BY DEF NavTypeOK, ToSet
  <2>2. QED
    BY <1>1, <1>2, <1>3, <2>1 DEF RequestsUndecided
<1>6. ViewIsOwnGoal'
  BY <1>1, <1>2 DEF ViewIsOwnGoal
<1>7. AwaitedNotCancelled'
  <2>1. Awaited \subseteq Goals
    BY DEF Awaited, NodesOwnGoals, NavTypeOK
  <2>2. QED
    BY <1>1, <1>2, <1>3, <2>1 DEF AwaitedNotCancelled
<1>8. AdriftIsKnown'
  BY <1>1, <1>2, <1>3 DEF AdriftIsKnown
<1>9. QED
  BY <1>4, <1>5, <1>6, <1>7, <1>8

(***************************************************************************)
(* The invariant, and what follows from it.                                *)
(***************************************************************************)

LEMMA GoalStep ==
  ASSUME GoalInv, [NavNext]_navVars
  PROVE  GoalInv'
<1>1. CASE InjectFault
  BY <1>1, FaultGoalInv DEF InjectFault
<1>2. CASE UNCHANGED navVars
  BY <1>2, FaultGoalInv DEF navVars, GoalInv, NavTypeOK
<1>3. QED
  BY <1>1, <1>2, StartGoalInv, EndGoalInv, CallbackGoalInv, RestartGoalInv,
     RequestGoalInv, OutcomeGoalInv DEF NavNext, Navigate, Nav2

(* Nodes own their goals, undecided requests are remembered, and what the  *)
(* nodes, Nav2 and the cancel requests say of a goal fits together.        *)
THEOREM GoalInvariant == NavSpec => []GoalInv
<1>1. NavInit => GoalInv
  <2>1. SUFFICES ASSUME NavInit
                 PROVE  GoalInv
    OBVIOUS
  <2>2. NavTypeOK
    <3>1. requests \in Seq(Goals) /\ restarts \in 0 .. MaxRestarts
      BY <2>1, NavAssumption DEF NavInit
    <3>2. /\ nav \in [Nodes -> Views] /\ server \in [Goals -> Outcomes]
          /\ handle \in [Nodes -> Goals \cup {NoGoal}]
      BY <2>1 DEF NavInit, Views, Outcomes
    <3>3. QED
      BY <2>1, <3>1, <3>2 DEF NavInit, NavTypeOK
  <2>3. NodesOwnGoals /\ ViewIsOwnGoal
    BY <2>1, NavAssumption DEF NavInit, NodesOwnGoals, ViewIsOwnGoal
  <2>4. IsInjective(requests) /\ ToSet(requests) = {} /\ Awaited = {}
    BY <2>1 DEF NavInit, IsInjective, ToSet, Awaited
  <2>5. RequestsUndecided /\ AwaitedNotCancelled /\ AdriftIsKnown
    BY <2>1, <2>4 DEF NavInit, RequestsUndecided, AwaitedNotCancelled, AdriftIsKnown
  <2>6. QED
    BY <2>2, <2>3, <2>5 DEF GoalInv
<1>2. GoalInv /\ [NavNext]_navVars => GoalInv'
  BY GoalStep
<1>3. QED
  BY <1>1, <1>2, PTL DEF NavSpec

(* A node that returns or is halted, and all of them when the process      *)
(* ends, leave their goals.                                                *)
LEMMA LeaveView ==
  ASSUME NEW L \in SUBSET Nodes, nav \in [Nodes -> Views],
         nav' = [n \in Nodes |-> IF n \in L THEN "none" ELSE nav[n]]
  PROVE  [Client!Next]_nav
<1>1. CASE \E n \in L : nav[n] # "none"
  <2>1. Client!Leave(L)
    BY <1>1 DEF Client!Leave
  <2>2. QED
    BY <2>1 DEF Client!Next
<1>2. CASE \A n \in L : nav[n] = "none"
  BY <1>2
<1>3. QED
  BY <1>1, <1>2

LEMMA ClientStep ==
  ASSUME GoalInv, NavNext
  PROVE  [Client!Next]_nav
<1>0. nav \in [Nodes -> Views]
  BY DEF GoalInv, NavTypeOK
<1>1. ASSUME NEW n \in Nodes, Start(n)
      PROVE  Client!Next
  <2>1. nav[n] = "none"
    BY <1>1 DEF Start, GoalInv, NodesOwnGoals
  <2>2. Client!Send(n)
    BY <1>1, <2>1 DEF Start, Client!Send
  <2>3. QED
    BY <2>2 DEF Client!Next
<1>2. ASSUME NEW n \in Nodes, HaltLeg(n) \/ NavFault(n) \/ Return(n)
      PROVE  [Client!Next]_nav
  <2>1. nav' = [nav EXCEPT ![n] = "none"]
    BY <1>2 DEF HaltLeg, NavFault, Return, OnHalted
  <2>2. nav' = [m \in Nodes |-> IF m \in {n} THEN "none" ELSE nav[m]]
    BY <1>0, <2>1
  <2>3. QED
    BY <1>0, <2>2, LeaveView
<1>3. ASSUME NEW n \in Nodes, GoalResponse(n)
      PROVE  Client!Next
  <2>1. Client!Response(n)
    BY <1>3 DEF GoalResponse, Client!Response
  <2>2. QED
    BY <2>1 DEF Client!Next
<1>4. ASSUME NEW n \in Nodes, GoalResult(n)
      PROVE  Client!Next
  <2>1. Client!Result(n)
    BY <1>4 DEF GoalResult, View, Client!Result
  <2>2. QED
    BY <2>1 DEF Client!Next
<1>5. CASE AgentRestarts
  <2>1. nav' = [m \in Nodes |-> IF m \in Nodes THEN "none" ELSE nav[m]]
    BY <1>5 DEF AgentRestarts
  <2>2. QED
    BY <1>0, <2>1, LeaveView
<1>6. CASE InjectFault \/ Nav2
  BY <1>6 DEF InjectFault, Nav2, Accept, Reject, Finish, CancelArrives, nodeVars
<1>7. QED
  BY <1>1, <1>2, <1>3, <1>4, <1>5, <1>6 DEF NavNext, Navigate

(* With goals that outlive their nodes, cancels that arrive late and       *)
(* agents that restart, a node still sees one goal, answered once.         *)
THEOREM GoalsImplementClient == NavSpec => ClientSpec
<1>1. NavInit => Client!Init
  BY DEF NavInit, Client!Init
<1>2. GoalInv /\ [NavNext]_navVars => [Client!Next]_nav
  <2>1. UNCHANGED navVars => UNCHANGED nav
    BY DEF navVars, nodeVars
  <2>2. QED
    BY <2>1, ClientStep
<1>3. QED
  BY <1>1, <1>2, GoalInvariant, PTL DEF NavSpec, ClientSpec, Client!Spec
=============================================================================
