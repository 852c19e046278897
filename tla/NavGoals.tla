------------------------------- MODULE NavGoals -------------------------------
(***************************************************************************)
(* The navigation goals of one robot: what the NavigateToPose nodes keep   *)
(* of them, and what Nav2 does with them.  RobotAgent has the first half   *)
(* only, node by node; here a goal has an identity, so that one that was   *)
(* halted, and that Nav2 is still working on, remains in the picture.      *)
(*                                                                         *)
(* A node's nav_state_ is shared with the two callbacks of its goal, which *)
(* hold weak pointers: the callbacks of a goal write into the NavState     *)
(* that was made for it as long as the node keeps it, and nowhere else.    *)
(*                                                                         *)
(* The steps of a tick are those that touch a goal.  onStart with no goal  *)
(* port or no action server sends nothing and is no step here.             *)
(***************************************************************************)
EXTENDS Naturals, SequencesExt

CONSTANTS Goals,       \* goal ids; one that nobody remembers is used again
          NoGoal,
          Nodes,       \* the NavigateToPose nodes of the tree
          Charger,     \* the one of ChargeWhenLow, which preempts the others
          MaxRestarts  \* how often the agent's process may end

ASSUME NavAssumption ==
  /\ NoGoal \notin Goals
  /\ Charger \in Nodes
  /\ MaxRestarts \in Nat

VARIABLES
  running,   \* the nodes that are RUNNING
  nav,       \* the fields of each node's nav_state_; "none": a null pointer
  handle,    \* the goal that nav_state_ was made for
  fault,     \* fault_injected_
  requests,  \* goal requests on their way to Nav2
  server,    \* what Nav2 has made of each goal
  cancels,   \* cancel requests on their way to Nav2
  adrift,    \* history: goals the agent let go of before it had an answer
  restarts   \* how often the agent's process has ended

nodeVars == <<running, nav, handle>>
nav2Vars == <<requests, server, cancels>>
navVars  == <<nodeVars, fault, nav2Vars, adrift, restarts>>

Views     == {"none", "sent", "accepted", "rejected", "succeeded", "failed"}
Ended     == {"rejected", "succeeded", "aborted", "canceled"}
Outcomes  == {"unknown", "active"} \cup Ended

NavTypeOK ==
  /\ running \subseteq Nodes
  /\ nav \in [Nodes -> Views]
  /\ handle \in [Nodes -> Goals \cup {NoGoal}]
  /\ fault \in BOOLEAN
  /\ requests \in Seq(Goals)
  /\ server \in [Goals -> Outcomes]
  /\ cancels \subseteq Goals /\ adrift \subseteq Goals
  /\ restarts \in 0 .. MaxRestarts

NavInit ==
  /\ running = {} /\ fault = FALSE
  /\ nav = [n \in Nodes |-> "none"]
  /\ handle = [n \in Nodes |-> NoGoal]
  /\ requests = <<>> /\ server = [g \in Goals |-> "unknown"]
  /\ cancels = {} /\ adrift = {} /\ restarts = 0

(* The goals a RUNNING node waits for. *)
Awaited == {handle[n] : n \in running}

(* Nothing refers to g any more, or ever did. *)
Fresh(g) ==
  /\ g \notin ToSet(requests) \cup cancels \cup {handle[n] : n \in Nodes}
  /\ server[g] # "active"

(* The tick reaches a RUNNING node; while the charger's node and another   *)
(* are RUNNING, it has yet to halt the other.                              *)
Ticked(n) == running = {n}

-----------------------------------------------------------------------------
(***************************************************************************)
(* The nodes                                                               *)
(***************************************************************************)

(* onStart: the charger's node also starts over a RUNNING leg.  The new    *)
(* goal is as good as any that nothing refers to, and those are forgotten. *)
Start(n) ==
  /\ IF n = Charger THEN n \notin running ELSE running = {}
  /\ \E g \in Goals : Fresh(g)
  /\ LET g == CHOOSE g \in Goals : Fresh(g)
     IN /\ nav' = [nav EXCEPT ![n] = "sent"]
        /\ handle' = [handle EXCEPT ![n] = g]
        /\ requests' = Append(requests, g)
  /\ server' = [g \in Goals |-> IF Fresh(g) THEN "unknown" ELSE server[g]]
  /\ adrift' = {g \in adrift : ~Fresh(g)}
  /\ running' = running \cup {n}
  /\ UNCHANGED <<fault, cancels, restarts>>

(* Mutant of CancelGoal: async_cancel_all_goals. *)
CancelGoal_All(n) ==
  cancels' = cancels \cup {g \in Goals : server[g] = "active"}

(* Mutant of CancelGoal: the next goal is left to preempt this one. *)
CancelGoal_Never(n) == UNCHANGED cancels

(* Mutant of CancelGoal: nav_state_ is reset before it is asked. *)
CancelGoal_AfterReset(n) ==
  cancels' = IF nav[n] = "accepted" THEN cancels \cup {NoGoal} ELSE cancels

(* The cancel request of onHalted: only an accepted goal has a handle, and *)
(* one with a result needs none.                                           *)
CancelGoal(n) ==
  cancels' = IF nav[n] = "accepted" THEN cancels \cup {handle[n]} ELSE cancels

(* Mutant of OnHalted: nav_state_ is not reset. *)
OnHalted_KeepsState(n) ==
  /\ CancelGoal(n)
  /\ adrift' = IF nav[n] = "sent" THEN adrift \cup {handle[n]} ELSE adrift
  /\ running' = running \ {n}
  /\ UNCHANGED <<nav, handle>>

(* onHalted, and the node is no longer RUNNING. *)
OnHalted(n) ==
  /\ CancelGoal(n)
  /\ adrift' = IF nav[n] = "sent" THEN adrift \cup {handle[n]} ELSE adrift
  /\ nav' = [nav EXCEPT ![n] = "none"]
  /\ handle' = [handle EXCEPT ![n] = NoGoal]
  /\ running' = running \ {n}

(* The ReactiveFallback halts the leg after the charger's node started. *)
HaltLeg(n) ==
  /\ {n, Charger} \subseteq running /\ n # Charger
  /\ OnHalted(n)
  /\ UNCHANGED <<fault, requests, server, restarts>>

(* Mutant of Consume: the flag is read, not exchanged. *)
Consume_Keeps == fault /\ UNCHANGED fault

(* fault_injected_.exchange(false) *)
Consume == fault /\ fault' = FALSE

(* onRunning finds the fault injected. *)
NavFault(n) ==
  /\ Ticked(n) /\ Consume
  /\ OnHalted(n)
  /\ UNCHANGED <<requests, server, restarts>>

(* onRunning returns; what stays in nav_state_ is replaced unread.         *)
Return(n) ==
  /\ Ticked(n) /\ ~fault
  /\ nav[n] \in {"rejected", "succeeded", "failed"}
  /\ running' = {}
  /\ nav' = [nav EXCEPT ![n] = "none"]
  /\ handle' = [handle EXCEPT ![n] = NoGoal]
  /\ UNCHANGED <<fault, nav2Vars, adrift, restarts>>

(* goal_response_callback *)
GoalResponse(n) ==
  /\ nav[n] = "sent" /\ server[handle[n]] # "unknown"
  /\ nav' = [nav EXCEPT ![n] =
               IF server[handle[n]] = "rejected" THEN "rejected"
               ELSE "accepted"]
  /\ UNCHANGED <<running, handle, fault, nav2Vars, adrift, restarts>>

View(outcome) == IF outcome = "succeeded" THEN "succeeded" ELSE "failed"

(* Mutant of GoalResult: the callback captures the node, not a NavState,   *)
(* so that a goal of before writes into that of now.                       *)
GoalResult_OfAnyGoal(n) ==
  /\ nav[n] = "accepted"
  /\ \E g \in adrift \cup {handle[n]} :
       /\ server[g] \in Ended
       /\ nav' = [nav EXCEPT ![n] = View(server[g])]
  /\ UNCHANGED <<running, handle, fault, nav2Vars, adrift, restarts>>

(* result_callback *)
GoalResult(n) ==
  /\ nav[n] = "accepted" /\ server[handle[n]] \in Ended
  /\ nav' = [nav EXCEPT ![n] = View(server[handle[n]])]
  /\ UNCHANGED <<running, handle, fault, nav2Vars, adrift, restarts>>

(* fault_service_cb with data = true; it excludes the tick, which is over  *)
(* when the leg is halted.                                                 *)
InjectFault ==
  /\ \A m, n \in running : m = n
  /\ fault' = TRUE
  /\ UNCHANGED <<nodeVars, nav2Vars, adrift, restarts>>

(* The agent's process ends and is started again; Nav2 keeps its goals. *)
AgentRestarts ==
  /\ restarts < MaxRestarts /\ restarts' = restarts + 1
  /\ running' = {} /\ fault' = FALSE
  /\ nav' = [n \in Nodes |-> "none"]
  /\ handle' = [n \in Nodes |-> NoGoal]
  /\ adrift' = adrift \cup Awaited
  /\ UNCHANGED nav2Vars

-----------------------------------------------------------------------------
(***************************************************************************)
(* Nav2's action server: goals in the order they were sent, a new one      *)
(* preempts the one before.                                                *)
(***************************************************************************)

Accept ==
  /\ requests # <<>> /\ requests' = Tail(requests)
  /\ server' = [g \in Goals |->
       IF g = Head(requests) THEN "active"
       ELSE IF server[g] = "active" THEN "aborted" ELSE server[g]]
  /\ UNCHANGED <<nodeVars, fault, cancels, adrift, restarts>>

Reject ==
  /\ requests # <<>> /\ requests' = Tail(requests)
  /\ server' = [server EXCEPT ![Head(requests)] = "rejected"]
  /\ UNCHANGED <<nodeVars, fault, cancels, adrift, restarts>>

Finish(g) ==
  /\ server[g] = "active"
  /\ \E r \in {"succeeded", "aborted"} : server' = [server EXCEPT ![g] = r]
  /\ UNCHANGED <<nodeVars, fault, requests, cancels, adrift, restarts>>

CancelArrives(g) ==
  /\ g \in cancels /\ cancels' = cancels \ {g}
  /\ server' = [server EXCEPT ![g] = IF @ = "active" THEN "canceled" ELSE @]
  /\ UNCHANGED <<nodeVars, fault, requests, adrift, restarts>>

Nav2 == Accept \/ Reject \/ \E g \in Goals : Finish(g) \/ CancelArrives(g)

(* Every step but the restart and the two that concern faults. *)
Navigate ==
  \/ \E n \in Nodes :
       \/ Start(n) \/ HaltLeg(n) \/ Return(n)
       \/ GoalResponse(n) \/ GoalResult(n)
  \/ Nav2

NavNext ==
  \/ Navigate \/ AgentRestarts
  \/ InjectFault \/ \E n \in Nodes : NavFault(n)

NavSpec == NavInit /\ [][NavNext]_navVars

-----------------------------------------------------------------------------
(* A node never takes another goal's answer for that of its own: what it   *)
(* believes while RUNNING is what Nav2 made of the goal it sent, although  *)
(* earlier goals of the same node may still be answered.                   *)
ViewIsOwnGoal ==
  \A n \in running :
    /\ handle[n] \in Goals /\ nav[n] # "none"
    /\ nav[n] = "succeeded" => server[handle[n]] = "succeeded"
    /\ nav[n] = "rejected" => server[handle[n]] = "rejected"
    /\ nav[n] = "failed" => server[handle[n]] \in {"aborted", "canceled"}
    /\ nav[n] = "accepted" => server[handle[n]] \notin {"unknown", "rejected"}

(* The cancel of a halted goal never reaches the goal sent after it:       *)
(* nobody cancels a goal a RUNNING node waits for.                         *)
AwaitedNotCancelled ==
  \A g \in Awaited : g \notin cancels /\ server[g] # "canceled"

(* A goal Nav2 works on is awaited by a RUNNING node or about to be        *)
(* cancelled, unless the agent let go of it before it had an answer.       *)
AdriftIsKnown ==
  \A g \in Goals :
    server[g] = "active" => g \in Awaited \cup cancels \cup adrift

(* onHalted cancels "the goal if still active" (PHASE2_PLAN.md:436): when  *)
(* no new goal is on its way to preempt the old one, the robot drives to   *)
(* no pose its tree has turned away from.                                  *)
HaltedGoalIsCancelled ==
  requests = <<>> =>
    \A g \in Goals : server[g] = "active" => g \in Awaited \cup cancels

(* The tree sees its goals as NavClient says. *)
Client == INSTANCE NavClient

ClientSpec == Client!Spec
=============================================================================
