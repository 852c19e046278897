----------------------------- MODULE RobotCommand -----------------------------
(***************************************************************************)
(* POST /robots/{id}/command, from the REST gateway through the fleet      *)
(* server's send_robot_command to the fault service of the agent, and from *)
(* there to the navigation the fault ends.                                 *)
(*                                                                         *)
(* Each call has a thread of its own in the server (gRPC), which waits 2 s *)
(* for the answer; the request stays at the robot when it gives up.  The   *)
(* calls are for the robot of NavGoals; those for another command or for a *)
(* robot_id nobody knows are refused, as any call may be.                  *)
(***************************************************************************)
EXTENDS NavGoals, FiniteSets

CONSTANTS Calls,      \* calls of the route with command inject_fault
          Injections  \* those with value true

ASSUME CommandAssumption == Injections \subseteq Calls

VARIABLES
  request,  \* what has become of the SetBool request of each call
  reply,    \* what the caller was told
  served,   \* history: the calls fault_service_cb ran for
  hits      \* history: how many navigations a fault has ended

commandVars == <<request, reply, served, hits>>
vars        == <<navVars, commandVars>>

(* sent: with the agent's service; served: its response on its way; ready: *)
(* the future has it; lost: the agent's process ended first.               *)
Progress == {"none", "sent", "served", "ready", "lost"}

(* What the HTTP answer says: 200, 400 with the reason of the refusal, or  *)
(* that there was no answer: 400 after the timeout, 502 when the server's  *)
(* process ended.                                                          *)
Replies == {"none", "success", "refused", "no_answer"}

CommandTypeOK ==
  /\ NavTypeOK
  /\ request \in [Calls -> Progress]
  /\ reply \in [Calls -> Replies]
  /\ served \subseteq Calls
  /\ hits \in Nat

Init ==
  /\ NavInit
  /\ request = [c \in Calls |-> "none"]
  /\ reply = [c \in Calls |-> "none"]
  /\ served = {} /\ hits = 0

(* The thread of call c is in wait_for. *)
Waiting(c) == request[c] # "none" /\ reply[c] = "none"

Tell(c, r) == reply' = [reply EXCEPT ![c] = r]

-----------------------------------------------------------------------------
(* Mutant of Refuse: no return after the readiness check. *)
Refuse_GoesOn(c) ==
  /\ request[c] = "none" /\ reply[c] = "none"
  /\ Tell(c, "refused")
  /\ request' = [request EXCEPT ![c] = "sent"]
  /\ UNCHANGED <<navVars, served, hits>>

(* The early returns; any call may find the service not ready. *)
Refuse(c) ==
  /\ request[c] = "none" /\ reply[c] = "none"
  /\ Tell(c, "refused")
  /\ UNCHANGED <<navVars, request, served, hits>>

(* async_send_request *)
Send(c) ==
  /\ request[c] = "none" /\ reply[c] = "none"
  /\ request' = [request EXCEPT ![c] = "sent"]
  /\ UNCHANGED <<navVars, reply, served, hits>>

(* fault_service_cb: data = false changes nothing. *)
SetFault(c) == IF c \in Injections THEN InjectFault ELSE UNCHANGED navVars

(* The agent answers with success either way. *)
Serve(c) ==
  /\ request[c] = "sent"
  /\ SetFault(c)
  /\ request' = [request EXCEPT ![c] = "served"]
  /\ served' = served \cup {c}
  /\ UNCHANGED <<reply, hits>>

ResponseArrives(c) ==
  /\ request[c] = "served"
  /\ request' = [request EXCEPT ![c] = "ready"]
  /\ UNCHANGED <<navVars, reply, served, hits>>

(* wait_for returns with the future ready. *)
Answer(c) ==
  /\ Waiting(c) /\ request[c] = "ready"
  /\ Tell(c, "success")
  /\ UNCHANGED <<navVars, request, served, hits>>

(* wait_for returns after 2 s, which may be at any time in the progress of *)
(* the request; nothing takes the request back.                            *)
TimeOut(c) ==
  /\ Waiting(c) /\ request[c] # "ready"
  /\ Tell(c, "no_answer")
  /\ UNCHANGED <<navVars, request, served, hits>>

(* The server's process ends while the call waits; the RPC fails.          *)
ServerGone(c) ==
  /\ Waiting(c)
  /\ Tell(c, "no_answer")
  /\ UNCHANGED <<navVars, request, served, hits>>

-----------------------------------------------------------------------------
(* The agent's process takes the requests it has not served with it; a     *)
(* response it has not sent never arrives, which wait_for cannot tell from *)
(* a slow one.                                                             *)
RobotRestarts ==
  /\ AgentRestarts
  /\ request' = [c \in Calls |->
                   IF request[c] = "sent" THEN "lost" ELSE request[c]]
  /\ UNCHANGED <<reply, served, hits>>

FaultStrikes(n) ==
  /\ NavFault(n)
  /\ hits' = hits + 1
  /\ UNCHANGED <<request, reply, served>>

Command(c) ==
  \/ Refuse(c) \/ Send(c) \/ Serve(c) \/ ResponseArrives(c)
  \/ Answer(c) \/ TimeOut(c) \/ ServerGone(c)

Next ==
  \/ \E c \in Calls : Command(c)
  \/ \E n \in Nodes : FaultStrikes(n)
  \/ Navigate /\ UNCHANGED commandVars
  \/ RobotRestarts

Spec == Init /\ [][Next]_vars

-----------------------------------------------------------------------------
(* A caller told of success was served, whatever timed out, was lost or    *)
(* restarted in between; a caller told of a refusal is not served, then or *)
(* later.  A timeout promises neither.                                     *)
RepliesAreTrue ==
  \A c \in Calls :
    /\ reply[c] = "success" => c \in served
    /\ reply[c] = "refused" => c \notin served /\ request[c] = "none"

(* An injected fault ends one navigation at most, the charger's or a       *)
(* leg's, and none is ended that nobody injected.                          *)
FaultsAccounted ==
  hits + (IF fault THEN 1 ELSE 0) <= Cardinality(served \cap Injections)
=============================================================================
