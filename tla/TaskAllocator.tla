---------------------------- MODULE TaskAllocator ----------------------------
(***************************************************************************)
(* The task allocator: select_best_robot scores the IDLE robots of         *)
(* latest_status_ for a pick position and returns the one with the lowest  *)
(* score.  Robots are numbered in the order in which std::map iterates     *)
(* over their names.  Positions lie on one aisle, where the Euclidean      *)
(* distance is |dx|; charge and soc_weight are natural numbers.            *)
(***************************************************************************)
EXTENDS Integers, FiniteSets

CONSTANTS NumRobots, MaxX, MaxSoc, SocWeight

ASSUME AllocatorAssumption ==
  /\ NumRobots \in Nat /\ MaxX \in Nat /\ MaxSoc \in Nat /\ SocWeight \in Nat

Robots == 1 .. NumRobots

(* A robot nothing was received from is not in latest_status_. *)
Unheard == [state |-> "none", x |-> 0, soc |-> 0]
Heard   == [state : {"IDLE", "BUSY"}, x : 0 .. MaxX, soc : 0 .. MaxSoc]

VARIABLES fleet,  \* latest_status_
          pick    \* the pick position of the request

Distance(a, b) == IF a < b THEN b - a ELSE a - b

(* Mutant of Score: a high charge counts against a robot. *)
Score_Reversed(r) == Distance(pick, fleet[r].x) + fleet[r].soc * SocWeight

Score(r) == Distance(pick, fleet[r].x) + (MaxSoc - fleet[r].soc) * SocWeight

(* numeric_limits<double>::max(): more than any score. *)
Unbeaten == MaxX + MaxSoc * SocWeight + 1

None == [robot |-> 0, score |-> Unbeaten]

(* Mutant of Improve: best_score is not updated. *)
Improve_KeepsScore(best, r) ==
  IF fleet[r].state = "IDLE" /\ Score(r) < best.score
    THEN [best EXCEPT !.robot = r]
    ELSE best

(* One round of the loop. *)
Improve(best, r) ==
  IF fleet[r].state = "IDLE" /\ Score(r) < best.score
    THEN [robot |-> r, score |-> Score(r)]
    ELSE best

(* best after the first n robots of the map. *)
Scan[n \in 0 .. NumRobots] ==
  IF n = 0 THEN None ELSE Improve(Scan[n - 1], n)

(* Robot 0 stands for std::nullopt. *)
SelectBest == Scan[NumRobots].robot

Init ==
  /\ fleet = [r \in Robots |-> Unheard]
  /\ pick \in 0 .. MaxX

(* robot_status_cb: any robot, any state, any position and charge. *)
StatusArrives(r) ==
  /\ \E s \in Heard : fleet' = [fleet EXCEPT ![r] = s]
  /\ UNCHANGED pick

(* Another request. *)
RequestArrives ==
  /\ pick' \in 0 .. MaxX
  /\ UNCHANGED fleet

Next == (\E r \in Robots : StatusArrives(r)) \/ RequestArrives

Spec == Init /\ [][Next]_<<fleet, pick>>

-----------------------------------------------------------------------------
(* The loop finds what the comment on select_best_robot promises: nobody   *)
(* when no robot is IDLE, else the first of the IDLE robots that no IDLE   *)
(* robot undercuts.                                                        *)
Idle == {r \in Robots : fleet[r].state = "IDLE"}

SelectsTheBest ==
  IF Idle = {} THEN SelectBest = 0
  ELSE /\ SelectBest \in Idle
       /\ \A r \in Idle : /\ Score(SelectBest) <= Score(r)
                          /\ r < SelectBest => Score(SelectBest) < Score(r)

(* A status that brings the winner closer or better charged, or that takes *)
(* another robot out of IDLE, never moves the task to another robot.       *)
BetterNeverLoses ==
  [][\A r \in Robots :
       /\ pick' = pick /\ r = SelectBest
       /\ fleet'[r].state = "IDLE"
       /\ fleet'[r].soc >= fleet[r].soc
       /\ Distance(pick, fleet'[r].x) <= Distance(pick, fleet[r].x)
       /\ \A q \in Robots \ {r} : fleet'[q] = fleet[q] \/ fleet'[q].state # "IDLE"
       => SelectBest' = r]_<<fleet, pick>>
=============================================================================
