----------------------------- MODULE TaskCustody -----------------------------
(***************************************************************************)
(* What a robot agent promises about the tasks assigned to it, whatever    *)
(* its battery, its faults and Nav2 do: a task waits in arrival order, is  *)
(* held by the robot, and is done at most once.  The robot holds one task  *)
(* at a time.  A held task is lost in two ways only: the next waiting task *)
(* takes its place, or nobody hears that it is done.                       *)
(***************************************************************************)
EXTENDS SequencesExt

CONSTANTS Tasks, NoTask

VARIABLES waiting, held, done, lost

custody == <<waiting, held, done, lost>>

Init ==
  /\ waiting = <<>> /\ held = NoTask
  /\ done = {} /\ lost = {}

Assign(t) ==
  /\ t \notin ToSet(waiting) \cup {held} \cup done \cup lost
  /\ waiting' = Append(waiting, t)
  /\ UNCHANGED <<held, done, lost>>

Take ==
  /\ held = NoTask /\ waiting # <<>>
  /\ held' = Head(waiting) /\ waiting' = Tail(waiting)
  /\ UNCHANGED <<done, lost>>

Complete ==
  /\ held # NoTask
  /\ done' = done \cup {held} /\ held' = NoTask
  /\ UNCHANGED <<waiting, lost>>

(* The robot takes the next task while it still holds one. *)
Displace ==
  /\ held # NoTask /\ waiting # <<>>
  /\ held' = Head(waiting) /\ waiting' = Tail(waiting)
  /\ lost' = lost \cup {held}
  /\ UNCHANGED done

(* The robot completes a task while it may not publish. *)
Forget ==
  /\ held # NoTask
  /\ held' = NoTask /\ lost' = lost \cup {held}
  /\ UNCHANGED <<waiting, done>>

Next ==
  (\E t \in Tasks : Assign(t)) \/ Take \/ Complete \/ Displace \/ Forget

Spec == Init /\ [][Next]_custody
=============================================================================
