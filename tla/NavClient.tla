------------------------------ MODULE NavClient ------------------------------
(***************************************************************************)
(* What the tree sees of its navigations: each NavigateToPose node has at  *)
(* most one goal, which is answered once and, when accepted, ends once;    *)
(* the node may leave it at any time, and then sees no more of it.         *)
(***************************************************************************)

CONSTANT Nodes

VARIABLE nav

Init == nav = [n \in Nodes |-> "none"]

Send(n) ==
  /\ nav[n] = "none"
  /\ nav' = [nav EXCEPT ![n] = "sent"]

Response(n) ==
  /\ nav[n] = "sent"
  /\ \E r \in {"accepted", "rejected"} : nav' = [nav EXCEPT ![n] = r]

Result(n) ==
  /\ nav[n] = "accepted"
  /\ \E r \in {"succeeded", "failed"} : nav' = [nav EXCEPT ![n] = r]

(* The nodes in L return or are halted. *)
Leave(L) ==
  /\ \E n \in L : nav[n] # "none"
  /\ nav' = [n \in Nodes |-> IF n \in L THEN "none" ELSE nav[n]]

Next ==
  \/ \E n \in Nodes : Send(n) \/ Response(n) \/ Result(n)
  \/ \E L \in SUBSET Nodes : Leave(L)

Spec == Init /\ [][Next]_nav
=============================================================================
