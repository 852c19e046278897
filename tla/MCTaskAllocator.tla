-------------------------- MODULE MCTaskAllocator --------------------------
(***************************************************************************)
(* Values for model checking TaskAllocator: a first, a middle and a last   *)
(* robot, three positions and three levels of charge that one another's    *)
(* weight makes up for, so that scores tie.                                *)
(***************************************************************************)
EXTENDS TaskAllocator

MCNumRobots == 3
MCMaxX      == 2
MCMaxSoc    == 2
MCSocWeight == 1
=============================================================================
