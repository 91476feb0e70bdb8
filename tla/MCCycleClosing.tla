--------------------------- MODULE MCCycleClosing ---------------------------
(* Nodes are numbers: the initiator and the two nodes of the shortest cycle that is built. *)
EXTENDS CycleClosing
=============================================================================
