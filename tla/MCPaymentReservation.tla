------------------------ MODULE MCPaymentReservation ------------------------
(***************************************************************************)
(* A path through one node and the line of the coordinator itself are      *)
(* known; when one of them fails a path through two nodes may be found, so *)
(* that a node can be on two paths and a path can have three hops.         *)
(***************************************************************************)
EXTENDS PaymentReservation

CONSTANTS c, a, b, r

MCIntermediates == {a, b}
MCPaths == <<<<c, a, r>>, <<c, r>>>>
MCOtherPaths == {<<c, a, b, r>>}
=============================================================================
