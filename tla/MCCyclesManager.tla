--------------------------- MODULE MCCyclesManager ---------------------------
(* Two cycles of three nodes, one of four and one of five; c1 and c3 go through
   line l, the others through node o. *)
EXTENDS CyclesManager
CONSTANTS i1, i2, c1, c2, c3, c4, l, o
MCLengthOf == [c \in Cycles |-> CASE c = c3 -> 5 [] c = c4 -> 4 [] OTHER -> 3]
MCThrough == [c \in Cycles |-> IF c \in {c1, c3} THEN {l} ELSE {o}]
=============================================================================
