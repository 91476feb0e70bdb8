-------------------------- MODULE MCTrustLineAudit --------------------------
(***************************************************************************)
(* Two neighbours and a few changes of their limits, for TLC.              *)
(***************************************************************************)
EXTENDS TrustLineAudit

CONSTANTS a, b, t1, t2, t3

\* Each neighbour gives a command, or one of them gives all.
MCOwner == [t \in Changes |-> IF t = t1 THEN a ELSE b]
MCOneOwner == [t \in Changes |-> a]

MCAmount == [t \in Changes |-> IF t = t1 THEN 2 ELSE IF t = t2 THEN 3 ELSE 4]

MCNoCrash == [n \in Nodes |-> 0]
MCOneCrashes == [n \in Nodes |-> IF n = b THEN 1 ELSE 0]
=============================================================================
