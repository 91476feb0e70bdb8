----------------------------- MODULE AuditChain -----------------------------
(***************************************************************************)
(* What audits promise to the two nodes of a trust line, with no messages: *)
(* each has the terms of its last audit, one of them may be one audit      *)
(* ahead, and the other can only follow to the same terms.                 *)
(***************************************************************************)
EXTENDS Naturals

CONSTANTS Nodes, Amounts

VARIABLE agreed    \* agreed[n]: number and limits of the last audit of n

\* What one node gives the other takes.
Mirror(t) == [number |-> t.number, outgoing |-> t.incoming, incoming |-> t.outgoing]

TermsNumbered(k) == [number : {k}, outgoing : Amounts, incoming : Amounts]

Init ==
    \E n \in Nodes, t \in TermsNumbered(1) :
        agreed = [m \in Nodes |-> IF m = n THEN t ELSE Mirror(t)]

\* A node whose partner has not gone further takes new terms.
Lead(n) ==
    /\ \A m \in Nodes : agreed[m].number = agreed[n].number
    /\ \E t \in TermsNumbered(agreed[n].number + 1) : agreed' = [agreed EXCEPT ![n] = t]

\* The other one takes the same.
Follow(n) ==
    \E m \in Nodes :
        /\ agreed[m].number = agreed[n].number + 1
        /\ agreed' = [agreed EXCEPT ![n] = Mirror(agreed[m])]

Next == \E n \in Nodes : Lead(n) \/ Follow(n)

Spec == Init /\ [][Next]_agreed
=============================================================================
