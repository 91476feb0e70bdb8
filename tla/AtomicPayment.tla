--------------------------- MODULE AtomicPayment ---------------------------
(***************************************************************************)
(* What the payment protocol promises, with no messages: every node is     *)
(* working until it votes, a payment is decided by its coordinator alone,  *)
(* and a node that has voted only follows that decision.                   *)
(***************************************************************************)
CONSTANTS Coordinator, Participants

VARIABLE state    \* state[n]: "working", "prepared", "committed" or "aborted"

Nodes == Participants \cup {Coordinator}

Init == state = [n \in Nodes |-> "working"]

Become(n, s) == state' = [state EXCEPT ![n] = s]

\* A participant votes.
Prepare(p) == state[p] = "working" /\ Become(p, "prepared")

\* A node that has not voted may give the payment up, the coordinator included.
GiveUp(n) == state[n] = "working" /\ Become(n, "aborted")

\* The coordinator commits once every participant has voted.
Decide ==
    /\ state[Coordinator] = "working"
    /\ \A p \in Participants : state[p] = "prepared"
    /\ Become(Coordinator, "committed")

\* A participant that has voted takes over the decision of the coordinator.
Follow(p) ==
    /\ state[p] = "prepared"
    /\ state[Coordinator] \in {"committed", "aborted"}
    /\ Become(p, state[Coordinator])

Next ==
    \/ Decide
    \/ \E n \in Nodes : GiveUp(n)
    \/ \E p \in Participants : Prepare(p) \/ Follow(p)

Spec == Init /\ [][Next]_state
=============================================================================
