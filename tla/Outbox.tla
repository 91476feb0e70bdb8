------------------------------- MODULE Outbox -------------------------------
(***************************************************************************)
(* What a node promises about the messages that need a confirmation: a     *)
(* posted message is pending, over crashes too, until its addressee        *)
(* answers or a newer message of the same type to the same addressee, or   *)
(* of the same transaction, takes its place.                               *)
(***************************************************************************)
CONSTANTS Contractors, Transactions, Types

VARIABLE pending

Message == [to : Contractors, tx : Transactions, type : Types]

\* The messages that m takes the place of.
Superseded(m) == {n \in pending : n.to = m.to /\ (n.type = m.type \/ n.tx = m.tx)}

Post(m) == pending' = (pending \ Superseded(m)) \cup {m}

Confirm(m) == m \in pending /\ pending' = pending \ {m}

Init == pending = {}

Next == \E m \in Message : Post(m) \/ Confirm(m)

Spec == Init /\ [][Next]_pending
=============================================================================
