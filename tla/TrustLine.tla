----------------------------- MODULE TrustLine -----------------------------
(***************************************************************************)
(* The arithmetic of one trust line as one of its two nodes keeps it       *)
(* (class TrustLine).  A line is a record: the contractor trusts the node  *)
(* up to incoming, the node trusts the contractor up to outgoing, a        *)
(* positive balance is owed by the contractor, a negative one by the node. *)
(* totalIn and totalOut add up the payments since the last audit.          *)
(***************************************************************************)
EXTENDS Integers

Line == [incoming : Nat, outgoing : Nat, balance : Int, totalIn : Nat, totalOut : Nat]

\* What the node may still pay, and be paid, over the line.
AvailableOutgoing(l) == IF l.balance < 0 /\ -l.balance > l.incoming THEN 0
                        ELSE l.incoming + l.balance

AvailableIncoming(l) == IF l.balance > 0 /\ l.balance > l.outgoing THEN 0
                        ELSE l.outgoing - l.balance

Available(l, direction) ==
    IF direction = "out" THEN AvailableOutgoing(l) ELSE AvailableIncoming(l)

\* A balance that comes nearer to zero without reaching it.
Settles(old, new) == \/ old > 0 /\ new > 0 /\ new < old
                     \/ old < 0 /\ new < 0 /\ new > old

\* Mutant of Accepts: a debt that is partly settled is checked like any other.
MutantAccepts(l, new) == -l.incoming <= new /\ new <= l.outgoing

\* Mutant of Accepts: each side is checked against the trust of the other.
MutantSwapsTrust(l, new) ==
    Settles(l.balance, new) \/ (-l.outgoing <= new /\ new <= l.incoming)

\* pay and acceptPayment throw OverflowError unless the new balance settles the
\* old one in part or is within the trust of both sides.
Accepts(l, new) ==
    Settles(l.balance, new) \/ (-l.incoming <= new /\ new <= l.outgoing)

\* The balance after a payment in a direction, and the line after it.
BalanceAfter(l, direction, amount) ==
    IF direction = "out" THEN l.balance - amount ELSE l.balance + amount

Moves(l, direction, amount) ==
    IF direction = "out"
    THEN [l EXCEPT !.balance = @ - amount, !.totalOut = @ + amount]
    ELSE [l EXCEPT !.balance = @ + amount, !.totalIn = @ + amount]

Overflowed(l) == l.totalIn > l.outgoing \/ l.totalOut > l.incoming

IsEmpty(l) == l.outgoing = 0 /\ l.incoming = 0 /\ l.balance = 0

\* Neither side owes more than it is trusted with.
WithinTrust(l) == -l.incoming <= l.balance /\ l.balance <= l.outgoing
=============================================================================
