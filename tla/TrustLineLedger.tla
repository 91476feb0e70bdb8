-------------------------- MODULE TrustLineLedger --------------------------
(***************************************************************************)
(* One trust line of one node: TrustLinesManager with its TrustLine and    *)
(* AmountReservationsHandler, under the calls that the transactions of     *)
(* the node make.  Payments reserve, shorten, sign receipts, vote, use and *)
(* drop; the node and its contractor change the trust; audits fix the      *)
(* amounts; the process crashes and reads everything back from the         *)
(* database.  The contractor is the environment: it accepts or refuses a   *)
(* change, and signs an audit when nothing is left to answer.              *)
(***************************************************************************)
EXTENDS TrustLine, FiniteSetsExt

CONSTANTS
    Payments,    \* the payments that go over the line
    MaxTrust,    \* bound on the trust amounts the users choose
    Failures     \* what may go wrong: "crash", "refusal", "keys"

ASSUME LedgerAssumption ==
    /\ IsFiniteSet(Payments)
    /\ MaxTrust \in Nat \ {0}
    /\ Failures \subseteq {"crash", "refusal", "keys"}

VARIABLES
    up,            \* is the process running?
    line,          \* the trust line in memory
    state,         \* its state, in memory and in the database
    stage,         \* stage[t]: how far payment t is
    reservation,   \* reservation[t]: what t holds; serialized once it has voted
    audit,         \* the amounts of the last audit (database)
    receipts,      \* receipts[d]: sum of the receipts since that audit (database)
    change         \* the serialized change of a trust amount, or NoChange

vars == <<up, line, state, stage, reservation, audit, receipts, change>>

-----------------------------------------------------------------------------
(* Reservations. *)

Directions == {"in", "out"}

NoReservation == [direction |-> "out", amount |-> 0]

NoChange == [side |-> "none", amount |-> 0, answer |-> "given", previous |-> "Active"]

\* totalReserved: what the payments of a set hold in a direction.
Reserved(payments, direction) ==
    MapThenSumSet(LAMBDA t : IF reservation[t].direction = direction
                             THEN reservation[t].amount ELSE 0, payments)

\* Mutant of Grants: what is reserved already is not looked at.
MutantGrants(direction, amount) == state = "Active" /\ amount <= Available(line, direction)

\* outgoingTrustAmountConsideringReservations and its incoming counterpart.
Grants(direction, amount) ==
    /\ state = "Active"
    /\ amount <= Available(line, direction) - Reserved(Payments, direction)

Reserve(t, direction, amount) ==
    /\ up /\ stage[t] = "free" /\ Grants(direction, amount)
    /\ stage' = [stage EXCEPT ![t] = "reserved"]
    /\ reservation' = [reservation EXCEPT ![t] = [direction |-> direction, amount |-> amount]]
    /\ UNCHANGED <<up, line, state, audit, receipts, change>>

\* shortageReservation: the check is against the outgoing amount in both directions.
Shorten(t, amount) ==
    /\ up /\ stage[t] = "reserved" /\ amount < reservation[t].amount
    /\ reservation' = [reservation EXCEPT ![t].amount = amount]
    /\ UNCHANGED <<up, line, state, stage, audit, receipts, change>>

\* The receipt for the reservation is saved under the current audit number.
SaveReceipt(t) ==
    /\ up /\ stage[t] = "reserved"
    /\ stage' = [stage EXCEPT ![t] = "signed"]
    /\ receipts' = [receipts EXCEPT ![reservation[t].direction] = @ + reservation[t].amount]
    /\ UNCHANGED <<up, line, state, reservation, audit, change>>

\* The payment is serialized with its reservation before it votes.
Vote(t) ==
    /\ up /\ stage[t] = "signed"
    /\ stage' = [stage EXCEPT ![t] = "voted"]
    /\ UNCHANGED <<up, line, state, reservation, audit, receipts, change>>

\* rollBack: the reservation is dropped, the receipt stays.
RollBack(t) ==
    /\ up /\ stage[t] \in {"reserved", "signed", "voted"}
    /\ stage' = [stage EXCEPT ![t] = "closed"]
    /\ reservation' = [reservation EXCEPT ![t] = NoReservation]
    /\ UNCHANGED <<up, line, state, audit, receipts, change>>

\* Does useReservation take the reservation of t, or throw?
Fits(t) == Accepts(line, BalanceAfter(line, reservation[t].direction, reservation[t].amount))

\* commit: a line that becomes empty or overflowed waits for an audit, one that
\* runs out of keys for new keys, and the latter wins.
Commit(t) ==
    /\ up /\ stage[t] \in {"signed", "voted"} /\ Fits(t)
    /\ line' = Moves(line, reservation[t].direction, reservation[t].amount)
    /\ stage' = [stage EXCEPT ![t] = "closed"]
    /\ reservation' = [reservation EXCEPT ![t] = NoReservation]
    /\ \/ IsEmpty(line') /\ state' = "AuditPending"
       \/ ~IsEmpty(line') /\ state' = (IF Overflowed(line') THEN "AuditPending" ELSE state)
       \/ ~IsEmpty(line') /\ "keys" \in Failures /\ state' = "KeysPending"
    /\ UNCHANGED <<up, audit, receipts, change>>

-----------------------------------------------------------------------------
(* Trust amounts, audits and keys. *)

WithSide(l, side, amount) ==
    IF side = "outgoing" THEN [l EXCEPT !.outgoing = amount]
    ELSE IF side = "incoming" THEN [l EXCEPT !.incoming = amount]
    ELSE l

\* setOutgoing and setIncoming throw when nothing is to be set to 0.
Sets(side, amount) == amount # 0 \/ line[side] # 0

\* An archived line is only opened again.
Change(side, amount, newState, answer) ==
    /\ up /\ Sets(side, amount)
    /\ state = "Active" \/ (state = "Archived" /\ amount # 0)
    /\ line' = WithSide(line, side, amount)
    /\ state' = newState
    /\ change' = [side |-> side, amount |-> amount, answer |-> answer, previous |-> state]
    /\ UNCHANGED <<up, stage, reservation, audit, receipts>>

\* The user changes the outgoing trust and the contractor is told.
SetOutgoing(amount) == Change("outgoing", amount, "Modify", "awaited")

\* The contractor changes its own outgoing trust, the incoming one of this node.
SetIncoming(amount) == Change("incoming", amount, "AuditPending", "given")

\* No answer comes in time: the transaction ends, its serialized form is left.
StopWaiting ==
    /\ up /\ change.answer = "awaited"
    /\ change' = [change EXCEPT !.answer = "recovered", !.previous = "unknown"]
    /\ UNCHANGED <<up, line, state, stage, reservation, audit, receipts>>

\* The answer finds the transaction that waits for it, or its serialized form,
\* which makes the change again while the line is still being modified.
AnswerTaken ==
    \/ change.answer = "awaited"
    \/ change.answer = "recovered" /\ state = "Modify" /\ Sets("outgoing", change.amount)

OutgoingAccepted ==
    /\ up /\ AnswerTaken
    /\ state' = "AuditPending"
    /\ change' = [change EXCEPT !.answer = "given"]
    /\ UNCHANGED <<up, line, stage, reservation, audit, receipts>>

\* The line keeps the amount that was refused and gets its previous state back,
\* which is read from the wrong place of the serialized form.
OutgoingRefused ==
    /\ up /\ AnswerTaken /\ "refusal" \in Failures
    /\ Sets("outgoing", change.amount)
    /\ state' = change.previous
    /\ change' = NoChange
    /\ UNCHANGED <<up, line, stage, reservation, audit, receipts>>

\* Both nodes have signed the amounts: receipts start again from nothing.
Audit ==
    /\ up /\ state = "AuditPending" /\ change.answer = "given"
    /\ audit' = [incoming |-> line.incoming, outgoing |-> line.outgoing, balance |-> line.balance]
    /\ line' = [line EXCEPT !.totalIn = 0, !.totalOut = 0]
    /\ receipts' = [d \in Directions |-> 0]
    /\ change' = NoChange
    /\ \/ IsEmpty(line) /\ state' = "Archived"
       \/ ~IsEmpty(line) /\ state' = "Active"
       \/ ~IsEmpty(line) /\ "keys" \in Failures /\ state' = "KeysPending"
    /\ UNCHANGED <<up, stage, reservation>>

KeysShared ==
    /\ up /\ state = "KeysPending"
    /\ state' = "Active"
    /\ UNCHANGED <<up, line, stage, reservation, audit, receipts, change>>

-----------------------------------------------------------------------------
(* The process crashes and starts again. *)

\* Payments that have not voted are forgotten.
Crash ==
    /\ up /\ "crash" \in Failures
    /\ up' = FALSE
    /\ stage' = [t \in Payments |->
                    IF stage[t] \in {"reserved", "signed"} THEN "closed" ELSE stage[t]]
    /\ reservation' = [t \in Payments |->
                    IF stage[t] = "voted" THEN reservation[t] ELSE NoReservation]
    /\ UNCHANGED <<line, state, audit, receipts, change>>

Positive(n) == IF n > 0 THEN n ELSE 0

\* Mutant of RestoredLine: the audited balance counts as received whatever its sign.
MutantRestoredLine ==
    [incoming |-> audit.incoming, outgoing |-> audit.outgoing,
     balance |-> audit.balance + receipts["in"] - receipts["out"],
     totalIn |-> receipts["in"] + audit.balance,
     totalOut |-> receipts["out"]]

\* loadTrustLinesFromStorage: the audit and the receipts since, of whatever payment.
RestoredLine ==
    [incoming |-> audit.incoming, outgoing |-> audit.outgoing,
     balance |-> audit.balance + receipts["in"] - receipts["out"],
     totalIn |-> receipts["in"] + Positive(audit.balance),
     totalOut |-> receipts["out"] + Positive(-audit.balance)]

\* Every serialized payment can take its reservation again, or the process exits.
CanReserveAgain ==
    \A d \in Directions :
        Reserved(Payments, d) > 0 =>
            state = "Active" /\ Reserved(Payments, d) <= Available(RestoredLine, d)

\* The serialized form of a change that is not answered yet.
RecoveredChange ==
    IF change.answer = "given" THEN change
    ELSE [change EXCEPT !.answer = "recovered", !.previous = "unknown"]

\* A serialized change that waits for its answer or its audit is made again.
Restart ==
    /\ ~up /\ CanReserveAgain
    /\ up' = TRUE
    /\ line' = IF state \in {"Modify", "AuditPending"}
               THEN WithSide(RestoredLine, change.side, change.amount) ELSE RestoredLine
    /\ change' = RecoveredChange
    /\ UNCHANGED <<state, stage, reservation, audit, receipts>>

-----------------------------------------------------------------------------
(* Specification. *)

\* A line that was opened and audited, before its first payment.
Init ==
    /\ up = TRUE
    /\ line \in [incoming : 0..MaxTrust, outgoing : 0..MaxTrust,
                 balance : {0}, totalIn : {0}, totalOut : {0}]
    /\ ~IsEmpty(line)
    /\ state = "Active"
    /\ stage = [t \in Payments |-> "free"]
    /\ reservation = [t \in Payments |-> NoReservation]
    /\ audit = [incoming |-> line.incoming, outgoing |-> line.outgoing, balance |-> 0]
    /\ receipts = [d \in Directions |-> 0]
    /\ change = NoChange

PaymentStep(t) ==
    \/ \E d \in Directions, a \in 1..2*MaxTrust : Reserve(t, d, a)
    \/ \E a \in 1..2*MaxTrust : Shorten(t, a)
    \/ SaveReceipt(t) \/ Vote(t) \/ RollBack(t) \/ Commit(t)

TrustStep ==
    \/ \E a \in 0..MaxTrust : SetOutgoing(a) \/ SetIncoming(a)
    \/ StopWaiting \/ OutgoingAccepted \/ OutgoingRefused \/ Audit \/ KeysShared

Next == (\E t \in Payments : PaymentStep(t)) \/ TrustStep \/ Crash \/ Restart

Spec == Init /\ [][Next]_vars

-----------------------------------------------------------------------------
(* Properties. *)

\* Every variable keeps the type the code gives it: the unsigned amounts of the
\* line stay natural, through changes, payments and restarts.
TypeOK ==
    /\ up \in BOOLEAN
    /\ line \in Line
    /\ state \in {"Active", "Modify", "AuditPending", "KeysPending", "Archived",
                "unknown"}
    /\ stage \in [Payments -> {"free", "reserved", "signed", "voted", "closed"}]
    /\ reservation \in [Payments -> [direction : Directions, amount : Nat]]
    /\ audit \in [incoming : Nat, outgoing : Nat, balance : Int]
    /\ receipts \in [Directions -> Nat]
    /\ change \in [side : {"none", "incoming", "outgoing"}, amount : Nat,
                   answer : {"given", "awaited", "recovered"},
                   previous : {"Active", "Archived", "unknown"}]

\* What is reserved in a direction is available in it.
Covered == \A d \in Directions : Reserved(Payments, d) <= Available(line, d)

\* While the reservations are covered, useReservation throws for none of them.
CoveredReservationsFit == Covered => \A t \in Payments : reservation[t].amount > 0 => Fits(t)

\* Payments, audits and restarts never take away what other payments have
\* reserved: only lowering a trust amount does.
PaymentsStayCovered ==
    [][Covered /\ line'.incoming >= line.incoming /\ line'.outgoing >= line.outgoing
        => Covered']_vars

\* Nor do they push the debt of a running node, or of its contractor, over the trust.
PaymentsStayWithinTrust ==
    [][up /\ up' /\ WithinTrust(line)
        /\ line'.incoming >= line.incoming /\ line'.outgoing >= line.outgoing
        => WithinTrust(line')]_vars
=============================================================================
