---------------------------- MODULE CycleClosing ----------------------------
(***************************************************************************)
(* Closing of one cycle of trust lines: the initiator (node 0) reserves an *)
(* amount node by node, fixes the final amount, collects public keys and   *)
(* votes and commits. Messages are lost, late and reordered, timers fire   *)
(* at any moment, and transactions of other cycles take reservations away. *)
(***************************************************************************)
EXTENDS Integers, FiniteSets

CONSTANTS
    N,              \* intermediate nodes of the cycle
    MaxAmount,      \* the largest amount a line has
    MaxChallenges   \* bound on the reservations other cycles take away

ASSUME CycleAssumption ==
    /\ N \in Nat \ {0, 1}
    /\ MaxAmount \in Nat \ {0}
    /\ MaxChallenges \in Nat

Coordinator == 0
Intermediates == 1..N
Nodes == 0..N
NextNode(n) == IF n = N THEN 0 ELSE n + 1
PreviousNode(n) == IF n = 0 THEN N ELSE n - 1

VARIABLES
    stage,      \* mStep of the transaction on each node
    held,       \* its reservations: in from the previous, out to the next node
    want,       \* amount it waits for another transaction to release
    flow,       \* mMaxPathFlow of the initiator
    approved,   \* how many nodes have PathStats::ReservationApproved
    ids,        \* nodes that know the final amount (mPaymentNodesIds)
    hashes,     \* mParticipantsPublicKeysHashes of each node
    keys,       \* mParticipantsPublicKeys of the initiator
    receipt,    \* mAllNeighborsSentFinalReservations
    votes,      \* mParticipantsSignatures of the initiator
    voted,      \* nodes with mTransactionIsVoted
    moved,      \* history: what each node has committed
    taken,      \* history: nodes that lost their reservations to another cycle
    net         \* messages under way
reservation == <<held, want>>
initiator == <<flow, approved, keys, receipt, votes>>
final == <<ids, hashes>>
vars == <<stage, reservation, initiator, final, voted, moved, taken, net>>

Nothing == [in |-> 0, out |-> 0]
Message(type, from, to, amount) == [type |-> type, from |-> from, to |-> to, amount |-> amount]
\* A reservation request or answer, the latter with 0 for a refusal.
Request(n, a) == Message("Request", n, NextNode(n), a)
Response(n, a) == Message("Response", n, PreviousNode(n), a)
CoordinatorRequest(n, a) == Message("CoordinatorRequest", 0, n, a)
CoordinatorResponse(n, a) == Message("CoordinatorResponse", n, 0, a)
\* The final amount; to the first node it is a receipt as well.
FinalPath(n, a) == Message("FinalPath", 0, n, a)
\* The hash of a public key, with the receipt for the node that is paid.
KeyHash(n, to, a) == Message("KeyHash", n, to, IF to = NextNode(n) THEN a ELSE 0)
FinalResponse(n, ok) == Message("FinalResponse", n, 0, IF ok THEN 1 ELSE 0)
PublicKeys(n) == Message("PublicKeys", 0, n, 0)
Vote(n) == Message("Vote", n, 0, 0)
Finish(n) == Message("Finish", 0, n, 0)

Send(ms) == net' = net \cup ms
Receive(m, ms) == net' = (net \ {m}) \cup ms
To(n, type) == {m \in net : m.to = n /\ m.type = type}
Goto(n, s) == stage' = [stage EXCEPT ![n] = s]

Init ==
    /\ stage = [n \in Nodes |-> "Idle"]
    /\ held = [n \in Nodes |-> Nothing] /\ want = [n \in Nodes |-> 0]
    /\ flow = 0 /\ approved = 0 /\ keys = {} /\ receipt = FALSE /\ votes = {}
    /\ ids = {} /\ hashes = [n \in Nodes |-> {}]
    /\ voted = {} /\ moved = [n \in Nodes |-> Nothing] /\ taken = {} /\ net = {}

-----------------------------------------------------------------------------
(* Reservations. *)
ReserveIn(n, a) == held' = [held EXCEPT ![n].in = a]
ReserveOut(n, a) == held' = [held EXCEPT ![n].out = a]
RollBack(n) == held' = [held EXCEPT ![n] = Nothing]
\* shortageReservation on both sides; more than is reserved throws, and recover() rolls back.
ShortenTo(h, a) == [in |-> IF h.in = 0 THEN 0 ELSE a, out |-> IF h.out = 0 THEN 0 ELSE a]
CanShorten(h, a) == \A side \in {"in", "out"} : h[side] # 0 => a <= h[side]
End(n) == Goto(n, "Ended")
KeepFinal == UNCHANGED <<final, keys, receipt, votes, voted, moved, taken>>

(* The previous node asks n for an amount: n reserves what it has, refuses, or
   takes the reservation of a cycle that is shorter or has the lower initiator
   (resolveReservationConflict) and waits for its release. *)
AcceptPrevious(n, a) ==
    /\ ReserveIn(n, a)
    /\ Goto(n, IF n = Coordinator THEN "NodeAsked" ELSE "CoordinatorRequest")

PreviousNeighborRequest(n) ==
    /\ stage[n] = IF n = Coordinator THEN "PreviousNeighborRequest" ELSE "Idle"
    /\ \E m \in To(n, "Request") :
        \/ \E a \in 1..m.amount :
              AcceptPrevious(n, a) /\ Receive(m, {Response(n, a)}) /\ UNCHANGED want
        \/ RollBack(n) /\ End(n) /\ Receive(m, {Response(n, 0)}) /\ UNCHANGED want
        \/ \* The initiator's line has nothing to reserve at all: it ends without rollBack().
           /\ n = Coordinator
           /\ End(n) /\ Receive(m, {Response(n, 0)}) /\ UNCHANGED <<held, want>>
        \/ \E a \in 1..m.amount :
              /\ want' = [want EXCEPT ![n] = a]
              /\ Goto(n, "WaitForIncoming") /\ Receive(m, {}) /\ UNCHANGED held
    /\ UNCHANGED <<flow, approved>> /\ KeepFinal

PreviousNeighborRequestAgain(n) ==
    /\ stage[n] = "WaitForIncoming"
    /\ \/ AcceptPrevious(n, want[n]) /\ Send({Response(n, want[n])})
       \/ RollBack(n) /\ End(n) /\ Send({Response(n, 0)})
    /\ UNCHANGED <<want, flow, approved>> /\ KeepFinal

(* The initiator tells n to reserve towards the next node. *)
CoordinatorRequestProcessing(n) ==
    /\ stage[n] = "CoordinatorRequest"
    /\ \E m \in To(n, "CoordinatorRequest") :
        \/ \E a \in 1..m.amount :
              /\ ReserveOut(n, a) /\ Goto(n, "NextNeighborResponse")
              /\ Receive(m, {Request(n, a)}) /\ UNCHANGED want
        \/ RollBack(n) /\ End(n) /\ Receive(m, {CoordinatorResponse(n, 0)}) /\ UNCHANGED want
        \/ \E a \in 1..m.amount :
              /\ want' = [want EXCEPT ![n] = a]
              /\ Goto(n, "WaitForOutgoing") /\ Receive(m, {}) /\ UNCHANGED held
    /\ UNCHANGED <<flow, approved>> /\ KeepFinal

CoordinatorRequestAgain(n) ==
    /\ stage[n] = "WaitForOutgoing" /\ n # Coordinator
    /\ \/ /\ ReserveOut(n, want[n]) /\ Goto(n, "NextNeighborResponse")
          /\ Send({Request(n, want[n])})
       \/ RollBack(n) /\ End(n) /\ Send({CoordinatorResponse(n, 0)})
    /\ UNCHANGED <<want, flow, approved>> /\ KeepFinal

NextNeighborResponse(n) ==
    /\ stage[n] = "NextNeighborResponse"
    /\ \E m \in To(n, "Response") :
        IF m.amount # 0 /\ CanShorten(held[n], m.amount)
        THEN /\ held' = [held EXCEPT ![n] = ShortenTo(@, m.amount)]
             /\ Goto(n, "FinalPath") /\ Receive(m, {CoordinatorResponse(n, m.amount)})
        ELSE /\ RollBack(n) /\ End(n)
             /\ Receive(m, IF m.amount = 0 THEN {CoordinatorResponse(n, 0)} ELSE {})
    /\ UNCHANGED <<want, flow, approved>> /\ KeepFinal

-----------------------------------------------------------------------------
(* The initiator builds the cycle. *)
KeepOffer == UNCHANGED <<want, final, keys, receipt, votes, voted, moved, taken>>

Ask(a) ==
    /\ ReserveOut(Coordinator, a) /\ flow' = a
    /\ Goto(Coordinator, "NeighborAsked") /\ Send({Request(Coordinator, a)})

(* runInitializationStage and askNeighborToReserveAmount: nothing to pay with,
   an amount, or the reservation of another cycle. *)
Start ==
    /\ stage[Coordinator] = "Idle"
    /\ \/ End(Coordinator) /\ UNCHANGED <<held, want, flow, net>>
       \/ \E a \in 1..MaxAmount : Ask(a) /\ UNCHANGED want
       \/ \E a \in 1..MaxAmount :
             /\ want' = [want EXCEPT ![Coordinator] = a]
             /\ Goto(Coordinator, "WaitForOutgoing") /\ UNCHANGED <<held, flow, net>>
    /\ UNCHANGED approved /\ KeepFinal

StartAgain ==
    /\ stage[Coordinator] = "WaitForOutgoing"
    /\ \/ Ask(want[Coordinator])
       \/ End(Coordinator) /\ UNCHANGED <<held, flow, net>>
    /\ UNCHANGED approved /\ KeepOffer

(* The first node answers; its amount lowers the flow, not the reservation. *)
NeighborAmountResponse ==
    /\ stage[Coordinator] = "NeighborAsked"
    /\ \E m \in To(Coordinator, "Response") :
        IF m.amount = 0
        THEN RollBack(Coordinator) /\ End(Coordinator) /\ Receive(m, {}) /\ UNCHANGED flow
        ELSE /\ flow' = m.amount
             /\ Goto(Coordinator, "NodeAsked")
             /\ Receive(m, {CoordinatorRequest(1, m.amount)}) /\ UNCHANGED held
    /\ UNCHANGED approved /\ KeepOffer

MutantFinishTo(n) == {Finish(k) : k \in 1..n + 1}
FinishTo(n) == {Finish(k) : k \in 1..n}

(* A node has reserved towards its successor: the flow and the reservations of
   the initiator shrink, and the next node or the final amounts follow. *)
ShortenOwn(a) ==
    held' = IF a = flow THEN held
            ELSE [held EXCEPT ![Coordinator] = ShortenTo(@, a)]

FurtherReservationResponse ==
    /\ stage[Coordinator] = "NodeAsked"
    /\ \E m \in To(Coordinator, "CoordinatorResponse") :
        IF m.amount = 0
        THEN /\ RollBack(Coordinator) /\ End(Coordinator)
             /\ Receive(m, FinishTo(approved)) /\ UNCHANGED <<flow, approved>>
        ELSE /\ flow' = m.amount /\ ShortenOwn(m.amount) /\ approved' = approved + 1
             /\ IF approved' = N
                THEN /\ Goto(Coordinator, "FinalAmounts")
                     /\ Receive(m, {FinalPath(k, m.amount) : k \in Intermediates})
                ELSE /\ Goto(Coordinator, IF approved' + 1 = N THEN "PreviousNeighborRequest" ELSE "NodeAsked")
                     /\ Receive(m, {CoordinatorRequest(approved' + 1, m.amount)})
    /\ KeepOffer

\* Waiting for the request of the last node, its answer rejects the whole.
AnswerBeforeRequest ==
    /\ stage[Coordinator] = "PreviousNeighborRequest"
    /\ \E m \in To(Coordinator, "CoordinatorResponse") : Receive(m, {})
    /\ RollBack(Coordinator) /\ End(Coordinator)
    /\ UNCHANGED <<flow, approved>> /\ KeepOffer

(* Timeouts of the initiator; processRemoteNodeResponse does not roll back. *)
CoordinatorTimeout ==
    /\ \/ /\ stage[Coordinator] \in {"NeighborAsked", "PreviousNeighborRequest", "FinalAmounts", "VotesChecking"}
          /\ RollBack(Coordinator) /\ UNCHANGED net
       \/ /\ stage[Coordinator] = "NodeAsked" /\ approved = 0
          /\ RollBack(Coordinator) /\ Send(FinishTo(1))
       \/ /\ stage[Coordinator] = "NodeAsked" /\ approved > 0
          /\ UNCHANGED held /\ Send(FinishTo(approved + 1))
    /\ End(Coordinator)
    /\ UNCHANGED <<flow, approved>> /\ KeepOffer

-----------------------------------------------------------------------------
(* The final amount, public keys and their hashes. *)
Reject(n) == RollBack(n) /\ End(n)

\* checkAllPublicKeyHashesProperly has no return at its end: any result.
Settle(n, h, ms) ==
    IF n \notin ids' \/ hashes'[n] # Intermediates
    THEN held' = [held EXCEPT ![n] = h] /\ net' = ms /\ UNCHANGED stage
    ELSE \/ /\ Goto(n, "VotesChecking") /\ held' = [held EXCEPT ![n] = h]
            /\ net' = ms \cup {FinalResponse(n, TRUE)}
         \/ Reject(n) /\ net' = ms \cup {FinalResponse(n, FALSE)}

HashesOf(n, a) == {KeyHash(n, k, a) : k \in (Intermediates \ {n}) \cup {NextNode(n)}}

\* Cut to the final amount, in and out are the same; so the receipt of the initiator fits.
CanFix(h, a) == CanShorten(h, a) /\ h.in # 0 /\ h.out # 0

MutantFinalPathConfiguration(n) ==
    /\ stage[n] = "FinalPath" /\ n \notin ids
    /\ \E m \in To(n, "FinalPath") :
        /\ ids' = ids \cup {n}
        /\ hashes' = [hashes EXCEPT ![n] = @ \cup {n}]
        /\ Settle(n, held[n], (net \ {m}) \cup HashesOf(n, m.amount))
    /\ UNCHANGED <<want, initiator, voted, moved, taken>>
FinalPathConfiguration(n) ==
    /\ stage[n] = "FinalPath" /\ n \notin ids
    /\ \E m \in To(n, "FinalPath") :
        IF ~CanFix(held[n], m.amount)
        THEN Reject(n) /\ Receive(m, {}) /\ UNCHANGED final
        ELSE /\ ids' = ids \cup {n}
             /\ hashes' = [hashes EXCEPT ![n] = @ \cup {n}]
             /\ Settle(n, ShortenTo(held[n], m.amount), (net \ {m}) \cup HashesOf(n, m.amount))
    /\ UNCHANGED <<want, initiator, voted, moved, taken>>

(* The hash of another node, from the previous node with its receipt, which must
   be for what n has reserved: before the final amount arrives that may be more.
   The refusal goes to the sender of the hash, which waits for no such message. *)
ReceiptFits(n, m) == m.from = PreviousNode(n) => m.amount = held[n].in

FinalReservationsNeighborConfirmation(n) ==
    /\ stage[n] = "FinalPath"
    /\ \E m \in To(n, "KeyHash") :
        /\ hashes' = [hashes EXCEPT ![n] = @ \cup {m.from}]
        /\ UNCHANGED ids
        /\ IF ReceiptFits(n, m) THEN Settle(n, held[n], net \ {m})
           ELSE Reject(n) /\ Receive(m, {})
    /\ UNCHANGED <<want, initiator, voted, moved, taken>>

KeepCycle == UNCHANGED <<want, flow, approved, final, taken>>
PublishKeys ==
    /\ Goto(Coordinator, "VotesChecking")
    /\ UNCHANGED held

FinalAmountsParticipantConfirmation ==
    /\ stage[Coordinator] = "FinalAmounts"
    /\ \E m \in To(Coordinator, "FinalResponse") :
        IF m.amount = 0
        THEN Reject(Coordinator) /\ Receive(m, {}) /\ UNCHANGED keys
        ELSE /\ keys' = keys \cup {m.from}
             /\ IF keys' = Intermediates /\ receipt
                THEN PublishKeys /\ Receive(m, {PublicKeys(n) : n \in Intermediates})
                ELSE Receive(m, {}) /\ UNCHANGED <<stage, held>>
    /\ UNCHANGED <<receipt, votes, voted, moved>> /\ KeepCycle

\* The receipt of the last node; the confirmations, even if complete, are waited for again.
FinalReceipt ==
    /\ stage[Coordinator] = "FinalAmounts" /\ ~receipt
    /\ \E m \in To(Coordinator, "KeyHash") :
        /\ IF ReceiptFits(Coordinator, m) THEN receipt' = TRUE /\ UNCHANGED <<stage, held>>
           ELSE Reject(Coordinator) /\ UNCHANGED receipt
        /\ Receive(m, {})
    /\ UNCHANGED <<keys, votes, voted, moved>> /\ KeepCycle

-----------------------------------------------------------------------------
(* Votes. *)
Commit(n) ==
    /\ moved' = [moved EXCEPT ![n] = held[n]]
    /\ RollBack(n)  \* the reservations turn into balances
    /\ Goto(n, "Committed")

\* The public keys arrive: the node stores its transaction and votes.
VoteOnKeys(n) ==
    /\ stage[n] = "VotesChecking" /\ n \notin voted
    /\ \E m \in To(n, "PublicKeys") : Receive(m, {Vote(n)})
    /\ voted' = voted \cup {n}
    /\ UNCHANGED <<stage, held, keys, receipt, votes, moved>> /\ KeepCycle

MutantAllVoted(vs) == Cardinality(vs) + 1 >= N
AllVoted(vs) == Cardinality(vs) + 1 = N + 1
VotesConsistencyChecking ==
    /\ stage[Coordinator] = "VotesChecking"
    /\ \E m \in To(Coordinator, "Vote") :
        /\ votes' = votes \cup {m.from}
        /\ Receive(m, {})
    /\ IF AllVoted(votes') THEN Commit(Coordinator) ELSE UNCHANGED <<stage, held, moved>>
    /\ UNCHANGED <<keys, receipt, voted>> /\ KeepCycle

\* The votes or their absence: both lead to recovery, for the check before them wants public keys.
VotesOrTimeout(n) ==
    /\ stage[n] = "VotesChecking" /\ n \in voted
    /\ Goto(n, "Recovery")
    /\ UNCHANGED <<held, net, keys, receipt, votes, voted, moved>> /\ KeepCycle

\* The rounds of questions (PaymentVoting) end when they find the votes of all.
Recover(n) ==
    /\ stage[n] = "Recovery" /\ stage[Coordinator] = "Committed"
    /\ Commit(n)
    /\ UNCHANGED <<net, keys, receipt, votes, voted>> /\ KeepCycle

MutantTimeout(n) ==
    /\ \/ stage[n] \in {"CoordinatorRequest", "FinalPath"} /\ n \notin ids /\ UNCHANGED net
       \/ stage[n] = "VotesChecking" /\ n \notin voted /\ UNCHANGED net
       \/ stage[n] = "NextNeighborResponse" /\ Send({CoordinatorResponse(n, 0)})
    /\ Reject(n)
    /\ UNCHANGED <<keys, receipt, votes, voted, moved>> /\ KeepCycle
Timeout(n) ==
    /\ \/ stage[n] \in {"CoordinatorRequest", "FinalPath"} /\ UNCHANGED net
       \/ stage[n] = "VotesChecking" /\ n \notin voted /\ UNCHANGED net
       \/ stage[n] = "NextNeighborResponse" /\ Send({CoordinatorResponse(n, 0)})
    /\ Reject(n)
    /\ UNCHANGED <<keys, receipt, votes, voted, moved>> /\ KeepCycle

FinishArrives(n) ==
    /\ \/ stage[n] \in {"CoordinatorRequest", "FinalPath"}
       \/ stage[n] = "VotesChecking" /\ n \notin voted
    /\ \E m \in To(n, "Finish") : Receive(m, {})
    /\ Reject(n)
    /\ UNCHANGED <<keys, receipt, votes, voted, moved>> /\ KeepCycle

-----------------------------------------------------------------------------
(* Another cycle wins the reservations of n (isChallengerTransactionWinReservation). *)
Challengeable(n) ==
    /\ held[n] # Nothing
    /\ stage[n] \notin {"VotesChecking", "Ended", "Committed", "RollbackByOther"}
Challenge(n) ==
    /\ Cardinality(taken) < MaxChallenges
    /\ Challengeable(n)
    /\ Goto(n, "RollbackByOther")
    /\ taken' = taken \cup {n}
    /\ UNCHANGED <<reservation, initiator, final, voted, moved, net>>

RollbackByOtherTransaction(n) ==
    /\ stage[n] = "RollbackByOther"
    /\ Reject(n)
    /\ UNCHANGED <<net, keys, receipt, votes, voted, moved>> /\ KeepCycle

Coordinate ==
    \/ Start \/ StartAgain \/ NeighborAmountResponse \/ FurtherReservationResponse
    \/ AnswerBeforeRequest \/ FinalAmountsParticipantConfirmation \/ FinalReceipt
    \/ VotesConsistencyChecking \/ CoordinatorTimeout
TakePart(n) ==
    \/ CoordinatorRequestProcessing(n) \/ CoordinatorRequestAgain(n)
    \/ NextNeighborResponse(n) \/ FinalPathConfiguration(n)
    \/ FinalReservationsNeighborConfirmation(n) \/ VoteOnKeys(n)
    \/ VotesOrTimeout(n) \/ Recover(n) \/ Timeout(n) \/ FinishArrives(n)
Next ==
    \/ Coordinate
    \/ \E n \in Intermediates : TakePart(n)
    \/ \E n \in Nodes : PreviousNeighborRequest(n) \/ PreviousNeighborRequestAgain(n)
                        \/ Challenge(n) \/ RollbackByOtherTransaction(n)

(* Timers are set for every wait; nothing else is sure to happen. *)
Timers(n) ==
    PreviousNeighborRequestAgain(n) \/ CoordinatorRequestAgain(n) \/ Timeout(n)
    \/ VotesOrTimeout(n) \/ RollbackByOtherTransaction(n)
Fairness ==
    /\ WF_vars(StartAgain) /\ WF_vars(CoordinatorTimeout)
    /\ \A n \in Nodes : WF_vars(RollbackByOtherTransaction(n)) /\ WF_vars(PreviousNeighborRequestAgain(n))
    /\ \A n \in Intermediates : WF_vars(Timers(n))
Spec == Init /\ [][Next]_vars /\ Fairness
-----------------------------------------------------------------------------
Reservation == [in : 0..MaxAmount, out : 0..MaxAmount]
Stages == {"Idle", "NeighborAsked", "NodeAsked", "PreviousNeighborRequest", "WaitForIncoming",
           "WaitForOutgoing", "CoordinatorRequest", "NextNeighborResponse", "FinalPath",
           "FinalAmounts", "VotesChecking", "Recovery", "RollbackByOther", "Committed", "Ended"}
MessageTypes == {"Request", "Response", "CoordinatorRequest", "CoordinatorResponse", "FinalPath",
                 "KeyHash", "FinalResponse", "PublicKeys", "Vote", "Finish"}

(* Types. *)
TypeOK ==
    /\ stage \in [Nodes -> Stages]
    /\ held \in [Nodes -> Reservation] /\ moved \in [Nodes -> Reservation]
    /\ want \in [Nodes -> 0..MaxAmount] /\ flow \in 0..MaxAmount
    /\ approved \in 0..N
    /\ hashes \in [Nodes -> SUBSET Intermediates]
    /\ receipt \in BOOLEAN
    /\ {ids, keys, votes, voted} \subseteq SUBSET Intermediates /\ taken \subseteq Nodes
    /\ net \subseteq [type : MessageTypes, from : Nodes, to : Nodes, amount : 0..MaxAmount]

Committed(n) == stage[n] = "Committed"

(* Two nodes that have both committed moved the same amount over the line
   between them, as their receipts say, and a node in between paid what it was
   paid. The line from the initiator to the first node is not part of it. *)
HopsAgree ==
    \A n \in Intermediates : Committed(n) =>
        /\ moved[n].in = moved[n].out /\ moved[n].in # 0
        /\ Committed(NextNode(n)) => moved[NextNode(n)].in = moved[n].out

(* The initiator commits for all: no node commits before it has, and when it has,
   every node has voted and committed or still holds what it voted for, unless
   another cycle took it during the recovery (setRollbackByOtherTransactionStage). *)
OneDecision ==
    /\ \A n \in Intermediates : Committed(n) => Committed(Coordinator) /\ n \in voted
    /\ Committed(Coordinator) => \A n \in Intermediates :
          n \in taken \/ Committed(n) \/ (n \in voted /\ held[n].in # 0 /\ held[n].out # 0)

(* What a node has reserved and not voted for is released or committed, also
   when the initiator vanishes or another cycle comes in between: timers run
   for every wait (maxNetworkDelay, kWaitingForReleasingAmountMSec). *)
ReservationsReturned ==
    \A n \in Intermediates : held[n] # Nothing ~> held[n] = Nothing \/ n \in voted
=============================================================================
