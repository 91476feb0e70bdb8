--------------------------- MODULE PaymentVoting ---------------------------
(***************************************************************************)
(* The second half of a payment: one transaction UUID, from the moment the *)
(* coordinator sends the final amounts to the moment every node has        *)
(* committed or rolled back.  The nodes of one payment path run            *)
(*                                                                         *)
(*   CoordinatorPaymentTransaction       on Coordinator,                   *)
(*   IntermediateNodePaymentTransaction  on the nodes in between,          *)
(*   ReceiverPaymentTransaction          on Receiver,                      *)
(*                                                                         *)
(* all three derived from BasePaymentTransaction, which owns the vote, the *)
(* commit, the rollback and the recovery of a voted transaction.           *)
(*                                                                         *)
(* Messages travel over UDP: net is the set of messages in transit.  They  *)
(* are taken in any order, and one that is never taken is a lost one.  A   *)
(* transaction only takes the types it waits for (waits); its timer may    *)
(* fire at any time while it waits.                                        *)
(***************************************************************************)
EXTENDS Naturals

CONSTANTS
    Coordinator,    \* the node the user asked to pay
    Participants,   \* the other nodes of the path, the receiver included
    Receiver,       \* the last node of the path
    NextHop,        \* NextHop[n]: the node after n on the path
    Nobody,         \* no node is being asked for the votes
    Crashing,       \* the nodes whose process may crash
    Throwing,       \* the nodes on which run() may throw
    LateAnswers,    \* may an answer to a TTL request outlive the wait for it?
    MaxAsks         \* bound on the copies of a node in mNodesToCheckVotes

Nodes == Participants \cup {Coordinator}

ASSUME PathAssumption ==
    /\ Coordinator \notin Participants
    /\ Receiver \in Participants
    /\ NextHop \in [Nodes \ {Receiver} -> Participants]
    /\ \A m, n \in Nodes \ {Receiver} : NextHop[m] = NextHop[n] => m = n
    /\ \A p \in Participants : \E n \in Nodes \ {Receiver} : n # p /\ NextHop[n] = p
    /\ Nobody \notin Nodes

ASSUME EnvironmentAssumption ==
    /\ Crashing \subseteq Nodes
    /\ Throwing \subseteq Nodes
    /\ LateAnswers \in BOOLEAN
    /\ MaxAsks \in Nat \ {0}

VARIABLES
    tx,         \* tx[p]: the transaction object on p (volatile)
    co,         \* the transaction object on the coordinator (volatile)
    up,         \* up[n]: is the process of n running?
    held,       \* held[n]: n holds its reservations of this payment (volatile)
    ledger,     \* ledger[n][s]: how often side s has moved the balances of n (volatile)
    record,     \* record[n]: the serialized transaction is in the database
    receipts,   \* receipts[n]: sides whose receipt is in the database
    decision,   \* decision[n]: what n did with the payment
    net         \* messages in transit

vars == <<tx, co, up, held, ledger, record, receipts, decision, net>>

-----------------------------------------------------------------------------
(* Messages and states. *)

TTLResponse == {"TTLContinue", "TTLFinish"}
Votes       == {"ParticipantsVotes", "EmptyVotes"}

MessageType ==
    {"FinalAmountsConfiguration", "TransactionPublicKeyHash",
     "FinalAmountsAccepted", "FinalAmountsRejected", "ParticipantsPublicKeys",
     "ParticipantVote", "TTLRequest", "VotesStatusRequest"}
        \cup TTLResponse \cup Votes

\* What only a participant sends.
ParticipantMessageType == {"TransactionPublicKeyHash", "FinalAmountsAccepted", "ParticipantVote"}

Message ==
    {m \in [type : MessageType, from : Nodes, to : Nodes] :
        m.type \in ParticipantMessageType => m.from \in Participants}

Msg(type, from, to) == [type |-> type, from |-> from, to |-> to]

ToAll(type, from, dests) == {Msg(type, from, d) : d \in dests}

Stage == {"FinalAmounts", "ClarificationDuringFinalAmounts", "VotesChecking",
          "ClarificationDuringVoting", "Recovery", "None"}

\* The sides of the payment a node takes part in: it pays on "out", is paid on "in".
Sides(n) == (IF n # Coordinator THEN {"in"} ELSE {})
                \cup (IF n # Receiver THEN {"out"} ELSE {})

\* A balance after the receipts or the reservations of some sides moved it once more.
Moved(balance, sides) == [s \in {"in", "out"} |-> balance[s] + (IF s \in sides THEN 1 ELSE 0)]

\* The balance of the last audit: without this payment.
AuditBalance == [s \in {"in", "out"} |-> 0]

NothingToAsk == [q \in Participants |-> 0]

\* No transaction of this payment in the scheduler of the node.
NoTransaction ==
    [step |-> "None", waits |-> {}, configured |-> FALSE, hashes |-> {},
     voted |-> "no", toAsk |-> NothingToAsk, asked |-> Nobody]

Waiting(p) == tx[p].step # "None"

\* What the transaction of p waits for between its steps.
FinalAmountsWaits == {"FinalAmountsConfiguration", "TransactionPublicKeyHash"} \cup TTLResponse
ClarifiedVotingWaits == {"ParticipantsPublicKeys"} \cup Votes \cup TTLResponse

\* If answers are never late, those p still expects end with the wait for them.
Expired(p) ==
    IF LateAnswers THEN {}
    ELSE {m \in net : \/ m.type = "TTLRequest" /\ m.from = p
                      \/ m.type = "TTLContinue" /\ m.to = p}

\* What stays in transit when p takes the messages of taken, or its timer fires.
Left(p, taken) == net \ (taken \cup Expired(p))

\* m is a message for p of a type p waits for.
Deliverable(p, m) == Waiting(p) /\ m \in net /\ m.to = p /\ m.type \in tx[p].waits

-----------------------------------------------------------------------------
(* Ends of a participant's transaction: rollBack, commit, recover. *)

\* rollBack() and the scheduler forgetting the transaction.  Receipts stay as they are.
RollBack(p) ==
    /\ tx' = [tx EXCEPT ![p] = NoTransaction]
    /\ held' = [held EXCEPT ![p] = FALSE]
    /\ record' = [record EXCEPT ![p] = FALSE]
    /\ decision' = [decision EXCEPT ![p] = "rollback"]
    /\ UNCHANGED <<co, up, ledger>>

\* approve(): the balances take the reservations held, the votes are saved and
\* the serialized transaction is deleted in one database transaction.
Commit(p, applied) ==
    /\ tx' = [tx EXCEPT ![p] = NoTransaction]
    /\ ledger' = [ledger EXCEPT ![p] = Moved(@, applied)]
    /\ held' = [held EXCEPT ![p] = FALSE]
    /\ record' = [record EXCEPT ![p] = FALSE]
    /\ decision' = [decision EXCEPT ![p] = "commit"]
    /\ UNCHANGED <<co, up, receipts>>

\* The nodes other than p and the coordinator are queued, the coordinator is
\* asked first.
ToAskNext(p) ==
    [q \in Participants |->
        IF q # p /\ tx[p].toAsk[q] < MaxAsks THEN tx[p].toAsk[q] + 1 ELSE tx[p].toAsk[q]]

AskCoordinator(p) ==
    /\ tx' = [tx EXCEPT ![p].step = "Recovery", ![p].asked = Coordinator,
                        ![p].waits = Votes, ![p].toAsk = ToAskNext(p)]
    /\ UNCHANGED <<co, up, held, ledger, record, receipts, decision>>

\* Mutant of Recover: a voted transaction is rolled back like any other.
MutantRecover(p, taken) == RollBack(p) /\ net' = Left(p, taken) /\ UNCHANGED receipts

\* recover(): a voted transaction asks for the votes, any other rolls back.
\* voted is uninitialised in a transaction read back from the database.
Recover(p, taken) ==
    \/ /\ tx[p].voted \in {"yes", "uninitialised"}
       /\ AskCoordinator(p)
       /\ net' = Left(p, taken) \cup {Msg("VotesStatusRequest", p, Coordinator)}
    \/ /\ tx[p].voted \in {"no", "uninitialised"}
       /\ RollBack(p)
       /\ net' = Left(p, taken)
       /\ UNCHANGED receipts

\* reject(): the transaction ends on p, whatever it has done so far.
Reject(p, taken) == RollBack(p) /\ net' = Left(p, taken) /\ UNCHANGED receipts

Await(p, step, waits) == tx' = [tx EXCEPT ![p].step = step, ![p].waits = waits]

\* The transaction asks the coordinator whether the payment is still alive.
ClarifyWithCoordinator(p, step, waits) ==
    /\ Await(p, step, waits)
    /\ net' = Left(p, {}) \cup {Msg("TTLRequest", p, Coordinator)}
    /\ UNCHANGED <<co, up, held, ledger, record, receipts, decision>>

-----------------------------------------------------------------------------
(* Final amounts: configuration from the coordinator, key hashes from peers. *)

\* p waits for more hashes, or it has them all and confirms.  The check of them
\* all, checkAllPublicKeyHashesProperly, ends without a return: its result is
\* undefined, and p may as well refuse.
HashesCollected(p, hashes, configured, taken, sent) ==
    LET complete == configured /\ hashes = Participants
    IN  \/ /\ complete
           /\ tx' = [tx EXCEPT ![p].step = "VotesChecking",
                               ![p].waits = {"ParticipantsPublicKeys"} \cup TTLResponse,
                               ![p].configured = TRUE, ![p].hashes = hashes]
           /\ net' = Left(p, taken) \cup sent \cup {Msg("FinalAmountsAccepted", p, Coordinator)}
           /\ UNCHANGED <<co, up, held, ledger, record, decision>>
        \/ /\ complete
           /\ RollBack(p)
           /\ net' = Left(p, taken) \cup sent \cup {Msg("FinalAmountsRejected", p, Coordinator)}
        \/ /\ ~complete
           /\ tx' = [tx EXCEPT ![p].step = "FinalAmounts",
                               ![p].waits = IF configured
                                            THEN FinalAmountsWaits \ {"FinalAmountsConfiguration"}
                                            ELSE FinalAmountsWaits,
                               ![p].configured = configured, ![p].hashes = hashes]
           /\ net' = Left(p, taken) \cup sent
           /\ UNCHANGED <<co, up, held, ledger, record, decision>>

ClarifyingFinalAmounts(p) == tx[p].step \in {"FinalAmounts", "ClarificationDuringFinalAmounts"}

\* p saves the receipts it gives and is given, and sends its key hash to its peers.
AcceptFinalAmounts(p) ==
    \E m \in net :
        /\ Deliverable(p, m) /\ m.type = "FinalAmountsConfiguration"
        /\ ClarifyingFinalAmounts(p)
        /\ HashesCollected(p, tx[p].hashes \cup {p}, TRUE, {m},
                           ToAll("TransactionPublicKeyHash", p, Participants \ {p}))
        /\ receipts' = [receipts EXCEPT ![p] = @ \cup (Sides(p) \cap {"out"})
                            \cup (IF NextHop[Coordinator] = p THEN {"in"} ELSE {})]

\* The reservations of p do not match the configuration: p tells it, or, when
\* checkReservationsDirections fails, does not.
RefuseFinalAmounts(p) ==
    \E m \in net, told \in SUBSET {Msg("FinalAmountsRejected", p, Coordinator)} :
        /\ Deliverable(p, m) /\ m.type = "FinalAmountsConfiguration"
        /\ ClarifyingFinalAmounts(p)
        /\ RollBack(p)
        /\ net' = Left(p, {m}) \cup told
        /\ UNCHANGED receipts

\* Mutant of AcceptKeyHash: the receipt that comes with the hash is not saved.
MutantAcceptKeyHash(p) ==
    \E m \in net :
        /\ Deliverable(p, m) /\ m.type = "TransactionPublicKeyHash"
        /\ ClarifyingFinalAmounts(p)
        /\ HashesCollected(p, tx[p].hashes \cup {m.from}, tx[p].configured, {m}, {})
        /\ UNCHANGED receipts

\* A peer sends its key hash; the previous node of the path adds its receipt.
AcceptKeyHash(p) ==
    \E m \in net :
        /\ Deliverable(p, m) /\ m.type = "TransactionPublicKeyHash"
        /\ ClarifyingFinalAmounts(p)
        /\ HashesCollected(p, tx[p].hashes \cup {m.from}, tx[p].configured, {m}, {})
        /\ receipts' = [receipts EXCEPT ![p] = @ \cup
                            (IF m.from # Receiver /\ NextHop[m.from] = p THEN {"in"} ELSE {})]

\* The receipt does not match the reservation: the peer is told, not the coordinator.
RefuseKeyHash(p) ==
    \E m \in net :
        /\ Deliverable(p, m) /\ m.type = "TransactionPublicKeyHash"
        /\ ClarifyingFinalAmounts(p)
        /\ RollBack(p)
        /\ net' = Left(p, {m}) \cup {Msg("FinalAmountsRejected", p, m.from)}
        /\ UNCHANGED receipts

\* Mutant of FinalAmountsTimeout: an unanswered clarification is waited for for ever.
MutantFinalAmountsTimeout(p) ==
    /\ tx[p].step = "FinalAmounts"
    /\ ClarifyWithCoordinator(p, "ClarificationDuringFinalAmounts", FinalAmountsWaits)

FinalAmountsTimeout(p) ==
    \/ /\ tx[p].step = "FinalAmounts"
       /\ ClarifyWithCoordinator(p, "ClarificationDuringFinalAmounts", FinalAmountsWaits)
    \/ /\ tx[p].step = "ClarificationDuringFinalAmounts"
       /\ Reject(p, {})

\* The receiver goes on as if it had confirmed the final amounts.
FinalAmountsContinue(p) ==
    \E m \in net :
        /\ Deliverable(p, m) /\ m.type = "TTLContinue"
        /\ \/ /\ tx[p].step = "FinalAmounts" \/ p # Receiver
              /\ ClarifyingFinalAmounts(p)
              /\ Await(p, "FinalAmounts", FinalAmountsWaits)
           \/ /\ tx[p].step = "ClarificationDuringFinalAmounts" /\ p = Receiver
              /\ Await(p, "VotesChecking", TTLResponse)
        /\ net' = Left(p, {m})
        /\ UNCHANGED <<co, up, held, ledger, record, receipts, decision>>

\* The coordinator has closed the payment.
TransactionFinished(p) ==
    \E m \in net : Deliverable(p, m) /\ m.type = "TTLFinish" /\ Reject(p, {m})

-----------------------------------------------------------------------------
(* Voting. *)

Voting(p) == tx[p].step \in {"VotesChecking", "ClarificationDuringVoting"}

\* Mutant of Vote: the vote is sent before the transaction is serialized.
MutantVote(p) ==
    \E m \in net :
        /\ Deliverable(p, m) /\ m.type = "ParticipantsPublicKeys"
        /\ Voting(p) /\ tx[p].voted = "no" /\ tx[p].hashes = Participants
        /\ tx' = [tx EXCEPT ![p].step = "VotesChecking", ![p].voted = "yes",
                            ![p].waits = Votes]
        /\ net' = Left(p, {m}) \cup {Msg("ParticipantVote", p, m.from)}
        /\ UNCHANGED <<co, up, held, ledger, record, receipts, decision>>

\* The keys match the hashes: p serializes the transaction, signs, and sends its
\* vote.  Any other message, or other keys, and p gives the payment up.
Vote(p) ==
    \E m \in net :
        /\ Deliverable(p, m) /\ m.type \in {"ParticipantsPublicKeys"} \cup Votes
        /\ Voting(p) /\ tx[p].voted = "no"
        /\ IF m.type = "ParticipantsPublicKeys" /\ tx[p].hashes = Participants
           THEN /\ record' = [record EXCEPT ![p] = TRUE]
                /\ tx' = [tx EXCEPT ![p].step = "VotesChecking", ![p].voted = "yes",
                                    ![p].waits = Votes]
                /\ net' = Left(p, {m}) \cup {Msg("ParticipantVote", p, m.from)}
                /\ UNCHANGED <<co, up, held, ledger, receipts, decision>>
           ELSE Reject(p, {m})

\* processParticipantsVotesMessage: a message without votes fails the first check.
\* The coordinator's signature is checked against the sender of the message: from
\* another node it fails, reject() rolls the reservations back but does not
\* return, and the commit finds none to use.
ProcessVotes(p, m) ==
    /\ IF m.type = "EmptyVotes" THEN RollBack(p) /\ UNCHANGED receipts
       ELSE Commit(p, IF m.from = Coordinator THEN Sides(p) ELSE {})
    /\ net' = Left(p, {m})

\* A voted transaction takes the message it waits for, or another one.
VotesArrive(p) ==
    \E m \in net :
        /\ Deliverable(p, m) /\ m.type \in {"ParticipantsPublicKeys"} \cup Votes
        /\ Voting(p) /\ tx[p].voted = "yes"
        /\ IF m.type \in Votes THEN ProcessVotes(p, m) ELSE Recover(p, {m})

\* Mutant of VotingTimeout: an unanswered clarification does not start the recovery.
MutantVotingTimeout(p) ==
    /\ tx[p].step = "VotesChecking"
    /\ ClarifyWithCoordinator(p, "ClarificationDuringVoting", ClarifiedVotingWaits)

VotingTimeout(p) ==
    \/ /\ tx[p].step = "VotesChecking"
       /\ ClarifyWithCoordinator(p, "ClarificationDuringVoting", ClarifiedVotingWaits)
    \/ /\ tx[p].step = "ClarificationDuringVoting"
       /\ Recover(p, {})

\* An answer that the payment is alive, asked for or, on an intermediate node
\* that is not asking, taken for an invalid one.
VotingContinue(p) ==
    \E m \in net :
        /\ Deliverable(p, m) /\ m.type = "TTLContinue"
        /\ \/ /\ tx[p].step = "VotesChecking" /\ p # Receiver
              /\ Reject(p, {m})
           \/ /\ \/ /\ tx[p].step = "VotesChecking" /\ p = Receiver
                    /\ Await(p, "VotesChecking", TTLResponse \cup Votes)
                 \/ /\ tx[p].step = "ClarificationDuringVoting"
                    /\ Await(p, "VotesChecking", ClarifiedVotingWaits)
              /\ net' = Left(p, {m})
              /\ UNCHANGED <<co, up, held, ledger, record, receipts, decision>>

-----------------------------------------------------------------------------
(* Recovery of a voted transaction. *)

Recovering(p, asked) == tx[p].step = "Recovery" /\ tx[p].asked = asked

\* runPrepareListNodesToCheckNodes: at once, or after the sleep.
PrepareNodesList(p) ==
    /\ Recovering(p, Nobody)
    /\ AskCoordinator(p)
    /\ net' = net \cup {Msg("VotesStatusRequest", p, Coordinator)}

\* Nobody is asked until the sleep is over.
Sleep(p, taken) ==
    /\ tx' = [tx EXCEPT ![p].asked = Nobody, ![p].waits = {}]
    /\ net' = net \ taken
    /\ UNCHANGED <<co, up, held, ledger, record, receipts, decision>>

\* Mutant of AskNextNode: the list is popped without looking whether it is empty.
MutantAskNextNode(p, taken) ==
    \E q \in Participants \ {p} :
        /\ tx' = [tx EXCEPT ![p].asked = q, ![p].waits = Votes, ![p].toAsk[q] = @ - 1]
        /\ net' = (net \ taken) \cup {Msg("VotesStatusRequest", p, q)}
        /\ UNCHANGED <<co, up, held, ledger, record, receipts, decision>>

\* processNextNodeToCheckVotes: the next node of the list is asked.
AskNextNode(p, taken) ==
    \/ tx[p].toAsk = NothingToAsk /\ Sleep(p, taken)
    \/ \E q \in Participants :
        /\ tx[p].toAsk[q] > 0
        /\ tx' = [tx EXCEPT ![p].asked = q, ![p].waits = Votes, ![p].toAsk[q] = @ - 1]
        /\ net' = (net \ taken) \cup {Msg("VotesStatusRequest", p, q)}
        /\ UNCHANGED <<co, up, held, ledger, record, receipts, decision>>

NoAnswer(p) ==
    /\ tx[p].step = "Recovery" /\ tx[p].asked # Nobody
    /\ AskNextNode(p, {})

\* An empty answer: after the coordinator's p sleeps, after another one's it goes on.
EmptyAnswer(p) ==
    \E m \in net :
        /\ Deliverable(p, m) /\ tx[p].step = "Recovery" /\ m.type = "EmptyVotes"
        /\ IF tx[p].asked = Coordinator THEN Sleep(p, {m}) ELSE AskNextNode(p, {m})

\* The votes: taken from anyone while the coordinator is asked, else only from
\* the node that is asked.
AnswerWithVotes(p) ==
    \E m \in net :
        /\ Deliverable(p, m) /\ tx[p].step = "Recovery" /\ m.type = "ParticipantsVotes"
        /\ IF tx[p].asked \in {Coordinator, m.from}
           THEN ProcessVotes(p, m)
           ELSE /\ net' = net \ {m}
                /\ UNCHANGED <<tx, co, up, held, ledger, record, receipts, decision>>

\* Mutant of AnswerVotesStatus: a node that has voted vouches for the payment.
MutantAnswerVotesStatus(n, p) ==
    LET request == Msg("VotesStatusRequest", p, n)
        votes == IF decision[n] = "commit" \/ record[n] THEN "ParticipantsVotes"
                 ELSE "EmptyVotes"
    IN  /\ up[n] /\ request \in net
        /\ net' = (net \ {request}) \cup {Msg(votes, n, p)}
        /\ UNCHANGED <<tx, co, up, held, ledger, record, receipts, decision>>

\* VotesStatusResponsePaymentTransaction on any node: the votes it has saved.
AnswerVotesStatus(n, p) ==
    LET request == Msg("VotesStatusRequest", p, n)
        votes == IF decision[n] = "commit" THEN "ParticipantsVotes" ELSE "EmptyVotes"
    IN  /\ up[n] /\ request \in net
        /\ net' = (net \ {request}) \cup {Msg(votes, n, p)}
        /\ UNCHANGED <<tx, co, up, held, ledger, record, receipts, decision>>

-----------------------------------------------------------------------------
(* The coordinator. *)

\* Mutant of CoordinatorEnds: the scheduler does not forget the transaction.
MutantCoordinatorEnds(outcome, applied) ==
    /\ ledger' = [ledger EXCEPT ![Coordinator] = Moved(@, applied)]
    /\ held' = [held EXCEPT ![Coordinator] = FALSE]
    /\ decision' = [decision EXCEPT ![Coordinator] = outcome]
    /\ UNCHANGED <<tx, co, up, record, receipts>>

\* The transaction of the coordinator ends and the scheduler forgets it.
CoordinatorEnds(outcome, applied) ==
    /\ co' = [step |-> "None", confirmed |-> {}, voters |-> {}]
    /\ ledger' = [ledger EXCEPT ![Coordinator] = Moved(@, applied)]
    /\ held' = [held EXCEPT ![Coordinator] = FALSE]
    /\ decision' = [decision EXCEPT ![Coordinator] = outcome]
    /\ UNCHANGED <<tx, up, record, receipts>>

\* reject() and informAllNodesAboutTransactionFinish().
CoordinatorReject(taken) ==
    /\ CoordinatorEnds("rollback", {})
    /\ net' = (net \ taken) \cup ToAll("TTLFinish", Coordinator, Participants)

SendFinalAmountsConfiguration ==
    /\ co.step = "Start"
    /\ co' = [co EXCEPT !.step = "FinalAmounts"]
    /\ receipts' = [receipts EXCEPT ![Coordinator] = Sides(Coordinator)]
    /\ net' = net \cup ToAll("FinalAmountsConfiguration", Coordinator, Participants)
    /\ UNCHANGED <<tx, up, held, ledger, record, decision>>

\* propagateVotesListAndWaitForVotingResult: every participant gets the public
\* keys of all and must vote.
PropagateVotesList(confirmed, m) ==
    /\ co' = [co EXCEPT !.confirmed = confirmed, !.step = "VotesChecking"]
    /\ net' = (net \ {m}) \cup ToAll("ParticipantsPublicKeys", Coordinator, Participants)

\* A participant confirms the final amounts, perhaps the last one.
FinalAmountsConfirmed ==
    \E m \in net :
        /\ co.step = "FinalAmounts" /\ m.type = "FinalAmountsAccepted"
        /\ LET confirmed == co.confirmed \cup {m.from}
           IN  IF confirmed = Participants
               THEN PropagateVotesList(confirmed, m)
               ELSE /\ co' = [co EXCEPT !.confirmed = confirmed]
                    /\ net' = net \ {m}
        /\ UNCHANGED <<tx, up, held, ledger, record, receipts, decision>>

FinalAmountsRefused ==
    \E m \in net :
        /\ co.step = "FinalAmounts" /\ m.type = "FinalAmountsRejected" /\ m.to = Coordinator
        /\ CoordinatorReject({m})

\* Mutant of CollectVote: the first vote is taken for the last.
MutantCollectVote ==
    \E m \in net :
        /\ co.step = "VotesChecking" /\ m.type = "ParticipantVote"
        /\ CoordinatorEnds("commit", Sides(Coordinator))
        /\ net' = (net \ {m}) \cup ToAll("ParticipantsVotes", Coordinator, Participants)

\* The last vote: the coordinator signs, commits, and sends the votes to all.
CollectVote ==
    \E m \in net :
        /\ co.step = "VotesChecking" /\ m.type = "ParticipantVote"
        /\ LET voters == co.voters \cup {m.from}
           IN  IF voters = Participants
               THEN /\ CoordinatorEnds("commit", Sides(Coordinator))
                    /\ net' = (net \ {m}) \cup ToAll("ParticipantsVotes", Coordinator, Participants)
               ELSE /\ co' = [co EXCEPT !.voters = voters]
                    /\ net' = net \ {m}
                    /\ UNCHANGED <<tx, up, held, ledger, record, receipts, decision>>

\* A confirmation or a vote is missing, or run() has thrown.
CoordinatorTimeout ==
    \/ co.step \in {"FinalAmounts", "VotesChecking"} /\ CoordinatorReject({})
    \/ co.step = "Start" /\ Coordinator \in Throwing /\ CoordinatorReject({})

AnswerTTLRequest ==
    \E m \in net :
        /\ co.step \in {"FinalAmounts", "VotesChecking"} /\ m.type = "TTLRequest"
        /\ net' = (net \ {m}) \cup {Msg("TTLContinue", Coordinator, m.from)}
        /\ UNCHANGED <<tx, co, up, held, ledger, record, receipts, decision>>

-----------------------------------------------------------------------------
(* Failures. *)

\* run() of the participant throws and the exception is caught.
Throw(p) == p \in Throwing /\ Waiting(p) /\ Recover(p, {})

\* The process ends.  Only what is in the database is left.
Crash(n) ==
    /\ n \in Crashing /\ up[n]
    /\ up' = [up EXCEPT ![n] = FALSE]
    /\ held' = [held EXCEPT ![n] = FALSE]
    /\ decision' = IF decision[n] = "none" /\ ~record[n]
                   THEN [decision EXCEPT ![n] = "rollback"] ELSE decision
    /\ IF n = Coordinator
       THEN co' = [step |-> "None", confirmed |-> {}, voters |-> {}] /\ tx' = tx
       ELSE tx' = [tx EXCEPT ![n] = NoTransaction] /\ co' = co
    /\ UNCHANGED <<ledger, record, receipts, net>>

\* The balances of a node after a restart: that of the audit and all its receipts.
RestoredBalance(n) == Moved(AuditBalance, receipts[n])

\* The transaction read back from the database.
RestoredTransaction == [NoTransaction EXCEPT !.step = "Recovery", !.voted = "uninitialised"]

\* Mutant of Restart: a serialized transaction does not take its reservations again.
MutantRestart(n) ==
    /\ ~up[n]
    /\ up' = [up EXCEPT ![n] = TRUE]
    /\ ledger' = [ledger EXCEPT ![n] = RestoredBalance(n)]
    /\ held' = [held EXCEPT ![n] = FALSE]
    /\ tx' = IF record[n] THEN [tx EXCEPT ![n] = RestoredTransaction] ELSE tx
    /\ UNCHANGED <<co, record, receipts, decision, net>>

\* A serialized transaction takes its reservations again and goes on with recovery.
Restart(n) ==
    /\ ~up[n]
    /\ up' = [up EXCEPT ![n] = TRUE]
    /\ ledger' = [ledger EXCEPT ![n] = RestoredBalance(n)]
    /\ held' = [held EXCEPT ![n] = record[n]]
    /\ tx' = IF record[n] THEN [tx EXCEPT ![n] = RestoredTransaction] ELSE tx
    /\ UNCHANGED <<co, record, receipts, decision, net>>

-----------------------------------------------------------------------------
(* Specification. *)

Init ==
    /\ tx = [p \in Participants |->
                [NoTransaction EXCEPT !.step = "FinalAmounts", !.waits = FinalAmountsWaits]]
    /\ co = [step |-> "Start", confirmed |-> {}, voters |-> {}]
    /\ up = [n \in Nodes |-> TRUE]
    /\ held = [n \in Nodes |-> TRUE]
    /\ ledger = [n \in Nodes |-> AuditBalance]
    /\ record = [n \in Nodes |-> FALSE]
    /\ receipts = [n \in Nodes |-> {}]
    /\ decision = [n \in Nodes |-> "none"]
    /\ net = {}

FinalAmountsStep(p) ==
    \/ AcceptFinalAmounts(p) \/ RefuseFinalAmounts(p)
    \/ AcceptKeyHash(p) \/ RefuseKeyHash(p)
    \/ FinalAmountsTimeout(p) \/ FinalAmountsContinue(p) \/ TransactionFinished(p)

VotingStep(p) ==
    \/ Vote(p) \/ VotesArrive(p) \/ VotingTimeout(p) \/ VotingContinue(p)

RecoveryStep(p) ==
    PrepareNodesList(p) \/ NoAnswer(p) \/ EmptyAnswer(p) \/ AnswerWithVotes(p)

CoordinatorStep ==
    \/ SendFinalAmountsConfiguration \/ FinalAmountsConfirmed \/ FinalAmountsRefused
    \/ CollectVote \/ CoordinatorTimeout \/ AnswerTTLRequest

Next ==
    \/ \E p \in Participants :
          FinalAmountsStep(p) \/ VotingStep(p) \/ RecoveryStep(p) \/ Throw(p)
    \/ \E n \in Nodes : Crash(n) \/ Restart(n)
    \/ \E n \in Nodes, p \in Participants : AnswerVotesStatus(n, p)
    \/ CoordinatorStep

Spec == Init /\ [][Next]_vars

\* The timer of the transaction of p, whatever it waits for, or the pause in its recovery.
TimerFires(p) ==
    FinalAmountsTimeout(p) \/ VotingTimeout(p) \/ NoAnswer(p) \/ PrepareNodesList(p)

(* Fairness: timers fire, processes restart and stop crashing some time.  A   *)
(* coordinator that is asked again and again answers some time within the     *)
(* wait, and some time the answer arrives within it.                          *)
Fairness ==
    /\ \A p \in Participants :
        /\ WF_vars(TimerFires(p))
        /\ SF_vars(Recovering(p, Coordinator) /\ AnswerVotesStatus(Coordinator, p))
        /\ SF_vars(Recovering(p, Coordinator) /\ AnswerWithVotes(p))
    /\ \A n \in Crashing : WF_vars(Restart(n))
    /\ <>[][\A n \in Crashing : ~Crash(n)]_vars
    /\ WF_vars(CoordinatorTimeout \/ SendFinalAmountsConfiguration)

FairSpec == Spec /\ Fairness

-----------------------------------------------------------------------------
(* Properties. *)

Transaction ==
    [step : Stage, waits : SUBSET MessageType, configured : BOOLEAN,
     hashes : SUBSET Participants, voted : {"no", "yes", "uninitialised"},
     toAsk : [Participants -> 0..MaxAsks], asked : Nodes \cup {Nobody}]

\* Every variable keeps the type the code gives it.
TypeOK ==
    /\ tx \in [Participants -> Transaction]
    /\ co \in [step : {"Start", "FinalAmounts", "VotesChecking", "None"},
               confirmed : SUBSET Participants, voters : SUBSET Participants]
    /\ up \in [Nodes -> BOOLEAN]
    /\ held \in [Nodes -> BOOLEAN]
    /\ ledger \in [Nodes -> [{"in", "out"} -> Nat]]
    /\ record \in [Nodes -> BOOLEAN]
    /\ receipts \in [Nodes -> SUBSET {"in", "out"}]
    /\ decision \in [Nodes -> {"none", "commit", "rollback"}]
    /\ net \subseteq Message

\* No node rolls back a payment that another one commits: what the recovery of a
\* voted transaction (runVotesConsistencyCheckingStage, recover) is there for.
NoSplitDecision ==
    \A m, n \in Nodes : ~(decision[m] = "commit" /\ decision[n] = "rollback")

\* A participant commits only a payment its coordinator has committed, whatever
\* is late, lost, thrown or restarted: votes are only ever saved after the
\* coordinator saved them.
CommitFollowsCoordinator ==
    \A p \in Participants : decision[p] = "commit" => decision[Coordinator] = "commit"

\* A vote that is on its way, or counted by the coordinator, was logged first: its
\* node still has the serialized transaction, or has closed the payment since.
VoteIsLogged ==
    \A p \in Participants :
        (p \in co.voters \/ \E m \in net : m.type = "ParticipantVote" /\ m.from = p)
            => record[p] \/ decision[p] # "none"

\* A running node holds its reservations exactly as long as the payment is open on
\* it: none is left behind by a closed payment, none given back under an open one.
ReservedWhileOpen ==
    \A n \in Nodes : up[n] => (held[n] <=> decision[n] = "none")

\* A node commits only a payment whose every side it holds a receipt for: the
\* balances that a restart sums up from the receipts keep the payment.
CommitSurvivesRestart ==
    \A n \in Nodes : decision[n] = "commit" => Sides(n) \subseteq receipts[n]

\* No side of a payment moves the balances of a node twice: what a recovered
\* transaction commits was not in the balances before.
AppliedOnce ==
    \A n \in Nodes, s \in {"in", "out"} : ledger[n][s] <= 1

\* What a node decided stays decided, through restarts and late messages.
DecisionIsFinal ==
    [][\A n \in Nodes : decision[n] # "none" => decision'[n] = decision[n]]_vars

\* If the coordinator commits, every participant learns it and commits too.
CommitReachesEveryone ==
    decision[Coordinator] = "commit"
        ~> \A p \in Participants : decision[p] = "commit"

\* Nobody keeps its reservations for ever before it has voted: the coordinator
\* decides, and every participant votes or closes the payment.
NobodyHangsBeforeVote ==
    <>(decision[Coordinator] # "none"
        /\ \A p \in Participants : record[p] \/ decision[p] # "none")

\* The states of the abstract payment, read off the decisions and the log.
AbstractStateOf(n) ==
    CASE decision[n] = "commit"   -> "committed"
      [] decision[n] = "rollback" -> "aborted"
      [] decision[n] = "none"     -> IF record[n] THEN "prepared" ELSE "working"

AbstractState == [n \in Nodes |-> AbstractStateOf(n)]

Abstract == INSTANCE AtomicPayment WITH state <- AbstractState

\* With answers in time and no exception in recovery, the protocol implements the
\* atomic payment.
ImplementsAtomicPayment == Abstract!Spec
=============================================================================
