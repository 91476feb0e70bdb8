------------------------ MODULE PaymentVotingProofs ------------------------
(***************************************************************************)
(* Theorems about PaymentVoting, for every path, every set of crashing and *)
(* throwing nodes, and late answers or not.  That the nodes decide alike,  *)
(* and that the protocol implements the atomic payment, assumes answers in *)
(* time and no participant that both crashes and throws (InTime).          *)
(***************************************************************************)
EXTENDS PaymentVoting, TLAPS

-----------------------------------------------------------------------------
(* Type correctness. *)

\* The conjuncts of TypeOK, the messages in transit apart.
StateOK ==
    /\ tx \in [Participants -> Transaction]
    /\ co \in [step : {"Start", "FinalAmounts", "VotesChecking", "None"},
               confirmed : SUBSET Participants, voters : SUBSET Participants]
    /\ up \in [Nodes -> BOOLEAN]
    /\ held \in [Nodes -> BOOLEAN]
    /\ ledger \in [Nodes -> [{"in", "out"} -> Nat]]
    /\ record \in [Nodes -> BOOLEAN]
    /\ receipts \in [Nodes -> SUBSET {"in", "out"}]
    /\ decision \in [Nodes -> {"none", "commit", "rollback"}]

\* A message between nodes is a message.
LEMMA MsgType ==
    ASSUME NEW type \in MessageType, NEW from \in Nodes, NEW to \in Nodes,
           type \in ParticipantMessageType => from \in Participants
    PROVE  Msg(type, from, to) \in Message
BY DEF Msg, Message

\* So is every message of a broadcast.
LEMMA ToAllType ==
    ASSUME NEW type \in MessageType, NEW from \in Nodes, NEW dests \in SUBSET Nodes,
           type \in ParticipantMessageType => from \in Participants
    PROVE  ToAll(type, from, dests) \subseteq Message
BY MsgType DEF ToAll

\* Taking messages out of transit leaves messages.
LEMMA LeftType ==
    ASSUME TypeOK, NEW p, NEW taken
    PROVE  Left(p, taken) \subseteq Message
BY DEF Left, TypeOK

\* The empty slot of the scheduler is a transaction.
LEMMA NoTransactionType == NoTransaction \in Transaction
BY EnvironmentAssumption DEF NoTransaction, Transaction, Stage, NothingToAsk

\* The message types a transaction waits for are message types.
LEMMA WaitsType ==
    /\ FinalAmountsWaits \subseteq MessageType
    /\ ClarifiedVotingWaits \subseteq MessageType
    /\ TTLResponse \subseteq MessageType
    /\ Votes \subseteq MessageType
    /\ "ParticipantsPublicKeys" \in MessageType
BY DEF FinalAmountsWaits, ClarifiedVotingWaits, TTLResponse, Votes, MessageType

\* The fields of a transaction, with the set of its counters left opaque.
TransactionWith(Counts) ==
    [step : Stage, waits : SUBSET MessageType, configured : BOOLEAN,
     hashes : SUBSET Participants, voted : {"no", "yes", "uninitialised"},
     toAsk : Counts, asked : Nodes \cup {Nobody}]

LEMMA TransactionWithCounts == Transaction = TransactionWith([Participants -> 0..MaxAsks])
BY DEF Transaction, TransactionWith

\* A transaction stays one when it waits for something else in another stage.
LEMMA StageEdit ==
    ASSUME NEW t \in Transaction, NEW step \in Stage, NEW waits \in SUBSET MessageType
    PROVE  [t EXCEPT !.step = step, !.waits = waits] \in Transaction
<1> DEFINE Counts == [Participants -> 0..MaxAsks]
<1>1. Transaction = TransactionWith(Counts)
  BY TransactionWithCounts
<1> HIDE DEF Counts
<1> QED BY <1>1 DEF TransactionWith

\* ... and when it knows other hashes.
LEMMA HashesEdit ==
    ASSUME NEW t \in Transaction, NEW step \in Stage, NEW waits \in SUBSET MessageType,
           NEW configured \in BOOLEAN, NEW hashes \in SUBSET Participants
    PROVE  [t EXCEPT !.step = step, !.waits = waits, !.configured = configured,
                     !.hashes = hashes] \in Transaction
<1> DEFINE Counts == [Participants -> 0..MaxAsks]
<1>1. Transaction = TransactionWith(Counts)
  BY TransactionWithCounts
<1> HIDE DEF Counts
<1> QED BY <1>1 DEF TransactionWith

\* ... and when it has voted.
LEMMA VotedEdit ==
    ASSUME NEW t \in Transaction, NEW step \in Stage, NEW waits \in SUBSET MessageType
    PROVE  [t EXCEPT !.step = step, !.voted = "yes", !.waits = waits] \in Transaction
<1> DEFINE Counts == [Participants -> 0..MaxAsks]
<1>1. Transaction = TransactionWith(Counts)
  BY TransactionWithCounts
<1> HIDE DEF Counts
<1> QED BY <1>1 DEF TransactionWith

\* ... and when it asks another node.
LEMMA AskedEdit ==
    ASSUME NEW t \in Transaction, NEW waits \in SUBSET MessageType,
           NEW asked \in Nodes \cup {Nobody}, NEW toAsk \in [Participants -> 0..MaxAsks]
    PROVE  [t EXCEPT !.asked = asked, !.waits = waits, !.toAsk = toAsk] \in Transaction
<1> DEFINE Counts == [Participants -> 0..MaxAsks]
<1>1. Transaction = TransactionWith(Counts) /\ toAsk \in Counts
  BY TransactionWithCounts
<1> HIDE DEF Counts
<1> QED BY <1>1 DEF TransactionWith

\* A rollback keeps the types.
LEMMA RollBackType ==
    ASSUME TypeOK, NEW p \in Participants, RollBack(p),
           receipts' \in [Nodes -> SUBSET {"in", "out"}]
    PROVE  StateOK'
BY NoTransactionType DEF TypeOK, StateOK, RollBack, Nodes

\* A moved balance is a balance.
LEMMA MovedType ==
    ASSUME NEW balance \in [{"in", "out"} -> Nat], NEW sides
    PROVE  Moved(balance, sides) \in [{"in", "out"} -> Nat]
BY DEF Moved

\* A commit keeps the types.
LEMMA CommitType ==
    ASSUME TypeOK, NEW p \in Participants, NEW applied \in SUBSET {"in", "out"},
           Commit(p, applied)
    PROVE  StateOK'
BY NoTransactionType, MovedType DEF TypeOK, StateOK, Commit, Nodes

\* So does a node that starts asking for the votes.
LEMMA AskCoordinatorType ==
    ASSUME TypeOK, NEW p \in Participants, AskCoordinator(p)
    PROVE  StateOK'
<1> DEFINE next == [tx[p] EXCEPT !.step = "Recovery", !.asked = Coordinator,
                                 !.waits = Votes, !.toAsk = ToAskNext(p)]
<1>1. ToAskNext(p) \in [Participants -> 0..MaxAsks]
  BY EnvironmentAssumption DEF ToAskNext, TypeOK, Transaction
<1>2. tx[p] \in Transaction
  BY DEF TypeOK
<1>3. next \in Transaction
  <2> DEFINE Counts == [Participants -> 0..MaxAsks]
  <2>1. ToAskNext(p) \in Counts
    BY <1>1
  <2>2. Votes \in SUBSET MessageType /\ "Recovery" \in Stage
    BY WaitsType DEF Stage
  <2>3. Coordinator \in Nodes \cup {Nobody}
    BY DEF Nodes
  <2>4. tx[p] \in [step : Stage, waits : SUBSET MessageType, configured : BOOLEAN,
                   hashes : SUBSET Participants, voted : {"no", "yes", "uninitialised"},
                   toAsk : Counts, asked : Nodes \cup {Nobody}]
    BY <1>2 DEF Transaction
  <2>5. Transaction = [step : Stage, waits : SUBSET MessageType, configured : BOOLEAN,
                   hashes : SUBSET Participants, voted : {"no", "yes", "uninitialised"},
                   toAsk : Counts, asked : Nodes \cup {Nobody}]
    BY DEF Transaction
  <2> HIDE DEF Counts
  <2> QED BY <2>1, <2>2, <2>3, <2>4, <2>5
<1>4. tx' = [tx EXCEPT ![p] = next]
  BY DEF AskCoordinator, TypeOK
<1> QED BY <1>3, <1>4 DEF TypeOK, StateOK, AskCoordinator

\* An end of the coordinator's transaction keeps the types.
LEMMA CoordinatorEndsType ==
    ASSUME TypeOK, NEW outcome \in {"commit", "rollback"},
           NEW applied \in SUBSET {"in", "out"}, CoordinatorEnds(outcome, applied)
    PROVE  StateOK'
BY MovedType DEF TypeOK, StateOK, CoordinatorEnds, Nodes

\* recover() keeps the types, and leaves only messages in transit.
LEMMA RecoverType ==
    ASSUME TypeOK, NEW p \in Participants, NEW taken, Recover(p, taken)
    PROVE  StateOK' /\ net' \subseteq Message
<1>1. CASE AskCoordinator(p) /\ net' = Left(p, taken) \cup {Msg("VotesStatusRequest", p, Coordinator)}
  <2>1. Msg("VotesStatusRequest", p, Coordinator) \in Message
    BY MsgType DEF MessageType, ParticipantMessageType, Nodes
  <2> QED BY <1>1, <2>1, AskCoordinatorType, LeftType
<1>2. CASE RollBack(p) /\ net' = Left(p, taken) /\ UNCHANGED receipts
  <2>1. receipts' \in [Nodes -> SUBSET {"in", "out"}]
    BY <1>2 DEF TypeOK
  <2> QED BY <1>2, <2>1, RollBackType, LeftType
<1> QED BY <1>1, <1>2 DEF Recover

\* reject() keeps the types, and leaves only messages in transit.
LEMMA RejectType ==
    ASSUME TypeOK, NEW p \in Participants, NEW taken, Reject(p, taken)
    PROVE  StateOK' /\ net' \subseteq Message
<1>1. receipts' \in [Nodes -> SUBSET {"in", "out"}]
  BY DEF Reject, TypeOK
<1> QED BY <1>1, RollBackType, LeftType DEF Reject

\* A change of what a transaction waits for keeps the types.
LEMMA AwaitType ==
    ASSUME TypeOK, NEW p \in Participants, NEW step \in Stage,
           NEW waits \in SUBSET MessageType, Await(p, step, waits)
    PROVE  tx' \in [Participants -> Transaction]
<1> DEFINE next == [tx[p] EXCEPT !.step = step, !.waits = waits]
<1>1. next \in Transaction
  BY StageEdit DEF TypeOK
<1>2. tx' = [tx EXCEPT ![p] = next]
  BY DEF Await, TypeOK
<1> HIDE DEF next
<1> QED BY <1>1, <1>2 DEF TypeOK

\* A clarification keeps the types, and leaves only messages in transit.
LEMMA ClarifyType ==
    ASSUME TypeOK, NEW p \in Participants, NEW step \in Stage,
           NEW waits \in SUBSET MessageType, ClarifyWithCoordinator(p, step, waits)
    PROVE  StateOK' /\ net' \subseteq Message
<1>1. Msg("TTLRequest", p, Coordinator) \in Message
  BY MsgType DEF MessageType, ParticipantMessageType, Nodes
<1>2. tx' \in [Participants -> Transaction]
  BY AwaitType DEF ClarifyWithCoordinator
<1> QED BY <1>1, <1>2, LeftType DEF ClarifyWithCoordinator, TypeOK, StateOK

\* Processing a message with votes keeps the types.
LEMMA ProcessVotesType ==
    ASSUME TypeOK, NEW p \in Participants, NEW m \in net, ProcessVotes(p, m)
    PROVE  StateOK' /\ net' \subseteq Message
<1> DEFINE applied == IF m.from = Coordinator THEN Sides(p) ELSE {}
<1>1. applied \in SUBSET {"in", "out"}
  BY DEF Sides, TypeOK, Nodes
<1>2. CASE RollBack(p) /\ UNCHANGED receipts
  <2>1. receipts' \in [Nodes -> SUBSET {"in", "out"}]
    BY <1>2 DEF TypeOK
  <2> QED BY <1>2, <2>1, RollBackType, LeftType DEF ProcessVotes
<1>3. CASE Commit(p, applied)
  <2> HIDE DEF applied
  <2>1. StateOK'
    BY <1>1, <1>3, CommitType
  <2> QED BY <2>1, LeftType DEF ProcessVotes
<1> QED BY <1>2, <1>3 DEF ProcessVotes

\* So does collecting the key hashes, with the receipts its caller saves.
LEMMA HashesCollectedType ==
    ASSUME TypeOK, NEW p \in Participants, NEW hashes \in SUBSET Participants,
           NEW configured \in BOOLEAN, NEW taken, NEW sent \in SUBSET Message,
           HashesCollected(p, hashes, configured, taken, sent),
           receipts' \in [Nodes -> SUBSET {"in", "out"}]
    PROVE  StateOK' /\ net' \subseteq Message
<1> DEFINE complete == configured /\ hashes = Participants
           accepted == Msg("FinalAmountsAccepted", p, Coordinator)
           rejected == Msg("FinalAmountsRejected", p, Coordinator)
<1>1. accepted \in Message /\ rejected \in Message
  BY MsgType DEF MessageType, ParticipantMessageType, Nodes
<1>2. ASSUME NEW step \in Stage, NEW waits \in SUBSET MessageType,
             NEW c \in BOOLEAN,
             tx' = [tx EXCEPT ![p].step = step, ![p].waits = waits,
                              ![p].configured = c, ![p].hashes = hashes]
      PROVE  tx' \in [Participants -> Transaction]
  <2> DEFINE next == [tx[p] EXCEPT !.step = step, !.waits = waits, !.configured = c,
                                   !.hashes = hashes]
  <2>1. next \in Transaction
    BY HashesEdit DEF TypeOK
  <2>2. tx' = [tx EXCEPT ![p] = next]
    BY <1>2 DEF TypeOK
  <2> HIDE DEF next
  <2> QED BY <2>1, <2>2 DEF TypeOK
<1>3. CASE /\ tx' = [tx EXCEPT ![p].step = "VotesChecking",
                               ![p].waits = {"ParticipantsPublicKeys"} \cup TTLResponse,
                               ![p].configured = TRUE, ![p].hashes = hashes]
           /\ net' = Left(p, taken) \cup sent \cup {accepted}
           /\ UNCHANGED <<co, up, held, ledger, record, decision>>
  <2>1. {"ParticipantsPublicKeys"} \cup TTLResponse \in SUBSET MessageType /\ TRUE \in BOOLEAN
    BY WaitsType
  <2>2. "VotesChecking" \in Stage
    BY DEF Stage
  <2>3. tx' \in [Participants -> Transaction]
    BY <1>2, <1>3, <2>1, <2>2
  <2> QED BY <1>1, <1>3, <2>3, LeftType DEF TypeOK, StateOK
<1>4. CASE /\ RollBack(p)
           /\ net' = Left(p, taken) \cup sent \cup {rejected}
  BY <1>1, <1>4, RollBackType, LeftType
<1>5. CASE /\ tx' = [tx EXCEPT ![p].step = "FinalAmounts",
                               ![p].waits = IF configured
                                            THEN FinalAmountsWaits \ {"FinalAmountsConfiguration"}
                                            ELSE FinalAmountsWaits,
                               ![p].configured = configured, ![p].hashes = hashes]
           /\ net' = Left(p, taken) \cup sent
           /\ UNCHANGED <<co, up, held, ledger, record, decision>>
  <2> DEFINE waits == IF configured THEN FinalAmountsWaits \ {"FinalAmountsConfiguration"}
                      ELSE FinalAmountsWaits
  <2>1. waits \in SUBSET MessageType
    BY WaitsType
  <2>2. "FinalAmounts" \in Stage
    BY DEF Stage
  <2>3. tx' = [tx EXCEPT ![p].step = "FinalAmounts", ![p].waits = waits,
                         ![p].configured = configured, ![p].hashes = hashes]
    BY <1>5
  <2> HIDE DEF waits
  <2>4. tx' \in [Participants -> Transaction]
    BY <1>2, <2>1, <2>2, <2>3
  <2> QED BY <1>5, <2>4, LeftType DEF TypeOK, StateOK
<1> QED BY <1>3, <1>4, <1>5 DEF HashesCollected

\* A node that sleeps until it asks again keeps the types.
LEMMA SleepType ==
    ASSUME TypeOK, NEW p \in Participants, NEW taken, Sleep(p, taken)
    PROVE  StateOK' /\ net' \subseteq Message
<1> DEFINE next == [tx[p] EXCEPT !.asked = Nobody, !.waits = {}, !.toAsk = tx[p].toAsk]
<1>1. tx[p] \in Transaction /\ tx[p].toAsk \in [Participants -> 0..MaxAsks]
  BY DEF TypeOK, Transaction
<1>2. next \in Transaction
  BY <1>1, AskedEdit
<1>3. tx' = [tx EXCEPT ![p] = next]
  BY <1>1 DEF Sleep, TypeOK, Transaction
<1> HIDE DEF next
<1>4. tx' \in [Participants -> Transaction]
  BY <1>2, <1>3 DEF TypeOK
<1> QED BY <1>4 DEF Sleep, TypeOK, StateOK

\* Asking the next node of the list keeps the types.
LEMMA AskNextNodeType ==
    ASSUME TypeOK, NEW p \in Participants, NEW taken, AskNextNode(p, taken)
    PROVE  StateOK' /\ net' \subseteq Message
<1>1. CASE Sleep(p, taken)
  BY <1>1, SleepType
<1>2. ASSUME NEW q \in Participants, tx[p].toAsk[q] > 0,
             tx' = [tx EXCEPT ![p].asked = q, ![p].waits = Votes, ![p].toAsk[q] = @ - 1],
             net' = (net \ taken) \cup {Msg("VotesStatusRequest", p, q)},
             UNCHANGED <<co, up, held, ledger, record, receipts, decision>>
      PROVE  StateOK' /\ net' \subseteq Message
  <2> DEFINE counts == [tx[p].toAsk EXCEPT ![q] = @ - 1]
             next == [tx[p] EXCEPT !.asked = q, !.waits = Votes, !.toAsk = counts]
  <2>1. tx[p] \in Transaction /\ tx[p].toAsk \in [Participants -> 0..MaxAsks]
    BY DEF TypeOK, Transaction
  <2>2. counts \in [Participants -> 0..MaxAsks]
    BY <1>2, <2>1, EnvironmentAssumption
  <2>3. tx' = [tx EXCEPT ![p] = next]
    BY <1>2, <2>1 DEF TypeOK, Transaction
  <2>4. next \in Transaction
    <3>1. Votes \in SUBSET MessageType /\ q \in Nodes \cup {Nobody}
      BY WaitsType DEF Nodes
    <3> HIDE DEF counts
    <3> QED BY <2>1, <2>2, <3>1, AskedEdit
  <2>5. Msg("VotesStatusRequest", p, q) \in Message
    BY MsgType DEF MessageType, ParticipantMessageType, Nodes
  <2> HIDE DEF next
  <2>6. tx' \in [Participants -> Transaction]
    BY <2>3, <2>4 DEF TypeOK
  <2> QED BY <1>2, <2>5, <2>6 DEF TypeOK, StateOK
<1> QED BY <1>1, <1>2 DEF AskNextNode

\* Every step of a participant that settles the final amounts keeps the types.
LEMMA FinalAmountsStepType ==
    ASSUME TypeOK, NEW p \in Participants, FinalAmountsStep(p)
    PROVE  StateOK' /\ net' \subseteq Message
<1>1. CASE AcceptFinalAmounts(p)
  <2> DEFINE sent == ToAll("TransactionPublicKeyHash", p, Participants \ {p})
             hashes == tx[p].hashes \cup {p}
  <2>1. PICK m \in net :
            /\ HashesCollected(p, hashes, TRUE, {m}, sent)
            /\ receipts' = [receipts EXCEPT ![p] = @ \cup (Sides(p) \cap {"out"})
                                \cup (IF NextHop[Coordinator] = p THEN {"in"} ELSE {})]
    BY <1>1 DEF AcceptFinalAmounts
  <2>2. sent \in SUBSET Message
    BY ToAllType DEF MessageType, Nodes
  <2>3. hashes \in SUBSET Participants
    BY DEF TypeOK, Transaction
  <2>4. receipts' \in [Nodes -> SUBSET {"in", "out"}]
    BY <2>1 DEF TypeOK
  <2> HIDE DEF sent, hashes
  <2> QED BY <2>1, <2>2, <2>3, <2>4, HashesCollectedType
<1>2. CASE RefuseFinalAmounts(p)
  <2>1. PICK m \in net, told \in SUBSET {Msg("FinalAmountsRejected", p, Coordinator)} :
            RollBack(p) /\ net' = Left(p, {m}) \cup told /\ UNCHANGED receipts
    BY <1>2 DEF RefuseFinalAmounts
  <2>2. Msg("FinalAmountsRejected", p, Coordinator) \in Message
    BY MsgType DEF MessageType, ParticipantMessageType, Nodes
  <2>3. receipts' \in [Nodes -> SUBSET {"in", "out"}]
    BY <2>1 DEF TypeOK
  <2> QED BY <2>1, <2>2, <2>3, RollBackType, LeftType
<1>3. CASE AcceptKeyHash(p)
  <2>1. PICK m \in net :
            /\ m.type = "TransactionPublicKeyHash"
            /\ HashesCollected(p, tx[p].hashes \cup {m.from}, tx[p].configured, {m}, {})
            /\ receipts' = [receipts EXCEPT ![p] = @ \cup
                                (IF m.from # Receiver /\ NextHop[m.from] = p THEN {"in"} ELSE {})]
    BY <1>3 DEF AcceptKeyHash
  <2>2. m.from \in Participants
    BY <2>1 DEF TypeOK, Message, ParticipantMessageType
  <2>3. tx[p].hashes \cup {m.from} \in SUBSET Participants /\ tx[p].configured \in BOOLEAN
    BY <2>2 DEF TypeOK, Transaction
  <2>4. receipts' \in [Nodes -> SUBSET {"in", "out"}]
    BY <2>1 DEF TypeOK
  <2> DEFINE hashes == tx[p].hashes \cup {m.from}
             configured == tx[p].configured
  <2>5. HashesCollected(p, hashes, configured, {m}, {})
    BY <2>1
  <2>6. hashes \in SUBSET Participants /\ configured \in BOOLEAN
    BY <2>3
  <2> HIDE DEF hashes, configured
  <2> QED BY <2>4, <2>5, <2>6, HashesCollectedType
<1>4. CASE RefuseKeyHash(p)
  <2>1. PICK m \in net :
            /\ RollBack(p) /\ UNCHANGED receipts
            /\ net' = Left(p, {m}) \cup {Msg("FinalAmountsRejected", p, m.from)}
    BY <1>4 DEF RefuseKeyHash
  <2>2. Msg("FinalAmountsRejected", p, m.from) \in Message
    <3>1. m.from \in Nodes
      BY DEF TypeOK, Message
    <3> QED BY <3>1, MsgType DEF MessageType, ParticipantMessageType, Nodes
  <2>3. receipts' \in [Nodes -> SUBSET {"in", "out"}]
    BY <2>1 DEF TypeOK
  <2> QED BY <2>1, <2>2, <2>3, RollBackType, LeftType
<1>5. CASE FinalAmountsTimeout(p)
  <2>1. "ClarificationDuringFinalAmounts" \in Stage /\ FinalAmountsWaits \in SUBSET MessageType
    BY WaitsType DEF Stage
  <2> QED BY <1>5, <2>1, ClarifyType, RejectType DEF FinalAmountsTimeout
<1>6. CASE FinalAmountsContinue(p)
  <2>1. PICK m \in net :
            /\ \/ Await(p, "FinalAmounts", FinalAmountsWaits)
               \/ Await(p, "VotesChecking", TTLResponse)
            /\ net' = Left(p, {m})
            /\ UNCHANGED <<co, up, held, ledger, record, receipts, decision>>
    BY <1>6 DEF FinalAmountsContinue
  <2>2. tx' \in [Participants -> Transaction]
    <3>1. /\ "FinalAmounts" \in Stage /\ "VotesChecking" \in Stage
          /\ FinalAmountsWaits \in SUBSET MessageType /\ TTLResponse \in SUBSET MessageType
      BY WaitsType DEF Stage
    <3> QED BY <2>1, <3>1, AwaitType
  <2> QED BY <2>1, <2>2, LeftType DEF TypeOK, StateOK
<1>7. CASE TransactionFinished(p)
  BY <1>7, RejectType DEF TransactionFinished
<1> QED BY <1>1, <1>2, <1>3, <1>4, <1>5, <1>6, <1>7 DEF FinalAmountsStep

\* Every step of a participant that votes, or waits for the votes, keeps the types.
LEMMA VotingStepType ==
    ASSUME TypeOK, NEW p \in Participants, VotingStep(p)
    PROVE  StateOK' /\ net' \subseteq Message
<1>1. CASE Vote(p)
  <2>1. PICK m \in net :
            \/ /\ record' = [record EXCEPT ![p] = TRUE]
               /\ tx' = [tx EXCEPT ![p].step = "VotesChecking", ![p].voted = "yes",
                                   ![p].waits = Votes]
               /\ net' = Left(p, {m}) \cup {Msg("ParticipantVote", p, m.from)}
               /\ UNCHANGED <<co, up, held, ledger, receipts, decision>>
            \/ Reject(p, {m})
    BY <1>1 DEF Vote
  <2>2. CASE Reject(p, {m})
    BY <2>2, RejectType
  <2>3. CASE ~Reject(p, {m})
    <3> DEFINE next == [tx[p] EXCEPT !.step = "VotesChecking", !.voted = "yes", !.waits = Votes]
    <3>1. tx' = [tx EXCEPT ![p] = next]
      BY <2>1, <2>3 DEF TypeOK
    <3>2. next \in Transaction
      <4>1. "VotesChecking" \in Stage /\ Votes \in SUBSET MessageType
        BY WaitsType DEF Stage
      <4> QED BY <4>1, VotedEdit DEF TypeOK
    <3>3. Msg("ParticipantVote", p, m.from) \in Message
      <4>1. m.from \in Nodes
        BY DEF TypeOK, Message
      <4> QED BY <4>1, MsgType DEF MessageType, ParticipantMessageType, Nodes
    <3> HIDE DEF next
    <3>4. tx' \in [Participants -> Transaction]
      BY <3>1, <3>2 DEF TypeOK
    <3>5. record' \in [Nodes -> BOOLEAN]
      BY <2>1, <2>3 DEF TypeOK
    <3>6. net' \subseteq Message
      BY <2>1, <2>3, <3>3, LeftType
    <3> QED BY <2>1, <2>3, <3>4, <3>5, <3>6 DEF TypeOK, StateOK
  <2> QED BY <2>2, <2>3
<1>2. CASE VotesArrive(p)
  BY <1>2, ProcessVotesType, RecoverType DEF VotesArrive
<1>3. CASE VotingTimeout(p)
  <2>1. "ClarificationDuringVoting" \in Stage /\ ClarifiedVotingWaits \in SUBSET MessageType
    BY WaitsType DEF Stage
  <2> QED BY <1>3, <2>1, ClarifyType, RecoverType DEF VotingTimeout
<1>4. CASE VotingContinue(p)
  <2>1. PICK m \in net :
            \/ Reject(p, {m})
            \/ /\ \/ Await(p, "VotesChecking", TTLResponse \cup Votes)
                  \/ Await(p, "VotesChecking", ClarifiedVotingWaits)
               /\ net' = Left(p, {m})
               /\ UNCHANGED <<co, up, held, ledger, record, receipts, decision>>
    BY <1>4 DEF VotingContinue
  <2>2. CASE Reject(p, {m})
    BY <2>2, RejectType
  <2>3. CASE ~Reject(p, {m})
    <3>1. /\ "VotesChecking" \in Stage /\ ClarifiedVotingWaits \in SUBSET MessageType
          /\ TTLResponse \cup Votes \in SUBSET MessageType
      BY WaitsType DEF Stage
    <3>2. tx' \in [Participants -> Transaction]
      BY <2>1, <2>3, <3>1, AwaitType
    <3> QED BY <2>1, <2>3, <3>2, LeftType DEF TypeOK, StateOK
  <2> QED BY <2>2, <2>3
<1> QED BY <1>1, <1>2, <1>3, <1>4 DEF VotingStep

\* Every step of the recovery keeps the types.
LEMMA RecoveryStepType ==
    ASSUME TypeOK, NEW p \in Participants, RecoveryStep(p)
    PROVE  StateOK' /\ net' \subseteq Message
<1>1. CASE PrepareNodesList(p)
  <2>1. Msg("VotesStatusRequest", p, Coordinator) \in Message
    BY MsgType DEF MessageType, ParticipantMessageType, Nodes
  <2>2. net' \subseteq Message
    BY <1>1, <2>1 DEF PrepareNodesList, TypeOK
  <2> QED BY <1>1, <2>2, AskCoordinatorType DEF PrepareNodesList
<1>2. CASE NoAnswer(p)
  BY <1>2, AskNextNodeType DEF NoAnswer
<1>3. CASE EmptyAnswer(p)
  <2>1. PICK m \in net : Sleep(p, {m}) \/ AskNextNode(p, {m})
    BY <1>3 DEF EmptyAnswer
  <2>2. CASE Sleep(p, {m})
    BY <2>2, SleepType
  <2>3. CASE AskNextNode(p, {m})
    BY <2>3, AskNextNodeType
  <2> QED BY <2>1, <2>2, <2>3
<1>4. CASE AnswerWithVotes(p)
  <2>1. PICK m \in net :
            \/ ProcessVotes(p, m)
            \/ /\ net' = net \ {m}
               /\ UNCHANGED <<tx, co, up, held, ledger, record, receipts, decision>>
    BY <1>4 DEF AnswerWithVotes
  <2>2. CASE ProcessVotes(p, m)
    BY <2>2, ProcessVotesType
  <2>3. CASE ~ProcessVotes(p, m)
    BY <2>1, <2>3 DEF TypeOK, StateOK
  <2> QED BY <2>2, <2>3
<1> QED BY <1>1, <1>2, <1>3, <1>4 DEF RecoveryStep

\* Every step of the coordinator keeps the types.
LEMMA CoordinatorStepType ==
    ASSUME TypeOK, CoordinatorStep
    PROVE  StateOK' /\ net' \subseteq Message
<1>1. ASSUME NEW taken, CoordinatorReject(taken)
      PROVE  StateOK' /\ net' \subseteq Message
  <2>1. ToAll("TTLFinish", Coordinator, Participants) \subseteq Message
    BY ToAllType DEF MessageType, ParticipantMessageType, TTLResponse, Nodes
  <2>2. CoordinatorEnds("rollback", {})
    BY <1>1 DEF CoordinatorReject
  <2>4. StateOK'
    BY <2>2, CoordinatorEndsType
  <2> QED BY <1>1, <2>1, <2>4 DEF CoordinatorReject, TypeOK
<1>2. CASE SendFinalAmountsConfiguration
  <2>1. ToAll("FinalAmountsConfiguration", Coordinator, Participants) \subseteq Message
    BY ToAllType DEF MessageType, ParticipantMessageType, Nodes
  <2>2. Sides(Coordinator) \in SUBSET {"in", "out"}
    BY DEF Sides
  <2>3. co' \in [step : {"Start", "FinalAmounts", "VotesChecking", "None"},
                confirmed : SUBSET Participants, voters : SUBSET Participants]
    BY <1>2 DEF SendFinalAmountsConfiguration, TypeOK
  <2>4. receipts' \in [Nodes -> SUBSET {"in", "out"}]
    BY <1>2, <2>2 DEF SendFinalAmountsConfiguration, TypeOK
  <2>5. net' \subseteq Message
    BY <1>2, <2>1 DEF SendFinalAmountsConfiguration, TypeOK
  <2> QED BY <1>2, <2>3, <2>4, <2>5 DEF SendFinalAmountsConfiguration, TypeOK, StateOK
<1>3. CASE FinalAmountsConfirmed
  <2>1. PICK m \in net :
            /\ m.type = "FinalAmountsAccepted"
            /\ \/ /\ co' = [co EXCEPT !.confirmed = co.confirmed \cup {m.from},
                                     !.step = "VotesChecking"]
                  /\ net' = (net \ {m}) \cup
                               ToAll("ParticipantsPublicKeys", Coordinator, Participants)
               \/ /\ co' = [co EXCEPT !.confirmed = co.confirmed \cup {m.from}]
                  /\ net' = net \ {m}
            /\ UNCHANGED <<tx, up, held, ledger, record, receipts, decision>>
    BY <1>3 DEF FinalAmountsConfirmed, PropagateVotesList
  <2>2. m.from \in Participants
    BY <2>1 DEF TypeOK, Message, ParticipantMessageType
  <2>3. ToAll("ParticipantsPublicKeys", Coordinator, Participants) \subseteq Message
    BY ToAllType DEF MessageType, ParticipantMessageType, Nodes
  <2>4. co' \in [step : {"Start", "FinalAmounts", "VotesChecking", "None"},
                confirmed : SUBSET Participants, voters : SUBSET Participants]
    <3> DEFINE confirmed == co.confirmed \cup {m.from}
    <3>1. confirmed \in SUBSET Participants
      BY <2>2 DEF TypeOK
    <3>2. \/ co' = [co EXCEPT !.confirmed = confirmed, !.step = "VotesChecking"]
          \/ co' = [co EXCEPT !.confirmed = confirmed]
      BY <2>1
    <3> HIDE DEF confirmed
    <3> QED BY <3>1, <3>2 DEF TypeOK
  <2>5. net' \subseteq Message
    BY <2>1, <2>3 DEF TypeOK
  <2> QED BY <2>1, <2>4, <2>5 DEF TypeOK, StateOK
<1>4. CASE FinalAmountsRefused
  BY <1>1, <1>4 DEF FinalAmountsRefused
<1>5. CASE CollectVote
  <2>1. PICK m \in net :
            /\ m.type = "ParticipantVote"
            /\ \/ /\ CoordinatorEnds("commit", Sides(Coordinator))
                  /\ net' = (net \ {m}) \cup
                               ToAll("ParticipantsVotes", Coordinator, Participants)
               \/ /\ co' = [co EXCEPT !.voters = co.voters \cup {m.from}]
                  /\ net' = net \ {m}
                  /\ UNCHANGED <<tx, up, held, ledger, record, receipts, decision>>
    BY <1>5 DEF CollectVote
  <2>2. m.from \in Participants
    BY <2>1 DEF TypeOK, Message, ParticipantMessageType
  <2>3. CASE CoordinatorEnds("commit", Sides(Coordinator))
    <3>1. ToAll("ParticipantsVotes", Coordinator, Participants) \subseteq Message
      BY ToAllType DEF MessageType, ParticipantMessageType, Votes, Nodes
    <3>2. Sides(Coordinator) \in SUBSET {"in", "out"}
      BY DEF Sides
    <3>3. StateOK'
      BY <2>3, <3>2, CoordinatorEndsType
    <3> QED BY <2>1, <3>1, <3>3 DEF TypeOK
  <2>4. CASE ~CoordinatorEnds("commit", Sides(Coordinator))
    <3>1. co' \in [step : {"Start", "FinalAmounts", "VotesChecking", "None"},
                  confirmed : SUBSET Participants, voters : SUBSET Participants]
      BY <2>1, <2>2, <2>4 DEF TypeOK
    <3> QED BY <2>1, <2>4, <3>1 DEF TypeOK, StateOK
  <2> QED BY <2>3, <2>4
<1>6. CASE CoordinatorTimeout
  BY <1>1, <1>6 DEF CoordinatorTimeout
<1>7. CASE AnswerTTLRequest
  <2>1. PICK m \in net :
            /\ net' = (net \ {m}) \cup {Msg("TTLContinue", Coordinator, m.from)}
            /\ UNCHANGED <<tx, co, up, held, ledger, record, receipts, decision>>
    BY <1>7 DEF AnswerTTLRequest
  <2>2. m.from \in Nodes
    BY DEF TypeOK, Message
  <2>3. Msg("TTLContinue", Coordinator, m.from) \in Message
    BY <2>2, MsgType DEF MessageType, ParticipantMessageType, TTLResponse, Nodes
  <2> QED BY <2>1, <2>3 DEF TypeOK, StateOK
<1> QED BY <1>2, <1>3, <1>4, <1>5, <1>6, <1>7 DEF CoordinatorStep

\* A crash and a restart keep the types.
LEMMA FailureType ==
    ASSUME TypeOK, NEW n \in Nodes, Crash(n) \/ Restart(n)
    PROVE  StateOK' /\ net' \subseteq Message
<1>1. CASE Crash(n)
  <2>1. tx' \in [Participants -> Transaction]
    BY <1>1, NoTransactionType DEF Crash, TypeOK
  <2>2. co' \in [step : {"Start", "FinalAmounts", "VotesChecking", "None"},
                confirmed : SUBSET Participants, voters : SUBSET Participants]
    BY <1>1 DEF Crash, TypeOK
  <2>3. /\ up' \in [Nodes -> BOOLEAN] /\ held' \in [Nodes -> BOOLEAN]
        /\ decision' \in [Nodes -> {"none", "commit", "rollback"}]
    BY <1>1 DEF Crash, TypeOK
  <2> QED BY <1>1, <2>1, <2>2, <2>3 DEF Crash, TypeOK, StateOK
<1>2. CASE Restart(n)
  <2>1. RestoredTransaction \in Transaction
    <3> DEFINE Counts == [Participants -> 0..MaxAsks]
    <3>1. Transaction = TransactionWith(Counts)
      BY TransactionWithCounts
    <3>2. "Recovery" \in Stage
      BY DEF Stage
    <3> HIDE DEF Counts
    <3> QED BY <3>1, <3>2, NoTransactionType DEF TransactionWith, RestoredTransaction
  <2>2. tx' \in [Participants -> Transaction]
    BY <1>2, <2>1 DEF Restart, TypeOK
  <2>3. /\ up' \in [Nodes -> BOOLEAN] /\ held' \in [Nodes -> BOOLEAN]
        /\ ledger' \in [Nodes -> [{"in", "out"} -> Nat]]
    BY <1>2, MovedType DEF Restart, RestoredBalance, AuditBalance, TypeOK
  <2> QED BY <1>2, <2>2, <2>3 DEF Restart, TypeOK, StateOK
<1> QED BY <1>1, <1>2

\* An answer to a request for the votes keeps the types.
LEMMA AnswerVotesStatusType ==
    ASSUME TypeOK, NEW n \in Nodes, NEW p \in Participants, AnswerVotesStatus(n, p)
    PROVE  StateOK' /\ net' \subseteq Message
<1>1. /\ Msg("ParticipantsVotes", n, p) \in Message
      /\ Msg("EmptyVotes", n, p) \in Message
  BY MsgType DEF MessageType, ParticipantMessageType, Votes, Nodes
<1> QED BY <1>1 DEF AnswerVotesStatus, TypeOK, StateOK

\* Every step keeps the types.
LEMMA NextType == TypeOK /\ [Next]_vars => TypeOK'
<1> SUFFICES ASSUME TypeOK, [Next]_vars PROVE StateOK' /\ net' \subseteq Message
  BY DEF TypeOK, StateOK
<1>1. ASSUME NEW p \in Participants, Throw(p)
      PROVE  StateOK' /\ net' \subseteq Message
  BY <1>1, RecoverType DEF Throw
<1>2. CASE UNCHANGED vars
  BY <1>2 DEF vars, TypeOK, StateOK
<1> QED
  BY <1>1, <1>2, FinalAmountsStepType, VotingStepType, RecoveryStepType,
     CoordinatorStepType, FailureType, AnswerVotesStatusType DEF Next

\* The initial state has the types.
LEMMA InitType == Init => TypeOK
<1> SUFFICES ASSUME Init PROVE TypeOK
  OBVIOUS
<1>1. tx \in [Participants -> Transaction]
  <2> DEFINE first == [NoTransaction EXCEPT !.step = "FinalAmounts", !.waits = FinalAmountsWaits]
  <2>1. first \in Transaction
    BY NoTransactionType, WaitsType, StageEdit DEF Stage
  <2>2. tx = [p \in Participants |-> first]
    BY DEF Init
  <2> HIDE DEF first
  <2> QED BY <2>1, <2>2
<1>2. AuditBalance \in [{"in", "out"} -> Nat]
  BY DEF AuditBalance
<1> QED BY <1>1, <1>2 DEF Init, TypeOK

\* Every variable keeps the type the code gives it, whatever is late, lost,
\* thrown or restarted.
THEOREM TypeCorrect == Spec => []TypeOK
BY InitType, NextType, PTL DEF Spec

-----------------------------------------------------------------------------
(* What a step can do to the decisions, the log and the votes in transit.   *)

\* No node decides, logs, crashes or restarts, and no transaction begins.
Quiet ==
    /\ UNCHANGED <<up, held, record, decision>>
    /\ co'.step # "None" => co.step # "None"
    /\ \A q \in Participants : Waiting(q)' => Waiting(q)

\* p writes its serialized transaction.
Logs(p) ==
    /\ record' = [record EXCEPT ![p] = TRUE]
    /\ UNCHANGED <<up, held, decision, co>>
    /\ \A q \in Participants : Waiting(q)' => Waiting(q)

\* The kinds of steps of a participant that has a transaction.
StepOf(p) ==
    /\ Waiting(p) /\ co' = co
    /\ \/ Quiet
       \/ Logs(p)
       \/ RollBack(p)
       \/ /\ \E m \in net : m.type = "ParticipantsVotes"
          /\ \E applied \in SUBSET {"in", "out"} : Commit(p, applied)

\* A transaction that only its own node changes begins nowhere else.
LEMMA OwnStep ==
    ASSUME TypeOK, NEW p \in Participants, Waiting(p),
           \A q \in Participants \ {p} : tx'[q] = tx[q]
    PROVE  \A q \in Participants : Waiting(q)' => Waiting(q)
BY DEF Waiting

LEMMA AskCoordinatorKind ==
    ASSUME TypeOK, NEW p \in Participants, Waiting(p), AskCoordinator(p)
    PROVE  Quiet /\ co' = co
<1>1. \A q \in Participants \ {p} : tx'[q] = tx[q]
  BY DEF AskCoordinator, TypeOK
<1> QED BY <1>1, OwnStep DEF AskCoordinator, Quiet

LEMMA RecoverKind ==
    ASSUME TypeOK, NEW p \in Participants, NEW taken, Waiting(p), Recover(p, taken)
    PROVE  StepOf(p)
BY AskCoordinatorKind DEF Recover, RollBack, StepOf

LEMMA AwaitKind ==
    ASSUME TypeOK, NEW p \in Participants, NEW step, NEW waits, Waiting(p),
           Await(p, step, waits),
           UNCHANGED <<co, up, held, ledger, record, receipts, decision>>
    PROVE  Quiet /\ co' = co
<1>1. \A q \in Participants \ {p} : tx'[q] = tx[q]
  BY DEF Await, TypeOK
<1> QED BY <1>1, OwnStep DEF Quiet

LEMMA ProcessVotesKind ==
    ASSUME TypeOK, NEW p \in Participants, NEW m \in net, Waiting(p), m.type \in Votes,
           ProcessVotes(p, m)
    PROVE  StepOf(p)
<1> DEFINE applied == IF m.from = Coordinator THEN Sides(p) ELSE {}
<1>1. applied \in SUBSET {"in", "out"}
  BY DEF Sides, TypeOK, Nodes
<1>2. CASE m.type = "EmptyVotes"
  BY <1>2 DEF ProcessVotes, RollBack, StepOf
<1>3. CASE m.type = "ParticipantsVotes"
  <2>1. Commit(p, applied)
    BY <1>3 DEF ProcessVotes
  <2> HIDE DEF applied
  <2>2. co' = co
    BY <2>1 DEF Commit
  <2> QED BY <1>1, <1>3, <2>1, <2>2 DEF StepOf
<1> QED BY <1>2, <1>3 DEF Votes

LEMMA HashesCollectedKind ==
    ASSUME TypeOK, NEW p \in Participants, NEW hashes, NEW configured, NEW taken, NEW sent,
           Waiting(p), HashesCollected(p, hashes, configured, taken, sent)
    PROVE  StepOf(p)
<1>1. CASE RollBack(p)
  BY <1>1 DEF RollBack, StepOf
<1>2. CASE ~RollBack(p)
  <2>1. \A q \in Participants \ {p} : tx'[q] = tx[q]
    BY <1>2 DEF HashesCollected, TypeOK
  <2>2. UNCHANGED <<co, up, held, ledger, record, decision>>
    BY <1>2 DEF HashesCollected
  <2> QED BY <2>1, <2>2, OwnStep DEF Quiet, StepOf
<1> QED BY <1>1, <1>2

LEMMA SleepKind ==
    ASSUME TypeOK, NEW p \in Participants, NEW taken, Waiting(p), Sleep(p, taken)
    PROVE  Quiet /\ co' = co
<1>1. \A q \in Participants \ {p} : tx'[q] = tx[q]
  BY DEF Sleep, TypeOK
<1> QED BY <1>1, OwnStep DEF Sleep, Quiet

LEMMA AskNextNodeKind ==
    ASSUME TypeOK, NEW p \in Participants, NEW taken, Waiting(p), AskNextNode(p, taken)
    PROVE  Quiet /\ co' = co
<1>1. CASE Sleep(p, taken)
  BY <1>1, SleepKind
<1>2. CASE ~Sleep(p, taken)
  <2>1. \A q \in Participants \ {p} : tx'[q] = tx[q]
    BY <1>2 DEF AskNextNode, TypeOK
  <2> QED BY <1>2, <2>1, OwnStep DEF AskNextNode, Quiet
<1> QED BY <1>1, <1>2

LEMMA FinalAmountsStepKind ==
    ASSUME TypeOK, NEW p \in Participants, FinalAmountsStep(p)
    PROVE  StepOf(p)
<1>1. CASE AcceptFinalAmounts(p)
  BY <1>1, HashesCollectedKind DEF AcceptFinalAmounts, Deliverable, StepOf
<1>2. CASE RefuseFinalAmounts(p)
  BY <1>2 DEF RefuseFinalAmounts, Deliverable, RollBack, StepOf
<1>3. CASE AcceptKeyHash(p)
  BY <1>3, HashesCollectedKind DEF AcceptKeyHash, Deliverable, StepOf
<1>4. CASE RefuseKeyHash(p)
  BY <1>4 DEF RefuseKeyHash, Deliverable, RollBack, StepOf
<1>5. CASE FinalAmountsTimeout(p)
  BY <1>5, AwaitKind DEF FinalAmountsTimeout, ClarifyWithCoordinator, Reject, RollBack, Waiting, StepOf
<1>6. CASE FinalAmountsContinue(p)
  BY <1>6, AwaitKind DEF FinalAmountsContinue, Deliverable, StepOf
<1>7. CASE TransactionFinished(p)
  BY <1>7 DEF TransactionFinished, Deliverable, Reject, RollBack, StepOf
<1> QED BY <1>1, <1>2, <1>3, <1>4, <1>5, <1>6, <1>7 DEF FinalAmountsStep

LEMMA VotingStepKind ==
    ASSUME TypeOK, NEW p \in Participants, VotingStep(p)
    PROVE  StepOf(p)
<1>1. CASE Vote(p)
  <2>1. PICK m \in net :
            /\ Waiting(p)
            /\ \/ /\ record' = [record EXCEPT ![p] = TRUE]
                  /\ tx' = [tx EXCEPT ![p].step = "VotesChecking", ![p].voted = "yes",
                                      ![p].waits = Votes]
                  /\ UNCHANGED <<co, up, held, ledger, receipts, decision>>
               \/ Reject(p, {m})
    BY <1>1 DEF Vote, Deliverable
  <2>2. CASE Reject(p, {m})
    BY <2>1, <2>2 DEF Reject, RollBack, StepOf
  <2>3. CASE ~Reject(p, {m})
    <3>1. \A q \in Participants \ {p} : tx'[q] = tx[q]
      BY <2>1, <2>3 DEF TypeOK
    <3>2. Logs(p)
      BY <2>1, <2>3, <3>1, OwnStep DEF Logs
    <3> QED BY <2>1, <3>2 DEF Logs, StepOf
  <2> QED BY <2>2, <2>3
<1>2. CASE VotesArrive(p)
  BY <1>2, ProcessVotesKind, RecoverKind DEF VotesArrive, Deliverable
<1>3. CASE VotingTimeout(p)
  <2>1. Waiting(p)
    BY <1>3 DEF VotingTimeout, Waiting
  <2> QED BY <1>3, <2>1, AwaitKind, RecoverKind DEF VotingTimeout, ClarifyWithCoordinator, StepOf
<1>4. CASE VotingContinue(p)
  <2>1. Waiting(p)
    BY <1>4 DEF VotingContinue, Deliverable
  <2>2. \/ \E m \in net : Reject(p, {m})
        \/ /\ \E waits : Await(p, "VotesChecking", waits)
           /\ UNCHANGED <<co, up, held, ledger, record, receipts, decision>>
    BY <1>4 DEF VotingContinue
  <2> QED BY <2>1, <2>2, AwaitKind DEF Reject, RollBack, StepOf
<1> QED BY <1>1, <1>2, <1>3, <1>4 DEF VotingStep

LEMMA RecoveryStepKind ==
    ASSUME TypeOK, NEW p \in Participants, RecoveryStep(p)
    PROVE  StepOf(p)
<1>1. CASE PrepareNodesList(p)
  BY <1>1, AskCoordinatorKind DEF PrepareNodesList, Recovering, Waiting, StepOf
<1>2. CASE NoAnswer(p)
  BY <1>2, AskNextNodeKind DEF NoAnswer, Waiting, StepOf
<1>3. CASE EmptyAnswer(p)
  BY <1>3, SleepKind, AskNextNodeKind DEF EmptyAnswer, Deliverable, StepOf
<1>4. CASE AnswerWithVotes(p)
  <2>1. PICK m \in net :
            /\ Waiting(p) /\ m.type = "ParticipantsVotes"
            /\ \/ ProcessVotes(p, m)
               \/ UNCHANGED <<tx, co, up, held, ledger, record, receipts, decision>>
    BY <1>4 DEF AnswerWithVotes, Deliverable
  <2>2. CASE ProcessVotes(p, m)
    BY <2>1, <2>2, ProcessVotesKind DEF Votes
  <2>3. CASE ~ProcessVotes(p, m)
    BY <2>1, <2>3 DEF Quiet, Waiting, StepOf
  <2> QED BY <2>2, <2>3
<1> QED BY <1>1, <1>2, <1>3, <1>4 DEF RecoveryStep

\* The kinds of steps of the coordinator.
StepOfCoordinator ==
    \/ Quiet
    \/ /\ co.step # "None"
       /\ \E outcome \in {"commit", "rollback"} : \E applied : CoordinatorEnds(outcome, applied)

LEMMA CoordinatorStepKind ==
    ASSUME TypeOK, CoordinatorStep
    PROVE  StepOfCoordinator
<1>1. ASSUME NEW taken, co.step # "None", CoordinatorReject(taken)
      PROVE  StepOfCoordinator
  BY <1>1 DEF CoordinatorReject, StepOfCoordinator
<1>2. CASE SendFinalAmountsConfiguration
  BY <1>2 DEF SendFinalAmountsConfiguration, StepOfCoordinator, Quiet, Waiting
<1>3. CASE FinalAmountsConfirmed
  BY <1>3 DEF FinalAmountsConfirmed, PropagateVotesList, StepOfCoordinator, Quiet, Waiting
<1>4. CASE FinalAmountsRefused
  BY <1>1, <1>4 DEF FinalAmountsRefused
<1>5. CASE CollectVote
  BY <1>5 DEF CollectVote, StepOfCoordinator, Quiet, Waiting
<1>6. CASE CoordinatorTimeout
  BY <1>1, <1>6 DEF CoordinatorTimeout
<1>7. CASE AnswerTTLRequest
  BY <1>7 DEF AnswerTTLRequest, StepOfCoordinator, Quiet, Waiting
<1> QED BY <1>2, <1>3, <1>4, <1>5, <1>6, <1>7 DEF CoordinatorStep

\* The kinds of steps of the system.
LEMMA StepKinds ==
    ASSUME TypeOK, Next
    PROVE  \/ Quiet
           \/ \E p \in Participants : StepOf(p)
           \/ StepOfCoordinator
           \/ \E n \in Nodes : Crash(n) \/ Restart(n)
<1>1. ASSUME NEW p \in Participants, Throw(p)
      PROVE  StepOf(p)
  BY <1>1, RecoverKind DEF Throw
<1>2. ASSUME NEW n \in Nodes, NEW p \in Participants, AnswerVotesStatus(n, p)
      PROVE  Quiet
  BY <1>2 DEF AnswerVotesStatus, Quiet, Waiting
<1> QED
  BY <1>1, <1>2, FinalAmountsStepKind, VotingStepKind, RecoveryStepKind,
     CoordinatorStepKind DEF Next

-----------------------------------------------------------------------------
(* What a step can add to the votes in transit and to the votes counted.    *)

\* Neither a vote nor the votes of all come to be in transit.
NoNewVote == \A m \in net' \ net : m.type \notin {"ParticipantVote", "ParticipantsVotes"}

\* A vote comes from a node that has logged it, the votes of all from one that
\* has committed.
NewVotesBacked ==
    \A m \in net' \ net :
        /\ m.type = "ParticipantVote" => m.from \in Participants /\ record'[m.from]
        /\ m.type = "ParticipantsVotes" =>
              decision'[Coordinator] = "commit" \/ \E n \in Nodes : decision[n] = "commit"

LEMMA NoNewVoteBacked == NoNewVote => NewVotesBacked
BY DEF NoNewVote, NewVotesBacked

LEMMA LeftOver == ASSUME NEW p, NEW taken PROVE Left(p, taken) \subseteq net
BY DEF Left

LEMMA EndsWithoutVote ==
    ASSUME NEW p, NEW taken, Recover(p, taken) \/ Reject(p, taken)
    PROVE  NoNewVote
BY LeftOver DEF Recover, Reject, Msg, NoNewVote

LEMMA ClarifiesWithoutVote ==
    ASSUME NEW p, NEW step, NEW waits, ClarifyWithCoordinator(p, step, waits)
    PROVE  NoNewVote
BY LeftOver DEF ClarifyWithCoordinator, Msg, NoNewVote

LEMMA HashesWithoutVote ==
    ASSUME NEW p, NEW hashes, NEW configured, NEW taken, NEW sent,
           \A m \in sent : m.type = "TransactionPublicKeyHash",
           HashesCollected(p, hashes, configured, taken, sent)
    PROVE  NoNewVote
<1> DEFINE accepted == Msg("FinalAmountsAccepted", p, Coordinator)
           rejected == Msg("FinalAmountsRejected", p, Coordinator)
<1>1. \/ net' = Left(p, taken) \cup sent \cup {accepted}
      \/ net' = Left(p, taken) \cup sent \cup {rejected}
      \/ net' = Left(p, taken) \cup sent
  BY DEF HashesCollected
<1>2. accepted.type = "FinalAmountsAccepted" /\ rejected.type = "FinalAmountsRejected"
  BY DEF Msg
<1> HIDE DEF accepted, rejected
<1>3. ASSUME NEW m \in net', m \notin net
      PROVE  m \in {accepted, rejected} \/ m \in sent
  BY <1>1, <1>3, LeftOver
<1>4. \A m \in sent : m.type = "TransactionPublicKeyHash"
  OBVIOUS
<1> QED BY <1>2, <1>3, <1>4 DEF NoNewVote

LEMMA AskNextNodeWithoutVote ==
    ASSUME NEW p, NEW taken, Sleep(p, taken) \/ AskNextNode(p, taken)
    PROVE  NoNewVote
<1>1. net' = net \ taken \/ \E q : net' = (net \ taken) \cup {Msg("VotesStatusRequest", p, q)}
  BY DEF Sleep, AskNextNode
<1>2. \A q : Msg("VotesStatusRequest", p, q).type = "VotesStatusRequest"
  BY DEF Msg
<1> QED BY <1>1, <1>2 DEF NoNewVote

LEMMA FinalAmountsWithoutVote ==
    ASSUME NEW p \in Participants, FinalAmountsStep(p)
    PROVE  NoNewVote
<1>1. CASE AcceptFinalAmounts(p)
  <2> DEFINE sent == ToAll("TransactionPublicKeyHash", p, Participants \ {p})
             hashes == tx[p].hashes \cup {p}
  <2>1. \E m \in net : HashesCollected(p, hashes, TRUE, {m}, sent)
    BY <1>1 DEF AcceptFinalAmounts
  <2>2. \A m \in sent : m.type = "TransactionPublicKeyHash"
    BY DEF ToAll, Msg
  <2> HIDE DEF sent, hashes
  <2> QED BY <2>1, <2>2, HashesWithoutVote
<1>2. CASE RefuseFinalAmounts(p)
  BY <1>2, LeftOver DEF RefuseFinalAmounts, Msg, NoNewVote
<1>3. CASE AcceptKeyHash(p)
  BY <1>3, HashesWithoutVote DEF AcceptKeyHash
<1>4. CASE RefuseKeyHash(p)
  BY <1>4, LeftOver DEF RefuseKeyHash, Msg, NoNewVote
<1>5. CASE FinalAmountsTimeout(p)
  BY <1>5, ClarifiesWithoutVote, EndsWithoutVote DEF FinalAmountsTimeout
<1>6. CASE FinalAmountsContinue(p)
  BY <1>6, LeftOver DEF FinalAmountsContinue, NoNewVote
<1>7. CASE TransactionFinished(p)
  BY <1>7, EndsWithoutVote DEF TransactionFinished
<1> QED BY <1>1, <1>2, <1>3, <1>4, <1>5, <1>6, <1>7 DEF FinalAmountsStep

LEMMA VotingNewVotes ==
    ASSUME TypeOK, NEW p \in Participants, VotingStep(p)
    PROVE  NewVotesBacked
<1>1. CASE Vote(p)
  <2>1. PICK m \in net :
            \/ /\ record' = [record EXCEPT ![p] = TRUE]
               /\ net' = Left(p, {m}) \cup {Msg("ParticipantVote", p, m.from)}
            \/ Reject(p, {m})
    BY <1>1 DEF Vote
  <2>2. CASE Reject(p, {m})
    BY <2>2, EndsWithoutVote, NoNewVoteBacked
  <2>3. CASE ~Reject(p, {m})
    <3>1. record'[p]
      BY <2>1, <2>3 DEF TypeOK, Nodes
    <3> QED BY <2>1, <2>3, <3>1, LeftOver DEF Msg, NewVotesBacked
  <2> QED BY <2>2, <2>3
<1>2. CASE VotesArrive(p)
  BY <1>2, EndsWithoutVote, NoNewVoteBacked, LeftOver DEF VotesArrive, ProcessVotes, NoNewVote
<1>3. CASE VotingTimeout(p)
  BY <1>3, ClarifiesWithoutVote, EndsWithoutVote, NoNewVoteBacked DEF VotingTimeout
<1>4. CASE VotingContinue(p)
  BY <1>4, EndsWithoutVote, NoNewVoteBacked, LeftOver DEF VotingContinue, NoNewVote
<1> QED BY <1>1, <1>2, <1>3, <1>4 DEF VotingStep

LEMMA RecoveryWithoutVote ==
    ASSUME NEW p \in Participants, RecoveryStep(p)
    PROVE  NoNewVote
<1>1. CASE PrepareNodesList(p)
  BY <1>1 DEF PrepareNodesList, Msg, NoNewVote
<1>2. CASE NoAnswer(p)
  BY <1>2, AskNextNodeWithoutVote DEF NoAnswer
<1>3. CASE EmptyAnswer(p)
  BY <1>3, AskNextNodeWithoutVote DEF EmptyAnswer
<1>4. CASE AnswerWithVotes(p)
  BY <1>4, LeftOver DEF AnswerWithVotes, ProcessVotes, NoNewVote
<1> QED BY <1>1, <1>2, <1>3, <1>4 DEF RecoveryStep

LEMMA CoordinatorNewVotes ==
    ASSUME TypeOK, CoordinatorStep
    PROVE  NewVotesBacked
<1>1. ASSUME NEW taken, CoordinatorReject(taken)
      PROVE  NewVotesBacked
  BY <1>1, NoNewVoteBacked DEF CoordinatorReject, ToAll, Msg, NoNewVote
<1>2. CASE SendFinalAmountsConfiguration
  BY <1>2, NoNewVoteBacked DEF SendFinalAmountsConfiguration, ToAll, Msg, NoNewVote
<1>3. CASE FinalAmountsConfirmed
  BY <1>3, NoNewVoteBacked DEF FinalAmountsConfirmed, PropagateVotesList, ToAll, Msg, NoNewVote
<1>4. CASE FinalAmountsRefused
  BY <1>1, <1>4 DEF FinalAmountsRefused
<1>5. CASE CollectVote
  <2>1. PICK m \in net :
            \/ /\ CoordinatorEnds("commit", Sides(Coordinator))
               /\ net' = (net \ {m}) \cup
                            ToAll("ParticipantsVotes", Coordinator, Participants)
            \/ net' = net \ {m}
    BY <1>5 DEF CollectVote
  <2>2. CASE net' = net \ {m}
    BY <2>2 DEF NewVotesBacked
  <2>3. CASE net' # net \ {m}
    <3>1. decision'[Coordinator] = "commit"
      BY <2>1, <2>3 DEF CoordinatorEnds, TypeOK, Nodes
    <3> QED BY <2>1, <2>3, <3>1 DEF ToAll, Msg, NewVotesBacked
  <2> QED BY <2>2, <2>3
<1>6. CASE CoordinatorTimeout
  BY <1>1, <1>6 DEF CoordinatorTimeout
<1>7. CASE AnswerTTLRequest
  BY <1>7, NoNewVoteBacked DEF AnswerTTLRequest, Msg, NoNewVote
<1> QED BY <1>2, <1>3, <1>4, <1>5, <1>6, <1>7 DEF CoordinatorStep

LEMMA NewVotes == ASSUME TypeOK, Next PROVE NewVotesBacked
<1>1. ASSUME NEW p \in Participants, Throw(p)
      PROVE  NewVotesBacked
  BY <1>1, EndsWithoutVote, NoNewVoteBacked DEF Throw
<1>2. ASSUME NEW n \in Nodes, Crash(n) \/ Restart(n)
      PROVE  NewVotesBacked
  BY <1>2 DEF Crash, Restart, NewVotesBacked
<1>3. ASSUME NEW n \in Nodes, NEW p \in Participants, AnswerVotesStatus(n, p)
      PROVE  NewVotesBacked
  BY <1>3 DEF AnswerVotesStatus, Msg, NewVotesBacked
<1> QED
  BY <1>1, <1>2, <1>3, FinalAmountsWithoutVote, VotingNewVotes, RecoveryWithoutVote,
     CoordinatorNewVotes, NoNewVoteBacked DEF Next

\* The coordinator counts only votes that were in transit.
LEMMA CountedVotes ==
    ASSUME TypeOK, Next, NEW q \in co'.voters
    PROVE  q \in co.voters \/ \E m \in net : m.type = "ParticipantVote" /\ m.from = q
<1>1. CASE \/ \E p \in Participants :
                FinalAmountsStep(p) \/ VotingStep(p) \/ RecoveryStep(p) \/ Throw(p)
           \/ \E n \in Nodes, p \in Participants : AnswerVotesStatus(n, p)
  <2>1. \A p \in Participants : Throw(p) => StepOf(p)
    BY RecoverKind DEF Throw
  <2>2. co' = co
    BY <1>1, <2>1, FinalAmountsStepKind, VotingStepKind, RecoveryStepKind
       DEF StepOf, AnswerVotesStatus
  <2> QED BY <2>2
<1>2. CASE CoordinatorStep
  <2>1. ASSUME NEW taken, CoordinatorReject(taken) PROVE co'.voters = {}
    BY <2>1 DEF CoordinatorReject, CoordinatorEnds
  <2>2. CASE SendFinalAmountsConfiguration \/ FinalAmountsConfirmed \/ AnswerTTLRequest
    <3>1. co'.voters = co.voters
      BY <2>2 DEF SendFinalAmountsConfiguration, FinalAmountsConfirmed, PropagateVotesList,
         AnswerTTLRequest, TypeOK
    <3> QED BY <3>1
  <2>3. CASE CollectVote
    <3>1. PICK m \in net :
              /\ m.type = "ParticipantVote"
              /\ \/ CoordinatorEnds("commit", Sides(Coordinator))
                 \/ co' = [co EXCEPT !.voters = co.voters \cup {m.from}]
      BY <2>3 DEF CollectVote
    <3>2. co'.voters \subseteq co.voters \cup {m.from}
      BY <3>1 DEF CoordinatorEnds, TypeOK
    <3> QED BY <3>1, <3>2
  <2> QED
    BY <1>2, <2>1, <2>2, <2>3 DEF CoordinatorStep, FinalAmountsRefused, CoordinatorTimeout
<1>3. ASSUME NEW n \in Nodes, Crash(n) \/ Restart(n) PROVE co' = co \/ co'.voters = {}
  BY <1>3 DEF Crash, Restart
<1> QED
  BY <1>1, <1>2, <1>3 DEF Next

-----------------------------------------------------------------------------
(* The inductive invariant. *)

\* A transaction is open only while its node has not decided, and so is the log.
OpenUndecided ==
    /\ co.step # "None" => decision[Coordinator] = "none"
    /\ \A p \in Participants : Waiting(p) => decision[p] = "none"
    /\ \A n \in Nodes : record[n] => decision[n] = "none"
    /\ ~record[Coordinator]

\* A node that is down is undecided exactly if it has a log to go on from.
DownLogged == \A n \in Nodes : ~up[n] => (record[n] <=> decision[n] = "none")

\* The votes of all are in transit only if the coordinator has committed.
VotesBacked == \A m \in net : m.type = "ParticipantsVotes" => decision[Coordinator] = "commit"

Inv ==
    /\ TypeOK /\ OpenUndecided /\ DownLogged /\ VotesBacked
    /\ ReservedWhileOpen /\ CommitFollowsCoordinator /\ VoteIsLogged

\* A decision once taken is kept.
DecisionsKept == \A n \in Nodes : decision[n] # "none" => decision'[n] = decision[n]

\* Every kind of step keeps the decisions that are taken.
LEMMA DecisionStep ==
    ASSUME Inv, [Next]_vars
    PROVE  DecisionsKept
<1>1. CASE Quiet
  BY <1>1 DEF Quiet, DecisionsKept
<1>2. ASSUME NEW p \in Participants, StepOf(p) PROVE DecisionsKept
  <2>1. decision[p] = "none"
    BY <1>2 DEF Inv, OpenUndecided, StepOf
  <2>2. \A n \in Nodes \ {p} : decision'[n] = decision[n]
    BY <1>2 DEF Inv, TypeOK, StepOf, Quiet, Logs, RollBack, Commit
  <2> QED BY <2>1, <2>2 DEF DecisionsKept
<1>3. CASE StepOfCoordinator
  <2>1. CASE Quiet
    BY <2>1, <1>1 DEF Quiet, DecisionsKept
  <2>2. CASE ~Quiet
    <3>1. decision[Coordinator] = "none"
      BY <1>3, <2>2 DEF StepOfCoordinator, Inv, OpenUndecided
    <3>2. \A n \in Nodes \ {Coordinator} : decision'[n] = decision[n]
      BY <1>3, <2>2 DEF StepOfCoordinator, CoordinatorEnds, Inv, TypeOK
    <3> QED BY <3>1, <3>2 DEF DecisionsKept
  <2> QED BY <2>1, <2>2
<1>4. ASSUME NEW n \in Nodes, Crash(n) \/ Restart(n) PROVE DecisionsKept
  BY <1>4 DEF Crash, Restart, DecisionsKept, Inv, TypeOK
<1>5. CASE UNCHANGED vars
  BY <1>5 DEF vars, DecisionsKept
<1> QED BY <1>1, <1>2, <1>3, <1>4, <1>5, StepKinds DEF Inv

\* Every kind of step keeps what is open, logged and reserved.
LEMMA LogStep ==
    ASSUME Inv, [Next]_vars
    PROVE  (OpenUndecided /\ DownLogged /\ ReservedWhileOpen)'
<1> DEFINE Goal == (OpenUndecided /\ DownLogged /\ ReservedWhileOpen)'
<1> USE DEF Nodes
<1>0. TypeOK /\ OpenUndecided /\ DownLogged /\ ReservedWhileOpen
  BY DEF Inv
<1>1. CASE Quiet
  BY <1>0, <1>1 DEF Quiet, OpenUndecided, DownLogged, ReservedWhileOpen
<1>2. ASSUME NEW p \in Participants, StepOf(p) PROVE Goal
  <2>1. decision[p] = "none" /\ co' = co /\ p # Coordinator
    BY <1>0, <1>2, PathAssumption DEF OpenUndecided, StepOf
  <2>2. CASE Logs(p)
    <3>1. /\ \A n \in Nodes : record'[n] = (record[n] \/ n = p)
          /\ UNCHANGED <<decision, up, held>>
          /\ \A q \in Participants : Waiting(q)' => Waiting(q)
      BY <2>2, <1>0 DEF Logs, TypeOK
    <3> QED BY <1>0, <2>1, <3>1 DEF OpenUndecided, DownLogged, ReservedWhileOpen
  <2>3. CASE \E applied : RollBack(p) \/ Commit(p, applied)
    <3>1. /\ \A n \in Nodes : n # p => record'[n] = record[n] /\ held'[n] = held[n]
                                     /\ decision'[n] = decision[n]
          /\ ~record'[p] /\ ~held'[p] /\ decision'[p] # "none" /\ up' = up
      BY <2>3, <1>0 DEF RollBack, Commit, TypeOK
    <3>2. \A q \in Participants : Waiting(q)' => Waiting(q) /\ q # p
      BY <2>3, <1>0 DEF RollBack, Commit, TypeOK, Waiting, NoTransaction
    <3> QED BY <1>0, <2>1, <3>1, <3>2 DEF OpenUndecided, DownLogged, ReservedWhileOpen
  <2> QED BY <1>1, <1>2, <2>2, <2>3 DEF StepOf
<1>3. CASE StepOfCoordinator
  <2>1. CASE ~Quiet
    <3>0. PICK outcome \in {"commit", "rollback"} : \E applied : CoordinatorEnds(outcome, applied)
      BY <1>3, <2>1 DEF StepOfCoordinator
    <3>1. PICK applied : CoordinatorEnds(outcome, applied)
      BY <3>0
    <3>2. /\ \A n \in Nodes : n # Coordinator => held'[n] = held[n] /\ decision'[n] = decision[n]
          /\ ~held'[Coordinator] /\ decision'[Coordinator] # "none"
          /\ UNCHANGED <<up, record, tx>> /\ co'.step = "None"
      BY <3>1, <1>0 DEF CoordinatorEnds, TypeOK
    <3> QED BY <1>0, <3>2, PathAssumption
            DEF OpenUndecided, DownLogged, ReservedWhileOpen, Waiting
  <2> QED BY <1>1, <2>1
<1>4. ASSUME NEW n \in Nodes, Crash(n) PROVE Goal
  <2>1. /\ ~up'[n] /\ ~held'[n] /\ record' = record
        /\ \A k \in Nodes : k # n => up'[k] = up[k] /\ held'[k] = held[k]
                                   /\ decision'[k] = decision[k]
        /\ decision'[n] = IF decision[n] = "none" /\ ~record[n] THEN "rollback" ELSE decision[n]
    BY <1>4, <1>0 DEF Crash, TypeOK
  <2>2. \A q \in Participants : Waiting(q)' => Waiting(q) /\ q # n
    BY <1>4, <1>0, PathAssumption DEF Crash, TypeOK, Waiting, NoTransaction
  <2>3. co'.step # "None" => co.step # "None" /\ n # Coordinator
    BY <1>4 DEF Crash
  <2> QED BY <1>0, <2>1, <2>2, <2>3, PathAssumption DEF OpenUndecided, DownLogged, ReservedWhileOpen
<1>5. ASSUME NEW n \in Nodes, Restart(n) PROVE Goal
  <2>1. /\ ~up[n] /\ up'[n] /\ held'[n] = record[n] /\ UNCHANGED <<record, decision, co>>
        /\ \A k \in Nodes : k # n => up'[k] = up[k] /\ held'[k] = held[k]
    BY <1>5, <1>0 DEF Restart, TypeOK
  <2>2. \A q \in Participants : Waiting(q)' => Waiting(q) \/ (q = n /\ record[n])
    BY <1>5, <1>0 DEF Restart, TypeOK, Waiting
  <2> QED BY <1>0, <2>1, <2>2 DEF OpenUndecided, DownLogged, ReservedWhileOpen
<1>6. CASE UNCHANGED vars
  BY <1>0, <1>6 DEF vars, OpenUndecided, DownLogged, ReservedWhileOpen, Waiting
<1> QED BY <1>0, <1>1, <1>2, <1>3, <1>4, <1>5, <1>6, StepKinds

\* A step that closes a log decides.
LEMMA LogKept ==
    ASSUME Inv, [Next]_vars, NEW n \in Nodes, record[n]
    PROVE  record'[n] \/ decision'[n] # "none"
<1> USE DEF Nodes
<1>0. TypeOK
  BY DEF Inv
<1>1. CASE Quiet
  BY <1>1 DEF Quiet
<1>2. ASSUME NEW p \in Participants, StepOf(p)
      PROVE  record'[n] \/ decision'[n] # "none"
  BY <1>0, <1>2 DEF StepOf, Quiet, Logs, RollBack, Commit, TypeOK
<1>3. CASE StepOfCoordinator
  BY <1>3 DEF StepOfCoordinator, Quiet, CoordinatorEnds
<1>4. ASSUME NEW k \in Nodes, Crash(k) \/ Restart(k)
      PROVE  record'[n]
  BY <1>4 DEF Crash, Restart
<1>5. CASE UNCHANGED vars
  BY <1>5 DEF vars
<1> QED BY <1>0, <1>1, <1>2, <1>3, <1>4, <1>5, StepKinds

\* A participant that commits has the votes of all in transit to it.
LEMMA CommitNeedsVotes ==
    ASSUME Inv, [Next]_vars, NEW p \in Participants, decision'[p] = "commit"
    PROVE  decision[p] = "commit" \/ \E m \in net : m.type = "ParticipantsVotes"
<1> USE DEF Nodes
<1>0. TypeOK /\ p # Coordinator
  BY PathAssumption DEF Inv
<1>1. CASE Quiet
  BY <1>1 DEF Quiet
<1>2. ASSUME NEW q \in Participants, StepOf(q)
      PROVE  decision[p] = "commit" \/ \E m \in net : m.type = "ParticipantsVotes"
  <2>1. CASE Quiet \/ Logs(q)
    BY <2>1 DEF Quiet, Logs
  <2>2. CASE RollBack(q)
    BY <1>0, <2>2 DEF RollBack, TypeOK
  <2> QED BY <1>2, <2>1, <2>2 DEF StepOf
<1>3. CASE StepOfCoordinator
  BY <1>0, <1>3 DEF StepOfCoordinator, Quiet, CoordinatorEnds, TypeOK
<1>4. ASSUME NEW n \in Nodes, Crash(n) \/ Restart(n)
      PROVE  decision[p] = "commit"
  BY <1>0, <1>4 DEF Crash, Restart, TypeOK
<1>5. CASE UNCHANGED vars
  BY <1>5 DEF vars
<1> QED BY <1>0, <1>1, <1>2, <1>3, <1>4, <1>5, StepKinds

\* Every step keeps what the votes say of the log and of the coordinator.
LEMMA VotesStep ==
    ASSUME Inv, [Next]_vars
    PROVE  (VotesBacked /\ CommitFollowsCoordinator /\ VoteIsLogged)'
<1> USE DEF Nodes
<1>0. TypeOK /\ VotesBacked /\ CommitFollowsCoordinator /\ VoteIsLogged
  BY DEF Inv
<1>1. DecisionsKept
  BY DecisionStep
<1>2. decision[Coordinator] = "commit" => decision'[Coordinator] = "commit"
  BY <1>1 DEF DecisionsKept
<1>3. NewVotesBacked /\ \A q \in co'.voters :
         q \in co.voters \/ \E m \in net : m.type = "ParticipantVote" /\ m.from = q
  <2>1. CASE Next
    BY <1>0, <2>1, NewVotes, CountedVotes
  <2>2. CASE UNCHANGED vars
    BY <2>2 DEF vars, NewVotesBacked
  <2> QED BY <2>1, <2>2
<1>4. VotesBacked'
  <2>1. \A n \in Nodes : decision[n] = "commit" => decision[Coordinator] = "commit"
    BY <1>0 DEF CommitFollowsCoordinator
  <2> QED BY <1>0, <1>2, <1>3, <2>1 DEF VotesBacked, NewVotesBacked
<1>5. CommitFollowsCoordinator'
  BY <1>0, <1>2, CommitNeedsVotes DEF VotesBacked, CommitFollowsCoordinator
<1>6. VoteIsLogged'
  <2> SUFFICES ASSUME NEW p \in Participants,
                      \/ p \in co'.voters
                      \/ \E m \in net' : m.type = "ParticipantVote" /\ m.from = p
               PROVE  record'[p] \/ decision'[p] # "none"
    BY DEF VoteIsLogged
  <2>1. CASE \/ p \in co.voters
             \/ \E m \in net : m.type = "ParticipantVote" /\ m.from = p
    <3>1. record[p] \/ decision[p] # "none"
      BY <1>0, <2>1 DEF VoteIsLogged
    <3> QED BY <1>1, <3>1, LogKept DEF DecisionsKept
  <2>2. CASE \E m \in net' \ net : m.type = "ParticipantVote" /\ m.from = p
    BY <1>3, <2>2 DEF NewVotesBacked
  <2> QED BY <1>3, <2>1, <2>2
<1> QED BY <1>4, <1>5, <1>6

\* Inv holds initially and is kept by every step.
LEMMA InvInductive == Spec => []Inv
<1>1. Init => Inv
  <2> SUFFICES ASSUME Init PROVE Inv
    OBVIOUS
  <2>1. TypeOK
    BY InitType
  <2>2. OpenUndecided /\ DownLogged /\ ReservedWhileOpen /\ CommitFollowsCoordinator
    BY DEF Init, OpenUndecided, DownLogged, ReservedWhileOpen, CommitFollowsCoordinator, Nodes
  <2>3. VotesBacked /\ VoteIsLogged
    BY DEF Init, VotesBacked, VoteIsLogged
  <2> QED BY <2>1, <2>2, <2>3 DEF Inv
<1>2. Inv /\ [Next]_vars => Inv'
  <2> SUFFICES ASSUME Inv, [Next]_vars PROVE Inv'
    OBVIOUS
  <2>1. TypeOK'
    BY NextType DEF Inv
  <2> QED BY <2>1, LogStep, VotesStep DEF Inv
<1> QED BY <1>1, <1>2, PTL DEF Spec

\* A participant commits only a payment its coordinator has committed.
THEOREM CommitsFollow == Spec => []CommitFollowsCoordinator
<1>1. Inv => CommitFollowsCoordinator
  BY DEF Inv
<1> QED BY <1>1, InvInductive, PTL

\* Reservations last exactly as long as the payment is open on a running node.
THEOREM ReservationsWhileOpen == Spec => []ReservedWhileOpen
<1>1. Inv => ReservedWhileOpen
  BY DEF Inv
<1> QED BY <1>1, InvInductive, PTL

\* A vote that is sent or counted was logged first.
THEOREM VotesLogged == Spec => []VoteIsLogged
<1>1. Inv => VoteIsLogged
  BY DEF Inv
<1> QED BY <1>1, InvInductive, PTL

\* What a node decided stays decided.
THEOREM DecisionsFinal == Spec => DecisionIsFinal
<1>1. Inv /\ [Next]_vars => [\A n \in Nodes : decision[n] # "none" => decision'[n] = decision[n]]_vars
  BY DecisionStep DEF DecisionsKept
<1> QED BY <1>1, InvInductive, PTL DEF Spec, DecisionIsFinal

-----------------------------------------------------------------------------
(* What a step of a participant does to its transaction, log and receipts.  *)

\* The receipts that p gives, and the one of the coordinator, come with the final amounts.
OwnReceipts(p) == (Sides(p) \cap {"out"}) \cup (IF NextHop[Coordinator] = p THEN {"in"} ELSE {})

\* Only p changes, and the receipts it has it keeps.
OnlyChanges(p) ==
    /\ UNCHANGED <<co, up>>
    /\ \A q \in Participants \ {p} : tx'[q] = tx[q]
    /\ \A n \in Nodes \ {p} : UNCHANGED <<record[n], receipts[n], decision[n]>>
    /\ receipts[p] \subseteq receipts'[p]

\* p closes the payment.
GivesUp(p) == tx'[p] = NoTransaction /\ ~record'[p] /\ decision'[p] = "rollback"

Follows(p) ==
    /\ tx[p].step = "Recovery" \/ (Voting(p) /\ tx[p].voted = "yes")
    /\ \E m \in net : m.type = "ParticipantsVotes"
    /\ tx'[p] = NoTransaction /\ ~record'[p] /\ decision'[p] = "commit"

\* p takes the final amounts or the hash of a key, with a receipt.
Collects(p) ==
    /\ ClarifyingFinalAmounts(p)
    /\ tx'[p].step \in {"FinalAmounts", "VotesChecking"}
    /\ tx'[p].voted = tx[p].voted
    /\ UNCHANGED <<record[p], decision[p]>>
    /\ \/ /\ tx'[p].hashes = tx[p].hashes \cup {p}
          /\ OwnReceipts(p) \subseteq receipts'[p]
       \/ \E m \in net :
            /\ m.type = "TransactionPublicKeyHash" /\ m.to = p
            /\ tx'[p].hashes = tx[p].hashes \cup {m.from}
            /\ m.from # Receiver /\ NextHop[m.from] = p => "in" \in receipts'[p]

\* p waits for something else.
Goes(p) ==
    /\ \/ ClarifyingFinalAmounts(p) /\ tx'[p].step \in {"FinalAmounts", "ClarificationDuringFinalAmounts", "VotesChecking"}
       \/ Voting(p) /\ tx'[p].step \in {"VotesChecking", "ClarificationDuringVoting"}
    /\ tx'[p].voted = tx[p].voted /\ tx'[p].hashes = tx[p].hashes
    /\ UNCHANGED <<record[p], decision[p]>>

\* p logs its vote.
LogsVote(p) ==
    /\ Voting(p) /\ tx[p].voted = "no" /\ tx[p].hashes = Participants
    /\ tx'[p].step = "VotesChecking" /\ tx'[p].voted = "yes" /\ tx'[p].hashes = tx[p].hashes
    /\ record'[p] /\ decision'[p] = decision[p]

\* p looks for the votes, or goes on doing so.
Recovers(p) ==
    /\ tx[p].voted # "no" \/ tx[p].step = "Recovery"
    /\ tx'[p].step = "Recovery" /\ tx'[p].voted = tx[p].voted /\ tx'[p].hashes = tx[p].hashes
    /\ UNCHANGED <<record[p], decision[p]>>

MoveOf(p) ==
    /\ Waiting(p) /\ OnlyChanges(p)
    /\ GivesUp(p) \/ Follows(p) \/ Collects(p) \/ Goes(p) \/ LogsVote(p) \/ Recovers(p)

LEMMA RollBackMove ==
    ASSUME TypeOK, NEW p \in Participants, Waiting(p), RollBack(p),
           \A n \in Nodes \ {p} : receipts'[n] = receipts[n], receipts[p] \subseteq receipts'[p]
    PROVE  MoveOf(p)
<1>1. GivesUp(p)
  BY DEF RollBack, GivesUp, TypeOK, Nodes
<1>2. OnlyChanges(p)
  BY DEF RollBack, OnlyChanges, TypeOK, Nodes
<1> QED BY <1>1, <1>2 DEF MoveOf

LEMMA RejectMove ==
    ASSUME TypeOK, NEW p \in Participants, Waiting(p), RollBack(p), UNCHANGED receipts
    PROVE  MoveOf(p)
BY RollBackMove

LEMMA AskCoordinatorMove ==
    ASSUME TypeOK, NEW p \in Participants, Waiting(p), AskCoordinator(p),
           tx[p].voted # "no" \/ tx[p].step = "Recovery"
    PROVE  MoveOf(p)
<1>1. OnlyChanges(p)
  BY DEF AskCoordinator, OnlyChanges, TypeOK
<1>2. Recovers(p)
  BY DEF AskCoordinator, Recovers, TypeOK, Transaction
<1> QED BY <1>1, <1>2 DEF MoveOf

LEMMA RecoverMove ==
    ASSUME TypeOK, NEW p \in Participants, NEW taken, Waiting(p), Recover(p, taken)
    PROVE  MoveOf(p)
BY RejectMove, AskCoordinatorMove DEF Recover

LEMMA AwaitMove ==
    ASSUME TypeOK, NEW p \in Participants, NEW step, NEW waits, Waiting(p), Await(p, step, waits),
           UNCHANGED <<co, up, held, ledger, record, receipts, decision>>,
           \/ ClarifyingFinalAmounts(p) /\ step \in {"FinalAmounts", "ClarificationDuringFinalAmounts", "VotesChecking"}
           \/ Voting(p) /\ step \in {"VotesChecking", "ClarificationDuringVoting"}
    PROVE  MoveOf(p)
<1>1. OnlyChanges(p)
  BY DEF Await, OnlyChanges, TypeOK
<1>2. Goes(p)
  BY DEF Await, Goes, TypeOK, Transaction
<1> QED BY <1>1, <1>2 DEF MoveOf

LEMMA HashesCollectedMove ==
    ASSUME TypeOK, NEW p \in Participants, NEW m \in net, NEW h, NEW configured, NEW sent, NEW given,
           Waiting(p), ClarifyingFinalAmounts(p),
           HashesCollected(p, tx[p].hashes \cup {h}, configured, {m}, sent),
           receipts' = [receipts EXCEPT ![p] = @ \cup given],
           \/ h = p /\ given = OwnReceipts(p)
           \/ /\ h = m.from /\ m.type = "TransactionPublicKeyHash" /\ m.to = p
              /\ given = IF m.from # Receiver /\ NextHop[m.from] = p THEN {"in"} ELSE {}
    PROVE  MoveOf(p)
<1>1. \A n \in Nodes \ {p} : receipts'[n] = receipts[n]
  BY DEF TypeOK
<1>2. receipts'[p] = receipts[p] \cup given
  BY DEF TypeOK, Nodes
<1>3. CASE RollBack(p)
  BY <1>1, <1>2, <1>3, RollBackMove
<1>4. CASE ~RollBack(p)
  <2>1. OnlyChanges(p)
    BY <1>1, <1>2, <1>4 DEF HashesCollected, OnlyChanges, TypeOK
  <2>2. /\ tx'[p].step \in {"FinalAmounts", "VotesChecking"} /\ tx'[p].voted = tx[p].voted
        /\ tx'[p].hashes = tx[p].hashes \cup {h} /\ UNCHANGED <<record[p], decision[p]>>
    BY <1>4 DEF HashesCollected, TypeOK, Transaction
  <2>3. Collects(p)
    BY <1>2, <2>2 DEF Collects
  <2> QED BY <2>1, <2>3 DEF MoveOf
<1> QED BY <1>3, <1>4

LEMMA ProcessVotesMove ==
    ASSUME TypeOK, NEW p \in Participants, NEW m \in net, Waiting(p), m.type \in Votes, ProcessVotes(p, m),
           tx[p].step = "Recovery" \/ (Voting(p) /\ tx[p].voted = "yes")
    PROVE  MoveOf(p)
<1>1. CASE m.type = "EmptyVotes"
  BY <1>1, RejectMove DEF ProcessVotes
<1>2. CASE m.type = "ParticipantsVotes"
  <2>1. PICK applied : Commit(p, applied)
    BY <1>2 DEF ProcessVotes
  <2>2. Follows(p)
    BY <1>2, <2>1 DEF Commit, Follows, TypeOK, Nodes
  <2>3. OnlyChanges(p)
    BY <2>1 DEF Commit, OnlyChanges, TypeOK, Nodes
  <2> QED BY <2>2, <2>3 DEF MoveOf
<1> QED BY <1>1, <1>2 DEF Votes

LEMMA FinalAmountsMove ==
    ASSUME TypeOK, NEW p \in Participants, FinalAmountsStep(p)
    PROVE  MoveOf(p)
<1>1. CASE AcceptFinalAmounts(p)
  <2>1. PICK m \in net :
            /\ Waiting(p) /\ ClarifyingFinalAmounts(p)
            /\ \E sent : HashesCollected(p, tx[p].hashes \cup {p}, TRUE, {m}, sent)
            /\ receipts' = [receipts EXCEPT ![p] = @ \cup (Sides(p) \cap {"out"})
                                \cup (IF NextHop[Coordinator] = p THEN {"in"} ELSE {})]
    BY <1>1 DEF AcceptFinalAmounts, Deliverable
  <2>2. receipts' = [receipts EXCEPT ![p] = @ \cup OwnReceipts(p)]
    BY <2>1 DEF OwnReceipts
  <2> QED BY <2>1, <2>2, HashesCollectedMove
<1>2. CASE RefuseFinalAmounts(p)
  BY <1>2, RejectMove DEF RefuseFinalAmounts, Deliverable
<1>3. CASE AcceptKeyHash(p)
  BY <1>3, HashesCollectedMove DEF AcceptKeyHash, Deliverable
<1>4. CASE RefuseKeyHash(p)
  BY <1>4, RejectMove DEF RefuseKeyHash, Deliverable
<1>5. CASE FinalAmountsTimeout(p)
  BY <1>5, AwaitMove, RejectMove
     DEF FinalAmountsTimeout, ClarifyWithCoordinator, ClarifyingFinalAmounts, Reject, Waiting
<1>6. CASE FinalAmountsContinue(p)
  BY <1>6, AwaitMove DEF FinalAmountsContinue, Deliverable, ClarifyingFinalAmounts
<1>7. CASE TransactionFinished(p)
  BY <1>7, RejectMove DEF TransactionFinished, Deliverable, Reject
<1> QED BY <1>1, <1>2, <1>3, <1>4, <1>5, <1>6, <1>7 DEF FinalAmountsStep

LEMMA VotingMove ==
    ASSUME TypeOK, NEW p \in Participants, VotingStep(p)
    PROVE  MoveOf(p)
<1>1. CASE Vote(p)
  <2>1. CASE \E m \in net : Waiting(p) /\ Reject(p, {m})
    BY <2>1, RejectMove DEF Reject
  <2>2. CASE ~\E m \in net : Waiting(p) /\ Reject(p, {m})
    <3>1. /\ Waiting(p) /\ Voting(p) /\ tx[p].voted = "no" /\ tx[p].hashes = Participants
          /\ record' = [record EXCEPT ![p] = TRUE]
          /\ tx' = [tx EXCEPT ![p].step = "VotesChecking", ![p].voted = "yes", ![p].waits = Votes]
          /\ UNCHANGED <<co, up, held, ledger, receipts, decision>>
      BY <1>1, <2>2 DEF Vote, Deliverable
    <3>2. OnlyChanges(p)
      BY <3>1 DEF OnlyChanges, TypeOK
    <3>3. LogsVote(p)
      BY <3>1 DEF LogsVote, TypeOK, Transaction, Nodes
    <3> QED BY <3>1, <3>2, <3>3 DEF MoveOf
  <2> QED BY <2>1, <2>2
<1>2. CASE VotesArrive(p)
  BY <1>2, ProcessVotesMove, RecoverMove DEF VotesArrive, Deliverable
<1>3. CASE VotingTimeout(p)
  BY <1>3, AwaitMove, RecoverMove DEF VotingTimeout, ClarifyWithCoordinator, Voting, Waiting
<1>4. CASE VotingContinue(p)
  BY <1>4, AwaitMove, RejectMove DEF VotingContinue, Deliverable, Reject, Voting
<1> QED BY <1>1, <1>2, <1>3, <1>4 DEF VotingStep

LEMMA SleepMove ==
    ASSUME TypeOK, NEW p \in Participants, NEW taken, tx[p].step = "Recovery", Sleep(p, taken)
    PROVE  MoveOf(p)
<1>1. OnlyChanges(p)
  BY DEF Sleep, OnlyChanges, TypeOK
<1>2. Recovers(p)
  BY DEF Sleep, Recovers, TypeOK, Transaction
<1> QED BY <1>1, <1>2 DEF MoveOf, Waiting

LEMMA AskNextNodeMove ==
    ASSUME TypeOK, NEW p \in Participants, NEW taken, tx[p].step = "Recovery", AskNextNode(p, taken)
    PROVE  MoveOf(p)
<1>1. CASE Sleep(p, taken)
  BY <1>1, SleepMove
<1>2. CASE ~Sleep(p, taken)
  <2>1. OnlyChanges(p)
    BY <1>2 DEF AskNextNode, OnlyChanges, TypeOK
  <2>2. Recovers(p)
    <3>1. PICK q \in Participants :
              /\ tx' = [tx EXCEPT ![p].asked = q, ![p].waits = Votes, ![p].toAsk[q] = @ - 1]
              /\ UNCHANGED <<record, decision>>
      BY <1>2 DEF AskNextNode
    <3>2. tx'[p].step = tx[p].step /\ tx'[p].voted = tx[p].voted /\ tx'[p].hashes = tx[p].hashes
      <4>1. tx'[p] = [tx[p] EXCEPT !.asked = q, !.waits = Votes, !.toAsk[q] = @ - 1]
        BY <3>1 DEF TypeOK
      <4>2. tx[p] \in TransactionWith([Participants -> 0..MaxAsks])
        BY TransactionWithCounts DEF TypeOK
      <4> QED BY <4>1, <4>2 DEF TransactionWith
    <3> QED BY <3>1, <3>2 DEF Recovers
  <2> QED BY <2>1, <2>2 DEF MoveOf, Waiting
<1> QED BY <1>1, <1>2

LEMMA RecoveryMove ==
    ASSUME TypeOK, NEW p \in Participants, RecoveryStep(p)
    PROVE  MoveOf(p)
<1>1. CASE PrepareNodesList(p)
  BY <1>1, AskCoordinatorMove DEF PrepareNodesList, Recovering, Waiting
<1>2. CASE NoAnswer(p)
  BY <1>2, AskNextNodeMove DEF NoAnswer
<1>3. CASE EmptyAnswer(p)
  BY <1>3, SleepMove, AskNextNodeMove DEF EmptyAnswer
<1>4. CASE AnswerWithVotes(p)
  <2>1. PICK m \in net :
            /\ Waiting(p) /\ m.type = "ParticipantsVotes" /\ tx[p].step = "Recovery"
            /\ \/ ProcessVotes(p, m)
               \/ UNCHANGED <<tx, co, up, held, ledger, record, receipts, decision>>
    BY <1>4 DEF AnswerWithVotes, Deliverable
  <2>2. CASE ProcessVotes(p, m)
    BY <2>1, <2>2, ProcessVotesMove DEF Votes
  <2>3. CASE ~ProcessVotes(p, m)
    BY <2>1, <2>3 DEF OnlyChanges, Recovers, MoveOf
  <2> QED BY <2>2, <2>3
<1> QED BY <1>1, <1>2, <1>3, <1>4 DEF RecoveryStep

\* A step of a participant that has a transaction.
ParticipantStep(p) == FinalAmountsStep(p) \/ VotingStep(p) \/ RecoveryStep(p) \/ Throw(p)

LEMMA ParticipantMove ==
    ASSUME TypeOK, NEW p \in Participants, ParticipantStep(p)
    PROVE  MoveOf(p)
BY FinalAmountsMove, VotingMove, RecoveryMove, RecoverMove DEF ParticipantStep, Throw

-----------------------------------------------------------------------------
(* The log and the receipts.                                                *)

\* The step of a participant tells whether it has logged its vote.  Only a crashing
\* node is ever down.
StageFits ==
    /\ \A n \in Nodes : ~up[n] => n \in Crashing
    /\ \A p \in Participants :
        /\ ClarifyingFinalAmounts(p) => tx[p].voted = "no" /\ ~record[p]
        /\ Voting(p) => tx[p].voted \in {"no", "yes"} /\ (record[p] <=> tx[p].voted = "yes")
        /\ tx[p].step = "Recovery" => record[p] /\ tx[p].voted # "no"
        /\ tx[p].voted = "uninitialised" => tx[p].step = "Recovery" /\ p \in Crashing

LEMMA StageStep ==
    ASSUME Inv, StageFits, [Next]_vars
    PROVE  StageFits'
<1> USE DEF ClarifyingFinalAmounts, Voting
<1>0. TypeOK
  BY DEF Inv
<1>1. ASSUME NEW p \in Participants, MoveOf(p) PROVE StageFits'
  <2>1. \A q \in Participants \ {p} : tx'[q] = tx[q] /\ record'[q] = record[q]
    BY <1>1 DEF MoveOf, OnlyChanges, Nodes
  <2>0. up' = up
    BY <1>1 DEF MoveOf, OnlyChanges
  <2>2. CASE GivesUp(p) \/ Follows(p)
    <3>1. tx'[p].step = "None" /\ tx'[p].voted = "no"
      BY <2>2 DEF GivesUp, Follows, NoTransaction
    <3> QED BY <2>0, <2>1, <3>1 DEF StageFits
  <2>3. CASE Collects(p)
    BY <2>0, <2>1, <2>3 DEF StageFits, Collects
  <2>4. CASE Goes(p)
    BY <2>0, <2>1, <2>4 DEF StageFits, Goes
  <2>5. CASE LogsVote(p)
    BY <2>0, <2>1, <2>5 DEF StageFits, LogsVote
  <2>6. CASE Recovers(p)
    <3>1. tx[p].step # "None" /\ tx[p].step \in Stage
      BY <1>0, <1>1 DEF MoveOf, Waiting, TypeOK, Transaction
    <3> QED BY <2>0, <2>1, <2>6, <3>1 DEF StageFits, Recovers, Stage
  <2> QED BY <1>1, <2>2, <2>3, <2>4, <2>5, <2>6 DEF MoveOf
<1>2. CASE CoordinatorStep
  <2>1. UNCHANGED <<tx, record, up>>
    BY <1>2 DEF CoordinatorStep, SendFinalAmountsConfiguration, FinalAmountsConfirmed, FinalAmountsRefused,
       CollectVote, CoordinatorTimeout, AnswerTTLRequest, CoordinatorReject, CoordinatorEnds
  <2> QED BY <2>1 DEF StageFits
<1>3. ASSUME NEW n \in Nodes, Crash(n) PROVE StageFits'
  <2>1. /\ record' = record /\ \A q \in Participants : tx'[q] = tx[q] \/ tx'[q] = NoTransaction
        /\ \A k \in Nodes : up'[k] = up[k] \/ k \in Crashing
    BY <1>0, <1>3 DEF Crash, TypeOK
  <2> QED BY <2>1 DEF StageFits, NoTransaction
<1>4. ASSUME NEW n \in Nodes, Restart(n) PROVE StageFits'
  <2>1. /\ record' = record /\ \A k \in Nodes : up'[k] = up[k] \/ up'[k]
        /\ \A q \in Participants : tx'[q] = tx[q] \/ (q = n /\ record[q] /\ tx'[q] = RestoredTransaction)
    BY <1>0, <1>4 DEF Restart, TypeOK
  <2>2. ~up[n]
    BY <1>4 DEF Restart
  <2>3. n \in Crashing
    BY <2>2 DEF StageFits
  <2>4. RestoredTransaction.step = "Recovery" /\ RestoredTransaction.voted = "uninitialised"
    BY DEF RestoredTransaction, NoTransaction
  <2> QED BY <2>1, <2>3, <2>4 DEF StageFits
<1>5. CASE (\E n \in Nodes, p \in Participants : AnswerVotesStatus(n, p)) \/ UNCHANGED vars
  BY <1>5 DEF AnswerVotesStatus, vars, StageFits
<1> QED BY <1>0, <1>1, <1>2, <1>3, <1>4, <1>5, ParticipantMove DEF Next, ParticipantStep

-----------------------------------------------------------------------------
(* What a step sends, and what is still in transit after it.                *)

\* The steps in which a transaction waits for an answer to its TTL request.
Clarifying == {"ClarificationDuringFinalAmounts", "ClarificationDuringVoting"}

\* p sends what its new step calls for; the answers it waited for have expired.
Sends(p) ==
    \A m \in net' :
        \/ m \in net /\ (tx[p].step = "Recovery" \/ m \notin Expired(p))
        \/ m.type \in {"FinalAmountsAccepted", "FinalAmountsRejected", "ParticipantVote"}
        \/ m.type = "TransactionPublicKeyHash" /\ m.from # m.to
        \/ m.type = "VotesStatusRequest" /\ m.from = p /\ tx'[p].step = "Recovery"
        \/ m.type = "TTLRequest" /\ m.from = p /\ tx'[p].step \in Clarifying

LEMMA LeftSends ==
    ASSUME NEW p, NEW taken, net' = Left(p, taken)
    PROVE  Sends(p)
BY DEF Left, Sends

LEMMA RecoverSends ==
    ASSUME TypeOK, NEW p \in Participants, NEW taken, Recover(p, taken) \/ Reject(p, taken)
    PROVE  Sends(p)
<1>1. CASE net' = Left(p, taken)
  BY <1>1, LeftSends
<1>2. CASE ~(net' = Left(p, taken))
  <2>1. /\ AskCoordinator(p)
        /\ net' = Left(p, taken) \cup {Msg("VotesStatusRequest", p, Coordinator)}
    BY <1>2 DEF Recover, Reject
  <2>2. tx'[p].step = "Recovery"
    BY <2>1 DEF AskCoordinator, TypeOK, Transaction
  <2> QED BY <2>1, <2>2 DEF Left, Sends, Msg
<1> QED BY <1>1, <1>2

LEMMA ClarifySends ==
    ASSUME TypeOK, NEW p \in Participants, NEW step \in Clarifying, NEW waits,
           ClarifyWithCoordinator(p, step, waits)
    PROVE  Sends(p)
<1>1. tx'[p].step = step
  BY DEF ClarifyWithCoordinator, Await, TypeOK, Transaction
<1> QED BY <1>1 DEF ClarifyWithCoordinator, Left, Sends, Msg

LEMMA HashesSend ==
    ASSUME NEW p, NEW hashes, NEW configured, NEW taken, NEW sent,
           HashesCollected(p, hashes, configured, taken, sent),
           \A m \in sent : m.type = "TransactionPublicKeyHash" /\ m.from # m.to
    PROVE  Sends(p)
<1> DEFINE accepted == Msg("FinalAmountsAccepted", p, Coordinator)
           rejected == Msg("FinalAmountsRejected", p, Coordinator)
<1>1. net' \subseteq Left(p, taken) \cup sent \cup {accepted, rejected}
  BY DEF HashesCollected
<1>2. accepted.type = "FinalAmountsAccepted" /\ rejected.type = "FinalAmountsRejected"
  BY DEF Msg
<1> HIDE DEF accepted, rejected
<1> QED BY <1>1, <1>2 DEF Left, Sends

LEMMA AskNextNodeSends ==
    ASSUME TypeOK, NEW p \in Participants, NEW taken, tx[p].step = "Recovery",
           Sleep(p, taken) \/ AskNextNode(p, taken)
    PROVE  Sends(p)
<1>1. CASE net' = net \ taken
  BY <1>1 DEF Sends
<1>2. CASE net' # net \ taken
  <2>1. PICK q \in Participants :
            /\ tx' = [tx EXCEPT ![p].asked = q, ![p].waits = Votes, ![p].toAsk[q] = @ - 1]
            /\ net' = (net \ taken) \cup {Msg("VotesStatusRequest", p, q)}
    BY <1>2 DEF Sleep, AskNextNode
  <2>2. tx'[p].step = "Recovery"
    <3>1. tx'[p] = [tx[p] EXCEPT !.asked = q, !.waits = Votes, !.toAsk[q] = @ - 1]
      BY <2>1 DEF TypeOK
    <3>2. tx[p] \in TransactionWith([Participants -> 0..MaxAsks])
      BY TransactionWithCounts DEF TypeOK
    <3> QED BY <3>1, <3>2 DEF TransactionWith
  <2>3. ASSUME NEW m \in net', m \notin net
        PROVE  m.type = "VotesStatusRequest" /\ m.from = p
    BY <2>1, <2>3 DEF Msg
  <2> QED BY <2>2, <2>3 DEF Sends
<1> QED BY <1>1, <1>2

LEMMA FinalAmountsSends ==
    ASSUME TypeOK, NEW p \in Participants, FinalAmountsStep(p)
    PROVE  Sends(p)
<1>1. CASE AcceptFinalAmounts(p)
  <2> DEFINE sent == ToAll("TransactionPublicKeyHash", p, Participants \ {p})
             hashes == tx[p].hashes \cup {p}
  <2>1. \E m \in net : HashesCollected(p, hashes, TRUE, {m}, sent)
    BY <1>1 DEF AcceptFinalAmounts
  <2>2. \A m \in sent : m.type = "TransactionPublicKeyHash" /\ m.from # m.to
    BY DEF ToAll, Msg
  <2> HIDE DEF sent, hashes
  <2> QED BY <2>1, <2>2, HashesSend
<1>2. CASE RefuseFinalAmounts(p)
  BY <1>2 DEF RefuseFinalAmounts, Left, Msg, Sends
<1>3. CASE AcceptKeyHash(p)
  BY <1>3, HashesSend DEF AcceptKeyHash
<1>4. CASE RefuseKeyHash(p)
  BY <1>4 DEF RefuseKeyHash, Left, Msg, Sends
<1>5. CASE FinalAmountsTimeout(p)
  BY <1>5, ClarifySends, RecoverSends DEF FinalAmountsTimeout, Clarifying
<1>6. CASE FinalAmountsContinue(p)
  BY <1>6, LeftSends DEF FinalAmountsContinue
<1>7. CASE TransactionFinished(p)
  BY <1>7, RecoverSends DEF TransactionFinished
<1> QED BY <1>1, <1>2, <1>3, <1>4, <1>5, <1>6, <1>7 DEF FinalAmountsStep

LEMMA VotingSends ==
    ASSUME TypeOK, NEW p \in Participants, VotingStep(p)
    PROVE  Sends(p)
<1>1. CASE Vote(p)
  <2>1. PICK m \in net :
            net' = Left(p, {m}) \cup {Msg("ParticipantVote", p, m.from)} \/ Reject(p, {m})
    BY <1>1 DEF Vote
  <2>2. CASE Reject(p, {m})
    BY <2>2, RecoverSends
  <2>3. CASE ~Reject(p, {m})
    BY <2>1, <2>3 DEF Left, Msg, Sends
  <2> QED BY <2>2, <2>3
<1>2. CASE VotesArrive(p)
  BY <1>2, RecoverSends, LeftSends DEF VotesArrive, ProcessVotes
<1>3. CASE VotingTimeout(p)
  BY <1>3, ClarifySends, RecoverSends DEF VotingTimeout, Clarifying
<1>4. CASE VotingContinue(p)
  BY <1>4, LeftSends, RecoverSends DEF VotingContinue
<1> QED BY <1>1, <1>2, <1>3, <1>4 DEF VotingStep

LEMMA RecoverySends ==
    ASSUME TypeOK, NEW p \in Participants, RecoveryStep(p)
    PROVE  Sends(p)
<1>1. CASE PrepareNodesList(p)
  <2>1. tx[p].step = "Recovery" /\ tx'[p].step = "Recovery"
    BY <1>1 DEF PrepareNodesList, Recovering, AskCoordinator, TypeOK, Transaction
  <2> QED BY <1>1, <2>1 DEF PrepareNodesList, Msg, Sends
<1>2. CASE NoAnswer(p)
  BY <1>2, AskNextNodeSends DEF NoAnswer
<1>3. CASE EmptyAnswer(p)
  BY <1>3, AskNextNodeSends DEF EmptyAnswer
<1>4. CASE AnswerWithVotes(p)
  BY <1>4, LeftSends DEF AnswerWithVotes, ProcessVotes, Sends
<1> QED BY <1>1, <1>2, <1>3, <1>4 DEF RecoveryStep

LEMMA ParticipantSends ==
    ASSUME TypeOK, NEW p \in Participants, ParticipantStep(p)
    PROVE  Sends(p)
BY FinalAmountsSends, VotingSends, RecoverySends, RecoverSends DEF ParticipantStep, Throw

\* The coordinator, and the nodes that are asked for the votes, answer what is in transit.
Answers ==
    \A m \in net' \ net :
        \/ m.type \in {"FinalAmountsConfiguration", "ParticipantsPublicKeys", "ParticipantsVotes"}
        \/ m.type = "TTLFinish" /\ decision'[Coordinator] = "rollback"
        \/ m.type = "TTLContinue" /\ \E k \in net : k.type = "TTLRequest" /\ k.from = m.to
        \/ m.type = "EmptyVotes" /\ \E k \in net : k.type = "VotesStatusRequest" /\ k.from = m.to

LEMMA CoordinatorAnswers ==
    ASSUME TypeOK, CoordinatorStep
    PROVE  Answers
<1>1. ASSUME NEW taken, CoordinatorReject(taken)
      PROVE  Answers
  <2>1. decision'[Coordinator] = "rollback"
    BY <1>1 DEF CoordinatorReject, CoordinatorEnds, TypeOK, Nodes
  <2> QED BY <1>1, <2>1 DEF CoordinatorReject, ToAll, Msg, Answers
<1>2. CASE SendFinalAmountsConfiguration
  BY <1>2 DEF SendFinalAmountsConfiguration, ToAll, Msg, Answers
<1>3. CASE FinalAmountsConfirmed
  BY <1>3 DEF FinalAmountsConfirmed, PropagateVotesList, ToAll, Msg, Answers
<1>4. CASE FinalAmountsRefused
  BY <1>1, <1>4 DEF FinalAmountsRefused
<1>5. CASE CollectVote
  BY <1>5 DEF CollectVote, ToAll, Msg, Answers
<1>6. CASE CoordinatorTimeout
  BY <1>1, <1>6 DEF CoordinatorTimeout
<1>7. CASE AnswerTTLRequest
  BY <1>7 DEF AnswerTTLRequest, Msg, Answers
<1> QED BY <1>2, <1>3, <1>4, <1>5, <1>6, <1>7 DEF CoordinatorStep

LEMMA VotesStatusAnswers ==
    ASSUME NEW n \in Nodes, NEW p \in Participants, AnswerVotesStatus(n, p)
    PROVE  Answers
<1> DEFINE request == Msg("VotesStatusRequest", p, n)
<1>1. /\ request \in net
      /\ net' \subseteq net \cup {Msg("ParticipantsVotes", n, p), Msg("EmptyVotes", n, p)}
  BY DEF AnswerVotesStatus
<1>2. request.type = "VotesStatusRequest" /\ request.from = p
  BY DEF Msg
<1>3. Msg("EmptyVotes", n, p).type = "EmptyVotes" /\ Msg("EmptyVotes", n, p).to = p
  BY DEF Msg
<1>4. Msg("ParticipantsVotes", n, p).type = "ParticipantsVotes"
  BY DEF Msg
<1> HIDE DEF request
<1> QED BY <1>1, <1>2, <1>3, <1>4 DEF Answers

-----------------------------------------------------------------------------
(* Receipts.                                                                *)

\* Receipts are there before what they are needed for.
ReceiptsFit ==
    /\ co.step \in {"FinalAmounts", "VotesChecking"} => Sides(Coordinator) \subseteq receipts[Coordinator]
    /\ \A m \in net : m.type = "TransactionPublicKeyHash" => m.from # m.to
    /\ \A p \in Participants :
        /\ p \in tx[p].hashes => OwnReceipts(p) \subseteq receipts[p]
        /\ \A q \in tx[p].hashes \ {p, Receiver} : NextHop[q] = p => "in" \in receipts[p]
        /\ record[p] => Sides(p) \subseteq receipts[p]

\* The key hashes in transit are sent to other nodes than their sender.
LEMMA HashesInTransit ==
    ASSUME TypeOK, ReceiptsFit, [Next]_vars
    PROVE  \A m \in net' : m.type = "TransactionPublicKeyHash" => m.from # m.to
<1>0. \A m \in net : m.type = "TransactionPublicKeyHash" => m.from # m.to
  BY DEF ReceiptsFit
<1>1. ASSUME NEW p \in Participants, ParticipantStep(p)
      PROVE  \A m \in net' : m.type = "TransactionPublicKeyHash" => m.from # m.to
  BY <1>0, <1>1, ParticipantSends DEF Sends
<1>2. CASE CoordinatorStep \/ \E n \in Nodes, p \in Participants : AnswerVotesStatus(n, p)
  BY <1>0, <1>2, CoordinatorAnswers, VotesStatusAnswers DEF Answers
<1>3. CASE (\E n \in Nodes : Crash(n) \/ Restart(n)) \/ UNCHANGED vars
  BY <1>0, <1>3 DEF Crash, Restart, vars
<1> QED BY <1>1, <1>2, <1>3 DEF Next, ParticipantStep

\* A participant that knows all the hashes has the receipts of its sides.
LEMMA AllReceipts ==
    ASSUME ReceiptsFit, NEW p \in Participants, tx[p].hashes = Participants
    PROVE  Sides(p) \subseteq receipts[p]
<1>1. OwnReceipts(p) \subseteq receipts[p]
  BY DEF ReceiptsFit
<1>2. PICK n \in Nodes \ {Receiver} : n # p /\ NextHop[n] = p
  BY PathAssumption
<1>3. "in" \in receipts[p]
  <2>1. CASE n = Coordinator
    BY <1>1, <1>2, <2>1 DEF OwnReceipts
  <2>2. CASE n \in Participants
    BY <1>2, <2>2 DEF ReceiptsFit
  <2> QED BY <2>1, <2>2 DEF Nodes
<1> QED BY <1>1, <1>3 DEF OwnReceipts, Sides

\* A commit finds the receipts of its node.
LEMMA ReceiptsStep ==
    ASSUME Inv, StageFits, ReceiptsFit, CommitSurvivesRestart, [Next]_vars
    PROVE  (ReceiptsFit /\ CommitSurvivesRestart)'
<1> DEFINE Mine(p) ==
             /\ p \in tx[p].hashes => OwnReceipts(p) \subseteq receipts[p]
             /\ \A q \in tx[p].hashes \ {p, Receiver} : NextHop[q] = p => "in" \in receipts[p]
             /\ record[p] => Sides(p) \subseteq receipts[p]
           Goal == (ReceiptsFit /\ CommitSurvivesRestart)'
<1>0. /\ TypeOK
      /\ \A m \in net' : m.type = "TransactionPublicKeyHash" => m.from # m.to
      /\ co.step \in {"FinalAmounts", "VotesChecking"} => Sides(Coordinator) \subseteq receipts[Coordinator]
      /\ \A p \in Participants : Mine(p)
      /\ \A m \in net : m.type = "TransactionPublicKeyHash" => m.from # m.to
  BY HashesInTransit DEF Inv, ReceiptsFit
<1>1. ASSUME NEW p \in Participants, MoveOf(p) PROVE Goal
  <2>1. /\ UNCHANGED co /\ receipts'[Coordinator] = receipts[Coordinator]
        /\ \A q \in Participants \ {p} : Mine(q)'
        /\ receipts[p] \subseteq receipts'[p] /\ p # Coordinator
        /\ \A n \in Nodes \ {p} : UNCHANGED <<receipts[n], decision[n]>>
    BY <1>0, <1>1, PathAssumption DEF MoveOf, OnlyChanges, Nodes, OwnReceipts
  <2>2. Mine(p)' /\ (decision'[p] = "commit" => Sides(p) \subseteq receipts'[p])
    <3>0. Mine(p) /\ (decision[p] = "commit" => Sides(p) \subseteq receipts[p])
      BY <1>0 DEF CommitSurvivesRestart, Nodes
    <3>1. CASE GivesUp(p)
      BY <3>1 DEF GivesUp, NoTransaction
    <3>2. CASE Follows(p)
      <4>1. record[p]
        BY <3>2 DEF Follows, StageFits
      <4> QED BY <2>1, <3>0, <3>2, <4>1 DEF Follows, NoTransaction
    <3>3. CASE Collects(p)
      BY <1>0, <2>1, <3>0, <3>3 DEF Collects, OwnReceipts
    <3>4. CASE Goes(p) \/ Recovers(p)
      BY <2>1, <3>0, <3>4 DEF Goes, Recovers
    <3>5. CASE LogsVote(p)
      BY <2>1, <3>0, <3>5, AllReceipts DEF LogsVote
    <3> QED BY <1>1, <3>1, <3>2, <3>3, <3>4, <3>5 DEF MoveOf
  <2> QED BY <1>0, <2>1, <2>2 DEF ReceiptsFit, CommitSurvivesRestart, Nodes
<1>2. CASE CoordinatorStep
  <2>0. UNCHANGED <<tx, record>>
    BY <1>2 DEF CoordinatorStep, SendFinalAmountsConfiguration, FinalAmountsConfirmed, FinalAmountsRefused,
       CollectVote, CoordinatorTimeout, AnswerTTLRequest, CoordinatorReject, CoordinatorEnds
  <2>1. CASE SendFinalAmountsConfiguration
    <3>1. /\ \A n \in Nodes \ {Coordinator} : receipts'[n] = receipts[n]
          /\ receipts'[Coordinator] = Sides(Coordinator) /\ UNCHANGED decision
      BY <1>0, <2>1 DEF SendFinalAmountsConfiguration, TypeOK, Nodes
    <3>2. \A p \in Participants : Mine(p)'
      BY <1>0, <2>0, <3>1, PathAssumption DEF Nodes
    <3> QED BY <1>0, <3>1, <3>2 DEF ReceiptsFit, CommitSurvivesRestart
  <2>2. CASE ~SendFinalAmountsConfiguration
    <3>1. /\ UNCHANGED receipts
          /\ co'.step \in {"FinalAmounts", "VotesChecking"} => co.step \in {"FinalAmounts", "VotesChecking"}
          /\ \/ decision' = decision
             \/ decision' = [decision EXCEPT ![Coordinator] = "rollback"]
             \/ co.step = "VotesChecking" /\ decision' = [decision EXCEPT ![Coordinator] = "commit"]
      <4>1. CASE FinalAmountsConfirmed \/ AnswerTTLRequest
        BY <1>0, <4>1 DEF FinalAmountsConfirmed, PropagateVotesList, AnswerTTLRequest, TypeOK
      <4>2. CASE \E taken : CoordinatorReject(taken)
        BY <4>2 DEF CoordinatorReject, CoordinatorEnds
      <4>3. CASE CollectVote
        BY <1>0, <4>3 DEF CollectVote, CoordinatorEnds, TypeOK
      <4> QED BY <1>2, <2>2, <4>1, <4>2, <4>3 DEF CoordinatorStep, FinalAmountsRefused, CoordinatorTimeout
    <3>2. \A n \in Nodes : decision'[n] = "commit" =>
             decision[n] = "commit" \/ (n = Coordinator /\ co.step = "VotesChecking")
      BY <1>0, <3>1 DEF TypeOK
    <3> QED BY <1>0, <2>0, <3>1, <3>2 DEF ReceiptsFit, CommitSurvivesRestart
  <2> QED BY <2>1, <2>2
<1>3. ASSUME NEW n \in Nodes, Crash(n) \/ Restart(n) PROVE Goal
  <2>1. /\ UNCHANGED <<record, receipts>>
        /\ \A q \in Participants : tx'[q].hashes = tx[q].hashes \/ tx'[q].hashes = {}
        /\ co' = co \/ co'.step = "None"
        /\ \A k \in Nodes : decision'[k] = "commit" => decision[k] = "commit"
    <3>1. NoTransaction.hashes = {} /\ RestoredTransaction.hashes = {}
      BY DEF NoTransaction, RestoredTransaction
    <3>2. CASE Crash(n)
      BY <1>0, <3>1, <3>2 DEF Crash, TypeOK
    <3>3. CASE Restart(n)
      BY <1>0, <3>1, <3>3 DEF Restart, TypeOK
    <3> QED BY <1>3, <3>2, <3>3
  <2>2. \A p \in Participants : Mine(p)'
    BY <1>0, <2>1 DEF OwnReceipts
  <2> QED BY <1>0, <2>1, <2>2 DEF ReceiptsFit, CommitSurvivesRestart
<1>4. CASE (\E n \in Nodes, p \in Participants : AnswerVotesStatus(n, p)) \/ UNCHANGED vars
  <2>1. UNCHANGED <<tx, co, record, receipts, decision>>
    BY <1>4 DEF AnswerVotesStatus, vars
  <2> QED BY <1>0, <2>1 DEF ReceiptsFit, CommitSurvivesRestart, OwnReceipts
<1> QED BY <1>0, <1>1, <1>2, <1>3, <1>4, ParticipantMove DEF Next, ParticipantStep

\* The receipts of a node that commits are in its database, through crashes and late answers.
THEOREM CommitsSurvive == Spec => []CommitSurvivesRestart
<1> DEFINE Kept == Inv /\ StageFits /\ ReceiptsFit /\ CommitSurvivesRestart
<1>1. Init => StageFits /\ ReceiptsFit /\ CommitSurvivesRestart
  <2> SUFFICES ASSUME Init PROVE StageFits /\ ReceiptsFit /\ CommitSurvivesRestart
    OBVIOUS
  <2>1. \A p \in Participants : tx[p].step = "FinalAmounts" /\ tx[p].voted = "no" /\ tx[p].hashes = {}
    BY DEF Init, NoTransaction
  <2> QED BY <2>1 DEF Init, StageFits, ReceiptsFit, CommitSurvivesRestart, Nodes, Voting, ClarifyingFinalAmounts
<1>2. Inv /\ StageFits /\ ReceiptsFit /\ CommitSurvivesRestart /\ [Next]_vars
         => (StageFits /\ ReceiptsFit /\ CommitSurvivesRestart)'
  BY StageStep, ReceiptsStep
<1> QED BY <1>1, <1>2, InvInductive, PTL DEF Spec

-----------------------------------------------------------------------------
(* Answers in time: who has voted rolls back only what the coordinator has. *)

\* The conditions of the agreement: an answer to a TTL request comes within the wait
\* for it or never, and no participant throws in the recovery after its crash.
InTime == ~LateAnswers /\ Crashing \cap Throwing \cap Participants = {}

\* Questions about the votes, and empty answers to them, are those of a recovery.
EmptyVotesAsked ==
    \A m \in net :
        /\ m.type = "EmptyVotes" => m.to \in Participants /\ tx[m.to].step \in {"Recovery", "None"}
        /\ m.type = "VotesStatusRequest" => m.from \in Participants /\ tx[m.from].step \in {"Recovery", "None"}

\* In time, an answer that the payment lives meets a node that waits for it, if any.
ContinueAsked ==
    \A m \in net :
        /\ m.type = "TTLContinue" =>
              m.to \in Participants /\ tx[m.to].step \in Clarifying \cup {"Recovery", "None"}
        /\ m.type = "TTLRequest" =>
              m.from \in Participants /\ tx[m.from].step \in Clarifying \cup {"Recovery", "None"}

\* Participants are told to finish when the coordinator has rolled back.
FinishIsRollback == \A m \in net : m.type = "TTLFinish" => decision[Coordinator] = "rollback"

\* From recovery there is no way back to voting.
LEMMA RecoveryStays ==
    ASSUME TypeOK, [Next]_vars, NEW p \in Participants, tx[p].step \in {"Recovery", "None"}
    PROVE  tx'[p].step \in {"Recovery", "None"}
<1>0. NoTransaction.step = "None" /\ RestoredTransaction.step = "Recovery"
  BY DEF NoTransaction, RestoredTransaction
<1>1. ASSUME NEW q \in Participants, MoveOf(q)
      PROVE  tx'[p].step \in {"Recovery", "None"}
  <2>1. CASE q # p
    BY <1>1, <2>1 DEF MoveOf, OnlyChanges
  <2>2. CASE q = p
    BY <1>0, <1>1, <2>2 DEF MoveOf, Waiting, GivesUp, Follows, Collects, Goes, LogsVote, Recovers,
       ClarifyingFinalAmounts, Voting
  <2> QED BY <2>1, <2>2
<1>2. CASE CoordinatorStep
  BY <1>2 DEF CoordinatorStep, SendFinalAmountsConfiguration, FinalAmountsConfirmed, FinalAmountsRefused,
     CollectVote, CoordinatorTimeout, AnswerTTLRequest, CoordinatorReject, CoordinatorEnds
<1>3. ASSUME NEW n \in Nodes, Crash(n) \/ Restart(n)
      PROVE  tx'[p].step \in {"Recovery", "None"}
  BY <1>0, <1>3 DEF Crash, Restart, TypeOK
<1>4. CASE (\E n \in Nodes, q \in Participants : AnswerVotesStatus(n, q)) \/ UNCHANGED vars
  BY <1>4 DEF AnswerVotesStatus, vars
<1> QED BY <1>1, <1>2, <1>3, <1>4, ParticipantMove DEF Next, ParticipantStep

\* The messages in transit say where their receivers are.
LEMMA AnswersStep ==
    ASSUME Inv, ~LateAnswers, EmptyVotesAsked, ContinueAsked, FinishIsRollback, [Next]_vars
    PROVE  (EmptyVotesAsked /\ ContinueAsked /\ FinishIsRollback)'
<1> DEFINE Goal == (EmptyVotesAsked /\ ContinueAsked /\ FinishIsRollback)'
<1> USE DEF Clarifying
<1>0. /\ TypeOK
      /\ \A p \in Participants :
            tx[p].step \in {"Recovery", "None"} => tx'[p].step \in {"Recovery", "None"}
      /\ decision[Coordinator] = "rollback" => decision'[Coordinator] = "rollback"
  BY RecoveryStays, DecisionStep DEF Inv, DecisionsKept, Nodes
<1>1. ASSUME NEW p \in Participants, ParticipantStep(p) PROVE Goal
  <2>1. Sends(p) /\ MoveOf(p)
    BY <1>0, <1>1, ParticipantSends, ParticipantMove
  <2>2. \A q \in Participants \ {p} : tx'[q] = tx[q]
    BY <2>1 DEF MoveOf, OnlyChanges
  <2>3. EmptyVotesAsked' /\ FinishIsRollback'
    BY <1>0, <2>1, <2>2 DEF Sends, EmptyVotesAsked, FinishIsRollback
  <2>4. ContinueAsked'
    <3>1. ASSUME NEW m \in net', m.type = "TTLContinue"
          PROVE  m.to \in Participants /\ tx'[m.to].step \in Clarifying \cup {"Recovery", "None"}
      <4>1. m \in net /\ (tx[p].step = "Recovery" \/ m \notin Expired(p))
        BY <2>1, <3>1 DEF Sends
      <4>2. m.to = p => tx[p].step = "Recovery"
        BY <3>1, <4>1 DEF Expired
      <4> QED BY <1>0, <2>2, <3>1, <4>1, <4>2 DEF ContinueAsked
    <3>2. ASSUME NEW m \in net', m.type = "TTLRequest"
          PROVE  m.from \in Participants /\ tx'[m.from].step \in Clarifying \cup {"Recovery", "None"}
      <4>1. CASE m \in net /\ (tx[p].step = "Recovery" \/ m \notin Expired(p))
        <5>1. m.from = p => tx[p].step = "Recovery"
          BY <3>2, <4>1 DEF Expired
        <5> QED BY <1>0, <2>2, <3>2, <4>1, <5>1 DEF ContinueAsked
      <4>2. CASE m.from = p /\ tx'[p].step \in Clarifying
        BY <4>2
      <4> QED BY <2>1, <3>2, <4>1, <4>2 DEF Sends
    <3> QED BY <3>1, <3>2 DEF ContinueAsked
  <2> QED BY <2>3, <2>4
<1>2. CASE CoordinatorStep \/ \E n \in Nodes, p \in Participants : AnswerVotesStatus(n, p)
  <2>1. Answers
    BY <1>0, <1>2, CoordinatorAnswers, VotesStatusAnswers
  <2>2. tx' = tx
    BY <1>2 DEF CoordinatorStep, SendFinalAmountsConfiguration, FinalAmountsConfirmed, FinalAmountsRefused,
       CollectVote, CoordinatorTimeout, AnswerTTLRequest, CoordinatorReject, CoordinatorEnds, AnswerVotesStatus
  <2>3. EmptyVotesAsked'
    BY <2>1, <2>2 DEF Answers, EmptyVotesAsked
  <2>4. ContinueAsked'
    BY <2>1, <2>2 DEF Answers, ContinueAsked
  <2>5. FinishIsRollback'
    BY <1>0, <2>1 DEF Answers, FinishIsRollback
  <2> QED BY <2>3, <2>4, <2>5
<1>3. ASSUME NEW n \in Nodes, Crash(n) \/ Restart(n) PROVE Goal
  <2>1. NoTransaction.step = "None" /\ RestoredTransaction.step = "Recovery"
    BY DEF NoTransaction, RestoredTransaction
  <2>2. net' = net /\ \A p \in Participants : tx'[p].step \in {tx[p].step, "Recovery", "None"}
    BY <1>0, <1>3, <2>1 DEF Crash, Restart, TypeOK
  <2> QED BY <1>0, <2>2 DEF EmptyVotesAsked, ContinueAsked, FinishIsRollback
<1>4. CASE UNCHANGED vars
  BY <1>4 DEF vars, EmptyVotesAsked, ContinueAsked, FinishIsRollback
<1> QED BY <1>1, <1>2, <1>3, <1>4 DEF Next, ParticipantStep

\* A transaction that recovers from its log does not roll back.
LEMMA RecoverVoted ==
    ASSUME Inv, StageFits, NEW p \in Participants, NEW taken, Recover(p, taken), record[p],
           tx[p].voted = "yes"
    PROVE  decision'[p] # "rollback"
BY DEF Recover, AskCoordinator, Inv, OpenUndecided, Nodes

\* Who has voted rolls back only what the coordinator has rolled back.
LEMMA RollBackOfVoted ==
    ASSUME Inv, StageFits, InTime, EmptyVotesAsked, ContinueAsked, FinishIsRollback,
           NEW p \in Participants, ParticipantStep(p), record[p], decision'[p] = "rollback"
    PROVE  decision[Coordinator] = "rollback"
<1> USE DEF Nodes
<1>0. decision[p] = "none" /\ TypeOK
  BY DEF Inv, OpenUndecided
<1>1. ~ClarifyingFinalAmounts(p) /\ (Voting(p) => tx[p].voted = "yes")
  BY DEF StageFits
<1>2. CASE FinalAmountsStep(p)
  <2>1. TransactionFinished(p)
    BY <1>1, <1>2 DEF FinalAmountsStep, AcceptFinalAmounts, RefuseFinalAmounts, AcceptKeyHash, RefuseKeyHash,
       FinalAmountsTimeout, FinalAmountsContinue, ClarifyingFinalAmounts
  <2> QED BY <2>1 DEF TransactionFinished, Deliverable, FinishIsRollback
<1>3. CASE VotingStep(p)
  <2>1. ~Vote(p)
    BY <1>1 DEF Vote
  <2>2. ~VotesArrive(p)
    <3> SUFFICES ASSUME VotesArrive(p) PROVE FALSE
      OBVIOUS
    <3>1. PICK m \in net :
              /\ m.to = p /\ Voting(p)
              /\ IF m.type \in Votes THEN ProcessVotes(p, m) ELSE Recover(p, {m})
      BY DEF VotesArrive, Deliverable
    <3>2. m.type # "EmptyVotes"
      BY <3>1 DEF EmptyVotesAsked, Voting
    <3>3. CASE ProcessVotes(p, m)
      <4>1. \E applied : Commit(p, applied)
        BY <3>2, <3>3 DEF ProcessVotes
      <4> QED BY <1>0, <4>1 DEF Commit, TypeOK
    <3> QED BY <1>1, <3>1, <3>3, RecoverVoted
  <2>3. ~VotingTimeout(p)
    BY <1>0, <1>1, RecoverVoted DEF VotingTimeout, ClarifyWithCoordinator, Voting
  <2>4. ~VotingContinue(p)
    <3> SUFFICES ASSUME VotingContinue(p) PROVE FALSE
      OBVIOUS
    <3>1. PICK m \in net :
              /\ m.to = p /\ m.type = "TTLContinue"
              /\ tx[p].step = "VotesChecking" \/ UNCHANGED decision
      BY DEF VotingContinue, Deliverable
    <3> QED BY <1>0, <3>1 DEF ContinueAsked, Clarifying
  <2> QED BY <1>3, <2>1, <2>2, <2>3, <2>4 DEF VotingStep
<1>4. CASE RecoveryStep(p)
  <2>1. ~UNCHANGED decision
    BY <1>0
  <2>2. PICK m \in net : m.type = "ParticipantsVotes" /\ ProcessVotes(p, m)
    BY <1>4, <2>1 DEF RecoveryStep, PrepareNodesList, AskCoordinator, NoAnswer, EmptyAnswer, AskNextNode, Sleep,
       AnswerWithVotes
  <2>3. \E applied : Commit(p, applied)
    BY <2>2 DEF ProcessVotes
  <2> QED BY <1>0, <2>3 DEF Commit, TypeOK
<1>5. CASE Throw(p)
  <2>1. p \notin Crashing /\ Waiting(p) /\ Recover(p, {})
    BY <1>5 DEF Throw, InTime
  <2>2. tx[p].voted = "yes"
    <3>1. tx[p].step \in Stage /\ tx[p].voted \in {"no", "yes", "uninitialised"}
      BY <1>0 DEF TypeOK, Transaction
    <3> QED BY <1>1, <2>1, <3>1 DEF StageFits, Stage, Waiting, Voting, ClarifyingFinalAmounts
  <2> QED BY <2>1, <2>2, RecoverVoted
<1> QED BY <1>2, <1>3, <1>4, <1>5 DEF ParticipantStep

LEMMA VotedFollow ==
    ASSUME Inv, StageFits, InTime, EmptyVotesAsked, ContinueAsked, FinishIsRollback, [Next]_vars,
           NEW p \in Participants, record[p], decision'[p] = "rollback"
    PROVE  decision[Coordinator] = "rollback"
<1>0. TypeOK /\ decision[p] = "none" /\ p # Coordinator /\ p \in Nodes
  BY PathAssumption DEF Inv, OpenUndecided, Nodes
<1>1. ASSUME NEW q \in Participants, ParticipantStep(q) PROVE decision[Coordinator] = "rollback"
  <2>1. q = p
    BY <1>0, <1>1, ParticipantMove DEF MoveOf, OnlyChanges
  <2> QED BY <1>1, <2>1, RollBackOfVoted
<1>2. CASE CoordinatorStep
  BY <1>0, <1>2, CoordinatorStepKind DEF StepOfCoordinator, Quiet, CoordinatorEnds, TypeOK
<1>3. ASSUME NEW n \in Nodes, Crash(n) \/ Restart(n) PROVE decision[Coordinator] = "rollback"
  BY <1>0, <1>3 DEF Crash, Restart, TypeOK
<1>4. CASE (\E n \in Nodes, q \in Participants : AnswerVotesStatus(n, q)) \/ UNCHANGED vars
  BY <1>0, <1>4 DEF AnswerVotesStatus, vars
<1> QED BY <1>1, <1>2, <1>3, <1>4 DEF Next, ParticipantStep

\* Who has voted is bound to the coordinator.
VotesBind ==
    \A p \in Participants :
        \/ p \in co.voters \/ \E m \in net : m.type = "ParticipantVote" /\ m.from = p
        \/ decision[Coordinator] = "commit"
        => record[p] \/ decision[p] = "commit" \/ decision[Coordinator] = "rollback"

\* The coordinator commits with the vote of every participant.
LEMMA CommitCollects ==
    ASSUME Inv, [Next]_vars, decision'[Coordinator] = "commit", decision[Coordinator] # "commit",
           NEW p \in Participants
    PROVE  /\ CoordinatorStep /\ UNCHANGED record
           /\ p \in co.voters \/ \E m \in net : m.type = "ParticipantVote" /\ m.from = p
<1>0. TypeOK /\ Coordinator \in Nodes
  BY DEF Inv, Nodes
<1>1. ~\E q \in Participants : ParticipantStep(q)
  BY <1>0, PathAssumption, ParticipantMove DEF MoveOf, OnlyChanges
<1>2. ~\E n \in Nodes : Crash(n) \/ Restart(n)
  BY <1>0 DEF Crash, Restart, TypeOK
<1>3. ~((\E n \in Nodes, q \in Participants : AnswerVotesStatus(n, q)) \/ UNCHANGED vars)
  BY DEF AnswerVotesStatus, vars
<1>4. CoordinatorStep
  BY <1>1, <1>2, <1>3 DEF Next, ParticipantStep
<1>5. ~\E taken : CoordinatorReject(taken)
  BY <1>0 DEF CoordinatorReject, CoordinatorEnds, TypeOK
<1>6. CollectVote
  BY <1>4, <1>5 DEF CoordinatorStep, SendFinalAmountsConfiguration, FinalAmountsConfirmed, FinalAmountsRefused,
     CoordinatorTimeout, AnswerTTLRequest
<1>7. UNCHANGED record /\ \E m \in net : m.type = "ParticipantVote" /\ co.voters \cup {m.from} = Participants
  BY <1>6 DEF CollectVote, CoordinatorEnds
<1> QED BY <1>4, <1>7

\* Every step keeps voters bound to the coordinator.
LEMMA BindStep ==
    ASSUME Inv, StageFits, InTime, EmptyVotesAsked, ContinueAsked, FinishIsRollback, VotesBind, [Next]_vars
    PROVE  VotesBind'
<1> SUFFICES ASSUME NEW p \in Participants,
                    \/ p \in co'.voters \/ \E m \in net' : m.type = "ParticipantVote" /\ m.from = p
                    \/ decision'[Coordinator] = "commit"
             PROVE  record'[p] \/ decision'[p] = "commit" \/ decision'[Coordinator] = "rollback"
  BY DEF VotesBind
<1> DEFINE Bound == \/ p \in co.voters \/ \E m \in net : m.type = "ParticipantVote" /\ m.from = p
                    \/ decision[Coordinator] = "commit"
<1>0. TypeOK /\ DecisionsKept /\ p \in Nodes /\ Coordinator \in Nodes
  BY DecisionStep DEF Inv, Nodes
<1>1. Bound \/ record'[p]
  <2>1. CASE UNCHANGED vars
    BY <2>1 DEF vars
  <2>2. CASE Next
    <3>1. NewVotesBacked
      BY <1>0, <2>2, NewVotes
    <3> QED BY <1>0, <2>2, <3>1, CountedVotes, CommitCollects DEF NewVotesBacked
  <2> QED BY <2>1, <2>2
<1>2. CASE Bound
  <2>1. record[p] \/ decision[p] = "commit" \/ decision[Coordinator] = "rollback"
    BY <1>2 DEF VotesBind
  <2>2. CASE record[p]
    <3>1. decision'[p] \in {"none", "commit", "rollback"}
      BY <1>0, NextType DEF TypeOK
    <3> QED BY <1>0, <2>2, <3>1, LogKept, VotedFollow DEF DecisionsKept
  <2> QED BY <1>0, <2>1, <2>2 DEF DecisionsKept
<1> QED BY <1>1, <1>2

\* What makes the agreement inductive.
AgreementInv ==
    /\ Inv /\ StageFits
    /\ EmptyVotesAsked /\ ContinueAsked /\ FinishIsRollback /\ VotesBind

LEMMA AgreementInductive == ASSUME InTime PROVE Spec => []AgreementInv
<1>1. Init => StageFits /\ EmptyVotesAsked /\ ContinueAsked /\ FinishIsRollback /\ VotesBind
  <2> SUFFICES ASSUME Init
               PROVE  StageFits /\ EmptyVotesAsked /\ ContinueAsked /\ FinishIsRollback /\ VotesBind
    OBVIOUS
  <2>1. \A p \in Participants : tx[p].step = "FinalAmounts" /\ tx[p].voted = "no"
    BY DEF Init, NoTransaction
  <2>2. StageFits
    BY <2>1 DEF Init, StageFits, Nodes, Voting, ClarifyingFinalAmounts
  <2> QED BY <2>2 DEF Init, EmptyVotesAsked, ContinueAsked, FinishIsRollback, VotesBind, Nodes
<1>2. AgreementInv /\ [Next]_vars
         => (StageFits /\ EmptyVotesAsked /\ ContinueAsked /\ FinishIsRollback /\ VotesBind)'
  BY StageStep, AnswersStep, BindStep DEF InTime, AgreementInv
<1> QED BY <1>1, <1>2, InvInductive, PTL DEF Spec, AgreementInv

\* No node rolls back a payment that another one commits, if answers come in time and no
\* participant both crashes and throws.
THEOREM Agreement == ASSUME InTime PROVE Spec => []NoSplitDecision
<1>1. AgreementInv => NoSplitDecision
  <2> SUFFICES ASSUME AgreementInv, NEW m \in Nodes, NEW n \in Nodes,
                      decision[m] = "commit", decision[n] = "rollback"
               PROVE  FALSE
    BY DEF NoSplitDecision
  <2>1. decision[Coordinator] = "commit"
    BY DEF AgreementInv, Inv, CommitFollowsCoordinator, Nodes
  <2> QED BY <2>1 DEF AgreementInv, VotesBind, Inv, OpenUndecided, Nodes
<1> QED BY <1>1, AgreementInductive, PTL

-----------------------------------------------------------------------------
(* The refinement of the atomic payment.                                    *)

\* A step that changes neither decisions nor the log is none of the abstract payment.
LEMMA AbstractStutter ==
    ASSUME UNCHANGED <<decision, record>>
    PROVE  UNCHANGED AbstractState
BY DEF AbstractState, AbstractStateOf

\* The abstract state of a node.
LEMMA AbstractValue ==
    ASSUME TypeOK, NEW n \in Nodes
    PROVE  /\ decision[n] = "commit" => AbstractState[n] = "committed"
           /\ decision[n] = "rollback" => AbstractState[n] = "aborted"
           /\ decision[n] = "none" /\ record[n] => AbstractState[n] = "prepared"
           /\ decision[n] = "none" /\ ~record[n] => AbstractState[n] = "working"
BY DEF AbstractState, AbstractStateOf, TypeOK

\* A step that changes n alone is one of n alone.
LEMMA AbstractBecome ==
    ASSUME NEW n \in Nodes, \A k \in Nodes \ {n} : UNCHANGED <<decision[k], record[k]>>
    PROVE  Abstract!Become(n, AbstractState'[n])
<1>1. \A k \in Nodes \ {n} : AbstractStateOf(k)' = AbstractStateOf(k)
  BY DEF AbstractStateOf
<1>2. AbstractState' = [k \in Nodes |-> AbstractStateOf(k)'] /\ AbstractState = [k \in Nodes |-> AbstractStateOf(k)]
  BY DEF AbstractState
<1> QED BY <1>1, <1>2 DEF Abstract!Become

\* A participant of the payment takes the steps of the abstract one.
LEMMA ParticipantRefines ==
    ASSUME AgreementInv, AgreementInv', InTime, NEW p \in Participants, MoveOf(p), [Next]_vars
    PROVE  Abstract!Next \/ UNCHANGED AbstractState
<1> USE DEF Nodes
<1>0. /\ TypeOK /\ TypeOK' /\ decision[p] = "none" /\ p # Coordinator
      /\ \A k \in Nodes \ {p} : UNCHANGED <<decision[k], record[k]>>
      /\ CommitFollowsCoordinator'
  BY PathAssumption DEF AgreementInv, Inv, OpenUndecided, MoveOf, OnlyChanges
<1>1. /\ Abstract!Become(p, AbstractState'[p])
      /\ AbstractState[p] = (IF record[p] THEN "prepared" ELSE "working")
      /\ AbstractState[Coordinator] = AbstractState'[Coordinator]
  <2>1. AbstractStateOf(Coordinator)' = AbstractStateOf(Coordinator)
    BY <1>0 DEF AbstractStateOf
  <2>2. AbstractState[Coordinator] = AbstractState'[Coordinator]
    BY <2>1 DEF AbstractState
  <2> QED BY <1>0, <2>2, AbstractBecome, AbstractValue
<1>2. CASE GivesUp(p)
  <2>1. AbstractState'[p] = "aborted"
    BY <1>0, <1>2 DEF GivesUp, AbstractState, AbstractStateOf
  <2>2. CASE record[p]
    <3>1. AbstractState[Coordinator] = "aborted"
      BY <1>0, <1>2, <2>2, VotedFollow, AbstractValue DEF AgreementInv, GivesUp
    <3>2. Abstract!Follow(p)
      BY <1>1, <2>1, <2>2, <3>1 DEF Abstract!Follow
    <3> QED BY <3>2 DEF Abstract!Next
  <2>3. CASE ~record[p]
    BY <1>1, <2>1, <2>3 DEF Abstract!GiveUp, Abstract!Next, Abstract!Nodes
  <2> QED BY <2>2, <2>3
<1>3. CASE Follows(p)
  <2>1. record[p]
    BY <1>3 DEF Follows, AgreementInv, StageFits
  <2>2. AbstractState'[p] = "committed" /\ decision[Coordinator] = "commit"
    BY <1>0, <1>3 DEF Follows, AbstractState, AbstractStateOf, CommitFollowsCoordinator
  <2>3. AbstractState[Coordinator] = "committed"
    BY <1>0, <2>2, AbstractValue
  <2> QED BY <1>1, <2>1, <2>2, <2>3 DEF Abstract!Follow, Abstract!Next
<1>4. CASE LogsVote(p)
  <2>1. ~record[p]
    BY <1>4 DEF LogsVote, AgreementInv, StageFits
  <2>2. AbstractState'[p] = "prepared"
    BY <1>0, <1>4 DEF LogsVote, AbstractState, AbstractStateOf
  <2> QED BY <1>1, <2>1, <2>2 DEF Abstract!Prepare, Abstract!Next
<1>5. CASE Collects(p) \/ Goes(p) \/ Recovers(p)
  <2>1. \A k \in Nodes : AbstractStateOf(k)' = AbstractStateOf(k)
    BY <1>0, <1>5 DEF Collects, Goes, Recovers, AbstractStateOf
  <2> QED BY <2>1 DEF AbstractState
<1> QED BY <1>2, <1>3, <1>4, <1>5 DEF MoveOf

\* So does the coordinator: it decides when all have voted, or gives the payment up.
LEMMA CoordinatorRefines ==
    ASSUME AgreementInv, AgreementInv', InTime, CoordinatorStep, [Next]_vars
    PROVE  Abstract!Next \/ UNCHANGED AbstractState
<1> USE DEF Nodes
<1>0. TypeOK /\ TypeOK' /\ ~record[Coordinator]
  BY DEF AgreementInv, Inv, OpenUndecided
<1>1. CASE Quiet
  BY <1>1, AbstractStutter DEF Quiet
<1>2. CASE ~Quiet
  <2>1. PICK outcome \in {"commit", "rollback"} :
            co.step # "None" /\ \E applied : CoordinatorEnds(outcome, applied)
    BY <1>0, <1>2, CoordinatorStepKind DEF StepOfCoordinator
  <2>2. /\ decision[Coordinator] = "none" /\ decision'[Coordinator] = outcome /\ UNCHANGED record
        /\ \A k \in Nodes \ {Coordinator} : UNCHANGED <<decision[k], record[k]>>
    BY <1>0, <2>1 DEF CoordinatorEnds, AgreementInv, Inv, OpenUndecided, TypeOK
  <2>3. Abstract!Become(Coordinator, AbstractState'[Coordinator]) /\ AbstractState[Coordinator] = "working"
    BY <1>0, <2>2, AbstractBecome, AbstractValue
  <2>4. CASE outcome = "rollback"
    <3>1. AbstractState'[Coordinator] = "aborted"
      BY <2>2, <2>4 DEF AbstractState, AbstractStateOf
    <3> QED BY <2>3, <3>1 DEF Abstract!GiveUp, Abstract!Next, Abstract!Nodes
  <2>5. CASE outcome = "commit"
    <3>1. AbstractState'[Coordinator] = "committed"
      BY <2>2, <2>5 DEF AbstractState, AbstractStateOf
    <3>2. \A p \in Participants : AbstractState[p] = "prepared"
      <4> SUFFICES ASSUME NEW p \in Participants PROVE AbstractState[p] = "prepared"
        OBVIOUS
      <4>1. p \in co.voters \/ \E m \in net : m.type = "ParticipantVote" /\ m.from = p
        BY <2>2, <2>5, CommitCollects DEF AgreementInv
      <4>2. record[p]
        BY <2>2, <4>1 DEF AgreementInv, VotesBind, Inv, CommitFollowsCoordinator
      <4> QED BY <1>0, <4>2, AbstractValue DEF AgreementInv, Inv, OpenUndecided
    <3> QED BY <2>3, <3>1, <3>2 DEF Abstract!Decide, Abstract!Next
  <2> QED BY <2>4, <2>5
<1> QED BY <1>1, <1>2

\* A crash gives the payment up unless a log keeps it; a restart changes nothing.
LEMMA CrashRefines ==
    ASSUME AgreementInv, NEW n \in Nodes, Crash(n) \/ Restart(n)
    PROVE  Abstract!Next \/ UNCHANGED AbstractState
<1>0. TypeOK
  BY DEF AgreementInv, Inv
<1>1. CASE UNCHANGED decision
  BY <1>1, AbstractStutter DEF Crash, Restart
<1>2. CASE ~UNCHANGED decision
  <2>1. /\ decision[n] = "none" /\ ~record[n] /\ decision'[n] = "rollback"
        /\ \A k \in Nodes \ {n} : UNCHANGED <<decision[k], record[k]>>
    BY <1>0, <1>2 DEF Crash, Restart, TypeOK
  <2>2. Abstract!Become(n, AbstractState'[n]) /\ AbstractState[n] = "working"
    BY <1>0, <2>1, AbstractBecome, AbstractValue
  <2>3. AbstractState'[n] = "aborted"
    BY <2>1 DEF AbstractState, AbstractStateOf
  <2> QED BY <2>2, <2>3 DEF Abstract!GiveUp, Abstract!Next, Abstract!Nodes, Nodes
<1> QED BY <1>1, <1>2

\* The protocol implements the atomic payment, if answers come in time and no participant
\* both crashes and throws: every step is one of the abstract payment or a stutter.
THEOREM ProtocolIsAtomic == ASSUME InTime PROVE Spec => ImplementsAtomicPayment
<1>1. Init => Abstract!Init
  BY DEF Init, Abstract!Init, AbstractState, AbstractStateOf, Abstract!Nodes, Nodes
<1>2. AgreementInv /\ AgreementInv' /\ [Next]_vars => [Abstract!Next]_AbstractState
  <2> SUFFICES ASSUME AgreementInv, AgreementInv', [Next]_vars
               PROVE  Abstract!Next \/ UNCHANGED AbstractState
    OBVIOUS
  <2>1. ASSUME NEW p \in Participants, ParticipantStep(p)
        PROVE  Abstract!Next \/ UNCHANGED AbstractState
    BY <2>1, ParticipantMove, ParticipantRefines DEF AgreementInv, Inv
  <2>2. CASE (\E n \in Nodes, p \in Participants : AnswerVotesStatus(n, p)) \/ UNCHANGED vars
    BY <2>2, AbstractStutter DEF AnswerVotesStatus, vars
  <2> QED BY <2>1, <2>2, CoordinatorRefines, CrashRefines DEF Next, ParticipantStep
<1> QED BY <1>1, <1>2, AgreementInductive, PTL DEF Spec, ImplementsAtomicPayment, Abstract!Spec
=============================================================================
