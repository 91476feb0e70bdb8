# geo-client: formal models

TLA+ models of the GEO network client (`src/src/core`), checked with TLC and, where
it says so, proved with TLAPS. Every definition that models code is listed in
`PROJECT.json` with the lines it stands for.

## The system

A node keeps *trust lines* with its neighbours: how much each side may owe the
other, and a balance. A payment moves value from a coordinator to a receiver over
paths of trust lines; each node on a path reserves amounts, then all of them vote,
and all commit or roll back. Nodes talk over UDP. One process runs one
single-threaded event loop; a *transaction* is an object with a step, and its
`run()` is called when a message it waits for arrives or when its timer fires.

| Component | State | Operations | What makes it correct |
|---|---|---|---|
| Payment transactions (`transactions/regular/payments`) | step, reservations, key hashes, votes; a serialized copy in the database after the vote | final amounts, vote, commit, rollback, recover | all nodes of a payment decide alike; decisions last; amounts move once |
| Payment reservation phase (same files) | paths, reservations per path | ask, approve, shorten, drop | reserved amounts agree between neighbours |
| Trust lines, reservations (`trust_lines`, `payments/reservations`) | limits, balance, state, receipts' totals; reservations per contractor | reserve, update, drop, use; set limits; load | a balance stays within its limits; what is reserved can be used |
| Scheduler (`transactions/scheduler`) | transactions and the state each waits in | schedule, attach a message, wake, forget | a transaction wakes when its message or its time comes |
| Transactions manager | none but the wiring | launch a transaction per command or message; load serialized ones | every unfinished voted payment is resumed |
| Confirmed delivery (`network/communicator/internal/queue`) | queue per contractor, its copy in the database, timer | enqueue, confirm, resend, load | a queued message is sent until it is confirmed |
| Packets, address book (`network/communicator/internal`) | channels with partial packets | split, join, clean up, look up | a message arrives whole or not at all |
| Trust line protocol (`transactions/transactions/trust_lines`) | audit number, keys, state of the trust line | open, set, close, audit, share keys, resolve | neighbours agree on audited balances |
| Cycle closing (`payments/CycleCloser*`) | as payments, with one path that ends where it begins | reserve, fix the amount, vote, take reservations away | neighbours move the same amount; nobody commits alone; reservations come back |
| Cycle search, `CyclesManager` (`cycles`, `transactions/cycles`) | routing tables, cycles found, reports of closed lines and offline nodes | search, choose the next cycle, drop cycles | one cycle is closed at a time; a cycle waits for ever only while cycles of another length keep the turn |
| Max flow, paths (`topology`, `paths`) | cached topology | collect, compute | flow never above the capacity of a path |
| Keychain (`crypto`) | one-time Lamport keys per trust line | sign, verify, count | a key signs once |
| Storage (`io/storage`) | SQLite tables | records per handler, `IOTransaction` | what a step stores, it stores whole |
| Interfaces, logger, settings, delayed tasks, history, blacklist, totals, gateways, ethereum | – | commands, results, queries | not modelled, see below |

Components meet in four ways: by messages (payments, trust line protocol, cycles),
by shared memory (`TrustLinesManager` is used by every transaction on the node), by
signals (an audit is launched by a commit that overflows a trust line, a cycle by the
end of the one before it) and by the
database (receipts, serialized transactions and votes are all that a restart finds).

### What is hard here

* Lost, late and reordered UDP messages against timers on both sides.
* A crash at any point, and a restart that rebuilds balances from receipts and
  transactions from their serialized copy.
* Handlers that go on after `reject()`, functions that end without a `return`, and a
  field that is never initialised: the models take every outcome a build can give.
* Two transactions of a node on one trust line, and cycles that take each other's
  reservations.
* One timer for all transactions of a node, one channel for the packets of several
  messages, one flag for the cycle that is being closed.

The full list, with the line where each bites and the properties that watch it, is
`hazards` in `PROJECT.json`.

## Modules

| Module | Role |
|---|---|
| `AtomicPayment` | what the voting promises: every node is working, prepared, committed or aborted; the coordinator alone decides, prepared nodes follow |
| `PaymentVoting` | the second half of a payment as the code does it |
| `PaymentVotingProofs` | its theorems |
| `MCPaymentVoting` | the path c – i – r for TLC |
| `TrustLine` | the arithmetic of one trust line: available amounts, `pay`, `acceptPayment`, overflow |
| `TrustLineLedger` | one line of one node under payments, changes of trust, audits, keys and restarts |
| `TrustLineLedgerProofs` | its theorems |
| `MCTrustLineLedger` | two payments over the line for TLC |
| `Outbox` | what the confirmed delivery promises: a posted message is pending, over crashes too, until it is answered or replaced |
| `ConfirmationQueue` | the queues of messages to confirm, their shared timer and their copy in the database |
| `ConfirmationQueueProofs` | its theorems |
| `MCConfirmationQueue` | three transactions and two contractors for TLC |
| `AuditChain` | what audits promise: the two neighbours go from audit to audit together, one step apart at most |
| `TrustLineAudit` | two neighbours that change the limits of their line, audit it and resolve conflicts |
| `MCTrustLineAudit` | up to three changes for TLC |
| `TrustLineAuditProofs` | its theorems |
| `PaymentReservation` | the first half of a payment: paths, reservations, final amounts |
| `PaymentReservationProofs` | its theorems |
| `MCPaymentReservation` | a coordinator, two nodes in between and a receiver for TLC |
| `CycleClosing` | the closing of one cycle, from the first reservation to the commit |
| `CycleClosingProofs` | its theorems |
| `MCCycleClosing` | an initiator and two nodes for TLC |
| `TransactionsScheduler` | the transactions of a node, what they wait for, and their one timer |
| `MCTransactionsScheduler` | a payment and two max flow calculations for TLC |
| `CyclesManager` | composes the scheduler with the manager that decides which cycle is closed next |
| `SchedulingProofs` | the theorems of the scheduler and of the manager |
| `MCCyclesManager` | four cycles and two initiators for TLC |
| `PacketChannel` | messages cut into packets and joined from them |
| `PacketChannelProofs` | its theorems |
| `MCPacketChannel` | two senders and three messages for TLC |

### PaymentVoting and the code

One payment (one transaction UUID) on one path. State: `tx[p]` is the object of an
`IntermediateNodePaymentTransaction` or `ReceiverPaymentTransaction` (`step` is
`mStep`, `waits` the message types of the last `resultWaitForMessageTypes`, `hashes`
is `mParticipantsPublicKeysHashes`, `voted` is `mTransactionIsVoted`, `toAsk` is
`mNodesToCheckVotes`, `asked` is `mCurrentNodeToCheckVotes`); `co` is the
`CoordinatorPaymentTransaction`; `held` the reservations in
`AmountReservationsHandler`; `ledger` how often each side of the payment has moved a
balance; `record` the serialized transaction and `receipts` the receipts in the
database; `net` the messages in transit.

| Action | Handler |
|---|---|
| `SendFinalAmountsConfiguration`, `FinalAmountsConfirmed`, `FinalAmountsRefused`, `CollectVote`, `AnswerTTLRequest`, `CoordinatorTimeout` | `CoordinatorPaymentTransaction::run` and the stages of that name |
| `AcceptFinalAmounts`, `RefuseFinalAmounts`, `AcceptKeyHash`, `RefuseKeyHash`, `FinalAmountsTimeout`, `FinalAmountsContinue`, `TransactionFinished` | the final amounts stages of the two participants |
| `Vote`, `VotesArrive`, `VotingTimeout`, `VotingContinue` | `runVotesCheckingStage`, `runVotesConsistencyCheckingStage` and the clarifications around them |
| `PrepareNodesList`, `NoAnswer`, `EmptyAnswer`, `AnswerWithVotes` | the recovery stages of `BasePaymentTransaction` |
| `AnswerVotesStatus` | `VotesStatusResponsePaymentTransaction::run` |
| `Throw` | the `catch` of `run()`: `recover` |
| `Crash`, `Restart` | the end of the process; `loadTransactionsFromStorage` and `loadTrustLinesFromStorage` |

The two participant classes differ in what they wait for and in their answer to a
TTL message; where they differ the action tests `p = Receiver`. The prolongation
stage before the final amounts has the same handlers as the final amounts stage and
shares its step. What comes before the final amounts is in `PaymentReservation`, which
ends where a participant agrees to them: what `Init` says is `held` here is what
`FinalAmountsAgree` describes there.
`checkAllPublicKeyHashesProperly` has no final `return`: `HashesCollected` may
refuse a complete set of hashes.

Left out: storage errors while a receipt is saved; duplicated messages; the case
that a restart cannot take its reservations again and ends the process with
`exit(1)` (nothing changes in the model when it does, and the fairness of `Restart`
assumes that it does not); an exception in the coordinator after its commit, which
the others cannot tell from a lost list of votes. Database transactions are atomic.

### PaymentReservation and the code

One payment and its paths. `co` is the coordinator's transaction: `paths` is
`mPathsStats`, `queue` `mPathIDs`, `at`, `flow` and `pos` the path that is being built,
its `maxFlow` and the node asked last, `reserved` its own reservations by path, `done` the
paths that are complete with their amounts, `misses` `mCountReceiverInaccessible`,
`offline` and `refused` what the next search must avoid. `tx[n]` is the transaction of a
participant with its reservations; `net` the messages in transit.

| Action | Handler |
|---|---|
| `Initialize`, `ReceiverResponse`, `NeighborResponse`, `FurtherResponse`, `ShortPathResponse`, `TTLRequested`, `CoordinatorTimeout` | the stages of `CoordinatorPaymentTransaction` from the command to the final amounts; `TryNextPath`, `GiveUp`, `FinishPath` are what they share |
| `LaunchIntermediate`, `RequestNext`, `CoordinatorRequest`, `NextNeighborResponse`, `FinalPath` | the stages of `IntermediateNodePaymentTransaction` for one path |
| `Clarified`, `ReservingTimeout` | its prolongation and clarification stages |
| `ReceiverInit`, `ReceiverRequest`, `ReceiverContinue`, `ReceiverFinish`, `ReceiverTimeout` | the stages of `ReceiverPaymentTransaction` |
| `FinalAmounts` | the check of the final amounts in both |
| `Crash` | the end of the process: nothing of this phase is in the database |

What the code does and a reader of the model may stumble over:

* the identifier of an erased path is given to the next one, so an answer to the old path
  may be read as one to the new; the direct path checks neither the path nor the sender of
  an answer at all;
* a receiver that is told "continue" in a clarification waits in the stage of the votes,
  takes the next request for a timeout, asks again, and reads the request that started it
  when *that* question times out (`left`);
* a receiver that crashed is launched again by the next request, as an intermediate node;
* before its first request from the coordinator a node does not know whom to ask, and its
  question goes nowhere;
* a node may hold a larger reservation than the path needs until the final amounts cut it.

An amount that a line has left is any amount up to what is asked. Messages for a
transaction that is not there are dropped, as the scheduler drops them. `LateMessages =
FALSE` says that no message outlives the wait for it, which is what the code's timeouts
assume; without it the answer of a given-up path is taken on the direct path and
`FinalAmountsAgree` fails after seven steps (a hazard in `PROJECT.json`). Left out: the
search for paths (any choice of `OtherPaths`), the refusal of an equivalent that a node
does not have, receipts and hashes of keys (in `PaymentVoting`), the history.

### CycleClosing and the code

One cycle. Node 0 is the initiator, `stage` is `mStep`, `held[n]` what the node has
reserved to both sides, `want` the amount it waits for another transaction to release,
`taken` the nodes whose reservations another cycle took.

| Action | Handler |
|---|---|
| `Start`, `StartAgain`, `NeighborAmountResponse`, `FurtherReservationResponse`, `AnswerBeforeRequest`, `CoordinatorTimeout` | the reservation stages of `CycleCloserInitiatorTransaction` |
| `PreviousNeighborRequest`, `PreviousNeighborRequestAgain` | the request of the previous node, on the initiator and on the others |
| `CoordinatorRequestProcessing`, `CoordinatorRequestAgain`, `NextNeighborResponse` | the reservation stages of `CycleCloserIntermediateNodeTransaction` |
| `FinalPathConfiguration`, `FinalReservationsNeighborConfirmation` | its final amount stages, with the receipts |
| `FinalAmountsParticipantConfirmation`, `FinalReceipt`, `VotesConsistencyChecking` | keys, receipt and votes on the initiator |
| `VoteOnKeys`, `VotesOrTimeout`, `Recover`, `Timeout`, `FinishArrives` | votes, recovery and the ends of a node |
| `Challenge`, `RollbackByOtherTransaction` | `resolveReservationConflict`: a longer cycle or a higher coordinator wins; the loser's `runRollbackByOtherTransactionStage` |

The initiator keeps its first reservation when its neighbour offers less (only later
answers shorten it), so `HopsAgree` leaves that line out. A node that has voted and loses its reservations
during its recovery rolls back (`OneDecision` names it). An initiator that times out on a
later node ends without giving its reservations back (CycleCloserInitiatorTransaction.cpp
581-589 and 705-715), so `ReservationsReturned` is about the other nodes. The rounds of
recovery, crashes and storage are those of `PaymentVoting`; `Recover` is their result.

### TransactionsScheduler, CyclesManager and the code

`state[t]` is what `t` waits for: the time left, whether a message may wake it, and for
a max flow calculation the contractors it has still to visit. `timer` is
`mProcessingTimer`, `queued` a handler that was cancelled when it had already expired.

| Action | Handler |
|---|---|
| `Schedule`, `Postpone` | `scheduleTransaction`, `postponeTransaction` |
| `Attach` | `tryAttachMessageToTransaction` and `tryAttachResourceToTransaction` |
| `Awake`, `AwakeLate` | `handleAwakening` |
| `Tick` | the clock |
| `FindCycles`, `Outdated`, `Forbid` | `CyclesManager::addCycle` and `closeOneCycle`, its cleaning timer, `SubsystemsController` |
| `AwakeOne`, `AwakeOneLate`, `AttachToOne` | a run of the scheduler with the reports of an initiator and, when it ends, `closeOneCycle` before it is forgotten |
| `LoseConflict` | an initiator that loses a conflict is postponed |

What a transaction does in its run is any result it may give, an exception included.
The clock stands still while a handler is ready to run, and a run on the timer takes one
unit. `closeOneCycle` returns before it lowers `mIsCycleInProcess` when closing is
forbidden: a cycle that ends then leaves the flag up and no cycle is closed any more, so
`OneAtATime` and `FoundIsTried` speak of a node that was never forbidden.

`closing` is the cycle that the scheduled initiator was made for. `closeOneCycle` begins
with `mCurrentCycleClosingState` and leaves that kind only when its list is empty, so the
kinds do not take turns: as long as cycles of one length are added faster than they are
closed, those of the other lengths wait. The code has no remedy for that, and
`FoundIsTried` does not claim one. It says that this is the only way to wait for ever: a
cycle that waits from some time on, neither tried nor dropped, waits while the turn stays
with one other kind of which cycles are added again and again. Within its own kind
a cycle is never overtaken, and no empty list ends the search.

Left out:
serialization, the order of equal deadlines (any), the cleaning of lists while they are
iterated (the code erases from a list inside a loop over it; the model removes the
outdated reports).

### PacketChannel and the code

The packets of senders to one receiver. `queue` is `mPacketsQueue` of an
`OutgoingRemoteNode`, `channels` the `IncomingChannel`s of a receiver, under the sum of
address and port that the code identifies an endpoint with. Empty slots, an `expected`
that a packet of another message overwrites and a channel index that starts again after a
restart are in it; CRC is ideal.

| Action | Handler |
|---|---|
| `SendMessage`, `SendPacket`, `PacketFails`, `NoEndpoint` | `OutgoingRemoteNode::sendMessage`, `beginPacketsSending` |
| `Arrive` | `IncomingMessagesHandler`, `IncomingRemoteNode`, `IncomingChannel::addPacket` and `tryCollectMessage` |
| `Clean` | `removeOutdatedChannelsOfPresentEndpoints`, `removeOutdatedEndpoints` |
| `HandlerOutdated`, `SenderRestarts` | `removeOutdatedHandlers`; the end of the process |
| `Lose` | the network |

A message whose length puts its last packet over `kMaxSize` is never delivered, whatever
the network does (`Fits`). Left out: the cut of received bytes into packets (a datagram
is one packet), the order in which messages are handed on, the 20 ms between packets,
failing allocations, the ban list.

### TrustLineLedger and the code

One trust line as one of its two nodes sees it, shared by several payments. `line` is
the `TrustLine` in memory (limits, balance, totals since the audit), `state` its
state, `stage` and `reservation` the payments and what they hold in
`AmountReservationsHandler`, `audit` and `receipts` what the database has, `change`
the serialized change of a trust amount. The contractor is the environment.

| Action | Handler |
|---|---|
| `Reserve`, `Shorten` | `TrustLinesManager::reserveOutgoingAmount` / `reserveIncomingAmount`, `BasePaymentTransaction::shortageReservation` |
| `SaveReceipt`, `Vote`, `RollBack`, `Commit` | the receipts of the final amounts stage, the serialization before the vote, `rollBack`, `commit` with `useReservation` |
| `SetOutgoing`, `StopWaiting`, `OutgoingAccepted`, `OutgoingRefused` | the stages of `SetOutgoingTrustLineTransaction`, and its recovery |
| `SetIncoming` | `SetIncomingTrustLineTransaction::runInitializationStage` |
| `Audit`, `KeysShared` | `runAuditTargetStage` and `runAuditResponseProcessingStage` with `updateTrustLineStateAfterNextAudit`; the end of `runPublicKeysSendNextKeyStage` |
| `Crash`, `Restart` | the end of the process; `loadTrustLinesFromStorage`, the reservations taken again by `loadTransactionsFromStorage`, the changes made again by `runRecoveryStage` |

A payment holds one reservation on the line (the code allows one per path). `Commit`
is not taken when `useReservation` throws; what the payment does then is in
`PaymentVoting`. `Shorten` needs no check against the line: the code's check adds the
old amount to what is available and a smaller amount always passes it. `Restart` is
not taken when a reservation cannot be had again (`exit(1)`): the process stays down.
`change` keeps the last serialized change only. Left out: removing a line, the
blacklist, failing storage, the conflict resolver.

The two models meet in `Restart` and `Commit`: `PaymentVoting` assumes that the
reservations of a voted payment fit after a restart and counts what is moved;
`TrustLineLedger` has the amounts and shows when they do not fit.

### ConfirmationQueue and the code

The sending side of one node. `queue[tx]` is the entry of `mMessages` under the UUID of
`tx`, in the queue of the contractor that `tx` talks to (`mQueues` has a key per
contractor and equivalent: a contractor of the model is such a pair; a queue is erased
with its last message, so it exists while it has one). `timeout` and `next` are
`mNextTimeoutSeconds` and `mNextSendingAttemptDateTime`, the latter as time left;
`timer` is `mCleaningTimer`, `loading` is `mDeserializationMessagesTimer`, `stored` the
table of `CommunicatorMessagesQueueHandler`, `net` the messages in transit.

| Action | Handler |
|---|---|
| `Post` | `Communicator::sendMessage`: `tryEnqueueMessage` with `enqueue` and the `update...InTheQueue` of the type, which are alike, then the first sending |
| `Confirm` | `processConfirmationMessage` or an incoming `System_Confirmation`: `tryProcessConfirmation` of the handler and of the queue |
| `Resend` | the timer: `sendPostponedMessages`, then `rescheduleResending` |
| `Loaded` | `delayedRescheduleResendingAfterDeserialization` |
| `Crash`, `Restart` | the end of the process; `deserializeMessages` |
| `Lose`, `Tick` | the network and the clock |

A message in transit and the answer to it are one element of `net`. A transaction
posts a message of another type after the answer to its last one, as the trust line
transactions do. They call `processConfirmationMessage` for most answers; that the refusal branch
of `SetOutgoingTrustLineTransaction` does not (its message stays queued after an
answer) is in `TrustLineAudit`. Enqueuing runs in one database
transaction, so a crash sees all of it or nothing. Left out: failing storage (the
handler logs it and goes on without the copy), the queue of max flow answers, the
cache of responses.

It stands under the trust line protocol: `change` of `TrustLineLedger` is settled by
an answer that this module delivers, and `outbox` of `TrustLineAudit` is this queue
without its timers.

### TrustLineAudit and the code

One line that is open and audited, and both its nodes. `state` is the state of the
`TrustLine` (in memory and in the database, which the code sets together), `limits` its
two amounts in memory, `saved` the last row of the audit table, `form[n][t]` the audit
number in the serialized transaction `t` (0 when the record is deleted), `task` what the
running transaction waits for (`mStep`), `outbox` the queue of messages to confirm,
`cache` the one cached answer to the contractor, `link` the packets on their way. A
transaction of a change has one UUID on both nodes, `t`; a conflict resolver is named by
its node and a number.

| Action | Handler |
|---|---|
| `SetOutgoing` | `SetOutgoingTrustLineTransaction::runInitializationStage` |
| `ChangeAccepted`, `ChangeRefused` | its `runResponseProcessingStage`, entered directly or through `runRecoveryStage` |
| `InitAudit`, `AuditNotPending` | `runAuditInitializationStage` |
| `AuditAccepted`, `AuditWronglySigned`, `AuditRefused`, `ConfirmationMisread` | `runAuditResponseProcessingStage`, entered in the same two ways |
| `SetIncoming`, `RefuseIncoming` | `SetIncomingTrustLineTransaction::runInitializationStage` |
| `SignAudit`, `RefuseAudit`, `LeaveAudit` | `runAuditTargetStage`, entered by the waiting transaction, by its serialized form or by an `AuditTargetTransaction` |
| `AnswerFromCache` | the cached answer of `Communicator::onMessageReceived` |
| `Resolve`, `Resolved` | `ConflictResolverInitiatorTransaction` |
| `AcceptTheirs`, `RejectTheirs` | `ConflictResolverContractorTransaction` |
| `DropAnswer` | an answer that no transaction and no serialized form takes |
| `Timeout`, `Resend`, `Lose` | a wait that ends, the queue's timer, the network |
| `Crash`, `Restart` | the end of the process; `loadTrustLinesFromStorage`, then `loadTransactionsFromStorage` |

`Relaunched` is `findSerializedTransactionAndLaunchIt`: a message that no running
transaction waits for starts its serialized form, which takes the path that the state of
the line asks for, whatever the message is. So a late `Confirmation` may be read as the
answer to an audit; the code then casts it to a message with a signature, which it does
not have. The model takes each outcome: a signature that does not fit
(`AuditWronglySigned`) or the end of the process (`ConfirmationMisread`). A refused
change restores nothing: the code sets the refused amount again, and a form that is read
back has its previous state from the wrong bytes (`"unknown"`). A restart runs the
recovery of every form, in an order that the table does not fix: any of their amounts may
be the last.

Signatures are ideal: `Signed` compares what the two sides sign. Left out: payments and
their receipts (so the balance), the answer "reservations present" (the contractor waits
and is asked again), opening, closing and the exchange of keys, state channels, the
blacklist, failing storage.

## Runs

### PaymentVoting

All runs of `PaymentVoting` use one coordinator, one intermediate node and the receiver. Three nodes
are the shortest path on which a participant has a peer that is not the coordinator
(recovery asks peers) and on which the two participant classes both occur.
`MaxAsks = 1` bounds the copies of a node in `mNodesToCheckVotes`; the list is only
read to pick the next node, and more copies only repeat requests that the network
may lose anyway. Messages need no bound: `net` is a set. `CHECK_DEADLOCK FALSE`: a
payment that all nodes have closed has no step left.

| Run | Failures | Shows |
|---|---|---|
| `voting_on_time` | crashes of c and i, exceptions in r, lost and reordered messages; answers never outlive the wait for them | types, votes logged before they are sent (`VoteIsLogged`), commits that follow the coordinator (`CommitFollowsCoordinator`), one decision (`NoSplitDecision`), reservations and receipts that follow it (`ReservedWhileOpen`, `CommitSurvivesRestart`), and `ImplementsAtomicPayment` |
| `voting_live` | crashes of r, exceptions in c, lost messages, fairness | `CommitReachesEveryone`, `NobodyHangsBeforeVote` |
| `voting_restarted_commit` | a crash of i | violated: the balance is moved twice |

The model has more of what goes wrong than the runs state: with `LateAnswers = TRUE` a
voted node rolls back on a second TTL answer, so `NoSplitDecision` is checked without
them; a commit without reservations and a recovery that nothing can cancel are behaviours
of it too, and no property says otherwise. That decisions stay (`DecisionIsFinal`) is
proved and not run.

`LateAnswers = FALSE` says that an answer to a TTL request, and the request, do not
outlive the wait for them; it is what the code's timeouts assume of the network.

### TrustLineLedger

Two payments and trust amounts up to `MaxTrust = 2`. Two payments are the least that
compete for a line; with amounts up to 2 a payment can use half of it, all of it, or
more than a lowered trust, in both directions (a balance reaches both -2 and 2, and a
debt of 2 above a trust of 1 or 0). A payment reserves at most twice `MaxTrust`, which
is all a line can carry. `CHECK_DEADLOCK FALSE`: a node that cannot restart has no
step left. No fairness: the properties are about safety.

| Run | Failures | Shows |
|---|---|---|
| `ledger` | crashes, refusals, keys running out | `TypeOK`; a reservation that is covered can be used (`CoveredReservationsFit`); payments, audits and restarts never uncover what others reserved (`PaymentsStayCovered`); they never push a debt over the trust (`PaymentsStayWithinTrust`) |

A voted payment of more than half the line cannot take its reservations again after a
restart, for its receipts are in the balance by then; the node does not start. The model
has it, and no property says otherwise.

### ConfirmationQueue

Two transactions talk to contractor `a` and one to `b`: two queues are the least with
a shared timer, and two transactions with one contractor the least that replace each
other's messages; two message types tell replacing by type from removing by
transaction. Time counts in units of the first timeout (4 s). `BackoffLimit = 2`
lets a timeout double once and then stay (the code doubles from 4 s while under 600 s);
`LoadDelay = 2` is longer than the first timeout of a restored queue, as the code's
150 s are. `MaxPosts = 3` fills all queues at once or replaces twice, `MaxCrashes = 1`
crosses every state of them with a restart. `CHECK_DEADLOCK FALSE`: with all answered
and nothing left to post, the node is idle.

| Run | Failures | Shows |
|---|---|---|
| `queue` | lost messages, a crash | `TypeOK`; the database has what the queues have (`StoredIsQueued`); a timer is set while something is queued (`ResendIsScheduled`); `ImplementsOutbox`; under fairness every message is answered or replaced (`Delivered`) |

Not a property: that a message is sent again in time. The timer is set only by the
first message of the only queue, so the first message for a second contractor waits
for the timer of the first queue, which may stand at 1024 s (the header says of
`sendPostponedMessages` that it is called "every time when some queue timeout would
fire up").

### TrustLineAudit

Two nodes are all of a line. Two changes by different nodes are the least that cross;
three by one node are the least in which a repeated answer belongs to neither the present
change nor the last. The amounts differ from each other and from the first limit, so that
no two audits look alike. `MaxResolvers = 1`: each node launches one conflict resolver;
a refusal that needs a second is not taken. `Delaying` says whose messages may come late,
out of order and again; a node outside of it still loses them and repeats its requests.
`CHECK_DEADLOCK FALSE`: with all changes settled and answered the nodes are idle.

| Run | Failures | Shows |
|---|---|---|
| `audit` | one change by each node; timeouts on both; late and repeated messages of b; a crash of b | `TypeOK`; audits of one number are the same on both sides (`AuditsMatch`); `ImplementsChain` |
| `audit_settles` | three changes by a; timeouts and late, repeated messages of b; lost messages; fairness | a line in use has audited limits (`UsableIsAudited`); every change is signed by both (`ChangeIsAudited`) |

`audit_settles` is as far as settling goes. It fails, and TLC shows how, when

* the contractor crashes after its `Confirmation`: its cached answer is gone, the
  repeated request is refused, the initiator is Active again with a limit that nobody
  signed and the contractor waits for an audit for ever;
* the initiator times out: a repeated `Confirmation` finds its serialized form while the
  audit is pending, is taken for the answer to it, and removes form and queued audit;
* the initiator's requests come late: a `SetIncoming` that is repeated after the change
  was audited and another answer took the place of the cached one starts the change again;
* the initiator crashes between `AuditPending` and the posting of the audit: nothing asks
  for it again.

Each is a hazard in `PROJECT.json`; none says what a doc or a comment of the repository
promises, so none is a run. The second and the last of them cost the end of the change
only; the other two also break `UsableIsAudited`, and so do changes of both nodes that
cross: the one that is refused leaves its limit in a line that is Active. Without these
three it is a theorem (`OrderedUsable`). `AuditsMatch` and `ImplementsChain` hold where
`audit` looks: timeouts on both sides, a crash and late messages of b, which is initiator
of one change and contractor of the other. They do not hold of everything the model can
do: with `Delaying = {a, b}` and crashes of both nodes TLC finds two different audits of
one number. With changes of one node they are theorems whatever happens.

### PaymentReservation

Paths `c-a-r` and `c-r` first, and `c-a-b-r` when they do not suffice: one, two and three
hops, a node on two paths, the direct path that has its own stage, and an identifier that
is used again (`MaxRebuilds = 1`). `Command = 2` is the least amount that two paths can
share. `kMaxReceiverInaccessible = 2` lets the count be raised once without ending the
payment. Node a and the receiver may crash.

`FinalAmountsAgree` is a statement about these bounds, and fails outside of them in two
ways that TLC shows. A message that comes when it is no longer waited for
(`LateMessages = TRUE`) can be taken for the answer on another path: the direct path's is
taken without a look at its identifier. With `MaxRebuilds = 2` messages in time are
enough: an identifier is given out for the third time, a node of its second path answers
for it although the coordinator has given that path up, and the coordinator takes the
answer although the node is not on the path any more. With `MaxRebuilds = 1` it holds in
the other order of the two paths as well.

| Run | Failures | Shows |
|---|---|---|
| `reservation` | refusals, lost messages, timeouts, crashes of a and r, fairness of timers | `TypeOK`; who agrees to the final amounts holds on its lines what the coordinator has put together (`FinalAmountsAgree`); everyone else gives its reservations back (`PaymentSettles`) |

### CycleClosing

`N = 2` is the shortest cycle; `MaxAmount = 2` lets a node offer less than was asked,
`MaxChallenges = 2` lets two nodes lose their reservations. A receipt that arrives before
a smaller final amount does needs a third node in between (`N = 3`).

| Run | Failures | Shows |
|---|---|---|
| `cycle` | refusals, lost and late messages, timeouts, reservations taken away | `TypeOK`; neighbours commit the same amount (`HopsAgree`); nobody commits before the initiator, and then all do (`OneDecision`); what is reserved without a vote is given back (`ReservationsReturned`) |

### TransactionsScheduler and CyclesManager

One payment and two calculations: two kinds that the scheduler treats differently and two
that compete for being first. `MaxDelay = 2` tells earlier from later deadlines,
`MaxPieces = 2` lets a calculation go through two contractors. `MaxLag = 5` counts how late
a transaction is; `TypeOK` says that the count is never reached, so the bound cuts nothing
off and is itself a statement: nobody waits longer than that for the runs of others.

| Run | Failures | Shows |
|---|---|---|
| `scheduler` | exceptions, late handlers, fairness | `TypeOK`; the one timer runs to the earliest deadline (`TimerCoversDeadlines`); what is due is run (`DueIsRun`) |
| `cycles` | exceptions, lost conflicts, reports, closing forbidden and allowed again, fairness | `CyclesTypeOK`; one cycle at a time and a true flag (`OneAtATime`); a cycle found is tried or dropped for a report, unless cycles of one other length are found again and again and keep the turn (`FoundIsTried`) |

`cycles` has two cycles of three nodes, so that two can compete for the head of one list,
one of four and one of five, so that the turn passes empty lengths and comes back; two
initiators, as the next is scheduled before the last is forgotten; one report of each kind
(`MaxReports`) and one conflict of each initiator (`MaxConflicts`). Cycles are found
without end, also those that wait or are being closed; at most two wait at a time
(`MaxWaiting`), which is what it takes for one to be passed over. The number of finds has
no bound, as a bound would hide the starvation: with the exception of `FoundIsTried` taken
out TLC returns a behaviour in which the five-node cycle is found anew whenever it has
been taken, and a three-node one waits for ever. By hand the run was also made with `MaxWaiting = 3`
(120 096 states). Its `MaxLag = 4` is not reached either.

### PacketChannel

Messages of 100, 600 and 1200 bytes are of one, two and three packets (`kMaxSize` is 508).
Two senders whose address and port have the same sum share their channels at the receiver;
two channel indexes (2^32 in the code) come round within a run of two messages.

| Run | Failures | Shows |
|---|---|---|
| `packets` | lost, repeated and reordered packets, restarts, sums that collide | `TypeOK`; only whole messages that were sent are passed on (`CollectedWereSent`); no channel keeps a whole message (`NoWholeMessageWaits`); what had its channel for itself and arrived is passed on (`ArrivedIsCollected`) |

### Fairness

In `PaymentReservation` the timer of each transaction is weakly fair (`TimeIsOver(n)`) and
no message is. In `CycleClosing` the timers are, and so is the loser of a conflict, which
waits on a timer too. In `TransactionsScheduler` the two handlers of the timer are weakly
fair, and the clock strongly, as it stands still while a handler is ready. `CyclesManager`
adds that an initiator that is run again and again ends some time (`OneEnds`, strongly):
each of its stages has a timeout, and what would keep it alive, conflicts, is bounded for
each initiator (`MaxConflicts`). Nothing is assumed of how often cycles are found.

In `TrustLineAudit` the queue's timer, the scheduler and a restart are weakly fair. The
answers (`Answer`, `Proceed`) are strongly fair: a request is repeated until it is
answered, so it gets through some time, and so does an answer that is given again and
again. Losses and timeouts are not fair.

In `ConfirmationQueue` timers and `Restart` are weakly fair, and `Confirm` of each
message is strongly fair: a message that is sent again for ever is received and
answered some time. The bound on posts matters here: each post to a contractor puts
the next sending to it off (`enqueue` sets `mNextSendingAttemptDateTime`), and the
liveness holds for transactions that post finitely often.

In `PaymentVoting` `TimerFires(p)` and the coordinator's timer are weakly fair: the scheduler wakes
every waiting transaction at its time. `Restart` is weakly fair and crashes stop
some time: an operator restarts a node, and nothing can be promised to a node that
crashes for ever. Strong fairness of the coordinator's answer to a votes request, and
of its arrival while the participant waits for it, says that a request repeated for
ever gets through some time; recovery repeats it every 30 s. No other message is
fair: all may be lost.

## Proofs

Every theorem holds for all values of the constants that satisfy the `ASSUME`s of its
module, which TLC evaluates in the runs. Some of these were added for the proofs:
every participant is the next hop of another node (`PathAssumption`: paths are lists
without repetition), a packet has room for its checksum (`CRCSize <= HeaderSize`), there
are finitely many payments (`TrustLineLedger`), the paths that a payment starts with are
sequences of nodes (`PaymentReservation`) and the mark for "nobody" is no
transaction (`TransactionsScheduler`).

The step lemmas sort the actions of a module into a few kinds (a participant ends, the
coordinator ends, a crash, ...) wherever there are many, so that each part of an
invariant is proved over the kinds and not over every action.

### PaymentVoting

| Theorem | Statement |
|---|---|
| `TypeCorrect` | `Spec => []TypeOK` |
| `CommitsFollow` | `Spec => []CommitFollowsCoordinator` |
| `ReservationsWhileOpen` | `Spec => []ReservedWhileOpen` |
| `VotesLogged` | `Spec => []VoteIsLogged` |
| `DecisionsFinal` | `Spec => DecisionIsFinal` |
| `CommitsSurvive` | `Spec => []CommitSurvivesRestart` |
| `Agreement` | `InTime` implies `Spec => []NoSplitDecision` |
| `ProtocolIsAtomic` | `InTime` implies `Spec => ImplementsAtomicPayment` |

The first six hold for every path, set of failing nodes, `LateAnswers` and `MaxAsks`. The
inductive invariant `Inv` adds to what they state: an open transaction has not decided
(`OpenUndecided`), a node that is down without a log has decided (`DownLogged`), and a
list of votes exists only after the coordinator's commit (`VotesBacked`). Without
`VotesBacked` a commit could rest on votes from nowhere; without `OpenUndecided` and
`DownLogged` a restart could give reservations to a closed payment. `CommitsSurvive`
adds `StageFits` (the step of a participant tells whether it has logged its vote) and
`ReceiptsFit`: receipts are written before the key hash that announces them, and before
the log that a recovery commits from.

`InTime` is `~LateAnswers` (an answer to a TTL request does not outlive the wait for it)
and that no participant both crashes and throws. Both are needed: TLC finds
`NoSplitDecision` violated by a second `TTLContinue` that comes late, and by a participant
whose recovery throws after its vote. The coordinator may crash and throw as it likes. The
invariant `AgreementInv` then follows four messages in transit: a `TTLFinish` means that
the coordinator has rolled back (`FinishIsRollback`); a `TTLContinue` and the request for
it belong to a participant that still clarifies (`ContinueAsked`); an empty list of votes
goes to one in recovery (`EmptyVotesAsked`); and who is counted as a voter, or whose vote
is on its way, is logged, or has committed, or the coordinator has rolled back
(`VotesBind`). TLC checked all of it on the runs before it was proved. The refinement
maps a node to working, prepared, committed or aborted (`AbstractStateOf`); each step is
shown to be one abstract action or a stutter.

### TrustLineLedger

| Theorem | Statement |
|---|---|
| `AvailableIsAccepted` | `pay` and `acceptPayment` throw for no amount from 1 up to the available one |
| `TypeCorrect` | `Spec => []TypeOK` |
| `TrustIsKept` | `Spec => PaymentsStayWithinTrust` |
| `CoveredFit` | `Spec => []CoveredReservationsFit` |
| `StayCovered` | `Spec => PaymentsStayCovered` |

They hold for every finite set of payments, bound on the trust and choice of failures.
`TypeOK` is inductive by itself: the code's only subtraction on unsigned amounts that
could underflow is in the restored totals, which the sign test of the loader guards
(`RestoredType`). `TrustIsKept` rests on it and on `AcceptedIsWithinTrust`: of all the
steps of a running node only a commit moves the balance, and what `pay` accepts stays
within the trust if it was.

`CoveredFit` and `StayCovered` speak of sums over the payments. The lemmas on sums
(`SumExists`, `SumBounds`, `SumGrows`, `SumChanges`) take the place of an induction over
finite sets: of all sets on which a lemma fails, `Fewest` takes one with the fewest
elements, and one element less gives the contradiction. `StayCovered` needs that a payment
that is free or closed holds nothing (`NothingHeld`): otherwise a new reservation would
be added to an old one that `Grants` does not see.

### TrustLineAudit

| Theorem | Statement |
|---|---|
| `TypeCorrect` | `Spec => []TypeOK` |
| `OneSidedMatch` | `OneSided` implies `Spec => []AuditsMatch` |
| `OneSidedIsChain` | `OneSided` implies `Spec => ImplementsChain` |
| `UncrossedMatch` | `Spec /\ []NoCrossing => []AuditsMatch` |
| `UncrossedIsChain` | `Spec /\ []NoCrossing => ImplementsChain` |
| `OrderedUsable` | `OrderedRequests` implies `Spec => []UsableIsAudited` |

`AuditInv` holds whatever is lost, late, repeated or forgotten: who waits for an answer
owns the change (`TasksFit`), a form is numbered at most one after the last audit
(`FormsFit`), and what a node has sent, queued or cached fits it (`SentFit`, `CacheFits`):
only the owner of a change asks for its audit, at most one after its last one, and what it
has signed or shows to a resolver was its last audit or is behind it (`Backed`). Every
action is shown to have the effect `Step`: an audit is replaced by a later one that the
peer has (`Copies`) or asks for (`Signs`), a form is dropped or numbered after the last
audit, and what is sent fits.

That the two databases are a chain needs more (`Levels`): neither node is more than one
audit ahead, on a level they agree, and who is ahead no longer asks for the audit that it
has (`Asks`). One kind of step can break it: a node signs an audit with a number under
which it asks for one itself, so that the peer may come to sign that one too. `NoCrossing`
says that nobody is about to; given it, `Levels` is inductive. TLC finds `NoCrossing` true
in all states of `audit`, and for a change of each node with late messages of both and no
crash; it finds it false with three changes and crashes of both nodes. When one node gives all commands (`OneSided`) the other one never asks,
`NoCrossing` follows from `AuditInv`, and no hypothesis about the run is left: any number
of changes, timeouts, resolvers and crashes of both nodes, late and repeated messages of
both.

`OrderedRequests` is what `OneSided` says, and that the requests come in the order in
which they were sent (the owner is not in `Delaying`) and the contractor does not crash.
All three are needed: without any one of them TLC finds `UsableIsAudited` violated with
three changes, or two where they cross. The owner may crash, both may be impatient, the
answers may come late, again or never; `audit_settles` is the case of three changes without crashes and an
impatient contractor. The inductive invariant `Orderly` says at which of three stages the
two nodes are together: nothing is under way (`Resting`); the owner asks for a change that
the contractor has not heard of or holds (`Asking`); the owner waits for the audit, or has
given it up, and the contractor holds the change or has signed it (`Auditing`). In each it says which
request and which answers of the change may be on the way, and that the cached answer is
the one to that request. So a repeated request is answered from the cache, a late answer
is one for the change under way or finds nothing, and nothing is ever refused
(`NeverRefused`, `NeverTaken`).

### ConfirmationQueue

| Theorem | Statement |
|---|---|
| `TypeCorrect` | `Spec => []TypeOK` |
| `CopyIsExact` | `Spec => []StoredIsQueued` |
| `ResendsScheduled` | `Spec => []ResendIsScheduled` |
| `QueueImplementsOutbox` | `Spec => ImplementsOutbox` |

They hold for every set of contractors, transactions and types, every delay and any
number of posts and crashes. `StoredIsQueued` says nothing while the process is down, so
the inductive `CopyInv` adds `StoredIsRestorable` (one record per transaction, addressed
to its contractor) and `NetIsAddressed` (so is what is answered). `PostStores`,
`PostQueues`, `ConfirmRemoves` and `RestartRestores` say what an operation does to each
copy; equality, the timer and the refinement follow from these. That the timer's time
exists at all is `EarliestTime`, from the well-foundedness of `<`.

### CycleClosing

| Theorem | Statement |
|---|---|
| `TypeCorrect` | `Spec => []TypeOK` |
| `HopsAgreed` | `Spec => []HopsAgree` |
| `DecidedOnce` | `Spec => []OneDecision` |

They hold for every length `N` of the cycle, every amount and number of conflicts. Types
need `ApprovedFits` (how far the initiator is tells how many nodes have reserved, so
`approved` never passes `N`). The agreement `Fit` follows the final amount: it is fixed
once, when all have reserved, and every `FinalPath` message and every key hash to the next
node carries it (`MessagesFit`); a node that knows it holds it on both sides until it
commits or gives it back before its vote, and who has voted is in recovery, has committed
or lost its reservation to another cycle (`NodesFit`); the initiator commits what the
receipt of the last node says, with all votes (`CoordinatorFits`).

### TransactionsScheduler and CyclesManager

| Theorem | Statement |
|---|---|
| `TimerCovers` | `Spec => []TimerCoversDeadlines` |
| `OneCycleAtATime` | `SpecCycles => []OneAtATime` |

The first holds for every finite set of transactions and all bounds. The second assumes
that no initiator is a max flow calculation (`StepTwo = {}`), which is a matter of the
transactions' classes: `StepTwo` are those that the scheduler runs piece by piece. For the timer, the
inductive `CoverInv` adds the types of the times, without which a comparison of deadlines
means nothing to the prover. Every operation ends in `Adjust`, which takes one of the
smallest deadlines (`AdjustCovers`); what is left is the clock (`TickCovers`) and the
exceptions that leave the timer as it is. For the cycles, `ClosesOne` says the same as
`OneAtATime` with the set of initiators in place of its size and the four lists in place
of the cycles; it is inductive over the steps of the scheduler and of the manager
together, because `closeOneCycle` tries every kind of cycle before it gives up.

### PaymentReservation

| Theorem | Statement |
|---|---|
| `TypeCorrect` | `Spec => []TypeOK` |
| `AmountsAgree` | `OnePass` implies `Spec => []FinalAmountsAgree` |

Both hold for every set of nodes, every paths of any length, every amount and set of
failing nodes. `OnePass` is `~LateMessages` (no message outlives the wait for it) and
`MaxRebuilds = 0` (paths are found once). Without the first, and with two rebuilds, TLC
finds counterexamples (see Runs); one rebuild is covered by the run alone. The case that
the theorem covers is the usual one: the payment takes the paths it was given, gives some
of them up, and shortens others.

The inductive `ReservationInv` has a part for each side. The coordinator's lists fit
together (`Base`): what is done is reserved, what is queued is not, an identifier means
the path it was given for. While it is at a path it holds a reservation for that one, of
the path's flow (`Busy`), otherwise exactly for those that are done (`Free`). A message
about a path goes between neighbours on it (`Hop`), and a node is asked by the coordinator
only for a path that has left the queue (`Asked`), so that its answer is one for the path
the coordinator is at. The direct path's answer is taken without a look at its
identifier; `FirstFits` says that no answer of another first node is around then: there is
at most one, or the request for it, and only while the coordinator waits for it.
`TxFits` puts it together for a participant: its reservations are on lines of its paths,
and, once it has agreed and until the coordinator ends, they are what the coordinator
expects of it (`Expected`). `TypeCorrect` needs the same parts, without what `OnePass`
implies: a free identifier exists because there are never more paths than were found
(`Cardinality(DOMAIN c.paths)` in `Base`).

### PacketChannel

| Theorem | Statement |
|---|---|
| `TypeCorrect` | `Spec => []TypeOK` |
| `CollectedIsSent` | `Spec => []CollectedWereSent` |
| `WholeIsPassedOn` | `Spec => []NoWholeMessageWaits` |
| `ArrivedCollected` | `Spec => []ArrivedIsCollected` |

They hold for every set of messages, whatever their lengths, every packet size, any
number of senders, channels and restarts. `Origins` says where everything in a queue, in
the network and in a channel comes from: a message that was sent on that channel. With it
what a channel passes on can only be one message, for the checksum is that of the last
packet. For what has arrived, `PendingOnItsWay` follows each part of a message from the
queue over the network to its slot, and `NoGaps` says that a channel with one message has
no empty slot. `SentCount` and `BoundedMax` count packets: a message is cut into as many
as its length needs.

### Only model-checked

* `PaymentReservation`: `FinalAmountsAgree` with one rebuild. With two it is false, so a
  proof would have to follow how often each identifier was given out.
* `TrustLineAudit`: that nothing crosses (`NoCrossing`) when both nodes give commands; it
  depends on the failures of the run (see above).
* `TypeOK` of `TransactionsScheduler` says that nobody is later than `MaxLag`. That is
  false for a small `MaxLag`, and the bound that is right depends on how many pieces of
  work all calculations still have; the run shows that the chosen one is never reached.
* `CyclesTypeOK` is about lists that are filtered with `SelectSeq`, which the prover
  cannot expand.
* Everything under fairness (`CommitReachesEveryone`, `NobodyHangsBeforeVote`,
  `Delivered`, `ChangeIsAudited`, `PaymentSettles`, `ReservationsReturned`, `DueIsRun`,
  `FoundIsTried`): out of reach of the prover.

## Plan

1. `PaymentVoting`, `TrustLineLedger`, `ConfirmationQueue`, `CycleClosing` and
   `PacketChannel` (done): all their safety properties are theorems.
2. `TransactionsScheduler` and `CyclesManager` (done): the theorems that do not depend on
   bounds.
3. `PaymentReservation` (done): `TypeOK` for all constants, and `FinalAmountsAgree` when
   no paths are rebuilt, are theorems.
4. `TrustLineAudit` (done): changing limits, audit, conflict resolver; the failures under
   which its invariants hold are hypotheses of its theorems. Left: a module for opening,
   closing and the exchange of keys.
5. Path search and max flow as functions, against a reference on small graphs.

## Not modelled, and why

* Max flow, topology cache and paths: planned (5); `PaymentReservation` takes any paths.
* The search for cycles over routing tables: its result is an input of `CyclesManager`.
* Opening, accepting and closing a line and the exchange of keys: planned (4).
* Parsing of commands, results, logging, settings, history, blacklist and totals are
  single steps with no protocol.
* SQL is I/O below the models; a committed database transaction is one step of them.
* Signatures and checksums are ideal.
* Delayed tasks only emit signals; the resources manager hands on the paths that a search
  has found.
* Ethereum and gateways are stubs or notifications that no payment waits for.
* The vendored SQLite and JSON sources.
