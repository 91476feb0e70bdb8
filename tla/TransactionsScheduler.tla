------------------------- MODULE TransactionsScheduler -------------------------
(***************************************************************************)
(* The scheduler of a node: the transactions that have not ended, what     *)
(* each waits for, and one timer for all. A transaction runs when its time *)
(* has come, when a message it waits for arrives or with a resource; its   *)
(* run says what it waits for next, or that it ends. Time is kept as what  *)
(* is left of it, and is negative for what is overdue.                     *)
(***************************************************************************)
EXTENDS Integers, Sequences, FiniteSets

CONSTANTS
    Transactions,
    StepTwo,    \* those of type MaxFlowCalculationStepTwo
    Payers,     \* those that ask for resources, the coordinators of payments
    MaxDelay,   \* bound on the time a transaction waits
    MaxPieces,  \* bound on the contractors a calculation has left
    MaxLag      \* bound on how late a transaction is counted

NoOne == {}
ASSUME SchedulerAssumption ==
    /\ IsFiniteSet(Transactions) /\ NoOne \notin Transactions
    /\ StepTwo \subseteq Transactions /\ Payers \subseteq Transactions \ StepTwo
    /\ MaxDelay \in Nat \ {0} /\ MaxPieces \in Nat /\ MaxLag \in Nat

VARIABLES
    state,  \* mTransactions: what each scheduled transaction waits for
    timer,  \* mProcessingTimer: the time left, or NoTimer
    queued, \* a handleAwakening that setting the timer again came too late to cancel
    order,  \* the StepTwo transactions by mTimeStarted
    ran     \* history: the transaction the last step ran
scheduler == <<state, timer, queued, order, ran>>

NoTimer == -1
Waiting == [at : -MaxLag..MaxDelay, awakes : BOOLEAN, pieces : 0..MaxPieces]
After(d) == [at |-> d, awakes |-> FALSE, pieces |-> 0]

Scheduled == DOMAIN state
With(s, ts, x) == [t \in DOMAIN s \cup ts |-> IF t \in ts THEN x ELSE s[t]]
Without(s, t) == [u \in DOMAIN s \ {t} |-> s[u]]
Later(s) == [t \in DOMAIN s |-> [s[t] EXCEPT !.at = IF @ > -MaxLag THEN @ - 1 ELSE @]]
Overdue(x) == x.at <= 0

MutantMinimal(s) == {t \in DOMAIN s : \A u \in DOMAIN s : s[u].at <= 0 \/ s[t].at <= s[u].at}
\* transactionWithMinimalAwakeningTimestamp; equal ones come in the order of their addresses.
Minimal(s) == {t \in DOMAIN s : \A u \in DOMAIN s : s[t].at <= s[u].at}

MutantAdjust(s, left, late) ==
    IF DOMAIN s = {} \/ left # NoTimer THEN timer' = left /\ queued' = late
    ELSE (\E t \in Minimal(s) : timer' = IF Overdue(s[t]) THEN 0 ELSE s[t].at) /\ queued' = late
(* adjustAwakeningToNextTransaction, with the time left on the timer. Without
   transactions the timer stays as it is; if it has already expired, its handler
   may run in spite of being replaced. *)
Adjust(s, left, late) ==
    IF DOMAIN s = {} THEN timer' = left /\ queued' = late
    ELSE /\ \E t \in Minimal(s) : timer' = IF Overdue(s[t]) THEN 0 ELSE s[t].at
         /\ queued' \in {late, late \/ left = 0}

Ordered(new) == order' = SelectSeq(order \o new, LAMBDA t : t \in DOMAIN state')
MutantStarted(t) == <<>>
Started(t) == IF t \in StepTwo \ Scheduled THEN <<t>> ELSE <<>>

(* scheduleTransaction runs it at once, postponeTransaction (a subsidiary
   transaction, or one that lost its reservations) after a delay. *)
Put(t, d) ==
    /\ state' = With(state, {t}, After(d))
    /\ Adjust(state', timer, queued)
    /\ Ordered(Started(t)) /\ ran' = NoOne
Schedule(t) == t \notin Scheduled \cup StepTwo /\ Put(t, 0)
Postpone(t) == (t \in Scheduled => t \notin StepTwo) /\ \E d \in 1..MaxDelay : Put(t, d)

\* What t may wait for after a run. A calculation does one contractor in a run.
MayWait(t, x) ==
    IF t \notin StepTwo THEN [at : 0..MaxDelay, awakes : BOOLEAN, pieces : {0}]
    ELSE IF x.pieces = 0
    THEN [at : 1..MaxDelay, awakes : {FALSE}, pieces : {0}] \cup [at : {0}, awakes : {FALSE}, pieces : 1..MaxPieces]
    ELSE {[at |-> 0, awakes |-> FALSE, pieces |-> p] : p \in {x.pieces - 1} \ {0}}

\* run() and processTransactionState; an ending initiator may leave another one scheduled.
Reschedule(t, s) == \E x \in MayWait(t, s[t]) : state' = [s EXCEPT ![t] = x]
Forget(t, s, new) == state' = With(Without(s, t), new, After(0))

(* A message that t waits for and is awakened by, or a resource for it, which
   runs it whatever it waits for. An exception leaves the timer as it is, unless
   forgetting t has scheduled another transaction. *)
Attach(t, new) ==
    /\ t \in Scheduled /\ (state[t].awakes \/ t \in Payers)
    /\ \/ /\ new = {}
          /\ Reschedule(t, state) \/ UNCHANGED state
          /\ Adjust(state', timer, queued)
       \/ /\ Forget(t, state, new)
          /\ Adjust(state', timer, queued) \/ (new = {} /\ UNCHANGED <<timer, queued>>)
    /\ Ordered(<<>>) /\ ran' = t

(* getEarlierTransaction: of the calculations, the one that started first, but t
   itself if it is not calculating and none is earlier. The others begin to wait anew. *)
Calculates(t) == t \in StepTwo \cap Scheduled /\ state[t].pieces > 0
Before(t, u) == \E i, j \in DOMAIN order : i < j /\ order[i] = t /\ order[j] = u
Earlier(t) ==
    LET candidates == {u \in Scheduled : Calculates(u)} \cup {t}
    IN {u \in candidates : \A v \in candidates : ~Before(v, u)}
Refreshed ==
    IF Cardinality(Scheduled) = 1 THEN state
    ELSE [t \in Scheduled |-> IF Calculates(t) /\ Overdue(state[t]) THEN [state[t] EXCEPT !.at = 0]
                              ELSE state[t]]

(* A run on the timer takes a moment, in which the others grow older. *)
Run(t, s, new) ==
    /\ \/ new = {} /\ Reschedule(t, Later(s))
       \/ Forget(t, Later(s), new)
    /\ ran' = t

\* handleAwakening, of the timer itself or of one that was to be cancelled.
HandleAwakening(left, late, new) ==
    /\ IF Scheduled = {} THEN new = {} /\ UNCHANGED state /\ ran' = NoOne
       ELSE \E t \in Minimal(state) :
               IF ~Overdue(state[t]) THEN new = {} /\ UNCHANGED state /\ ran' = NoOne
               ELSE IF t \notin StepTwo THEN Run(t, state, new)
               ELSE \E u \in Earlier(t) : Run(u, Refreshed, new)
    /\ Adjust(state', left, late)
    /\ Ordered(<<>>)
Awake(new) == timer = 0 /\ HandleAwakening(NoTimer, queued, new)
AwakeLate(new) == queued /\ HandleAwakening(timer, FALSE, new)

Tick ==
    /\ timer # 0 /\ ~queued
    /\ timer # NoTimer \/ Scheduled # {}
    /\ timer' = IF timer = NoTimer THEN NoTimer ELSE timer - 1
    /\ state' = Later(state)
    /\ ran' = NoOne
    /\ UNCHANGED <<queued, order>>

Init == state = <<>> /\ timer = NoTimer /\ queued = FALSE /\ order = <<>> /\ ran = NoOne
Next ==
    \/ \E t \in Transactions : Schedule(t) \/ Postpone(t) \/ Attach(t, {})
    \/ Awake({}) \/ AwakeLate({}) \/ Tick
Spec == Init /\ [][Next]_scheduler /\ WF_scheduler(Awake({})) /\ WF_scheduler(AwakeLate({})) /\ SF_scheduler(Tick)
-----------------------------------------------------------------------------
(* Types. No transaction is ever as late as is counted, whatever the others do. *)
TypeOK ==
    /\ Scheduled \subseteq Transactions /\ state \in [Scheduled -> Waiting]
    /\ \A t \in Scheduled : state[t].at > -MaxLag
    /\ timer \in -1..MaxDelay /\ queued \in BOOLEAN
    /\ \A t \in Scheduled : t \in StepTwo <=> \E i \in DOMAIN order : order[i] = t

(* While a transaction is scheduled, the one timer runs, and no longer than to
   the earliest of the times the transactions wait for, although they come and
   go, throw, and set it by turns (transactionWithMinimalAwakeningTimestamp). *)
TimerCoversDeadlines ==
    Scheduled # {} => queued \/ (timer # NoTimer /\ \A t \in Scheduled : timer <= 0 \/ timer <= state[t].at)

(* A transaction whose time has come runs, unless a message ends it or a
   conflict of reservations postpones it before (postponeTransaction). *)
IsDue(t) == t \in Scheduled /\ Overdue(state[t])
DueIsRun == \A t \in Transactions : IsDue(t) ~> (ran = t \/ ~IsDue(t))
=============================================================================
