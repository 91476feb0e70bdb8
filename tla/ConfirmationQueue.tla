------------------------- MODULE ConfirmationQueue -------------------------
(***************************************************************************)
(* The messages of one node that are sent again until they are answered:   *)
(* ConfirmationRequiredMessagesHandler with a                              *)
(* ConfirmationRequiredMessagesQueue per contractor (and equivalent), the  *)
(* timer they share, and their copy in the database.  Messages get lost;   *)
(* the process crashes and reads the copy back.  Time is counted in units  *)
(* of the first timeout (4 s).                                             *)
(***************************************************************************)
EXTENDS Integers, FiniteSets

CONSTANTS
    Contractors,     \* the neighbours, one queue each
    Transactions,    \* the transactions that post
    To,              \* To[tx]: the contractor that tx talks to
    Types,           \* the message types that need a confirmation
    BackoffLimit,    \* a timeout below it is doubled (10 minutes in the code)
    LoadDelay,       \* the wait before restored messages are sent again (150 s)
    MaxPosts,        \* bound on the messages that are posted
    MaxCrashes       \* bound on the crashes

ASSUME QueueAssumption ==
    /\ To \in [Transactions -> Contractors] /\ "none" \notin Types
    /\ BackoffLimit \in Nat \ {0} /\ LoadDelay \in Nat \ {0}
    /\ MaxPosts \in Nat /\ MaxCrashes \in Nat

VARIABLES
    up,        \* is the process running?
    queue,     \* queue[tx]: the type of the message of tx in the queue of To[tx]
    timeout,   \* timeout[c]: the wait before the next sending but one
    next,      \* next[c]: time left until the queue of c is to be sent
    timer,     \* time left until the shared timer fires, or Off
    loading,   \* time left until the timer is set after a start, or Off
    stored,    \* the messages in the database
    net,       \* the messages in transit
    posts,     \* number of messages posted
    crashes    \* number of crashes

vars == <<up, queue, timeout, next, timer, loading, stored, net, posts, crashes>>

-----------------------------------------------------------------------------

NoMessage == "none"

Off == -1

Message == [to : Contractors, tx : Transactions, type : Types]

Msg(tx, type) == [to |-> To[tx], tx |-> tx, type |-> type]

FirstTimeout == 1

\* The messages of a set of queues, given what the transactions have queued.
QueuedIn(q, cs) == {Msg(tx, q[tx]) : tx \in {t \in Transactions : To[t] \in cs /\ q[t] # NoMessage}}

Queued == QueuedIn(queue, Contractors)

\* A queue exists while it has a message.
Used(q) == {To[tx] : tx \in {t \in Transactions : q[t] # NoMessage}}

\* Mutant of Rescheduled: the timer is set for one queue at most.
MutantRescheduled(q, n, t) ==
    IF Cardinality(Used(q)) = 1 THEN n[CHOOSE c \in Used(q) : TRUE] ELSE t

\* rescheduleResending: the timer, which stood at t, is set to the closest time of
\* all queues (closestQueueSendingTimestamp), and left alone when there is none.
Rescheduled(q, n, t) ==
    IF Used(q) = {} THEN t
    ELSE n[CHOOSE c \in Used(q) : \A d \in Used(q) : n[c] <= n[d]]

\* Mutant of Doubled: the timeout grows without limit.
MutantDoubled(t) == 2 * t

\* The timeout after one more sending.
Doubled(t) == IF t < BackoffLimit THEN 2 * t ELSE t

\* Mutant of StoredAfterPost: what m takes the place of stays in the database.
MutantStoredAfterPost(m) == stored \cup {m}

\* An older message of the type of m is deleted, if the queue has one; m is inserted.
StoredAfterPost(m) ==
    LET old == {n \in Queued : n.to = m.to /\ n.type = m.type}
    IN  {n \in stored : old = {} \/ n.to # m.to \/ n.type # m.type} \cup {m}

\* Mutant of StoredAfterAnswer: the copy in the database is left.
MutantStoredAfterAnswer(m) == stored

\* The answer to m deletes all that its transaction has stored.
StoredAfterAnswer(m) == {n \in stored : n.to # m.to \/ n.tx # m.tx}

-----------------------------------------------------------------------------
(* Operations. *)

\* sendMessage of a message that needs a confirmation: enqueue takes the older
\* message of its type out of the queue, and the shared timer is set only for the
\* first message of the only queue.  A transaction posts a message of another type
\* when its last one is answered.
Post(tx, type) ==
    LET c == To[tx]
        m == Msg(tx, type)
    IN  /\ up /\ posts < MaxPosts /\ queue[tx] \in {NoMessage, type}
        /\ queue' = [t \in Transactions |->
                        IF t = tx THEN type
                        ELSE IF To[t] = c /\ queue[t] = type THEN NoMessage ELSE queue[t]]
        /\ stored' = StoredAfterPost(m)
        /\ timeout' = [timeout EXCEPT ![c] = FirstTimeout]
        /\ next' = [next EXCEPT ![c] = FirstTimeout]
        /\ timer' = IF QueuedIn(queue', Contractors) = {m}
                    THEN Rescheduled(queue', next', timer) ELSE timer
        /\ net' = net \cup {m}
        /\ posts' = posts + 1
        /\ UNCHANGED <<up, loading, crashes>>

\* The contractor has got m and its answer has come: the transaction takes it for
\* the message it waits for, and tryProcessConfirmation removes what the queue has
\* under the transaction.
Confirm(m) ==
    /\ up /\ m \in net /\ queue[m.tx] = m.type
    /\ queue' = [queue EXCEPT ![m.tx] = NoMessage]
    /\ stored' = StoredAfterAnswer(m)
    /\ timeout' = [timeout EXCEPT ![m.to] = FirstTimeout]
    /\ net' = net \ {m}
    /\ UNCHANGED <<up, next, timer, loading, posts, crashes>>

\* A message, or the answer to it, is lost.
Lose(m) ==
    /\ m \in net
    /\ net' = net \ {m}
    /\ UNCHANGED <<up, queue, timeout, next, timer, loading, stored, posts, crashes>>

\* The timer fires: sendPostponedMessages, then rescheduleResending.
Resend ==
    LET due == {c \in Used(queue) : next[c] = 0}
    IN  /\ up /\ timer = 0
        /\ net' = net \cup QueuedIn(queue, due)
        /\ timeout' = [c \in Contractors |-> IF c \in due THEN Doubled(timeout[c]) ELSE timeout[c]]
        /\ next' = [c \in Contractors |-> IF c \in due THEN timeout'[c] ELSE next[c]]
        /\ timer' = Rescheduled(queue, next', Off)
        /\ UNCHANGED <<up, queue, loading, stored, posts, crashes>>

\* delayedRescheduleResendingAfterDeserialization.
Loaded ==
    /\ up /\ loading = 0
    /\ loading' = Off
    /\ timer' = Rescheduled(queue, next, timer)
    /\ UNCHANGED <<up, queue, timeout, next, stored, net, posts, crashes>>

Passed(t) == IF t > 0 THEN t - 1 ELSE t

\* Time passes while something waits for it; a timer that has fired goes first.
Tick ==
    /\ up /\ timer # 0 /\ loading # 0 /\ {timer, loading} # {Off}
    /\ next' = [c \in Contractors |-> Passed(next[c])]
    /\ timer' = Passed(timer)
    /\ loading' = Passed(loading)
    /\ UNCHANGED <<up, queue, timeout, stored, net, posts, crashes>>

Crash ==
    /\ up /\ crashes < MaxCrashes
    /\ up' = FALSE
    /\ queue' = [tx \in Transactions |-> NoMessage]
    /\ timeout' = [c \in Contractors |-> FirstTimeout]
    /\ next' = [c \in Contractors |-> FirstTimeout]
    /\ timer' = Off /\ loading' = Off
    /\ crashes' = crashes + 1
    /\ UNCHANGED <<stored, net, posts>>

\* deserializeMessages: the queues are what the database has, and nothing is sent
\* before the delay is over.
Restart ==
    /\ ~up /\ up' = TRUE
    /\ queue' = [tx \in Transactions |->
                    IF \E m \in stored : m.tx = tx
                    THEN (CHOOSE m \in stored : m.tx = tx).type ELSE NoMessage]
    /\ loading' = IF stored = {} THEN Off ELSE LoadDelay
    /\ UNCHANGED <<timeout, next, timer, stored, net, posts, crashes>>

-----------------------------------------------------------------------------
(* Specification. *)

Init ==
    /\ up = TRUE
    /\ queue = [tx \in Transactions |-> NoMessage]
    /\ timeout = [c \in Contractors |-> FirstTimeout]
    /\ next = [c \in Contractors |-> FirstTimeout]
    /\ timer = Off /\ loading = Off
    /\ stored = {} /\ net = {}
    /\ posts = 0 /\ crashes = 0

Next ==
    \/ \E tx \in Transactions, type \in Types : Post(tx, type)
    \/ \E m \in net : Confirm(m) \/ Lose(m)
    \/ Resend \/ Loaded \/ Tick \/ Crash \/ Restart

Spec == Init /\ [][Next]_vars

\* Timers fire, the node is started again, and of the copies of a message that is
\* sent again and again one gets through and is answered.
Fairness ==
    /\ WF_vars(Resend) /\ WF_vars(Loaded) /\ WF_vars(Tick) /\ WF_vars(Restart)
    /\ \A tx \in Transactions, type \in Types : SF_vars(Confirm(Msg(tx, type)))

FairSpec == Spec /\ Fairness

-----------------------------------------------------------------------------
(* Properties. *)

\* Every variable keeps its type: the doubled timeouts stay bounded, which
\* uint16_t needs.
TypeOK ==
    /\ up \in BOOLEAN
    /\ queue \in [Transactions -> Types \cup {NoMessage}]
    /\ timeout \in [Contractors -> 1..2*BackoffLimit]
    /\ next \in [Contractors -> 0..2*BackoffLimit]
    /\ timer \in {Off} \cup 0..2*BackoffLimit
    /\ loading \in {Off} \cup 0..LoadDelay
    /\ stored \subseteq Message /\ net \subseteq Message
    /\ posts \in 0..MaxPosts /\ crashes \in 0..MaxCrashes

\* The database has what the queues have, after every post, answer and restart.
StoredIsQueued == up => stored = Queued

\* While a message is queued some timer runs that will send it: the only place that
\* starts the timer tests for the first message of the only queue.
ResendIsScheduled == up /\ Used(queue) # {} => timer # Off \/ loading # Off

\* A posted message is answered or replaced, however often it is lost and the node
\* restarts.
Delivered == \A tx \in Transactions, type \in Types :
    Msg(tx, type) \in stored ~> Msg(tx, type) \notin stored

\* The queue with its copy is an outbox that forgets nothing.
Pending == IF up THEN Queued ELSE stored

O == INSTANCE Outbox WITH pending <- Pending

ImplementsOutbox == O!Spec
=============================================================================
