---------------------- MODULE ConfirmationQueueProofs ----------------------
(***************************************************************************)
(* What holds of the confirmed delivery for every number of contractors,   *)
(* transactions and message types.                                         *)
(***************************************************************************)
EXTENDS ConfirmationQueue, WellFoundedInduction, TLAPS

Times == 0..2*BackoffLimit

Less == {e \in Nat \X Nat : e[1] < e[2]}

\* A set of times has an earliest one.
LEMMA EarliestTime ==
    ASSUME NEW T \in SUBSET Nat, T # {}
    PROVE  \E s \in T : \A u \in T : s <= u
<1>1. IsWellFoundedOn(Less, Nat)
  BY NatLessThanWellFounded DEF OpToRel, Less
<1>2. PICK s \in T : \A u \in T : <<u, s>> \notin Less
  BY <1>1, WFMin
<1>3. ASSUME NEW u \in T PROVE s <= u
  <2>1. s \in Nat /\ u \in Nat /\ <<u, s>> \notin Less
    BY <1>2
  <2>2. QED
    BY <2>1 DEF Less
<1>4. QED
  BY <1>3

\* The queue that is to be sent first: the timer is set to its time.
LEMMA ClosestTime ==
    ASSUME NEW q, NEW n \in [Contractors -> Times], NEW t, Used(q) # {}
    PROVE  Rescheduled(q, n, t) \in Times
<1> DEFINE T == {n[c] : c \in Used(q)}
<1>1. Used(q) \subseteq Contractors
  BY QueueAssumption DEF Used
<1>2. T # {} /\ T \in SUBSET Nat
  BY <1>1, QueueAssumption DEF Times
<1>3. PICK s \in T : \A u \in T : s <= u
  BY <1>2, EarliestTime
<1>4. \E c \in Used(q) : \A d \in Used(q) : n[c] <= n[d]
  BY <1>3
<1>5. QED
  BY <1>1, <1>4 DEF Rescheduled

-----------------------------------------------------------------------------
(* Type correctness. *)

LEMMA MsgType ==
    ASSUME NEW tx \in Transactions, NEW type \in Types
    PROVE  Msg(tx, type) \in Message
BY QueueAssumption DEF Msg, Message

LEMMA QueuedType == TypeOK => QueuedIn(queue, Contractors) \subseteq Message
<1> SUFFICES ASSUME TypeOK, NEW tx \in Transactions, queue[tx] # NoMessage
             PROVE  Msg(tx, queue[tx]) \in Message
  BY DEF QueuedIn
<1>1. queue[tx] \in Types
  BY DEF TypeOK
<1> QED BY <1>1, MsgType

\* The timer keeps its type when it is set for the queues.
LEMMA TimerType ==
    ASSUME NEW q, NEW n \in [Contractors -> Times], NEW t \in {Off} \cup Times
    PROVE  Rescheduled(q, n, t) \in {Off} \cup Times
<1>1. CASE Used(q) = {}
  BY <1>1 DEF Rescheduled
<1>2. CASE Used(q) # {}
  BY <1>2, ClosestTime
<1> QED BY <1>1, <1>2

LEMMA InitType == Init => TypeOK
<1> SUFFICES ASSUME Init PROVE TypeOK
  OBVIOUS
<1>1. FirstTimeout \in 1..2*BackoffLimit /\ FirstTimeout \in 0..2*BackoffLimit
  BY QueueAssumption DEF FirstTimeout
<1> QED BY <1>1, QueueAssumption DEF Init, TypeOK

LEMMA NextType == TypeOK /\ [Next]_vars => TypeOK'
<1> SUFFICES ASSUME TypeOK, [Next]_vars PROVE TypeOK'
  OBVIOUS
<1> USE QueueAssumption
<1>0. FirstTimeout \in 1..2*BackoffLimit /\ FirstTimeout \in 0..2*BackoffLimit
  BY DEF FirstTimeout
<1>1. ASSUME NEW tx \in Transactions, NEW type \in Types, Post(tx, type) PROVE TypeOK'
  <2>1. queue' \in [Transactions -> Types \cup {NoMessage}]
    BY <1>1 DEF Post, TypeOK
  <2>2. /\ timeout' \in [Contractors -> 1..2*BackoffLimit]
        /\ next' \in [Contractors -> Times]
    BY <1>0, <1>1 DEF Post, TypeOK, Times
  <2>3. timer' \in {Off} \cup Times
    BY <1>1, <2>2, TimerType DEF Post, TypeOK, Times
  <2>4. stored' \subseteq Message /\ net' \subseteq Message
    BY <1>1, MsgType DEF Post, TypeOK, StoredAfterPost
  <2>5. posts' \in 0..MaxPosts
    BY <1>1 DEF Post, TypeOK
  <2> QED BY <1>1, <2>1, <2>2, <2>3, <2>4, <2>5 DEF Post, TypeOK, Times
<1>2. ASSUME NEW m \in net, Confirm(m) PROVE TypeOK'
  BY <1>0, <1>2 DEF Confirm, TypeOK, StoredAfterAnswer
<1>3. ASSUME NEW m \in net, Lose(m) PROVE TypeOK'
  BY <1>3 DEF Lose, TypeOK
<1>4. CASE Resend
  <2>1. \A t \in 1..2*BackoffLimit : Doubled(t) \in 1..2*BackoffLimit
    BY DEF Doubled
  <2>2. timeout' \in [Contractors -> 1..2*BackoffLimit]
    BY <1>4, <2>1 DEF Resend, TypeOK
  <2>3. next' \in [Contractors -> Times]
    BY <1>4, <2>2 DEF Resend, TypeOK, Times
  <2>4. timer' \in {Off} \cup Times
    BY <1>4, <2>3, TimerType DEF Resend
  <2>5. net' \subseteq Message
    <3>1. ASSUME NEW cs PROVE QueuedIn(queue, cs) \subseteq QueuedIn(queue, Contractors)
      BY DEF QueuedIn
    <3> QED BY <1>4, <3>1, QueuedType DEF Resend, TypeOK
  <2> QED BY <1>4, <2>2, <2>3, <2>4, <2>5 DEF Resend, TypeOK, Times
<1>5. CASE Loaded
  <2>1. timer' \in {Off} \cup Times
    BY <1>5, TimerType DEF Loaded, TypeOK, Times
  <2> QED BY <1>5, <2>1 DEF Loaded, TypeOK, Times
<1>6. CASE Tick
  <2>1. \A t \in Times : Passed(t) \in Times
    BY DEF Passed, Times
  <2>2. \A t \in 0..LoadDelay : Passed(t) \in 0..LoadDelay
    BY DEF Passed
  <2>3. Passed(Off) = Off
    BY DEF Passed, Off
  <2> QED BY <1>6, <2>1, <2>2, <2>3 DEF Tick, TypeOK, Times
<1>7. CASE Crash
  <2>1. /\ timeout' \in [Contractors -> 1..2*BackoffLimit]
        /\ next' \in [Contractors -> 0..2*BackoffLimit]
    BY <1>0, <1>7 DEF Crash
  <2>2. queue' \in [Transactions -> Types \cup {NoMessage}]
    BY <1>7 DEF Crash
  <2>3. up' \in BOOLEAN
    BY <1>7 DEF Crash
  <2>4. crashes' \in 0..MaxCrashes
    <3>1. crashes \in 0..MaxCrashes /\ crashes < MaxCrashes /\ crashes' = crashes + 1
      BY <1>7 DEF Crash, TypeOK
    <3> QED BY <3>1
  <2> QED BY <1>7, <2>1, <2>2, <2>3, <2>4 DEF Crash, TypeOK
<1>8. CASE Restart
  BY <1>8 DEF Restart, TypeOK, Message
<1>9. CASE UNCHANGED vars
  BY <1>9 DEF vars, TypeOK
<1> QED BY <1>1, <1>2, <1>3, <1>4, <1>5, <1>6, <1>7, <1>8, <1>9 DEF Next

\* Every variable keeps its type; in particular the timeout that is doubled at each
\* sending stays below 20 minutes, within the uint16_t the code keeps it in.
THEOREM TypeCorrect == Spec => []TypeOK
BY InitType, NextType, PTL DEF Spec

-----------------------------------------------------------------------------
(* The copy in the database. *)

\* What a queue can be restored from: one message for a transaction, addressed to the
\* contractor the transaction talks to.
StoredIsRestorable ==
    /\ \A m \in stored : m.tx \in Transactions /\ m.type \in Types /\ m = Msg(m.tx, m.type)
    /\ \A m, n \in stored : m.tx = n.tx => m = n

NetIsAddressed == \A m \in net : m.to = To[m.tx]

CopyInv == TypeOK /\ StoredIsQueued /\ StoredIsRestorable /\ NetIsAddressed

\* What the queues have can be restored.
LEMMA QueuedIsRestorable == TypeOK /\ stored = Queued => StoredIsRestorable
<1> SUFFICES ASSUME TypeOK, stored = Queued PROVE StoredIsRestorable
  OBVIOUS
<1>1. ASSUME NEW m \in stored
      PROVE  /\ m.tx \in Transactions /\ m.type = queue[m.tx] /\ m.type \in Types
             /\ m = Msg(m.tx, m.type)
  BY DEF Queued, QueuedIn, TypeOK, Msg
<1>2. ASSUME NEW m \in stored, NEW n \in stored, m.tx = n.tx PROVE m = n
  BY <1>1, <1>2
<1> QED BY <1>1, <1>2 DEF StoredIsRestorable

\* A post replaces, in the copy, what the queue has of the type.
LEMMA PostStores ==
    ASSUME CopyInv, NEW tx \in Transactions, NEW type \in Types, Post(tx, type)
    PROVE  stored' = {n \in stored : n.to # To[tx] \/ n.type # type} \cup {Msg(tx, type)}
<1>1. stored = Queued
  BY DEF CopyInv, StoredIsQueued, Post
<1>2. Msg(tx, type).to = To[tx] /\ Msg(tx, type).type = type
  BY DEF Msg
<1> QED BY <1>1, <1>2 DEF Post, StoredAfterPost

\* So do the queues.
LEMMA PostQueues ==
    ASSUME TypeOK, NEW tx \in Transactions, NEW type \in Types, Post(tx, type)
    PROVE  Queued' = {n \in Queued : n.to # To[tx] \/ n.type # type} \cup {Msg(tx, type)}
<1> USE QueueAssumption
<1>1. type # NoMessage
  BY DEF NoMessage
<1>2. ASSUME NEW t \in Transactions
      PROVE  queue'[t] = IF t = tx THEN type
                         ELSE IF To[t] = To[tx] /\ queue[t] = type THEN NoMessage ELSE queue[t]
  BY DEF Post
<1>3. ASSUME NEW m
      PROVE  m \in Queued' <=> \E t \in Transactions : queue'[t] # NoMessage /\ m = Msg(t, queue'[t])
  BY DEF Queued, QueuedIn
<1>4. ASSUME NEW m
      PROVE  m \in Queued <=> \E t \in Transactions : queue[t] # NoMessage /\ m = Msg(t, queue[t])
  BY DEF Queued, QueuedIn
<1>5. queue[tx] \in {NoMessage, type}
  BY DEF Post
<1>6. ASSUME NEW t, NEW y PROVE Msg(t, y).to = To[t] /\ Msg(t, y).type = y
  BY DEF Msg
<1>7. ASSUME NEW m \in Queued'
      PROVE  m \in {n \in Queued : n.to # To[tx] \/ n.type # type} \cup {Msg(tx, type)}
  BY <1>2, <1>3, <1>4, <1>6, <1>7
<1>8. ASSUME NEW m \in Queued, m.to # To[tx] \/ m.type # type PROVE m \in Queued'
  <2>1. PICK t \in Transactions : queue[t] # NoMessage /\ m = Msg(t, queue[t])
    BY <1>4
  <2>2. t # tx /\ queue'[t] = queue[t]
    BY <1>2, <1>5, <1>6, <1>8, <2>1
  <2> QED BY <1>3, <2>1, <2>2
<1>9. Msg(tx, type) \in Queued'
  BY <1>1, <1>2, <1>3
<1> QED BY <1>7, <1>8, <1>9

\* A confirmation takes one message from the queues and from the copy.
LEMMA ConfirmRemoves ==
    ASSUME CopyInv, NEW m \in net, Confirm(m)
    PROVE  m \in stored /\ stored' = stored \ {m} /\ Queued' = stored'
<1> USE QueueAssumption
<1>1. stored = Queued /\ StoredIsRestorable /\ TypeOK
  BY DEF CopyInv, StoredIsQueued, Confirm
<1>2. m.tx \in Transactions /\ queue[m.tx] = m.type /\ m.type # NoMessage
  BY <1>1 DEF TypeOK, Message, Confirm, NoMessage
<1>3. m = Msg(m.tx, m.type)
  BY <1>1 DEF CopyInv, NetIsAddressed, TypeOK, Message, Msg
<1>4. m \in stored
  BY <1>1, <1>2, <1>3 DEF Queued, QueuedIn
<1>5. stored' = stored \ {m}
  <2>1. stored' = {n \in stored : n.to # m.to \/ n.tx # m.tx}
    BY DEF Confirm, StoredAfterAnswer
  <2>2. ASSUME NEW n \in stored PROVE n = m <=> n.to = m.to /\ n.tx = m.tx
    BY <1>1, <1>4 DEF StoredIsRestorable
  <2> QED BY <2>1, <2>2
<1>6. Queued' = Queued \ {m}
  <2>1. ASSUME NEW t \in Transactions
        PROVE  queue'[t] = IF t = m.tx THEN NoMessage ELSE queue[t]
    BY <1>1 DEF Confirm, TypeOK
  <2>2. ASSUME NEW n
        PROVE  /\ n \in Queued <=> \E t \in Transactions : queue[t] # NoMessage /\ n = Msg(t, queue[t])
               /\ n \in Queued' <=> \E t \in Transactions : queue'[t] # NoMessage /\ n = Msg(t, queue'[t])
    BY DEF Queued, QueuedIn
  <2>3. ASSUME NEW t, NEW y PROVE Msg(t, y).tx = t
    BY DEF Msg
  <2> QED BY <1>2, <1>3, <2>1, <2>2, <2>3
<1> QED BY <1>1, <1>4, <1>5, <1>6

\* A restart reads back what was stored.
LEMMA RestartRestores ==
    ASSUME CopyInv, Restart
    PROVE  Queued' = stored /\ stored' = stored
<1>1. StoredIsRestorable /\ stored' = stored
  BY DEF CopyInv, Restart
<1>2. ASSUME NEW t \in Transactions
      PROVE  queue'[t] = IF \E m \in stored : m.tx = t
                         THEN (CHOOSE m \in stored : m.tx = t).type ELSE NoMessage
  BY DEF Restart
<1>3. ASSUME NEW t \in Transactions, NEW m \in stored, m.tx = t PROVE queue'[t] = m.type
  <2>1. (CHOOSE n \in stored : n.tx = t) = m
    BY <1>1, <1>3 DEF StoredIsRestorable
  <2> QED BY <1>2, <1>3, <2>1
<1>4. ASSUME NEW n
      PROVE  n \in Queued' <=> \E t \in Transactions : queue'[t] # NoMessage /\ n = Msg(t, queue'[t])
  BY QueueAssumption DEF Queued, QueuedIn
<1>5. ASSUME NEW m \in stored PROVE m \in Queued'
  <2>1. m.tx \in Transactions /\ m.type # NoMessage /\ m = Msg(m.tx, m.type)
    BY <1>1, QueueAssumption DEF StoredIsRestorable, NoMessage
  <2> QED BY <1>3, <1>4, <2>1
<1>6. ASSUME NEW n \in Queued' PROVE n \in stored
  <2>1. PICK t \in Transactions : queue'[t] # NoMessage /\ n = Msg(t, queue'[t])
    BY <1>4, <1>6
  <2>2. PICK m \in stored : m.tx = t
    BY <1>2, <2>1
  <2> QED BY <1>1, <1>3, <2>1, <2>2 DEF StoredIsRestorable
<1> QED BY <1>1, <1>5, <1>6

LEMMA InitCopy == Init => CopyInv
<1> SUFFICES ASSUME Init PROVE CopyInv
  OBVIOUS
<1>1. TypeOK
  BY InitType
<1>2. Queued = {}
  BY DEF Init, Queued, QueuedIn
<1> QED BY <1>1, <1>2 DEF Init, CopyInv, StoredIsQueued, StoredIsRestorable, NetIsAddressed

\* What is sent is addressed to the contractor of its transaction.
LEMMA NetStep == CopyInv /\ [Next]_vars => NetIsAddressed'
<1> SUFFICES ASSUME CopyInv, [Next]_vars, NEW m \in net' \ net PROVE m.to = To[m.tx]
  BY DEF CopyInv, NetIsAddressed
<1>1. ASSUME NEW t, NEW y PROVE Msg(t, y).to = To[t] /\ Msg(t, y).tx = t
  BY DEF Msg
<1>2. ASSUME NEW tx \in Transactions, NEW type \in Types, Post(tx, type) PROVE m.to = To[m.tx]
  BY <1>1, <1>2 DEF Post
<1>3. CASE Resend
  <2>1. PICK t \in Transactions : m = Msg(t, queue[t])
    BY <1>3 DEF Resend, QueuedIn
  <2> QED BY <1>1, <2>1
<1>4. CASE net' \subseteq net
  BY <1>4
<1> QED BY <1>2, <1>3, <1>4 DEF Next, vars, Confirm, Lose, Loaded, Tick, Crash, Restart

LEMMA NextCopy == CopyInv /\ [Next]_vars => CopyInv'
<1> SUFFICES ASSUME CopyInv, [Next]_vars PROVE CopyInv'
  OBVIOUS
<1>1. TypeOK' /\ NetIsAddressed'
  BY NextType, NetStep DEF CopyInv
<1>2. (TypeOK /\ stored = Queued)' => StoredIsRestorable'
  BY QueuedIsRestorable, PTL
<1>3. ASSUME stored' = Queued' PROVE CopyInv'
  BY <1>1, <1>2, <1>3 DEF CopyInv, StoredIsQueued
<1>4. ASSUME UNCHANGED <<up, queue, stored>> PROVE CopyInv'
  BY <1>1, <1>4 DEF CopyInv, StoredIsQueued, StoredIsRestorable, Queued, QueuedIn
<1>5. ASSUME NEW tx \in Transactions, NEW type \in Types, Post(tx, type) PROVE CopyInv'
  <2>1. up /\ stored = Queued
    BY <1>5 DEF CopyInv, StoredIsQueued, Post
  <2> QED BY <1>3, <1>5, <2>1, PostStores, PostQueues DEF CopyInv
<1>6. ASSUME NEW m \in net, Confirm(m) PROVE CopyInv'
  BY <1>3, <1>6, ConfirmRemoves
<1>7. CASE Crash
  BY <1>1, <1>7 DEF CopyInv, StoredIsQueued, StoredIsRestorable, Crash
<1>8. CASE Restart
  BY <1>3, <1>8, RestartRestores
<1>9. CASE (\E m \in net : Lose(m)) \/ Resend \/ Loaded \/ Tick \/ UNCHANGED vars
  BY <1>4, <1>9 DEF Lose, Resend, Loaded, Tick, vars
<1> QED BY <1>5, <1>6, <1>7, <1>8, <1>9 DEF Next

LEMMA CopyInductive == Spec => []CopyInv
BY InitCopy, NextCopy, PTL DEF Spec

\* The copy in the database equals the queues whenever the node runs, whatever was
\* posted, replaced, confirmed, and however often the node crashed.
THEOREM CopyIsExact == Spec => []StoredIsQueued
<1>1. CopyInv => StoredIsQueued
  BY DEF CopyInv
<1> QED BY <1>1, CopyInductive, PTL

-----------------------------------------------------------------------------
(* Timers. *)

\* While a message is queued on a running node a timer is set that will send it: a
\* post that finds no other message sets it, and it stops only with empty queues.
THEOREM ResendsScheduled == Spec => []ResendIsScheduled
<1>1. Init => ResendIsScheduled
  BY DEF Init, ResendIsScheduled, Used
<1>2. CopyInv /\ ResendIsScheduled /\ [Next]_vars => ResendIsScheduled'
  <2> SUFFICES ASSUME CopyInv, ResendIsScheduled, [Next]_vars, up', Used(queue') # {}
               PROVE  timer' # Off \/ loading' # Off
    BY DEF ResendIsScheduled
  <2> USE QueueAssumption
  <2>0. TypeOK /\ TypeOK'
    BY NextType DEF CopyInv
  <2>1. ASSUME NEW n \in [Contractors -> Times], NEW t, Used(queue') # {}
        PROVE  Rescheduled(queue', n, t) # Off
    BY <2>1, ClosestTime DEF Times, Off
  <2>2. next' \in [Contractors -> Times]
    BY <2>0 DEF TypeOK, Times
  <2>3. ASSUME NEW tx \in Transactions, NEW type \in Types, Post(tx, type)
        PROVE  timer' # Off \/ loading' # Off
    <3>1. CASE Queued' = {Msg(tx, type)}
      BY <2>1, <2>2, <2>3, <3>1 DEF Post, Queued
    <3>2. CASE Queued' # {Msg(tx, type)}
      <4>1. Queued # {}
        BY <2>0, <2>3, <3>2, PostQueues
      <4>2. Used(queue) # {} /\ up
        BY <2>3, <4>1 DEF Queued, QueuedIn, Used, Post
      <4> QED BY <2>3, <3>2, <4>2 DEF Post, ResendIsScheduled, Queued
    <3> QED BY <3>1, <3>2
  <2>4. ASSUME NEW m \in net, Confirm(m) PROVE timer' # Off \/ loading' # Off
    <3>1. m.tx \in Transactions /\ queue[m.tx] # NoMessage /\ up
      BY <2>0, <2>4 DEF Confirm, TypeOK, Message, NoMessage
    <3>2. Used(queue) # {}
      BY <3>1 DEF Used
    <3> QED BY <2>4, <3>1, <3>2 DEF Confirm, ResendIsScheduled
  <2>5. CASE Resend \/ Loaded
    BY <2>1, <2>2, <2>5 DEF Resend, Loaded
  <2>6. CASE Tick
    BY <2>0, <2>6 DEF Tick, TypeOK, Passed, ResendIsScheduled, Off
  <2>7. CASE Restart
    <3>1. stored # {}
      BY <2>7 DEF Restart, Used
    <3> QED BY <2>7, <3>1 DEF Restart, Off
  <2>8. CASE UNCHANGED <<up, queue, timer, loading>>
    BY <2>8 DEF ResendIsScheduled
  <2>9. ~Crash
    BY DEF Crash
  <2> QED BY <2>3, <2>4, <2>5, <2>6, <2>7, <2>8, <2>9 DEF Next, Lose, vars
<1> QED BY <1>1, <1>2, CopyInductive, PTL DEF Spec

-----------------------------------------------------------------------------
(* Implementation of the outbox. *)

\* The queue with its copy implements the outbox: nothing that was posted is
\* forgotten before its answer or its successor, over crashes too.
THEOREM QueueImplementsOutbox == Spec => ImplementsOutbox
<1>1. Init => O!Init
  BY DEF Init, O!Init, Pending, Queued, QueuedIn
<1>2. CopyInv /\ CopyInv' /\ [Next]_vars => [O!Next]_Pending
  <2> SUFFICES ASSUME CopyInv, CopyInv', [Next]_vars, stored' # stored
               PROVE  O!Next
    BY DEF CopyInv, StoredIsQueued, Pending
  <2>0. Pending = stored /\ Pending' = stored'
    BY DEF CopyInv, StoredIsQueued, Pending
  <2>1. ASSUME NEW tx \in Transactions, NEW type \in Types, Post(tx, type) PROVE O!Next
    <3> DEFINE m == Msg(tx, type)
    <3>1. m \in O!Message /\ m.to = To[tx] /\ m.type = type /\ m.tx = tx
      BY MsgType DEF Message, O!Message, Msg
    <3>2. stored = Queued /\ queue[tx] \in {NoMessage, type} /\ TypeOK
      BY <2>1 DEF CopyInv, StoredIsQueued, Post
    <3>3. ASSUME NEW n \in stored, n.tx = tx PROVE n.type = type
      BY <3>2, <3>3 DEF Queued, QueuedIn, Msg
    <3>4. stored' = (stored \ O!Superseded(m)) \cup {m}
      BY <2>0, <2>1, <3>1, <3>3, PostStores DEF O!Superseded
    <3> QED BY <2>0, <3>1, <3>4 DEF O!Next, O!Post
  <2>2. ASSUME NEW m \in net, Confirm(m) PROVE O!Next
    <3>1. m \in O!Message
      BY DEF CopyInv, TypeOK, Message, O!Message
    <3> QED BY <2>0, <2>2, <3>1, ConfirmRemoves DEF O!Next, O!Confirm
  <2> QED BY <2>1, <2>2 DEF Next, vars, Lose, Resend, Loaded, Tick, Crash, Restart
<1> QED BY <1>1, <1>2, CopyInductive, PTL DEF Spec, ImplementsOutbox, O!Spec
=============================================================================
