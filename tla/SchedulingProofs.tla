-------------------------- MODULE SchedulingProofs --------------------------
(***************************************************************************)
(* The scheduler and the manager of cycles, for every number of            *)
(* transactions: the timer covers every deadline; one cycle is closed at a *)
(* time, and one is closed whenever one waits.                             *)
(***************************************************************************)
EXTENDS CyclesManager, FiniteSetTheorems, TLAPS

-----------------------------------------------------------------------------
(* The timer of the scheduler. *)

(* What a transaction waits for has a time, and times are numbers. *)
Wait == [at : Int, awakes : BOOLEAN, pieces : Int]
Times == \A t \in Scheduled : state[t] \in Wait
CoverInv == Times /\ timer \in Int /\ TimerCoversDeadlines

(* Setting the timer for the transactions of the next state covers them. *)
LEMMA AdjustCovers ==
    ASSUME Times', timer \in Int, NEW left \in Int, NEW late, Adjust(state', left, late)
    PROVE  timer' \in Int /\ TimerCoversDeadlines'
<1>1. CASE DOMAIN state' = {}
  BY <1>1 DEF Adjust, TimerCoversDeadlines, Scheduled
<1>2. CASE DOMAIN state' # {}
  <2>1. PICK t \in Minimal(state') : timer' = IF Overdue(state'[t]) THEN 0 ELSE state'[t].at
    BY <1>2 DEF Adjust
  <2>2. t \in DOMAIN state' /\ \A u \in DOMAIN state' : state'[t].at <= state'[u].at
    BY <2>1 DEF Minimal
  <2>3. \A u \in DOMAIN state' : state'[u].at \in Int
    BY DEF Times, Scheduled, Wait
  <2>4. timer' \in Int /\ timer' # -1 /\ \A u \in DOMAIN state' : timer' <= 0 \/ timer' <= state'[u].at
    BY <2>1, <2>2, <2>3 DEF Overdue
  <2> QED BY <2>4 DEF TimerCoversDeadlines, NoTimer, Scheduled
<1> QED BY <1>1, <1>2

(* What a transaction may wait for has a time. *)
LEMMA WaitsHaveTimes ==
    ASSUME NEW t, NEW x \in Wait, NEW y \in MayWait(t, x)
    PROVE  y \in Wait
<1>1. 0..MaxDelay \subseteq Int /\ 1..MaxDelay \subseteq Int /\ 1..MaxPieces \subseteq Int /\ 0 \in Int
  BY SchedulerAssumption DEF SchedulerAssumption
<1>2. x.pieces - 1 \in Int
  BY DEF Wait
<1>3. CASE t \notin StepTwo
  <2>1. y \in [at : 0..MaxDelay, awakes : BOOLEAN, pieces : {0}]
    BY <1>3 DEF MayWait
  <2> QED BY <1>1, <2>1 DEF Wait
<1>4. CASE t \in StepTwo /\ x.pieces = 0
  <2>1. \/ y \in [at : 1..MaxDelay, awakes : {FALSE}, pieces : {0}]
        \/ y \in [at : {0}, awakes : {FALSE}, pieces : 1..MaxPieces]
    BY <1>4 DEF MayWait
  <2> QED BY <1>1, <2>1 DEF Wait
<1>5. CASE t \in StepTwo /\ x.pieces # 0
  <2>1. y = [at |-> 0, awakes |-> FALSE, pieces |-> x.pieces - 1]
    BY <1>5 DEF MayWait
  <2> QED BY <1>1, <1>2, <2>1 DEF Wait
<1> QED BY <1>3, <1>4, <1>5

(* Putting, rescheduling and forgetting a transaction keep the others' times. *)
LEMMA RescheduleHasTimes ==
    ASSUME NEW t, NEW s, \A u \in DOMAIN s : s[u] \in Wait, Reschedule(t, s)
    PROVE  Times'
<1>1. PICK x \in MayWait(t, s[t]) : state' = [s EXCEPT ![t] = x]
  BY DEF Reschedule
<1>2. CASE t \in DOMAIN s
  <2>1. x \in Wait
    BY <1>1, <1>2, WaitsHaveTimes
  <2> QED BY <1>1, <2>1 DEF Times, Scheduled
<1>3. CASE t \notin DOMAIN s
  BY <1>1, <1>3 DEF Times, Scheduled
<1> QED BY <1>2, <1>3

LEMMA ForgetHasTimes ==
    ASSUME NEW t, NEW s, NEW new, \A u \in DOMAIN s : s[u] \in Wait, Forget(t, s, new)
    PROVE  Times'
BY DEF Forget, With, Without, After, Times, Scheduled, Wait

LEMMA LaterHasTimes ==
    ASSUME NEW s, \A u \in DOMAIN s : s[u] \in Wait
    PROVE  \A u \in DOMAIN Later(s) : Later(s)[u] \in Wait
BY SchedulerAssumption DEF Later, Wait, SchedulerAssumption

LEMMA RunHasTimes ==
    ASSUME NEW t, NEW s, NEW new, \A u \in DOMAIN s : s[u] \in Wait, Run(t, s, new)
    PROVE  Times'
<1>1. \A u \in DOMAIN Later(s) : Later(s)[u] \in Wait
  BY LaterHasTimes
<1>2. CASE Reschedule(t, Later(s))
  BY <1>1, <1>2, RescheduleHasTimes
<1>3. CASE Forget(t, Later(s), new)
  BY <1>1, <1>3, ForgetHasTimes
<1> QED BY <1>2, <1>3 DEF Run

LEMMA PutCovers ==
    ASSUME CoverInv, NEW t, NEW d \in Int, Put(t, d)
    PROVE  CoverInv'
<1>1. Times'
  BY DEF CoverInv, Put, With, After, Times, Scheduled, Wait
<1> QED BY <1>1, AdjustCovers DEF CoverInv, Put

LEMMA AttachCovers ==
    ASSUME CoverInv, NEW t, NEW new, Attach(t, new)
    PROVE  CoverInv'
<1>1. \A u \in DOMAIN state : state[u] \in Wait
  BY DEF CoverInv, Times, Scheduled
<1>2. Times'
  BY <1>1, RescheduleHasTimes, ForgetHasTimes DEF Attach, Times, Scheduled
<1>3. CASE Adjust(state', timer, queued)
  BY <1>2, <1>3, AdjustCovers DEF CoverInv
<1>4. CASE Forget(t, state, new) /\ new = {} /\ UNCHANGED <<timer, queued>>
  <2>1. \A u \in DOMAIN state' : u \in DOMAIN state /\ state'[u] = state[u]
    BY <1>4 DEF Forget, With, Without
  <2> QED BY <1>2, <1>4, <2>1 DEF CoverInv, TimerCoversDeadlines, Scheduled
<1> QED BY <1>3, <1>4 DEF Attach

LEMMA AwakeningCovers ==
    ASSUME CoverInv, NEW left \in Int, NEW late, NEW new, HandleAwakening(left, late, new)
    PROVE  CoverInv'
<1>1. \A u \in DOMAIN state : state[u] \in Wait
  BY DEF CoverInv, Times, Scheduled
<1>2. Times'
  <2>1. CASE UNCHANGED state
    BY <1>1, <2>1 DEF Times, Scheduled
  <2>2. ASSUME NEW t, Run(t, state, new) PROVE Times'
    BY <1>1, <2>2, RunHasTimes
  <2>3. ASSUME NEW t, Run(t, Refreshed, new) PROVE Times'
    <3>1. \A u \in DOMAIN Refreshed : Refreshed[u] \in Wait
      BY <1>1 DEF Refreshed, Scheduled, Wait
    <3> QED BY <2>3, <3>1, RunHasTimes
  <2> QED BY <2>1, <2>2, <2>3 DEF HandleAwakening
<1> QED BY <1>2, AdjustCovers DEF CoverInv, HandleAwakening

LEMMA TickCovers ==
    ASSUME CoverInv, Tick
    PROVE  CoverInv'
<1>1. \A u \in DOMAIN state : state[u] \in Wait
  BY DEF CoverInv, Times, Scheduled
<1>2. Times'
  BY <1>1, LaterHasTimes DEF Tick, Times, Scheduled
<1>3. timer' \in Int
  BY DEF CoverInv, Tick, NoTimer
<1>4. ASSUME DOMAIN state # {} PROVE
        /\ timer' # NoTimer
        /\ \A u \in DOMAIN state : timer' <= 0 \/ timer' <= Later(state)[u].at
  <2>1. timer # NoTimer /\ timer # 0 /\ timer \in Int /\ timer' = timer - 1
        /\ \A u \in DOMAIN state : timer <= 0 \/ timer <= state[u].at
    BY <1>4 DEF CoverInv, TimerCoversDeadlines, Tick, Scheduled
  <2>2. CASE timer > 0
    <3>1. \A u \in DOMAIN state : Later(state)[u].at = state[u].at - 1
      BY <1>1, <2>1, <2>2, SchedulerAssumption DEF Later, SchedulerAssumption, Wait
    <3> QED BY <1>1, <2>1, <2>2, <3>1 DEF NoTimer, Wait
  <2>3. CASE timer < 0
    BY <2>1, <2>3 DEF NoTimer
  <2> QED BY <2>1, <2>2, <2>3
<1>5. DOMAIN state' = DOMAIN state /\ state' = Later(state)
  BY DEF Tick, Later
<1> QED BY <1>2, <1>3, <1>4, <1>5 DEF CoverInv, TimerCoversDeadlines, Scheduled

(* While a transaction is scheduled the timer runs, no longer than to the
   earliest deadline (adjustAwakeningToNextTransaction). *)
THEOREM TimerCovers == Spec => []TimerCoversDeadlines
<1>1. Init => CoverInv
  BY DEF Init, CoverInv, Times, TimerCoversDeadlines, Scheduled, NoTimer
<1>2. CoverInv /\ [Next]_scheduler => CoverInv'
  <2> SUFFICES ASSUME CoverInv, [Next]_scheduler PROVE CoverInv'
    OBVIOUS
  <2>0. timer \in Int /\ NoTimer \in Int /\ 0 \in Int /\ 1..MaxDelay \subseteq Int
    BY SchedulerAssumption DEF CoverInv, NoTimer, SchedulerAssumption
  <2>1. ASSUME NEW t, Schedule(t) PROVE CoverInv'
    BY <2>0, <2>1, PutCovers DEF Schedule
  <2>2. ASSUME NEW t, Postpone(t) PROVE CoverInv'
    BY <2>0, <2>2, PutCovers DEF Postpone
  <2>3. ASSUME NEW t, Attach(t, {}) PROVE CoverInv'
    BY <2>3, AttachCovers
  <2>4. CASE Awake({})
    BY <2>0, <2>4, AwakeningCovers DEF Awake
  <2>5. CASE AwakeLate({})
    BY <2>0, <2>5, AwakeningCovers DEF AwakeLate
  <2>6. CASE Tick
    BY <2>6, TickCovers
  <2>7. CASE UNCHANGED scheduler
    BY <2>7 DEF CoverInv, Times, TimerCoversDeadlines, Scheduled, scheduler
  <2> QED BY <2>1, <2>2, <2>3, <2>4, <2>5, <2>6, <2>7 DEF Next
<1>3. CoverInv => TimerCoversDeadlines
  BY DEF CoverInv
<1> QED BY <1>1, <1>2, <1>3, PTL DEF Spec

-----------------------------------------------------------------------------
(* Who is scheduled when all transactions are initiators of cycles. *)

Nobody == Scheduled = {}
Only(t) == Scheduled = {t}
SomeWaits == \E k \in Kinds : cycles[k] # <<>>

(***************************************************************************)
(* The inductive invariant: OneAtATime, with the set of initiators instead *)
(* of its size and lists instead of cycles, and the types it needs.        *)
(***************************************************************************)
ClosesOne ==
    /\ turn \in Kinds /\ inProcess \in BOOLEAN
    /\ Nobody \/ \E t \in Transactions : Only(t)
    /\ ~Nobody => inProcess
    /\ allowed = "Always" /\ (inProcess \/ SomeWaits) => ~Nobody

-----------------------------------------------------------------------------
(* closeOneCycle. *)

\* The four kinds are tried, whichever comes first.
LEMMA AllAreTried ==
    ASSUME NEW k \in Kinds
    PROVE  /\ TriedFrom(k) \in [1..4 -> Kinds]
           /\ \A j \in Kinds : \E n \in 1..4 : TriedFrom(k)[n] = j
<1>1. Kinds = {3, 4, 5, 6}
  BY DEF Kinds
<1>2. \A j \in Kinds : NextKind(j) \in Kinds
  BY <1>1 DEF NextKind
<1>3. PICK a, b, c : a = NextKind(k) /\ b = NextKind(a) /\ c = NextKind(b)
  OBVIOUS
<1>4. TriedFrom(k) = <<k, a, b, c>> /\ a \in Kinds /\ b \in Kinds /\ c \in Kinds
  BY <1>2, <1>3 DEF TriedFrom
<1>5. {k, a, b, c} = Kinds
  BY <1>1, <1>3 DEF NextKind
<1>6. /\ TriedFrom(k)[1] = k /\ TriedFrom(k)[2] = a
      /\ TriedFrom(k)[3] = b /\ TriedFrom(k)[4] = c
  BY <1>4
<1>7. TriedFrom(k) \in [1..4 -> Kinds]
  BY <1>4
<1> QED BY <1>5, <1>6, <1>7

\* It schedules an initiator, unless it is forbidden, one is in process or no cycle is left.
LEMMA CloseOne ==
    ASSUME turn \in Kinds, inProcess \in BOOLEAN,
           NEW finished \in BOOLEAN, NEW pool, NEW cl, NEW off, NEW new,
           CloseOneCycle(finished, pool, cl, off, new)
    PROVE  /\ turn' \in Kinds /\ inProcess' \in BOOLEAN
           /\ new = {} \/ (inProcess' /\ ~Busy(finished) /\ \E i \in Unused : new = {i})
           /\ allowed = "No" \/ Busy(finished) => new = {} /\ inProcess' = inProcess
           /\ allowed # "No" /\ ~Busy(finished) /\ new = {} => ~inProcess' /\ ~SomeWaits'
<1>1. CASE allowed = "No"
  BY <1>1 DEF CloseOneCycle, StartsNone
<1>2. CASE allowed # "No"
  <2>1. PICK left : left = Clear(pool, First(cl) \cup First(off))
    OBVIOUS
  <2>2. PICK some : some = {n \in 1..4 : left[TriedFrom(turn)[n]] # <<>>}
    OBVIOUS
  <2>3. IF Busy(finished) THEN new = {} /\ cycles' = left /\ UNCHANGED <<turn, inProcess>>
        ELSE IF some = {} THEN new = {} /\ cycles' = left /\ inProcess' = FALSE /\ UNCHANGED turn
        ELSE /\ \E i \in Unused : new = {i}
             /\ turn' = TriedFrom(turn)[Min(some)]
             /\ inProcess' = TRUE
    BY <1>2, <2>1, <2>2 DEF CloseOneCycle, StartsNone
  <2>4. CASE Busy(finished)
    BY <1>2, <2>3, <2>4
  <2>5. CASE ~Busy(finished) /\ some = {}
    <3>1. \A k \in Kinds : left[k] = <<>>
      BY <2>2, <2>5, AllAreTried
    <3> QED BY <1>2, <2>3, <2>5, <3>1 DEF SomeWaits
  <2>6. CASE ~Busy(finished) /\ some # {}
    <3>1. Min(some) \in 1..4
      <4>1. \E x \in some : \A y \in some : x <= y
        BY <2>2, <2>6
      <4> QED BY <2>2, <4>1 DEF Min
    <3>2. turn' \in Kinds
      BY <2>3, <2>6, <3>1, AllAreTried
    <3> QED BY <1>2, <2>3, <2>6, <3>2
  <2> QED BY <2>4, <2>5, <2>6
<1> QED BY <1>1, <1>2

-----------------------------------------------------------------------------
(* The steps of the scheduler. *)

\* A run of the scheduler runs nobody, or one transaction, which stays or ends.
RunsNobody(new) == ran' = NoOne /\ new = {} /\ DOMAIN state' = Scheduled
Stays(t, new) == ran' = t /\ new = {} /\ DOMAIN state' = Scheduled
Ends(t, new) == ran' = t /\ DOMAIN state' = (Scheduled \ {t}) \cup new
Runs(new) == RunsNobody(new) \/ \E t \in Scheduled : Stays(t, new) \/ Ends(t, new)

\* The run of a transaction says what it waits for next, or forgets it.
LEMMA OneRuns ==
    ASSUME NEW t \in Scheduled, NEW s, DOMAIN s = Scheduled, NEW new
    PROVE  /\ Reschedule(t, s) => DOMAIN state' = Scheduled
           /\ Forget(t, s, new) => DOMAIN state' = (Scheduled \ {t}) \cup new
<1>1. Reschedule(t, s) => DOMAIN state' = Scheduled
  BY DEF Reschedule
<1>2. Forget(t, s, new) => DOMAIN state' = (Scheduled \ {t}) \cup new
  BY DEF Forget, With, Without
<1> QED BY <1>1, <1>2

\* On the timer it is the earliest that runs, if its time has come.
LEMMA AwakeningRuns ==
    ASSUME StepTwo = {}, NEW left, NEW late, NEW new, HandleAwakening(left, late, new)
    PROVE  Runs(new)
<1>1. CASE Scheduled = {}
  BY <1>1 DEF HandleAwakening, Runs, RunsNobody, Scheduled
<1>2. CASE Scheduled # {}
  <2>1. PICK t \in Minimal(state) :
               IF ~Overdue(state[t]) THEN new = {} /\ UNCHANGED state /\ ran' = NoOne
               ELSE IF t \notin StepTwo THEN Run(t, state, new)
               ELSE \E u \in Earlier(t) : Run(u, Refreshed, new)
    BY <1>2 DEF HandleAwakening
  <2>2. t \in Scheduled /\ t \notin StepTwo
    BY DEF Minimal, Scheduled
  <2>3. CASE ~Overdue(state[t])
    BY <2>1, <2>3 DEF Runs, RunsNobody, Scheduled
  <2>4. CASE Overdue(state[t])
    <3>1. Run(t, state, new)
      BY <2>1, <2>2, <2>4
    <3>2. DOMAIN Later(state) = Scheduled
      BY DEF Later, Scheduled
    <3>3. Stays(t, new) \/ Ends(t, new)
      BY <2>2, <3>1, <3>2, OneRuns DEF Run, Stays, Ends
    <3> QED BY <2>2, <3>3 DEF Runs
  <2> QED BY <2>3, <2>4
<1> QED BY <1>1, <1>2

\* With a message or a resource it is the one that waits for it.
LEMMA AttachRuns ==
    ASSUME NEW t \in Scheduled, NEW new, Attach(t, new)
    PROVE  Runs(new)
<1>1. \/ new = {} /\ (Reschedule(t, state) \/ UNCHANGED state)
      \/ Forget(t, state, new)
  BY DEF Attach
<1>2. ran' = t
  BY DEF Attach
<1>3. Stays(t, new) \/ Ends(t, new)
  BY <1>1, <1>2, OneRuns DEF Stays, Ends, Scheduled
<1> QED BY <1>3 DEF Runs

-----------------------------------------------------------------------------
(* The steps of the manager. *)

\* Cycles that are found do not start a second one.
LEMMA FindKeeps ==
    ASSUME ClosesOne, NEW cs, FindCycles(cs)
    PROVE  ClosesOne'
<1>1. PICK new \in New :
        /\ CloseOneCycle(FALSE, IF allowed = "No" THEN cycles ELSE Added(cs), closed, offline, new)
        /\ IF new = {} THEN UNCHANGED scheduler
           ELSE state' = With(state, new, After(0))
  BY DEF FindCycles
<1>2. allowed' = allowed /\ Busy(FALSE) = inProcess
  BY DEF FindCycles, Busy, ClosesOne
<1>3. /\ turn' \in Kinds /\ inProcess' \in BOOLEAN
      /\ new = {} \/ (inProcess' /\ ~inProcess /\ \E i \in Unused : new = {i})
      /\ allowed = "No" \/ inProcess => new = {} /\ inProcess' = inProcess
      /\ allowed # "No" /\ ~inProcess /\ new = {} => ~inProcess' /\ ~SomeWaits'
  <2>1. turn \in Kinds /\ inProcess \in BOOLEAN /\ FALSE \in BOOLEAN
    BY DEF ClosesOne
  <2> QED BY <1>1, <1>2, <2>1, CloseOne
<1>4. CASE new = {}
  <2>1. Nobody' = Nobody /\ \A t : Only(t)' = Only(t)
    BY <1>1, <1>4 DEF scheduler, Nobody, Only, Scheduled
  <2> QED BY <1>2, <1>3, <1>4, <2>1 DEF ClosesOne
<1>5. CASE new # {}
  <2>1. PICK i \in Unused : new = {i}
    BY <1>3, <1>5
  <2>2. Nobody /\ inProcess'
    BY <1>3, <1>5 DEF ClosesOne
  <2>3. Only(i)' /\ i \in Transactions
    BY <1>1, <1>5, <2>1, <2>2 DEF With, Only, Nobody, Scheduled, Unused
  <2>4. ~Nobody'
    BY <2>3 DEF Only, Nobody
  <2> QED BY <1>3, <2>2, <2>3, <2>4 DEF ClosesOne
<1> QED BY <1>4, <1>5

\* An initiator that ends is followed by at most one, and by one if a cycle waits.
LEMMA RanKeeps ==
    ASSUME ClosesOne, NEW new \in New, Runs(new), Ran(new)
    PROVE  ClosesOne'
<1>1. allowed' = allowed
  BY DEF Ran
<1>2. CASE DOMAIN state' = Scheduled /\ new = {} /\ UNCHANGED <<cycles, turn, inProcess>>
  <2>1. Nobody' = Nobody /\ (\A t : Only(t)' = Only(t)) /\ SomeWaits' = SomeWaits
    BY <1>2 DEF Nobody, Only, Scheduled, SomeWaits
  <2> QED BY <1>1, <1>2, <2>1 DEF ClosesOne
<1>3. CASE RunsNobody(new)
  BY <1>2, <1>3 DEF RunsNobody, Ran
<1>4. ASSUME NEW t \in Scheduled PROVE t \in Transactions /\ t # NoOne /\ Only(t)
  BY <1>4, SchedulerAssumption DEF ClosesOne, Nobody, Only
<1>5. ASSUME NEW t \in Scheduled, Stays(t, new) PROVE ClosesOne'
  BY <1>2, <1>4, <1>5 DEF Stays, Ran
<1>6. ASSUME NEW t \in Scheduled, Ends(t, new) PROVE ClosesOne'
  <2>1. t \in Transactions /\ t # NoOne /\ Only(t)
    BY <1>4
  <2>2. DOMAIN state' = new /\ ran' = t
    BY <1>6, <2>1 DEF Ends, Only
  <2>3. t \notin new
    BY DEF New, Unused
  <2>4. PICK cl, off : CloseOneCycle(TRUE, cycles, cl, off, new)
    BY <2>1, <2>2, <2>3 DEF Ran
  <2>5. ~Busy(TRUE)
    BY DEF Busy
  <2>6. /\ turn' \in Kinds /\ inProcess' \in BOOLEAN
        /\ new = {} \/ (inProcess' /\ \E i \in Unused : new = {i})
        /\ allowed # "No" /\ new = {} => ~inProcess' /\ ~SomeWaits'
    <3>1. turn \in Kinds /\ inProcess \in BOOLEAN /\ TRUE \in BOOLEAN
      BY DEF ClosesOne
    <3>2. /\ turn' \in Kinds /\ inProcess' \in BOOLEAN
          /\ new = {} \/ (inProcess' /\ ~Busy(TRUE) /\ \E i \in Unused : new = {i})
          /\ allowed # "No" /\ ~Busy(TRUE) /\ new = {} => ~inProcess' /\ ~SomeWaits'
      BY <2>4, <3>1, CloseOne
    <3> QED BY <2>5, <3>2
  <2>7. CASE new = {}
    BY <1>1, <2>2, <2>6, <2>7 DEF ClosesOne, Nobody, Scheduled
  <2>8. CASE new # {}
    <3>1. PICK i \in Unused : new = {i}
      BY <2>6, <2>8
    <3>2. i \in Transactions /\ Only(i)' /\ ~Nobody'
      BY <2>2, <3>1 DEF Unused, Only, Nobody, Scheduled
    <3> QED BY <2>6, <2>8, <3>2 DEF ClosesOne
  <2> QED BY <2>7, <2>8
<1> QED BY <1>3, <1>5, <1>6 DEF Runs

\* A step that neither runs an initiator nor looks for the next cycle keeps who is scheduled.
LEMMA OthersKeep ==
    ASSUME ClosesOne,
           DOMAIN state' = Scheduled, UNCHANGED <<cycles, turn, inProcess>>,
           allowed' # "Always" \/ allowed' = allowed
    PROVE  ClosesOne'
<1>1. Nobody' = Nobody /\ (\A t : Only(t)' = Only(t)) /\ SomeWaits' = SomeWaits
  BY DEF Nobody, Only, Scheduled, SomeWaits
<1> QED BY <1>1 DEF ClosesOne

(***************************************************************************)
(* CyclesManager::closeOneCycle launches the next cycle only when no other *)
(* is being closed, and never forgets to, whatever is found, reported,     *)
(* thrown, postponed or forbidden in between.  An initiator is never of    *)
(* type MaxFlowCalculationStepTwo.                                         *)
(***************************************************************************)
THEOREM OneCycleAtATime ==
    ASSUME StepTwo = {}
    PROVE  SpecCycles => []OneAtATime
<1>1. InitCycles => ClosesOne
  <2>1. SUFFICES ASSUME InitCycles PROVE ClosesOne
    OBVIOUS
  <2>2. Nobody
    BY <2>1 DEF InitCycles, Init, Nobody, Scheduled
  <2>3. turn \in Kinds /\ inProcess = FALSE /\ ~SomeWaits
    BY <2>1 DEF InitCycles, Kinds, SomeWaits
  <2> QED BY <2>2, <2>3 DEF ClosesOne
<1>2. ClosesOne /\ [NextCycles]_vars => ClosesOne'
  <2>1. SUFFICES ASSUME ClosesOne, [NextCycles]_vars PROVE ClosesOne'
    OBVIOUS
  <2>2. ASSUME NEW cs \in SUBSET Cycles, FindCycles(cs) PROVE ClosesOne'
    BY <2>1, <2>2, FindKeeps
  <2>3. CASE AwakeOne
    <3>1. PICK new \in New : Awake(new) /\ Ran(new)
      BY <2>3 DEF AwakeOne
    <3>2. Runs(new)
      BY <3>1, AwakeningRuns DEF Awake
    <3> QED BY <2>1, <3>1, <3>2, RanKeeps
  <2>4. CASE AwakeOneLate
    <3>1. PICK new \in New : AwakeLate(new) /\ Ran(new)
      BY <2>4 DEF AwakeOneLate
    <3>2. Runs(new)
      BY <3>1, AwakeningRuns DEF AwakeLate
    <3> QED BY <2>1, <3>1, <3>2, RanKeeps
  <2>5. CASE AttachToOne
    <3>1. PICK new \in New : \E t \in Scheduled : Attach(t, new) /\ Ran(new)
      BY <2>5 DEF AttachToOne
    <3>2. Runs(new) /\ Ran(new)
      BY <3>1, AttachRuns
    <3> QED BY <2>1, <3>2, RanKeeps
  <2>6. CASE Forbid
    <3>1. allowed' # "Always" /\ DOMAIN state' = Scheduled /\ UNCHANGED <<cycles, turn, inProcess>>
      BY <2>6 DEF Forbid, scheduler, Scheduled
    <3> QED BY <2>1, <3>1, OthersKeep
  <2>7. CASE Time
    <3>1. allowed' = allowed /\ DOMAIN state' = Scheduled /\ UNCHANGED <<cycles, turn, inProcess>>
      BY <2>7 DEF Time, Tick, Later, manager, Scheduled
    <3> QED BY <2>1, <3>1, OthersKeep
  <2>8. ASSUME NEW t \in Transactions, LoseConflict(t) PROVE ClosesOne'
    <3>1. PICK d : Put(t, d)
      BY <2>8 DEF LoseConflict, Postpone
    <3>2. t \in Scheduled
      BY <2>8 DEF LoseConflict
    <3>3. DOMAIN state' = Scheduled
      BY <3>1, <3>2 DEF Put, With, Scheduled
    <3>4. allowed' = allowed /\ UNCHANGED <<cycles, turn, inProcess>>
      BY <2>8 DEF LoseConflict
    <3> QED BY <2>1, <3>3, <3>4, OthersKeep
  <2>9. ASSUME NEW n, NEW k, Outdated(n, k) PROVE ClosesOne'
    <3>1. allowed' = allowed /\ DOMAIN state' = Scheduled /\ UNCHANGED <<cycles, turn, inProcess>>
      BY <2>9 DEF Outdated, scheduler, Scheduled
    <3> QED BY <2>1, <3>1, OthersKeep
  <2>10. CASE UNCHANGED vars
    <3>1. allowed' = allowed /\ DOMAIN state' = Scheduled /\ UNCHANGED <<cycles, turn, inProcess>>
      BY <2>10 DEF vars, scheduler, manager, Scheduled
    <3> QED BY <2>1, <3>1, OthersKeep
  <2> QED BY <2>1, <2>2, <2>3, <2>4, <2>5, <2>6, <2>7, <2>8, <2>9, <2>10 DEF NextCycles
<1>3. ClosesOne => OneAtATime
  <2>1. SUFFICES ASSUME ClosesOne PROVE OneAtATime
    OBVIOUS
  <2>2. Cardinality(Scheduled) <= 1
    <3>1. CASE Nobody
      BY <3>1, FS_EmptySet DEF Nobody
    <3>2. ASSUME NEW t, Only(t) PROVE Cardinality(Scheduled) <= 1
      BY <3>2, FS_Singleton DEF Only
    <3> QED BY <2>1, <3>1, <3>2 DEF ClosesOne
  <2>3. ASSUME NEW c, Found(c) PROVE SomeWaits
    <3>1. PICK k \in Kinds : \E i \in DOMAIN cycles[k] : cycles[k][i] = c
      BY <2>3 DEF Found
    <3>2. cycles[k] # <<>>
      BY <3>1
    <3> QED BY <3>2 DEF SomeWaits
  <2> QED BY <2>1, <2>2, <2>3 DEF OneAtATime, ClosesOne, Nobody
<1> QED BY <1>1, <1>2, <1>3, PTL DEF SpecCycles
=============================================================================
