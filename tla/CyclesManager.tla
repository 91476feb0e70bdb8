---------------------------- MODULE CyclesManager ----------------------------
(***************************************************************************)
(* Which of the cycles that were found is closed next. One is closed at a  *)
(* time: the scheduler tells when the initiator of the last one is         *)
(* forgotten, and the manager has the next one scheduled. Cycles over a    *)
(* closed line or an offline node, reported by an initiator, are dropped.  *)
(* The transactions here are the initiators (CycleCloserInitiator); the    *)
(* others share the scheduler with them in TransactionsScheduler.          *)
(***************************************************************************)
EXTENDS TransactionsScheduler, SequencesExt

CONSTANTS
    Cycles,         \* cycles that may be found, with
    LengthOf,       \*   their number of nodes, and
    Lines, OffNodes,\* lines and nodes that may be reported, with
    Through,        \*   those that a cycle goes through
    MaxWaiting,     \* bound on the cycles that wait at a time
    MaxReports,     \* bound on the reports a list keeps
    MaxConflicts    \* bound on how often one initiator loses its reservations

ASSUME CyclesAssumption ==
    /\ LengthOf \in [Cycles -> 3..6]
    /\ Through \in [Cycles -> SUBSET (Lines \cup OffNodes)]
    /\ MaxWaiting \in Nat /\ MaxReports \in Nat /\ MaxConflicts \in Nat

VARIABLES
    cycles,     \* mThreeNodesCycles to mSixNodesCycles
    turn,       \* mCurrentCycleClosingState
    inProcess,  \* mIsCycleInProcess
    closing,    \* the cycle of the initiator that is scheduled
    closed,     \* mClosedTrustLines
    offline,    \* mOfflineNodes
    allowed,    \* mIsRunCycleClosingTransactions: "Always" so far, "No", or "Again"
    conflicts   \* history: how often this initiator has lost its reservations
lists == <<closed, offline>>
manager == <<cycles, turn, inProcess, closing, lists, allowed, conflicts>>
vars == <<scheduler, manager>>

Kinds == 3..6
NextKind(k) == IF k = 6 THEN 3 ELSE k + 1
\* The kinds in the order they are tried, the current one first.
TriedFrom(k) == <<k, NextKind(k), NextKind(NextKind(k)), NextKind(NextKind(NextKind(k)))>>
Unused == Transactions \ Scheduled
New == {{}} \cup {{i} : i \in Unused}

\* clearClosedCycles takes the oldest report of each list.
First(list) == IF list = <<>> THEN {} ELSE {Head(list)}
Rest(list) == IF list = <<>> THEN list ELSE Tail(list)
Clear(pool, gone) == [k \in Kinds |-> SelectSeq(pool[k], LAMBDA c : gone \cap Through[c] = {})]

MutantBusy(finished) == inProcess /\ ~finished /\ turn # 3
Busy(finished) == inProcess /\ ~finished

StartsNone(finished, new) == new = {} /\ closing' = IF finished THEN NoOne ELSE closing

(* closeOneCycle, when an initiator has finished or cycles were added; new is
   the initiator it schedules. *)
CloseOneCycle(finished, pool, cl, off, new) ==
    IF allowed = "No"
    THEN StartsNone(finished, new) /\ cycles' = pool /\ closed' = cl /\ offline' = off /\ UNCHANGED <<turn, inProcess>>
    ELSE LET left == Clear(pool, First(cl) \cup First(off))
             some == {n \in 1..4 : left[TriedFrom(turn)[n]] # <<>>}
         IN
         /\ closed' = Rest(cl) /\ offline' = Rest(off)
         /\ IF Busy(finished) THEN StartsNone(finished, new) /\ cycles' = left /\ UNCHANGED <<turn, inProcess>>
            ELSE IF some = {} THEN StartsNone(finished, new) /\ cycles' = left /\ inProcess' = FALSE /\ UNCHANGED turn
            ELSE /\ \E i \in Unused : new = {i}
                 /\ turn' = TriedFrom(turn)[Min(some)]
                 /\ closing' = Head(left[turn'])
                 /\ cycles' = [left EXCEPT ![turn'] = Tail(@)]
                 /\ inProcess' = TRUE

MutantAdded(cs) == [k \in Kinds |-> cycles[k] \o SetToSeq({c \in cs : LengthOf[c] >= k})]
MutantFront(cs) == [k \in Kinds |-> SetToSeq({c \in cs : LengthOf[c] = k}) \o cycles[k]]
Added(cs) == [k \in Kinds |-> cycles[k] \o SetToSeq({c \in cs : LengthOf[c] = k})]

(* A transaction that looks for cycles adds what it found and asks for the next. *)
FindCycles(cs) ==
    /\ Cardinality(cs) \in 1..MaxWaiting - MapThenSumSet(LAMBDA k : Len(cycles[k]), Kinds)
    /\ UNCHANGED <<allowed, conflicts>>
    /\ \E new \in New :
        /\ CloseOneCycle(FALSE, IF allowed = "No" THEN cycles ELSE Added(cs), closed, offline, new)
        /\ IF new = {} THEN UNCHANGED scheduler
           ELSE /\ state' = With(state, new, After(0))
                /\ Adjust(state', timer, queued)
                /\ Ordered(<<>>) /\ ran' = NoOne

(* A run of the scheduler. An initiator may report why it fails; if it is
   forgotten, the scheduler first tells the manager. *)
Reported(list, places) ==
    {list} \cup IF Len(list) < MaxReports THEN {Append(list, p) : p \in places} ELSE {}
Ran(new) ==
    /\ IF ran' = NoOne
       THEN new = {} /\ UNCHANGED <<cycles, turn, inProcess, closing, lists>>
       ELSE \E cl \in Reported(closed, Lines) : \E off \in Reported(offline, OffNodes) :
            IF ran' \in DOMAIN state'
            THEN new = {} /\ closed' = cl /\ offline' = off
                 /\ UNCHANGED <<cycles, turn, inProcess, closing>>
            ELSE CloseOneCycle(TRUE, cycles, cl, off, new)
    /\ conflicts' = IF ran' \in {NoOne} \cup DOMAIN state' THEN conflicts ELSE 0
    /\ UNCHANGED allowed
AwakeOne == \E new \in New : Awake(new) /\ Ran(new)
AwakeOneLate == \E new \in New : AwakeLate(new) /\ Ran(new)
AttachToOne == \E new \in New : \E t \in Scheduled : Attach(t, new) /\ Ran(new)

\* updateOfflineNodesAndClosedTLLists: the oldest reports are dropped after half an hour.
Outdated(n, k) ==
    /\ n \in 0..Len(closed) /\ k \in 0..Len(offline) /\ n + k > 0
    /\ closed' = SubSeq(closed, n + 1, Len(closed))
    /\ offline' = SubSeq(offline, k + 1, Len(offline))
    /\ UNCHANGED <<scheduler, cycles, turn, inProcess, closing, allowed, conflicts>>

\* SubsystemsController::setFlags.
Forbid ==
    /\ allowed' = IF allowed = "No" THEN "Again" ELSE "No"
    /\ UNCHANGED <<scheduler, cycles, turn, inProcess, closing, lists, conflicts>>

(* resolveReservationConflict: an initiator that loses its reservations is postponed. *)
LoseConflict(t) ==
    /\ t \in Scheduled /\ conflicts < MaxConflicts
    /\ Postpone(t)
    /\ conflicts' = conflicts + 1
    /\ UNCHANGED <<cycles, turn, inProcess, closing, lists, allowed>>

Time == Tick /\ UNCHANGED manager

InitCycles ==
    /\ Init
    /\ cycles = [k \in Kinds |-> <<>>] /\ turn = 3 /\ inProcess = FALSE /\ closing = NoOne
    /\ closed = <<>> /\ offline = <<>> /\ allowed = "Always" /\ conflicts = 0
NextCycles ==
    \/ \E cs \in SUBSET Cycles : FindCycles(cs)
    \/ AwakeOne \/ AwakeOneLate \/ AttachToOne \/ Forbid \/ Time
    \/ \E t \in Transactions : LoseConflict(t)
    \/ \E n, k \in 0..MaxReports : Outdated(n, k)

(* The timer of the scheduler; and an initiator that is run again and again ends
   some day, for every stage of it has a timeout (CycleClosing). *)
OneEnds == AwakeOne /\ ran' # NoOne /\ ran' \notin DOMAIN state'
FairCycles ==
    /\ WF_vars(AwakeOne) /\ WF_vars(AwakeOneLate) /\ SF_vars(Time)
    /\ SF_vars(OneEnds)
SpecCycles == InitCycles /\ [][NextCycles]_vars /\ FairCycles
-----------------------------------------------------------------------------
Found(c) == \E k \in Kinds : \E i \in DOMAIN cycles[k] : cycles[k][i] = c

(* Types. *)
CyclesTypeOK ==
    /\ \A k \in Kinds : \A i \in DOMAIN cycles[k] : LengthOf[cycles[k][i]] = k
    /\ turn \in Kinds /\ inProcess \in BOOLEAN /\ allowed \in {"Always", "No", "Again"}
    /\ \A i \in DOMAIN closed : closed[i] \in Lines
    /\ \A i \in DOMAIN offline : offline[i] \in OffNodes
    /\ closing \in Cycles \cup {NoOne} /\ conflicts \in 0..MaxConflicts

(* One cycle is closed at a time ("prevent launching closing cycle if another one
   in closing process"). The flag that says so is down when none is, also when the
   scheduler drops an initiator for an exception, and no cycle waits while none is
   closed; unless closing was forbidden when an initiator ended (closeOneCycle
   returns before it lowers the flag, and no cycle is closed any more). *)
OneAtATime ==
    /\ Cardinality(Scheduled) <= 1
    /\ Scheduled # {} => inProcess
    /\ allowed = "Always" /\ (inProcess \/ \E c \in Cycles : Found(c)) => Scheduled # {}

(* closeOneCycle goes on with the kind it closed last while its list is not
   empty, and takes the first of the list.  So a cycle that waits is tried, or
   dropped for a report, unless closing is forbidden, or cycles of one other kind
   are found again and again and the turn stays with them: nothing else, neither
   cycles of its own kind that come later nor a list that is empty, makes it wait
   for ever.  Cycles may be found without end, also those that wait already. *)
PassedOver(c) == Found(c) /\ closing # c /\ allowed = "Always"
More(k) == Len(cycles'[k]) > Len(cycles[k])
FoundIsTried ==
    \A c \in Cycles : <>[]PassedOver(c) =>
        \E k \in Kinds \ {LengthOf[c]} : <>[](turn = k) /\ []<><<More(k)>>_vars
=============================================================================
