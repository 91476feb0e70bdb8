------------------------- MODULE PaymentReservation -------------------------
(***************************************************************************)
(* The first half of a payment: from the command of the user until every   *)
(* participant has agreed to the final amounts.  The coordinator takes the *)
(* paths one after the other; on each it has every node reserve on the     *)
(* line from its predecessor and on the line to its successor, and it      *)
(* lowers the flow of the path to what all of them could reserve.  When    *)
(* the flows add up to the amount of the command it sends each node the    *)
(* final amounts of its paths.                                             *)
(*                                                                         *)
(*   CoordinatorPaymentTransaction       on Coordinator (co),              *)
(*   IntermediateNodePaymentTransaction  on the nodes in between,          *)
(*   ReceiverPaymentTransaction          on Receiver (both in tx).         *)
(*                                                                         *)
(* PaymentVoting goes on from there.  net is the set of messages in        *)
(* transit: one that is never taken is a lost one.                         *)
(***************************************************************************)
EXTENDS Naturals, Sequences, FiniteSetsExt, Functions

CONSTANTS
    Coordinator,    \* the node the user asked to pay
    Intermediates,  \* the nodes that paths may lead through
    Receiver,       \* the node to pay
    Command,        \* the amount of the command
    Paths,          \* the paths found first, each a sequence of nodes
    OtherPaths,     \* the paths that may be found when those do not suffice
    MaxRebuilds,    \* bound on the number of times that paths are found again
    kMaxReceiverInaccessible,
    Crashing,       \* the nodes whose process may crash
    LateMessages    \* may a message come when nobody waits for it any more?

Participants == Intermediates \cup {Receiver}

IsPath(path) ==
    /\ path \in Seq(Participants \cup {Coordinator})
    /\ Len(path) >= 2 /\ path[1] = Coordinator /\ path[Len(path)] = Receiver
    /\ IsInjective(path)

ASSUME ReservationAssumption ==
    /\ Coordinator \notin Participants
    /\ Receiver \notin Intermediates
    /\ Command \in Nat \ {0}
    /\ Paths \in Seq(Seq(Participants \cup {Coordinator})) /\ Paths # <<>>
    /\ \A path \in Range(Paths) \cup OtherPaths : IsPath(path)
    /\ MaxRebuilds \in Nat
    /\ kMaxReceiverInaccessible \in Nat \ {0}
    /\ Crashing \subseteq Participants
    /\ LateMessages \in BOOLEAN

VARIABLES
    co,         \* the transaction of the coordinator
    tx,         \* tx[n]: the transaction of this payment on participant n
    up,         \* up[n]: n has not crashed yet
    net         \* messages in transit

vars == <<co, tx, up, net>>

-----------------------------------------------------------------------------
(* Reservations and messages. *)

Direction == {"Incoming", "Outgoing"}

Reservation(peer, path, direction, amount) ==
    [peer |-> peer, path |-> path, direction |-> direction, amount |-> amount]

Without(f, keys) == [k \in DOMAIN f \ keys |-> f[k]]

With(f, key, value) == [k \in DOMAIN f \cup {key} |-> IF k = key THEN value ELSE f[k]]

\* The amount of one path.
AmountOf(p, amount) == [q \in {p} |-> amount]

OffPath(reservations, p) == {r \in reservations : r.path # p}

\* What a node keeps of its reservations when it is told the amounts of paths.
Updated(reservations, amounts) ==
    {[r EXCEPT !.amount = amounts[r.path]] : r \in {s \in reservations : s.path \in DOMAIN amounts}}

\* A reservation is only ever made smaller.
Raises(reservations, amounts) ==
    \E r \in reservations : r.path \in DOMAIN amounts /\ amounts[r.path] > r.amount

\* Mutant: amounts of paths without a reservation are not noticed.
CoversAnything(reservations, amounts) == TRUE

\* Every path with an amount has a reservation.
Covers(reservations, amounts) == {r.path : r \in Updated(reservations, amounts)} = DOMAIN amounts

Shortened(reservations, p, amount) == OffPath(reservations, p) \cup Updated(reservations, AmountOf(p, amount))

Msg(type, from, to) == [type |-> type, from |-> from, to |-> to]

Request(from, to, p, amount, config) ==
    [type |-> "ReservationRequest", from |-> from, to |-> to, path |-> p,
     amount |-> amount, config |-> config]

Response(type, from, to, p, state, amount) ==
    [type |-> type, from |-> from, to |-> to, path |-> p, state |-> state, amount |-> amount]

TTLResponse == {"TTLContinue", "TTLFinish"}

\* What starts the transaction of a participant.
Launching == {"ReceiverInit", "ReservationRequest"}

\* The steps in which a node waits for the answer to a TTLRequest.
Clarifying == {"Clarification", "ClarificationFinal", "ClarificationVoting"}

\* What a transaction takes from its coordinator only.
FromCoordinator == TTLResponse \cup {"FinalPath", "FinalAmounts"}

-----------------------------------------------------------------------------
(* The coordinator. *)

Between(path) == {path[i] : i \in 2 .. Len(path) - 1}

IsDirect(path) == Len(path) = 2

Collected(c) == MapThenSumSet(LAMBDA p : c.reserved[p], DOMAIN c.reserved)

PathsOf(c, n) == {p \in DOMAIN c.done : n \in Range(c.paths[p])}

\* mNodesFinalAmountsConfiguration: the amounts of the paths of n that are done.
Config(c, n) == [p \in PathsOf(c, n) |-> c.done[p]]

Configured(c) == {n \in Participants : PathsOf(c, n) # {}}

NoPayment ==
    [step |-> "Initialization", paths |-> <<>>, queue |-> <<>>, at |-> 0, flow |-> 0, pos |-> 0,
     reserved |-> <<>>, done |-> <<>>, direct |-> FALSE, misses |-> 0, offline |-> {},
     refused |-> {}, troubled |-> FALSE, rebuilt |-> 0]

Ended == [NoPayment EXCEPT !.step = "Ended"]

\* What is in transit after a step that takes some messages and sends some.
\* A message for a transaction that is not there is dropped where it arrives; a
\* question is gone when the one who asked has given up.
Transit(taken, sent) ==
    {m \in (net \ taken) \cup sent :
        \/ LateMessages \/ m.type \in Launching
        \/ m.to = Coordinator /\ co'.step # "Ended"
                              /\ (m.type = "TTLRequest" => tx'[m.from].step \in Clarifying)
        \/ m.to # Coordinator /\ tx'[m.to].step # "None"}

\* The coordinator becomes c, takes some messages and sends some.
Coordinate(c, taken, sent) ==
    /\ co' = c
    /\ UNCHANGED <<tx, up>>
    /\ net' = Transit(taken, sent)

\* The messages by which path p is reserved: gone when the wait for them is over.
Expired(p) ==
    IF LateMessages THEN {}
    ELSE {m \in net : m.type \in {"ReservationRequest", "ReservationResponse",
                                  "CoordinatorRequest", "CoordinatorResponse"} /\ m.path = p}

Reject(c, taken, sent) ==
    Coordinate(Ended, taken \cup Expired(co.at), sent \cup {Msg("TTLFinish", Coordinator, n) : n \in Configured(c)})

ToReceiver == {Msg("TTLContinue", Coordinator, Receiver)}

FinalPaths(path, p, last, amount) ==
    {[type |-> "FinalPath", from |-> Coordinator, to |-> path[i], path |-> p, amount |-> amount] :
        i \in 2 .. last}

StartPath(c, p, amount, taken, sent) ==
    LET path == c.paths[p]
    IN  Coordinate(
            [c EXCEPT !.step = IF IsDirect(path) THEN "ShortPath" ELSE "NeighborReservation",
                      !.at = p, !.flow = amount, !.pos = 2,
                      !.reserved = With(@, p, amount),
                      !.direct = @ \/ IsDirect(path)],
            taken,
            sent \cup {Request(Coordinator, path[2], p, amount, Config(c, path[2]))})

\* The paths of skipped turned out to have nothing left on their first line.
Skip(c, skipped) ==
    LET longer == {p \in skipped : ~IsDirect(c.paths[p])}
    IN  [c EXCEPT !.paths = Without(@, skipped),
                  !.direct = @ \/ longer # skipped,
                  !.refused = @ \cup {<<Coordinator, c.paths[p][2]>> : p \in longer},
                  !.troubled = @ \/ longer # {}]

\* What the paths manager may find when all paths are used up.
Found(c) ==
    {path \in OtherPaths :
        /\ c.troubled
        /\ c.rebuilt < MaxRebuilds
        /\ Between(path) \cap c.offline = {}
        /\ \A i \in 1 .. Len(path) - 1 : <<path[i], path[i + 1]>> \notin c.refused}

FreeId(c) == Min(0 .. Len(Paths) + MaxRebuilds \ DOMAIN c.paths)

Rebuild(c, path) ==
    [c EXCEPT !.paths = With(@, FreeId(c), path), !.queue = <<>>, !.direct = FALSE,
              !.troubled = FALSE, !.rebuilt = @ + 1]

\* The next path on whose first line something is left, a new one, or no more.
TryNextPath(c, taken, sent) ==
    LET Rest(k) == {c.queue[i] : i \in 1 .. k}
        missing == {x \in 1 .. Command : Collected(c) + x <= Command}
        all     == Skip(c, Rest(Len(c.queue)))
    IN  \/ \E k \in 1 .. Len(c.queue), amount \in missing :
            LET d == Skip(c, Rest(k - 1))
            IN  /\ ~(IsDirect(c.paths[c.queue[k]]) /\ d.direct)
                /\ StartPath([d EXCEPT !.queue = SubSeq(@, k + 1, Len(@))], c.queue[k], amount, taken, sent)
        \/ \E path \in Found(all), amount \in missing :
                StartPath(Rebuild(all, path), FreeId(all), amount, taken, sent)
        \/ Reject(c, taken, sent)

\* Mutant: the coordinator keeps its own reservation.
GiveUpHalf(c, last, taken, sent) ==
    TryNextPath(
        [c EXCEPT !.paths = Without(@, {co.at}), !.at = 0, !.flow = 0, !.pos = 0],
        taken \cup Expired(co.at),
        sent \cup FinalPaths(co.paths[co.at], co.at, last, 0))

\* The current path is given up; its first intermediate nodes, up to position
\* last, are told so.
GiveUp(c, last, taken, sent) ==
    TryNextPath(
        [c EXCEPT !.paths = Without(@, {co.at}), !.reserved = Without(@, {co.at}),
                  !.at = 0, !.flow = 0, !.pos = 0],
        taken \cup Expired(co.at),
        sent \cup FinalPaths(co.paths[co.at], co.at, last, 0))

Refused(c, from, to) == [c EXCEPT !.refused = @ \cup {<<from, to>>}, !.troubled = TRUE]

Offline(c, n) == [c EXCEPT !.offline = @ \cup {n}, !.troubled = TRUE]

\* The flow of the current path and the reservation for it, if neighbor has one.
ShortFlow(c, amount, neighbor) ==
    [c EXCEPT !.flow = amount,
              !.reserved = IF neighbor = c.paths[c.at][2] THEN With(@, c.at, amount) ELSE @]

AskFurther(c, pos, taken) ==
    LET path == c.paths[c.at]
    IN  Coordinate(
            [c EXCEPT !.step = "FurtherReservation", !.pos = pos],
            taken,
            {[type |-> "CoordinatorRequest", from |-> Coordinator, to |-> path[pos], path |-> c.at,
              amount |-> c.flow, next |-> path[pos + 1], config |-> Config(c, path[pos + 1])]})

\* All nodes of the path have reserved.
FinishPath(c, taken) ==
    LET path   == c.paths[c.at]
        d      == [c EXCEPT !.done = With(@, c.at, c.flow), !.at = 0, !.flow = 0, !.pos = 0]
        final  == FinalPaths(path, c.at, Len(path) - 1, c.flow)
        twice  == Cardinality({p \in DOMAIN d.done : IsDirect(d.paths[p])}) > 1
    IN  IF Collected(c) > Command THEN Reject(c, taken, {})
        ELSE IF Collected(c) # Command THEN TryNextPath(d, taken, final)
        ELSE IF twice THEN Reject(d, taken, final)
        ELSE Coordinate(
                [d EXCEPT !.step = "FinalAmounts"],
                taken,
                final \cup {[type |-> "FinalAmounts", from |-> Coordinator, to |-> n,
                             config |-> Config(d, n), ids |-> Configured(d) \cup {Coordinator}] : n \in Configured(d)})

Initialize ==
    /\ co.step = "Initialization"
    /\ \/ Coordinate(Ended, {}, {})
       \/ Coordinate(
            [co EXCEPT !.step = "ReceiverResponse",
                       !.paths = [p \in 0 .. Len(Paths) - 1 |-> Paths[p + 1]],
                       !.queue = [i \in 1 .. Len(Paths) |-> i - 1]],
            {}, {Msg("ReceiverInit", Coordinator, Receiver)})

\* The messages of a type that the coordinator may take now.
ToCoordinator(type) == {m \in net : m.to = Coordinator /\ m.type = type}

ReceiverResponse ==
    /\ co.step = "ReceiverResponse"
    /\ \/ \E m \in ToCoordinator("ReceiverAccepts") : TryNextPath(co, {m}, {})
       \/ \E m \in ToCoordinator("ReceiverRejects") : Coordinate(Ended, {m}, {})

NeighborResponse ==
    /\ co.step = "NeighborReservation"
    /\ \E m \in ToCoordinator("ReservationResponse") :
        IF m.path # co.at THEN Coordinate(co, {m}, {})
        ELSE \/ m.state = "Closed" /\ Reject(co, {m}, {})
             \/ m.state = "Rejected" /\ GiveUp(Refused(co, Coordinator, m.from), 1, {m}, {})
             \/ /\ m.state = "Accepted"
                /\ IF m.amount > co.flow THEN Reject(co, {m}, {})
                   ELSE AskFurther(ShortFlow(co, m.amount, m.from), 2, {m})

FurtherResponse ==
    LET path == co.paths[co.at]
        last == co.pos = Len(path) - 1
        from == path[co.pos]
        to   == path[co.pos + 1]
    IN  /\ co.step = "FurtherReservation"
        /\ \E m \in ToCoordinator("CoordinatorResponse") :
            IF m.path # co.at THEN Coordinate(co, {m}, {})
            ELSE \/ m.state = "Closed" /\ Reject(co, {m}, {})
                 \/ /\ m.state = "Rejected"
                    /\ GiveUp(Refused(co, from, to), co.pos - 1, {m}, ToReceiver)
                 \/ /\ m.state = "NextNodeInaccessible"
                    /\ to # Receiver
                    /\ GiveUp(Offline(co, to), co.pos - 1, {m}, ToReceiver)
                 \/ /\ m.state = "NextNodeInaccessible"
                    /\ to = Receiver
                    /\ LET d == [co EXCEPT !.misses = @ + 1]
                       IN  IF d.misses < kMaxReceiverInaccessible
                           THEN GiveUp(d, co.pos - 1, {m}, ToReceiver)
                           ELSE Reject(co, {m}, FinalPaths(path, co.at, co.pos - 1, 0))
                 \/ /\ m.state = "Accepted"
                    /\ LET d == ShortFlow(co, m.amount, IF co.pos = 2 THEN m.from ELSE path[2])
                       IN  IF m.amount > co.flow THEN Reject(co, {m}, {})
                           ELSE IF last THEN FinishPath(d, {m})
                           ELSE AskFurther(d, co.pos + 1, {m})

ShortPathResponse ==
    /\ co.step = "ShortPath"
    /\ \E m \in ToCoordinator("ReservationResponse") :
        IF m.state # "Accepted" THEN GiveUp(Refused(co, Coordinator, m.from), 1, {m}, {})
        ELSE IF m.amount > co.flow THEN Reject(co, {m}, {})
        ELSE FinishPath(ShortFlow(co, m.amount, m.from), {m})

TTLRequested ==
    /\ co.step \in {"NeighborReservation", "FurtherReservation", "FinalAmounts"}
    /\ \E m \in ToCoordinator("TTLRequest") :
        LET alive == \/ m.from \in Configured(co)
                     \/ m.from = Receiver /\ co.step \in {"NeighborReservation", "FurtherReservation"}
        IN  Coordinate(co, {m}, {Msg(IF alive THEN "TTLContinue" ELSE "TTLFinish", Coordinator, m.from)})

\* Once all have agreed it is up to PaymentVoting whether the answers come.
CoordinatorTimeout ==
    \/ co.step = "ReceiverResponse" /\ Coordinate(Ended, {}, {})
    \/ co.step = "NeighborReservation" /\ GiveUp(Offline(co, co.paths[co.at][2]), 1, {}, ToReceiver)
    \/ co.step = "FurtherReservation" /\ GiveUp(Offline(co, co.paths[co.at][co.pos]), co.pos, {}, ToReceiver)
    \/ /\ co.step = "ShortPath"
       /\ LET d == [co EXCEPT !.misses = @ + 1]
          IN  IF d.misses < kMaxReceiverInaccessible THEN GiveUp(d, 1, {}, {}) ELSE Reject(co, {}, {})
    \/ /\ co.step = "FinalAmounts"
       /\ \E n \in Configured(co) : tx[n].step # "Agreed"
       /\ Reject(co, {}, {})

-----------------------------------------------------------------------------
(* The participants. *)

NoTransaction ==
    [role |-> "None", step |-> "None", waits |-> {}, known |-> FALSE, last |-> 0,
     reservations |-> {}, left |-> {}]

ProlongationWaits == {"FinalAmounts", "ReservationRequest"} \cup TTLResponse

\* The transaction of n becomes t, takes some messages and sends some.
Do(n, t, taken, sent) ==
    /\ tx' = [tx EXCEPT ![n] = t]
    /\ UNCHANGED <<co, up>>
    /\ net' = Transit(taken, sent)

WaitIn(t, step, waits) == [t EXCEPT !.step = step, !.waits = waits]

\* Without reservations there is nothing to wait for.
KeepOrClose(n, t, taken, sent) ==
    Do(n, IF t.reservations = {} THEN NoTransaction ELSE WaitIn(t, "Prolongation", ProlongationWaits),
       taken, sent)

Leave(n, taken) == Do(n, NoTransaction, taken, {})

\* The messages of a type that the transaction of n takes now.
To(n, type) ==
    {m \in net : m.to = n /\ m.type = type /\ type \in tx[n].waits
                          /\ (type \in FromCoordinator => tx[n].known)}

\* A node asks the coordinator, if it has heard of one, whether the payment lives.
AskTTL(n) == IF tx[n].known THEN {Msg("TTLRequest", n, Coordinator)} ELSE {}

IntermediateReserve(n, t, m) ==
    LET u == [t EXCEPT !.reservations = Updated(@, m.config)]
        Answer(state, amount) == {Response("ReservationResponse", n, m.from, m.path, state, amount)}
    IN  \/ KeepOrClose(n, t, {m}, Answer("Rejected", 0))   \* no line to the one who asks
        \/ IF Raises(t.reservations, m.config) THEN Leave(n, {m})
           ELSE IF ~Covers(t.reservations, m.config) THEN KeepOrClose(n, u, {m}, Answer("Closed", 0))
           ELSE \/ KeepOrClose(n, u, {m}, Answer("Rejected", 0))
                \/ \E amount \in 1 .. m.amount :
                    Do(n,
                       [WaitIn(u, "CoordinatorRequest", ProlongationWaits \cup {"CoordinatorRequest"})
                            EXCEPT !.reservations = @ \cup {Reservation(m.from, m.path, "Incoming", amount)},
                                   !.last = m.path],
                       {m}, Answer("Accepted", amount))

\* A reservation request finds no transaction of the payment and starts one.
LaunchIntermediate(n) ==
    /\ tx[n].step = "None"
    /\ \E m \in net : /\ m.to = n /\ m.type = "ReservationRequest"
                      /\ IntermediateReserve(n, [NoTransaction EXCEPT !.role = "Intermediate"], m)

RequestNext(n) ==
    /\ tx[n].role = "Intermediate"
    /\ \E m \in To(n, "ReservationRequest") : IntermediateReserve(n, tx[n], m)

CoordinatorRequest(n) ==
    \E m \in To(n, "CoordinatorRequest") :
        LET t == [tx[n] EXCEPT !.known = TRUE, !.last = m.path]
        IN  \/ KeepOrClose(n, [t EXCEPT !.reservations = OffPath(@, m.path)], {m},
                           {Response("CoordinatorResponse", n, Coordinator, m.path, "Rejected", 0)})
            \/ \E amount \in 1 .. m.amount :
                Do(n,
                   [WaitIn(t, "NextNeighborResponse",
                           ProlongationWaits \cup {"ReservationResponse", "FinalPath"})
                        EXCEPT !.reservations = @ \cup {Reservation(m.next, m.path, "Outgoing", amount)}],
                   {m}, {Request(n, m.next, m.path, amount, m.config)})

NextNeighborResponse(n) ==
    \E m \in To(n, "ReservationResponse") :
        LET t == tx[n]
            Answer(state, amount) == {Response("CoordinatorResponse", n, Coordinator, t.last, state, amount)}
        IN  IF m.path # t.last THEN Do(n, t, {m}, {})
            ELSE IF m.state # "Accepted"
            THEN KeepOrClose(n, [t EXCEPT !.reservations = OffPath(@, m.path)], {m}, Answer(m.state, 0))
            ELSE IF Raises(t.reservations, AmountOf(m.path, m.amount)) THEN Leave(n, {m})
            ELSE Do(n, [WaitIn(t, "FinalPath", ProlongationWaits \cup {"FinalPath"})
                            EXCEPT !.reservations = Shortened(@, m.path, m.amount)],
                    {m}, Answer("Accepted", m.amount))

FinalPath(n) ==
    \E m \in To(n, "FinalPath") :
        LET t == tx[n]
        IN  IF m.amount = 0
            THEN KeepOrClose(n, [t EXCEPT !.reservations = OffPath(@, m.path)], {m}, {})
            ELSE IF Raises(t.reservations, AmountOf(m.path, m.amount)) THEN Leave(n, {m})
            ELSE Do(n, [WaitIn(t, "Prolongation", ProlongationWaits)
                            EXCEPT !.reservations = Shortened(@, m.path, m.amount)], {m}, {})

\* The steps of an intermediate node before the final amounts.
Reserving == {"CoordinatorRequest", "NextNeighborResponse", "FinalPath", "Prolongation", "Clarification"}

Clarified(n) ==
    /\ tx[n].role = "Intermediate" /\ tx[n].step \in Reserving
    /\ \/ \E m \in To(n, "TTLContinue") :
            Do(n, WaitIn(tx[n], "Prolongation", ProlongationWaits \cup {"FinalPath"}), {m}, {})
       \/ \E m \in To(n, "TTLFinish") : Leave(n, {m})

\* Mutant: a node whose question is not answered asks again.
AskingForEver(n) ==
    LET t == tx[n]
    IN  /\ t.role = "Intermediate" /\ t.step \in Reserving
        /\ Do(n, WaitIn(t, "Clarification", ProlongationWaits \cup {"FinalPath"}), {}, AskTTL(n))

ReservingTimeout(n) ==
    LET t == tx[n]
    IN  /\ t.role = "Intermediate"
        /\ \/ /\ t.step \in {"CoordinatorRequest", "FinalPath", "Prolongation"}
              /\ Do(n, WaitIn(t, "Clarification", ProlongationWaits \cup {"FinalPath"}), {}, AskTTL(n))
           \/ /\ t.step = "NextNeighborResponse"
              /\ KeepOrClose(n, [t EXCEPT !.reservations = OffPath(@, t.last)], Expired(t.last),
                    {Response("CoordinatorResponse", n, Coordinator, t.last, "NextNodeInaccessible", 0)})
           \/ t.step = "Clarification" /\ Leave(n, {})

-----------------------------------------------------------------------------
(* The receiver. *)

ReceiverWaits == {"ReservationRequest"} \cup TTLResponse

ReceiverInit ==
    /\ tx[Receiver].step = "None"
    /\ \E m \in net :
        /\ m.type = "ReceiverInit"
        /\ \/ Do(Receiver, NoTransaction, {m}, {Msg("ReceiverRejects", Receiver, Coordinator)})
           \/ Do(Receiver,
                 [WaitIn(NoTransaction, "Reservations", ReceiverWaits)
                    EXCEPT !.role = "Receiver", !.known = TRUE],
                 {m}, {Msg("ReceiverAccepts", Receiver, Coordinator)})

Incoming(reservations) == MapThenSumSet(LAMBDA r : r.amount, reservations)

ReceiverReserve(t, m, taken) ==
    LET w == [t EXCEPT !.waits = ReceiverWaits]
        u == [w EXCEPT !.reservations = Updated(@, m.config)]
        Answer(state, amount) == {Response("ReservationResponse", Receiver, m.from, m.path, state, amount)}
    IN  \/ Do(Receiver, w, taken, Answer("Rejected", 0))   \* no line to the one who asks
        \/ IF Raises(t.reservations, m.config) THEN Leave(Receiver, taken)
           ELSE IF ~Covers(t.reservations, m.config) THEN Do(Receiver, u, taken, Answer("Closed", 0))
           ELSE \/ Do(Receiver, u, taken, Answer("Rejected", 0))
                \/ \E amount \in 1 .. m.amount :
                    LET v == [u EXCEPT !.reservations = @ \cup {Reservation(m.from, m.path, "Incoming", amount)}]
                        total == Incoming(v.reservations)
                    IN  IF total > Command THEN Do(Receiver, v, taken, Answer("Closed", 0))
                        ELSE Do(Receiver,
                                IF total < Command THEN v
                                ELSE WaitIn(v, "FinalAmounts", ReceiverWaits \cup {"FinalAmounts"}),
                                taken, Answer("Accepted", amount))

\* The steps of the receiver in which it takes a request as it comes.
ReceiverRequest ==
    LET t == tx[Receiver]
    IN  /\ t.role = "Receiver"
        /\ \E m \in To(Receiver, "ReservationRequest") :
            \/ /\ t.step \in {"Reservations", "Clarification", "ClarificationFinal"}
               /\ ReceiverReserve(t, m, {m})
            \/ /\ t.step \in {"FinalAmounts", "ClarificationVoting"} /\ t.left = {}
               /\ ReceiverReserve([t EXCEPT !.step = "Reservations"], m, {m})
            \/ /\ t.step = "VotesChecking"
               /\ Do(Receiver,
                     [WaitIn(t, "ClarificationVoting", ReceiverWaits) EXCEPT !.left = {m}],
                     {m}, AskTTL(Receiver))
            \/ t.left # {} /\ Leave(Receiver, {m})

ReceiverContinue ==
    LET t == tx[Receiver]
    IN  /\ t.role = "Receiver"
        /\ \E m \in To(Receiver, "TTLContinue") :
            \/ t.step = "Reservations" /\ Do(Receiver, WaitIn(t, t.step, ReceiverWaits), {m}, {})
            \/ t.step = "FinalAmounts" /\ Do(Receiver, WaitIn(t, t.step, ReceiverWaits \cup {"FinalAmounts"}), {m}, {})
            \/ t.step = "VotesChecking" /\ Do(Receiver, WaitIn(t, t.step, ReceiverWaits), {m}, {})
            \/ /\ t.step \in {"Clarification", "ClarificationFinal", "ClarificationVoting"}
               /\ t.left = {}
               /\ Do(Receiver, WaitIn(t, "VotesChecking", TTLResponse), {m}, {})
            \/ t.left # {} /\ Leave(Receiver, {m})

ReceiverFinish ==
    /\ tx[Receiver].role = "Receiver"
    /\ \E m \in To(Receiver, "TTLFinish") : Leave(Receiver, {m})

ReceiverTimeout ==
    LET t == tx[Receiver]
        Ask(step, waits) == Do(Receiver, WaitIn(t, step, waits), {}, AskTTL(Receiver))
    IN  /\ t.role = "Receiver"
        /\ \/ t.step = "Reservations" /\ Ask("Clarification", ReceiverWaits)
           \/ t.step = "FinalAmounts" /\ Ask("ClarificationFinal", ReceiverWaits \cup {"FinalAmounts"})
           \/ t.step = "VotesChecking" /\ Ask("ClarificationVoting", ReceiverWaits)
           \/ /\ t.step \in {"Clarification", "ClarificationFinal", "ClarificationVoting"}
              /\ t.left = {}
              /\ Leave(Receiver, {})
           \/ \E m \in t.left :
                ReceiverReserve([t EXCEPT !.step = "Reservations", !.left = {}], m, {})

-----------------------------------------------------------------------------
(* The final amounts. *)

\* One incoming and one outgoing reservation of the same amount on each path;
\* the receiver has incoming ones only.
DirectionsFit(t) ==
    \A r \in t.reservations :
        IF t.role = "Receiver" THEN r.direction = "Incoming"
        ELSE \E s \in t.reservations :
                /\ {s, r} = {q \in t.reservations : q.path = r.path}
                /\ s.direction # r.direction /\ s.amount = r.amount

\* The node agrees, or it refuses: its reservations do not fit, a neighbour
\* takes no part in the payment, or the receipt of the coordinator is not good.
FinalAmounts(n) ==
    \E m \in To(n, "FinalAmounts") :
        LET t == [tx[n] EXCEPT !.reservations = Updated(@, m.config)]
        IN  \/ Leave(n, {m})
            \/ /\ ~Raises(tx[n].reservations, m.config) /\ Covers(tx[n].reservations, m.config)
               /\ DirectionsFit(t)
               /\ {r.peer : r \in t.reservations} \subseteq m.ids
               /\ Do(n, WaitIn(t, "Agreed", {}), {m}, {})

\* Reservations and transactions before the vote are in memory only.
Crash(n) ==
    /\ n \in Crashing /\ up[n] /\ tx[n].step # "None"
    /\ tx' = [tx EXCEPT ![n] = NoTransaction]
    /\ up' = [up EXCEPT ![n] = FALSE]
    /\ UNCHANGED co
    /\ net' = Transit({}, {})

-----------------------------------------------------------------------------

Init ==
    /\ co = NoPayment
    /\ tx = [n \in Participants |-> NoTransaction]
    /\ up = [n \in Participants |-> TRUE]
    /\ net = {}

Coordinating ==
    \/ Initialize \/ ReceiverResponse \/ NeighborResponse \/ FurtherResponse
    \/ ShortPathResponse \/ TTLRequested \/ CoordinatorTimeout

Receiving == ReceiverInit \/ ReceiverRequest \/ ReceiverContinue \/ ReceiverFinish \/ ReceiverTimeout

Participating(n) ==
    \/ LaunchIntermediate(n) \/ RequestNext(n) \/ CoordinatorRequest(n) \/ NextNeighborResponse(n)
    \/ FinalPath(n) \/ Clarified(n) \/ ReservingTimeout(n)
    \/ FinalAmounts(n) \/ Crash(n)

Next == Coordinating \/ Receiving \/ \E n \in Participants : Participating(n)

\* The scheduler wakes every transaction whose time is over.
TimeIsOver(n) ==
    \/ n = Coordinator /\ (Initialize \/ CoordinatorTimeout)
    \/ n = Receiver /\ ReceiverTimeout
    \/ n \in Participants /\ ReservingTimeout(n)

Fairness == \A n \in Participants \cup {Coordinator} : WF_vars(TimeIsOver(n))

Spec == Init /\ [][Next]_vars

FairSpec == Spec /\ Fairness

-----------------------------------------------------------------------------
(* Properties. *)

\* Every state and message has its form (a payment never reserves more than
\* the amount of the command on a line of a path).
TypeOK ==
    /\ co.step \in {"Initialization", "ReceiverResponse", "NeighborReservation", "FurtherReservation",
                    "ShortPath", "FinalAmounts", "Ended"}
    /\ DOMAIN co.reserved \subseteq DOMAIN co.paths
    /\ DOMAIN co.done \subseteq DOMAIN co.reserved
    /\ co.flow \in 0 .. Command
    /\ \A r \in UNION {tx[n].reservations : n \in Participants} :
        r.direction \in Direction /\ r.amount \in 1 .. Command

\* What the coordinator has put together for n: its two lines on each path.
Expected(c, n) ==
    UNION {LET path == c.paths[p]
               i    == CHOOSE j \in DOMAIN path : path[j] = n
           IN  {Reservation(path[i - 1], p, "Incoming", c.done[p])}
                    \cup IF n = Receiver THEN {} ELSE {Reservation(path[i + 1], p, "Outgoing", c.done[p])}
           : p \in PathsOf(c, n)}

\* Whoever has agreed to the final amounts holds, on the two lines of each of
\* its paths and on no other, what the coordinator has put together; the
\* coordinator itself holds the flows of all paths, which add up to the amount
\* of the command.  Refusals, lost answers and stale reservations must not show
\* in it, and neither must path identifiers that are given out again, as far as
\* paths are found again once (MaxRebuilds <= 1) and no message comes when nobody
\* waits for it any more (~LateMessages).  Beyond that the code gives no such
\* promise: a late answer, or one under an earlier use of an identifier, can then
\* be taken for that of another path.
FinalAmountsAgree ==
    co.step = "FinalAmounts" =>
        /\ co.reserved = co.done
        /\ Collected(co) = Command
        /\ \A n \in Participants : tx[n].step = "Agreed" => tx[n].reservations = Expected(co, n)

\* The reservations come to an end or to the final amounts, and then no node
\* that has not agreed to them holds reservations for the payment any more,
\* whatever is lost and whoever was told.
PaymentSettles ==
    <>[](/\ co.step \in {"FinalAmounts", "Ended"}
         /\ \A n \in Participants : tx[n].step = "Agreed" \/ tx[n].reservations = {})

=============================================================================
