---------------------- MODULE PaymentReservationProofs ----------------------
(***************************************************************************)
(* Theorems about PaymentReservation, for every set of nodes and paths and *)
(* every amount: its types, and that a node which agrees to the final      *)
(* amounts holds what the coordinator has put together for it.             *)
(*                                                                         *)
(* The second one needs that a path identifier means one path: that no     *)
(* message comes when nobody waits for it any more, and that paths are not *)
(* found again, which gives out the identifiers of dropped paths (OnePass).*)
(* With either of the two TLC finds a node that agrees to something else.  *)
(***************************************************************************)
EXTENDS PaymentReservation, FiniteSetTheorems, WellFoundedInduction, TLAPS

-----------------------------------------------------------------------------
(* What the variables range over. *)

Nodes == Participants \cup {Coordinator}
Routes == Range(Paths) \cup OtherPaths
Ids == 0 .. Len(Paths) + MaxRebuilds
Amounts == 1 .. Command
Partial(S) == UNION {[D -> S] : D \in SUBSET Ids}

\* An identifier means one path, from the command to the final amounts.
OnePass == ~LateMessages /\ MaxRebuilds = 0

\* The steps in which the coordinator is at a path.
Reaching == {"NeighborReservation", "FurtherReservation", "ShortPath"}
CoRecord ==
    [step : Reaching \cup {"Initialization", "ReceiverResponse", "FinalAmounts", "Ended"},
     paths : Partial(Routes), queue : Seq(Ids), at : Ids, flow : 0 .. Command, pos : Nat,
     reserved : Partial(Amounts), done : Partial(Amounts), direct : BOOLEAN, misses : Nat,
     offline : SUBSET Nodes, refused : SUBSET (Nodes \X Nodes), troubled : BOOLEAN,
     rebuilt : 0 .. MaxRebuilds]

-----------------------------------------------------------------------------
(***************************************************************************)
(* The inductive invariant.  The coordinator first: its lists of paths fit *)
(* together (Base), it holds reservations for the paths that are done      *)
(* (Free) and, while it is at a path, for that one too (Busy).             *)
(***************************************************************************)

Queued(c, p) == \E i \in 1 .. Len(c.queue) : c.queue[i] = p

Base(c) ==
    /\ c \in CoRecord
    /\ DOMAIN c.done \subseteq DOMAIN c.reserved /\ DOMAIN c.reserved \subseteq DOMAIN c.paths
    /\ \A i, j \in 1 .. Len(c.queue) : c.queue[i] = c.queue[j] => i = j
    /\ \A i \in 1 .. Len(c.queue) : c.queue[i] \in DOMAIN c.paths \ DOMAIN c.reserved
    /\ Cardinality(DOMAIN c.paths) <= Len(Paths) + c.rebuilt
    /\ OnePass => /\ \A p \in DOMAIN c.paths : p + 1 \in DOMAIN Paths /\ c.paths[p] = Paths[p + 1]
                  /\ \A p \in DOMAIN c.done : c.reserved[p] = c.done[p]

Free(c) == DOMAIN c.reserved = DOMAIN c.done

Busy(c) ==
    /\ c.at \in DOMAIN c.paths \ DOMAIN c.done
    /\ DOMAIN c.reserved = DOMAIN c.done \cup {c.at}
    /\ c.flow \in Amounts
    /\ OnePass => c.reserved[c.at] = c.flow

CoFits(c) ==
    /\ Base(c)
    /\ IF c.step \in Reaching THEN Busy(c) ELSE Free(c)
    /\ c.step = "ShortPath" => IsDirect(c.paths[c.at])
    /\ c.step = "NeighborReservation" => ~IsDirect(c.paths[c.at]) /\ c.pos = 2
    /\ c.step = "FurtherReservation" => c.pos \in 2 .. Len(c.paths[c.at]) - 1
    /\ c.step = "Initialization" => c = NoPayment
    /\ c.step = "ReceiverResponse" => c.pos = 0
    /\ c.step = "FinalAmounts" => Collected(c) = Command
    /\ c.step = "Ended" => c = Ended

(***************************************************************************)
(* Messages and participants.  With OnePass a message about a path goes    *)
(* between neighbours on it (Hop), the coordinator asks for a path that it *)
(* has taken from its list, and it asks the first node of it first         *)
(* (Asked).                                                                *)
(***************************************************************************)

Hop(p, a, b) ==
    /\ p + 1 \in DOMAIN Paths
    /\ \E i \in 1 .. Len(Paths[p + 1]) - 1 : Paths[p + 1][i] = a /\ Paths[p + 1][i + 1] = b

Asked(c, n, p) ==
    /\ c.step \notin {"Initialization", "ReceiverResponse"}
    /\ ~Queued(c, p)
    /\ c.step \in Reaching /\ c.pos = 2 /\ p = c.at => n = c.paths[p][2]

Requests == [type : {"ReservationRequest"}, from : Nodes, to : Participants, path : Ids,
             amount : Amounts, config : Partial(Amounts)]

RequestFits(m) == m \in Requests /\ (OnePass => Hop(m.path, m.from, m.to))

MsgFits(c, m) ==
    /\ m.type = "ReservationRequest" => RequestFits(m)
    /\ m.type = "ReservationResponse" =>
          /\ m.from \in Participants /\ m.path \in Ids
          /\ m.state = "Accepted" => m.amount \in Amounts
          /\ OnePass => Hop(m.path, m.to, m.from)
    /\ m.type = "CoordinatorRequest" =>
          /\ m.to \in Participants /\ m.next \in Participants /\ m.path \in Ids
          /\ m.amount \in Amounts /\ m.config \in Partial(Amounts)
          /\ OnePass => Hop(m.path, m.to, m.next) /\ Asked(c, m.to, m.path)
    /\ m.type = "CoordinatorResponse" =>
          /\ m.from \in Participants
          /\ m.state = "Accepted" => m.amount \in Amounts
          /\ OnePass => Asked(c, m.from, m.path)
    /\ m.type = "FinalPath" => m.path \in Ids /\ m.amount \in 0 .. Command
    /\ m.type = "FinalAmounts" =>
          /\ m.config \in Partial(Amounts)
          /\ c.step \in {"FinalAmounts", "Ended"}
          /\ c.step = "FinalAmounts" => m.config = Config(c, m.to)

\* A participant holds reservations on the lines of its paths; one that has
\* agreed holds those that the coordinator expects.
Reservations == [peer : Nodes, path : Ids, direction : Direction, amount : Amounts]
WaitTypes == ProlongationWaits \cup {"CoordinatorRequest", "ReservationResponse", "FinalPath"}
TxRecord ==
    [role : {"None", "Intermediate", "Receiver"},
     step : {"None", "CoordinatorRequest", "NextNeighborResponse", "FinalPath", "Prolongation",
             "Reservations", "FinalAmounts", "VotesChecking", "Agreed"} \cup Clarifying,
     waits : SUBSET WaitTypes, known : BOOLEAN, last : Ids,
     reservations : SUBSET Reservations, left : SUBSET Requests]

OnHop(n, r) == IF r.direction = "Incoming" THEN Hop(r.path, r.peer, n) ELSE Hop(r.path, n, r.peer)

TxFits(c, n, t) ==
    /\ t \in TxRecord
    /\ t.role = "Receiver" => n = Receiver
    /\ t.left # {} => t.role = "Receiver" /\ t.step = "ClarificationVoting" /\ t.waits = ReceiverWaits
    /\ \A m \in t.left : RequestFits(m) /\ m.to = n
    /\ t.step = "Agreed" => t.waits = {} /\ c.step \in {"FinalAmounts", "Ended"}
    /\ OnePass =>
          /\ \A r \in t.reservations : OnHop(n, r)
          /\ t.step = "NextNeighborResponse" \/ "ReservationResponse" \in t.waits => Asked(c, n, t.last)
          /\ t.step = "Agreed" /\ c.step = "FinalAmounts" => t.reservations = Expected(c, n)

\* The request for the first line of a path, or its answer: there is one at most,
\* and it is for the path that the coordinator is at.
First(m) ==
    \/ m.type = "ReservationRequest" /\ m.from = Coordinator /\ m.to # Receiver
    \/ m.type = "ReservationResponse" /\ m.to = Coordinator /\ m.from # Receiver

FirstFits(c, msgs) ==
    OnePass => \A m \in msgs : First(m) =>
        /\ c.step = "NeighborReservation" /\ m.path = c.at
        /\ \A k \in msgs : First(k) => k = m

ReservationInv ==
    /\ CoFits(co)
    /\ tx \in [Participants -> TxRecord]
    /\ \A n \in Participants : TxFits(co, n, tx[n])
    /\ \A m \in net : MsgFits(co, m)
    /\ FirstFits(co, net)

-----------------------------------------------------------------------------
(* Functions of path identifiers. *)

LEMMA PartialIs ==
    ASSUME NEW S, NEW f \in Partial(S)
    PROVE  /\ DOMAIN f \in SUBSET Ids /\ f \in [DOMAIN f -> S]
           /\ \A p \in DOMAIN f : p \in Ids /\ f[p] \in S
           /\ f = [p \in DOMAIN f |-> f[p]]
BY DEF Partial

LEMMA PartialWith ==
    ASSUME NEW S, NEW f \in Partial(S), NEW p \in Ids, NEW x \in S
    PROVE  /\ With(f, p, x) \in Partial(S)
           /\ DOMAIN With(f, p, x) = DOMAIN f \cup {p}
           /\ With(f, p, x)[p] = x
           /\ \A q \in DOMAIN f : q # p => With(f, p, x)[q] = f[q]
<1>1. PICK D \in SUBSET Ids : f \in [D -> S]
  BY DEF Partial
<1>2. With(f, p, x) = [q \in D \cup {p} |-> IF q = p THEN x ELSE f[q]]
  BY <1>1 DEF With
<1>3. With(f, p, x) \in [D \cup {p} -> S] /\ D \cup {p} \in SUBSET Ids
  BY <1>1, <1>2
<1> QED BY <1>1, <1>2, <1>3 DEF Partial

LEMMA RoutesWith ==
    ASSUME NEW f \in Partial(Routes), NEW p \in Ids, NEW x \in Routes
    PROVE  With(f, p, x) \in Partial(Routes) /\ DOMAIN With(f, p, x) = DOMAIN f \cup {p}
<1>1. With(f, p, x) \in Partial(Routes)
  BY PartialWith
<1>2. DOMAIN With(f, p, x) = DOMAIN f \cup {p}
  BY DEF With
<1> QED BY <1>1, <1>2

LEMMA PartialWithout ==
    ASSUME NEW S, NEW f \in Partial(S), NEW K
    PROVE  /\ Without(f, K) \in Partial(S)
           /\ DOMAIN Without(f, K) = DOMAIN f \ K
           /\ \A q \in DOMAIN f \ K : Without(f, K)[q] = f[q]
<1>1. PICK D \in SUBSET Ids : f \in [D -> S]
  BY DEF Partial
<1>2. Without(f, K) = [q \in D \ K |-> f[q]]
  BY <1>1 DEF Without
<1>3. Without(f, K) \in [D \ K -> S] /\ D \ K \in SUBSET Ids
  BY <1>1, <1>2
<1> QED BY <1>1, <1>2, <1>3 DEF Partial

LEMMA PartialNone == ASSUME NEW S PROVE <<>> \in Partial(S) /\ DOMAIN <<>> = {}
BY DEF Partial

LEMMA AmountOfIs ==
    ASSUME NEW p \in Ids, NEW a \in Amounts
    PROVE  AmountOf(p, a) \in Partial(Amounts) /\ DOMAIN AmountOf(p, a) = {p} /\ AmountOf(p, a)[p] = a
<1>1. AmountOf(p, a) \in [{p} -> Amounts] /\ {p} \in SUBSET Ids
  BY DEF AmountOf
<1> QED BY <1>1 DEF AmountOf, Partial

-----------------------------------------------------------------------------
(* Paths. *)

LEMMA Constants ==
    /\ Len(Paths) \in Nat /\ MaxRebuilds \in Nat /\ Command \in Nat \ {0}
    /\ IsFiniteSet(Ids) /\ 0 \in Ids /\ Ids \subseteq Nat
    /\ Receiver \in Participants /\ Coordinator \notin Participants
    /\ Participants \subseteq Nodes /\ Coordinator \in Nodes
    /\ \A i \in 1 .. Len(Paths) : Paths[i] \in Routes /\ i - 1 \in Ids
    /\ DOMAIN Paths = 1 .. Len(Paths)
<1>1. Len(Paths) \in Nat /\ DOMAIN Paths = 1 .. Len(Paths)
  BY ReservationAssumption
<1>2. IsFiniteSet(Ids)
  BY <1>1, FS_Interval, ReservationAssumption DEF Ids
<1>3. \A i \in 1 .. Len(Paths) : Paths[i] \in Routes
  BY <1>1 DEF Routes, Range
<1> QED BY <1>1, <1>2, <1>3, ReservationAssumption DEF Ids, Participants, Nodes

LEMMA RouteIs ==
    ASSUME NEW path \in Routes
    PROVE  /\ Len(path) \in Nat /\ Len(path) >= 2
           /\ DOMAIN path = 1 .. Len(path)
           /\ path[1] = Coordinator /\ path[Len(path)] = Receiver
           /\ \A i \in 1 .. Len(path) : path[i] \in Nodes
           /\ \A i \in 2 .. Len(path) : path[i] \in Participants
           /\ \A i, j \in 1 .. Len(path) : path[i] = path[j] => i = j
<1>1. IsPath(path)
  BY ReservationAssumption DEF Routes
<1>2. /\ Len(path) \in Nat /\ Len(path) >= 2
      /\ DOMAIN path = 1 .. Len(path)
      /\ path[1] = Coordinator /\ path[Len(path)] = Receiver
      /\ \A i \in 1 .. Len(path) : path[i] \in Nodes
  BY <1>1 DEF IsPath, Nodes
<1>3. \A i, j \in 1 .. Len(path) : path[i] = path[j] => i = j
  BY <1>1, <1>2 DEF IsPath, IsInjective
<1>4. ASSUME NEW i \in 2 .. Len(path) PROVE path[i] \in Participants
  <2>1. path[i] # path[1]
    BY <1>2, <1>3, <1>4
  <2> QED BY <1>2, <1>4, <2>1 DEF Nodes
<1> QED BY <1>2, <1>3, <1>4

LEMMA PathHops ==
    ASSUME NEW p \in Ids, p + 1 \in DOMAIN Paths
    PROVE  /\ Paths[p + 1] \in Routes
           /\ \A i \in 1 .. Len(Paths[p + 1]) - 1 : Hop(p, Paths[p + 1][i], Paths[p + 1][i + 1])
BY Constants DEF Hop

\* Who follows and who precedes a node on a path.
LEMMA HopUnique ==
    ASSUME NEW p \in Ids, NEW a, NEW b, Hop(p, a, b), NEW x, NEW y, Hop(p, x, y)
    PROVE  (a = x <=> b = y) /\ a # Receiver /\ b # Coordinator /\ b \in Participants /\ a \in Nodes
<1>1. PICK path : path = Paths[p + 1] /\ path \in Routes
  BY PathHops DEF Hop
<1>2. /\ Len(path) \in Nat /\ Len(path) >= 2 /\ path[1] = Coordinator /\ path[Len(path)] = Receiver
      /\ \A i \in 1 .. Len(path) : path[i] \in Nodes
      /\ \A i \in 2 .. Len(path) : path[i] \in Participants
      /\ \A i, j \in 1 .. Len(path) : path[i] = path[j] => i = j
  BY <1>1, RouteIs
<1>3. PICK i \in 1 .. Len(path) - 1 : path[i] = a /\ path[i + 1] = b
  BY <1>1 DEF Hop
<1>4. PICK j \in 1 .. Len(path) - 1 : path[j] = x /\ path[j + 1] = y
  BY <1>1 DEF Hop
<1>5. i \in 1 .. Len(path) /\ j \in 1 .. Len(path) /\ i + 1 \in 2 .. Len(path) /\ j + 1 \in 2 .. Len(path)
  BY <1>2, <1>3, <1>4
<1>6. a = x <=> b = y
  BY <1>2, <1>3, <1>4, <1>5
<1>7. a # Receiver /\ b # Coordinator
  <2>1. path[i] # path[Len(path)] /\ path[i + 1] # path[1]
    BY <1>2, <1>3, <1>5
  <2> QED BY <1>2, <1>3, <2>1
<1> QED BY <1>2, <1>3, <1>5, <1>6, <1>7

-----------------------------------------------------------------------------
(* The record of the coordinator. *)

\* A set of natural numbers has a smallest element.
LEMMA NatMin ==
    ASSUME NEW T \in SUBSET Nat, T # {}
    PROVE  \E x \in T : \A y \in T : x <= y
<1> DEFINE R == OpToRel(<, Nat)
<1>1. IsWellFoundedOn(R, Nat)
  BY NatLessThanWellFounded
<1>2. \A x, y \in Nat : y < x => <<y, x>> \in R
  BY DEF OpToRel
<1> HIDE DEF R
<1>3. PICK x \in T : \A y \in T : ~(<<y, x>> \in R)
  BY <1>1, WFMin
<1>4. ASSUME NEW y \in T PROVE x <= y
  <2>1. ~(y < x)
    BY <1>2, <1>3
  <2> QED BY <2>1
<1> QED BY <1>4

\* An identifier is free while paths are found again.
LEMMA FreeIdType ==
    ASSUME NEW c, c.paths \in Partial(Routes), c.rebuilt \in Nat, c.rebuilt < MaxRebuilds,
           Cardinality(DOMAIN c.paths) <= Len(Paths) + c.rebuilt
    PROVE  FreeId(c) \in Ids \ DOMAIN c.paths
<1>1. DOMAIN c.paths \in SUBSET Ids
  BY PartialIs
<1>2. Cardinality(Ids) = Len(Paths) + MaxRebuilds + 1
  BY Constants, FS_Interval DEF Ids
<1>3. Ids \ DOMAIN c.paths # {}
  <2>1. SUFFICES ASSUME DOMAIN c.paths = Ids PROVE FALSE
    BY <1>1
  <2> QED BY <1>2, <2>1, Constants
<1>4. \E x \in Ids \ DOMAIN c.paths : \A y \in Ids \ DOMAIN c.paths : x <= y
  BY <1>3, NatMin, Constants
<1> QED BY <1>4 DEF FreeId, Min, Ids

LEMMA ConfigType ==
    ASSUME NEW c, c.done \in Partial(Amounts), NEW n
    PROVE  Config(c, n) \in Partial(Amounts) /\ DOMAIN Config(c, n) = PathsOf(c, n)
<1>1. DOMAIN c.done \in SUBSET Ids /\ \A p \in DOMAIN c.done : c.done[p] \in Amounts
  BY PartialIs
<1>2. PathsOf(c, n) \in SUBSET Ids /\ PathsOf(c, n) \subseteq DOMAIN c.done
  BY <1>1 DEF PathsOf
<1>3. Config(c, n) \in [PathsOf(c, n) -> Amounts]
  BY <1>1, <1>2 DEF Config
<1> QED BY <1>2, <1>3 DEF Partial, Config

-----------------------------------------------------------------------------
(* What a step leaves alone. *)

\* Messages that the invariant says little about.
Plain(m) ==
    /\ m.type \in {"FinalPath", "TTLContinue", "TTLFinish", "TTLRequest",
                   "ReceiverInit", "ReceiverAccepts", "ReceiverRejects"}
    /\ m.type = "FinalPath" => m.path \in Ids /\ m.amount \in 0 .. Command

LEMMA PlainFits == ASSUME NEW c, NEW m, Plain(m) PROVE MsgFits(c, m) /\ ~First(m)
BY DEF Plain, MsgFits, First

\* The coordinator may go from c to d: what was asked stays asked, and the final amounts
\* stay what they are.
Later(c, d) ==
    /\ d = c \/ d.step = "Ended" \/ c.step \notin {"FinalAmounts", "Ended"}
    /\ OnePass => \A n, p : Asked(c, n, p) => Asked(d, n, p)

LEMMA MsgStaysFit ==
    ASSUME NEW c, NEW d, Later(c, d), NEW m, MsgFits(c, m)
    PROVE  MsgFits(d, m)
<1> HIDE DEF Asked, Config, Hop, RequestFits, OnePass
<1>1. m.type = "FinalAmounts" => m.config \in Partial(Amounts)
  BY DEF MsgFits
<1>2. m.type = "FinalAmounts" =>
         d.step \in {"FinalAmounts", "Ended"} /\ (d.step = "FinalAmounts" => m.config = Config(d, m.to))
  BY DEF MsgFits, Later
<1>3. OnePass /\ m.type = "CoordinatorRequest" => Asked(d, m.to, m.path)
  BY DEF MsgFits, Later
<1>4. OnePass /\ m.type = "CoordinatorResponse" => Asked(d, m.from, m.path)
  BY DEF MsgFits, Later
<1> QED BY <1>1, <1>2, <1>3, <1>4 DEF MsgFits

LEMMA TxStaysFit ==
    ASSUME NEW c, NEW d, Later(c, d), NEW n, NEW t, TxFits(c, n, t)
    PROVE  TxFits(d, n, t)
<1>1. t.step = "Agreed" => d.step \in {"FinalAmounts", "Ended"}
                           /\ (d.step = "FinalAmounts" => d = c)
  BY DEF TxFits, Later
<1>2. OnePass /\ (t.step = "NextNeighborResponse" \/ "ReservationResponse" \in t.waits) => Asked(d, n, t.last)
  BY DEF TxFits, Later
<1> QED BY <1>1, <1>2 DEF TxFits

\* A step of the coordinator that keeps the invariant.
CoordinatorKeeps ==
    /\ CoFits(co') /\ Later(co, co') /\ UNCHANGED tx
    /\ \A m \in net' : m \in net \/ MsgFits(co', m)
    /\ FirstFits(co', net')

LEMMA CoordinatorKept ==
    ASSUME ReservationInv, CoordinatorKeeps
    PROVE  ReservationInv'
<1>1. \A n \in Participants : TxFits(co', n, tx'[n])
  BY TxStaysFit DEF ReservationInv, CoordinatorKeeps
<1>2. \A m \in net' : MsgFits(co', m)
  BY MsgStaysFit DEF ReservationInv, CoordinatorKeeps
<1> QED BY <1>1, <1>2 DEF ReservationInv, CoordinatorKeeps

\* What is in transit was before, or is sent.
LEMMA TransitIs ==
    ASSUME NEW taken, NEW sent, net' = Transit(taken, sent)
    PROVE  \A m \in net' : (m \in net /\ m \notin taken) \/ m \in sent
BY DEF Transit

\* When a path is given up, so are the messages by which it is reserved.
LEMMA FirstExpires ==
    ASSUME ReservationInv, OnePass, NEW m \in net, First(m)
    PROVE  m \in Expired(co.at) /\ co.step = "NeighborReservation"
BY DEF ReservationInv, FirstFits, First, Expired, OnePass

-----------------------------------------------------------------------------
(* Ending, and starting a path. *)

LEMMA EndedFits == CoFits(Ended) /\ Ended.step = "Ended" /\ ~Queued(Ended, 0)
                   /\ \A n, p : Asked(Ended, n, p)
<1>1. /\ Ended.step = "Ended" /\ Ended.paths = <<>> /\ Ended.queue = <<>> /\ Ended.at = 0
      /\ Ended.flow = 0 /\ Ended.reserved = <<>> /\ Ended.done = <<>> /\ Ended.rebuilt = 0
  BY DEF Ended, NoPayment
<1>2. Ended \in CoRecord
  <2>1. <<>> \in Partial(Routes) /\ <<>> \in Partial(Amounts) /\ <<>> \in Seq(Ids)
    BY PartialNone
  <2>2. 0 \in Ids /\ 0 \in 0 .. Command /\ 0 \in 0 .. MaxRebuilds
    BY Constants
  <2> QED BY <2>1, <2>2 DEF CoRecord, Ended, NoPayment
<1>3. DOMAIN <<>> = {} /\ Len(<<>>) = 0 /\ Cardinality({}) = 0
  BY FS_EmptySet
<1>4. Base(Ended)
  BY <1>1, <1>2, <1>3, Constants DEF Base
<1>5. Free(Ended)
  BY <1>1 DEF Free
<1>6. \A p : ~Queued(Ended, p)
  BY <1>1, <1>3 DEF Queued
<1> QED BY <1>1, <1>4, <1>5, <1>6 DEF CoFits, Reaching, Asked

\* The coordinator ends.
LEMMA EndKeeps ==
    ASSUME ReservationInv, co' = Ended, UNCHANGED tx,
           \A m \in net' : (m \in net /\ (OnePass => ~First(m))) \/ Plain(m)
    PROVE  CoordinatorKeeps
<1>1. Later(co, Ended)
  BY EndedFits DEF Later
<1>2. \A m \in net' : m \in net \/ MsgFits(Ended, m)
  BY PlainFits
<1>3. FirstFits(Ended, net')
  BY PlainFits DEF FirstFits
<1> QED BY <1>1, <1>2, <1>3, EndedFits DEF CoordinatorKeeps

\* CoordinatorPaymentTransaction::reject.
LEMMA RejectKeeps ==
    ASSUME ReservationInv, NEW c, NEW taken, NEW sent, \A m \in sent : Plain(m),
           Reject(c, taken, sent)
    PROVE  CoordinatorKeeps
<1>1. co' = Ended /\ UNCHANGED tx
      /\ net' = Transit(taken \cup Expired(co.at), sent \cup {Msg("TTLFinish", Coordinator, n) : n \in Configured(c)})
  BY DEF Reject, Coordinate
<1>2. \A m \in {Msg("TTLFinish", Coordinator, n) : n \in Configured(c)} : Plain(m)
  BY DEF Msg, Plain
<1>3. \A m \in net' : (m \in net /\ (OnePass => ~First(m))) \/ Plain(m)
  BY <1>1, <1>2, TransitIs, FirstExpires
<1> QED BY <1>1, <1>3, EndKeeps

\* What a path is started from.

Kept(c) == OnePass => \A n, q : Asked(co, n, q) => ~Queued(c, q)
FirstTaken(taken) == OnePass => \A m \in net : First(m) => m \in taken

LEMMA StartKeeps ==
    ASSUME ReservationInv, co.step \notin {"FinalAmounts", "Ended"},
           NEW c, Base(c), Free(c), Kept(c),
           NEW p \in DOMAIN c.paths \ DOMAIN c.done, ~Queued(c, p),
           OnePass => \A n : ~Asked(co, n, p),
           NEW amount \in Amounts, NEW taken, FirstTaken(taken),
           NEW sent, \A m \in sent : Plain(m),
           StartPath(c, p, amount, taken, sent)
    PROVE  CoordinatorKeeps
<1> DEFINE path == c.paths[p]
           request == Request(Coordinator, path[2], p, amount, Config(c, path[2]))
<1>0. /\ c \in CoRecord /\ p \in Ids /\ path \in Routes
      /\ c.reserved \in Partial(Amounts) /\ c.done \in Partial(Amounts)
  BY PartialIs DEF Base, CoRecord
<1>1. PICK d : d = [c EXCEPT !.step = IF IsDirect(path) THEN "ShortPath" ELSE "NeighborReservation",
                      !.at = p, !.flow = amount, !.pos = 2,
                      !.reserved = With(@, p, amount),
                      !.direct = @ \/ IsDirect(path)]
  OBVIOUS
<1>2. co' = d /\ UNCHANGED tx /\ net' = Transit(taken, sent \cup {request})
  BY <1>1 DEF StartPath, Coordinate
<1> HIDE DEF path, request
<1>3. /\ With(c.reserved, p, amount) \in Partial(Amounts)
      /\ DOMAIN With(c.reserved, p, amount) = DOMAIN c.reserved \cup {p}
      /\ With(c.reserved, p, amount)[p] = amount
      /\ \A q \in DOMAIN c.reserved : q # p => With(c.reserved, p, amount)[q] = c.reserved[q]
  <2>1. PICK f : f = c.reserved
    OBVIOUS
  <2>2. f \in Partial(Amounts)
    BY <1>0, <2>1
  <2>3. /\ With(f, p, amount) \in Partial(Amounts)
        /\ DOMAIN With(f, p, amount) = DOMAIN f \cup {p}
        /\ With(f, p, amount)[p] = amount
        /\ \A q \in DOMAIN f : q # p => With(f, p, amount)[q] = f[q]
    BY <1>0, <2>2, PartialWith
  <2> QED BY <2>1, <2>3
<1>4. d \in CoRecord
  <2>1. PICK g : g = With(c.reserved, p, amount) /\ g \in Partial(Amounts)
    BY <1>3
  <2>2. PICK s : s = (IF IsDirect(path) THEN "ShortPath" ELSE "NeighborReservation")
    OBVIOUS
  <2>3. s \in Reaching
    BY <2>2 DEF Reaching
  <2>4. PICK b \in BOOLEAN : b = (c.direct \/ IsDirect(path))
    OBVIOUS
  <2>5. amount \in 0 .. Command
    BY Constants DEF Amounts
  <2>6. d = [c EXCEPT !.step = s, !.at = p, !.flow = amount, !.pos = 2, !.reserved = g, !.direct = b]
    BY <1>1, <2>1, <2>2, <2>4
  <2> QED BY <1>0, <2>1, <2>3, <2>5, <2>6 DEF CoRecord
<1>5. /\ d.step = IF IsDirect(path) THEN "ShortPath" ELSE "NeighborReservation"
      /\ d.at = p /\ d.flow = amount /\ d.pos = 2 /\ d.reserved = With(c.reserved, p, amount)
      /\ d.paths = c.paths /\ d.queue = c.queue /\ d.done = c.done /\ d.rebuilt = c.rebuilt
  BY <1>0, <1>1 DEF CoRecord
<1>6. Base(d)
  <2>1. DOMAIN d.done \subseteq DOMAIN d.reserved /\ DOMAIN d.reserved \subseteq DOMAIN d.paths
    BY <1>3, <1>5 DEF Base
  <2>2. \A i, j \in 1 .. Len(d.queue) : d.queue[i] = d.queue[j] => i = j
    BY <1>5 DEF Base
  <2>3. \A i \in 1 .. Len(d.queue) : d.queue[i] \in DOMAIN d.paths \ DOMAIN d.reserved
    BY <1>3, <1>5 DEF Base, Queued
  <2>4. OnePass => /\ \A q \in DOMAIN d.paths : q + 1 \in DOMAIN Paths /\ d.paths[q] = Paths[q + 1]
                   /\ \A q \in DOMAIN d.done : d.reserved[q] = d.done[q]
    BY <1>3, <1>5 DEF Base, Free
  <2> QED BY <1>4, <1>5, <2>1, <2>2, <2>3, <2>4 DEF Base
<1>7. Busy(d)
  BY <1>3, <1>5 DEF Busy, Free
<1>8. CoFits(d)
  BY <1>5, <1>6, <1>7 DEF CoFits, Reaching, path
<1>9. Later(co, d)
  BY <1>5 DEF Later, Asked, Kept, Queued, Reaching
<1>10. MsgFits(d, request) /\ (First(request) => ~IsDirect(path))
  <2>1. path[1] = Coordinator /\ path[2] \in Participants /\ Len(path) \in Nat /\ Len(path) >= 2
        /\ path[Len(path)] = Receiver
    BY <1>0, RouteIs
  <2>2. Config(c, path[2]) \in Partial(Amounts)
    BY <1>0, ConfigType
  <2>3. OnePass => Hop(p, Coordinator, path[2])
    <3>1. SUFFICES ASSUME OnePass PROVE Hop(p, Coordinator, path[2])
      OBVIOUS
    <3>2. p + 1 \in DOMAIN Paths /\ path = Paths[p + 1]
      BY <3>1 DEF Base, path
    <3> QED BY <1>0, <2>1, <3>2 DEF Hop
  <2>4. request \in Requests
    BY <1>0, <2>1, <2>2, Constants DEF request, Request, Requests
  <2>5. RequestFits(request)
    BY <2>3, <2>4 DEF RequestFits, request, Request
  <2>6. request.type = "ReservationRequest" /\ request.to = path[2]
    BY DEF request, Request
  <2> QED BY <2>1, <2>5, <2>6 DEF MsgFits, First, IsDirect
<1>11. request.path = p
  BY DEF request, Request
<1>12. \A m \in net' : (m \in net /\ (OnePass => ~First(m))) \/ Plain(m) \/ m = request
  BY <1>2, TransitIs DEF FirstTaken
<1>13. \A m \in net' : m \in net \/ MsgFits(d, m)
  BY <1>10, <1>12, PlainFits
<1>14. FirstFits(d, net')
  BY <1>5, <1>10, <1>11, <1>12, PlainFits DEF FirstFits
<1> QED BY <1>2, <1>8, <1>9, <1>13, <1>14 DEF CoordinatorKeeps

-----------------------------------------------------------------------------
(* The next path. *)

\* Paths whose first line has nothing left are dropped.
LEMMA SkipIs ==
    ASSUME NEW c, Base(c), NEW S, \A p \in S : Queued(c, p)
    PROVE  /\ Skip(c, S) \in CoRecord
           /\ DOMAIN Skip(c, S).paths = DOMAIN c.paths \ S
           /\ \A p \in DOMAIN c.paths \ S : Skip(c, S).paths[p] = c.paths[p]
           /\ Skip(c, S).queue = c.queue /\ Skip(c, S).reserved = c.reserved
           /\ Skip(c, S).done = c.done /\ Skip(c, S).rebuilt = c.rebuilt
           /\ DOMAIN c.reserved \subseteq DOMAIN c.paths \ S
<1>0. c \in CoRecord /\ c.paths \in Partial(Routes) /\ c.refused \in SUBSET (Nodes \X Nodes)
  BY DEF Base, CoRecord
<1>1. S \subseteq DOMAIN c.paths /\ DOMAIN c.reserved \cap S = {} /\ DOMAIN c.reserved \subseteq DOMAIN c.paths
  BY DEF Base, Queued
<1>2. PICK longer : longer = {p \in S : ~IsDirect(c.paths[p])}
  OBVIOUS
<1>3. PICK f : f = Without(c.paths, S)
  OBVIOUS
<1>4. f \in Partial(Routes) /\ DOMAIN f = DOMAIN c.paths \ S /\ \A p \in DOMAIN c.paths \ S : f[p] = c.paths[p]
  <2>1. PICK g : g = c.paths
    OBVIOUS
  <2>3. g \in Partial(Routes)
    BY <1>0, <2>1
  <2>2. /\ Without(g, S) \in Partial(Routes) /\ DOMAIN Without(g, S) = DOMAIN g \ S
        /\ \A p \in DOMAIN g \ S : Without(g, S)[p] = g[p]
    BY <2>3, PartialWithout
  <2> QED BY <1>3, <2>1, <2>2
<1>5. PICK r : r = c.refused \cup {<<Coordinator, c.paths[p][2]>> : p \in longer}
  OBVIOUS
<1>6. r \in SUBSET (Nodes \X Nodes)
  <2>1. \A p \in longer : c.paths[p][2] \in Nodes /\ Coordinator \in Nodes
    <3>1. ASSUME NEW p \in longer PROVE c.paths[p] \in Routes
      BY <1>0, <1>1, <1>2, <3>1, PartialIs
    <3>2. ASSUME NEW path \in Routes PROVE path[2] \in Nodes
      <4>1. Len(path) \in Nat /\ Len(path) >= 2 /\ \A i \in 1 .. Len(path) : path[i] \in Nodes
        BY <3>2, RouteIs
      <4> QED BY <4>1
    <3> QED BY <3>1, <3>2, Constants
  <2> QED BY <1>0, <1>5, <2>1
<1>7. PICK b \in BOOLEAN : b = (c.direct \/ longer # S)
  OBVIOUS
<1>8. PICK t \in BOOLEAN : t = (c.troubled \/ longer # {})
  OBVIOUS
<1>9. Skip(c, S) = [c EXCEPT !.paths = f, !.direct = b, !.refused = r, !.troubled = t]
  BY <1>2, <1>3, <1>5, <1>7, <1>8 DEF Skip
<1>10. PICK d : d = [c EXCEPT !.paths = f, !.direct = b, !.refused = r, !.troubled = t]
  OBVIOUS
<1>11. d \in CoRecord
  BY <1>0, <1>4, <1>6, <1>10 DEF CoRecord
<1>12. d.paths = f /\ d.queue = c.queue /\ d.reserved = c.reserved /\ d.done = c.done /\ d.rebuilt = c.rebuilt
  BY <1>0, <1>10 DEF CoRecord
<1> QED BY <1>1, <1>4, <1>9, <1>10, <1>11, <1>12

\* The paths that are left after the k-th of the queue is taken.
Advanced(c, k) ==
    [Skip(c, {c.queue[i] : i \in 1 .. k - 1}) EXCEPT !.queue = SubSeq(@, k + 1, Len(@))]

LEMMA AdvancedIs ==
    ASSUME NEW c, Base(c), Free(c), NEW k \in 1 .. Len(c.queue), NEW d, d = Advanced(c, k)
    PROVE  /\ Base(d) /\ Free(d) /\ c.queue[k] \in DOMAIN d.paths \ DOMAIN d.done
           /\ d.paths[c.queue[k]] = c.paths[c.queue[k]]
           /\ ~Queued(d, c.queue[k]) /\ \A p : Queued(d, p) => Queued(c, p)
<1>0. c \in CoRecord /\ c.queue \in Seq(Ids) /\ Len(c.queue) \in Nat
  BY DEF Base, CoRecord
<1>1. PICK S : S = {c.queue[i] : i \in 1 .. k - 1}
  OBVIOUS
<1>2. \A p \in S : Queued(c, p)
  BY <1>0, <1>1 DEF Queued
<1>3. PICK e : e = Skip(c, S)
  OBVIOUS
<1>4. /\ e \in CoRecord
      /\ DOMAIN e.paths = DOMAIN c.paths \ S
      /\ \A p \in DOMAIN c.paths \ S : e.paths[p] = c.paths[p]
      /\ e.queue = c.queue /\ e.reserved = c.reserved
      /\ e.done = c.done /\ e.rebuilt = c.rebuilt
      /\ DOMAIN c.reserved \subseteq DOMAIN c.paths \ S
  BY <1>2, <1>3, SkipIs
<1>5. PICK q : q = SubSeq(c.queue, k + 1, Len(c.queue))
  OBVIOUS
<1>6. /\ q \in Seq(Ids) /\ Len(q) = Len(c.queue) - k
      /\ \A i \in 1 .. Len(q) : q[i] = c.queue[k + i] /\ k + i \in 1 .. Len(c.queue)
  BY <1>0, <1>5
<1>7. d = [e EXCEPT !.queue = q]
  BY <1>1, <1>3, <1>4, <1>5 DEF Advanced
<1>8. d \in CoRecord
  BY <1>4, <1>6, <1>7 DEF CoRecord
<1>9. /\ d.queue = q /\ d.paths = e.paths /\ d.reserved = c.reserved /\ d.done = c.done
      /\ d.rebuilt = c.rebuilt
  BY <1>4, <1>7 DEF CoRecord
<1>10. \A i \in 1 .. Len(q) : q[i] \notin S /\ q[i] # c.queue[k]
  <2>1. \A i, j \in 1 .. Len(c.queue) : c.queue[i] = c.queue[j] => i = j
    BY DEF Base
  <2>2. ASSUME NEW i \in 1 .. Len(q) PROVE q[i] \notin S /\ q[i] # c.queue[k]
    <3>1. q[i] = c.queue[k + i] /\ k + i \in 1 .. Len(c.queue) /\ k + i > k
      BY <1>0, <1>6, <2>2
    <3>2. ASSUME NEW j \in 1 .. k PROVE q[i] # c.queue[j]
      <4>1. j \in 1 .. Len(c.queue) /\ j # k + i
        BY <1>0, <3>1, <3>2
      <4> QED BY <2>1, <3>1, <4>1
    <3>3. 1 .. k - 1 \subseteq 1 .. k /\ k \in 1 .. k
      BY <1>0
    <3> QED BY <1>1, <3>2, <3>3
  <2> QED BY <2>2
<1>11. c.queue[k] \notin S
  BY <1>0, <1>1 DEF Base
<1>12. \A p : Queued(d, p) => Queued(c, p)
  BY <1>6, <1>9 DEF Queued
<1>13. ~Queued(d, c.queue[k])
  BY <1>9, <1>10 DEF Queued
<1>14. c.queue[k] \in DOMAIN d.paths \ DOMAIN d.done /\ d.paths[c.queue[k]] = c.paths[c.queue[k]]
  BY <1>4, <1>9, <1>11 DEF Base
<1>15. Cardinality(DOMAIN d.paths) <= Len(Paths) + d.rebuilt
  <2>1. DOMAIN c.paths \in SUBSET Ids
    BY <1>0, PartialIs DEF CoRecord
  <2>2. IsFiniteSet(DOMAIN c.paths)
    BY <2>1, Constants, FS_Subset
  <2>3. DOMAIN d.paths \subseteq DOMAIN c.paths
    BY <1>4, <1>9
  <2>4. Cardinality(DOMAIN d.paths) <= Cardinality(DOMAIN c.paths)
    BY <2>2, <2>3, FS_Subset
  <2>5. Cardinality(DOMAIN d.paths) \in Nat /\ Cardinality(DOMAIN c.paths) \in Nat
    BY <2>2, <2>3, FS_Subset, FS_CardinalityType
  <2>6. c.rebuilt \in Nat
    BY <1>0, Constants DEF CoRecord
  <2> QED BY <1>9, <2>4, <2>5, <2>6, Constants DEF Base
<1>16. Base(d)
  <2>1. DOMAIN d.done \subseteq DOMAIN d.reserved /\ DOMAIN d.reserved \subseteq DOMAIN d.paths
    BY <1>4, <1>9 DEF Base
  <2>2. \A i, j \in 1 .. Len(d.queue) : d.queue[i] = d.queue[j] => i = j
    <3>1. \A i, j \in 1 .. Len(c.queue) : c.queue[i] = c.queue[j] => i = j
      BY DEF Base
    <3>2. ASSUME NEW i \in 1 .. Len(q), NEW j \in 1 .. Len(q), q[i] = q[j] PROVE i = j
      <4>1. q[i] = c.queue[k + i] /\ q[j] = c.queue[k + j]
            /\ k + i \in 1 .. Len(c.queue) /\ k + j \in 1 .. Len(c.queue)
        BY <1>6
      <4>2. k + i = k + j
        BY <3>1, <3>2, <4>1
      <4> QED BY <1>0, <1>6, <4>2
    <3>3. d.queue = q
      BY <1>9
    <3> QED BY <3>2, <3>3
  <2>3. \A i \in 1 .. Len(d.queue) : d.queue[i] \in DOMAIN d.paths \ DOMAIN d.reserved
    <3>1. \A i \in 1 .. Len(c.queue) : c.queue[i] \in DOMAIN c.paths \ DOMAIN c.reserved
      BY DEF Base
    <3>2. ASSUME NEW i \in 1 .. Len(q) PROVE q[i] \in DOMAIN d.paths \ DOMAIN d.reserved
      <4>1. q[i] \in DOMAIN c.paths \ DOMAIN c.reserved
        BY <1>6, <3>1, <3>2
      <4> QED BY <1>4, <1>9, <1>10, <3>2, <4>1
    <3>3. d.queue = q
      BY <1>9
    <3> QED BY <3>2, <3>3
  <2>4. OnePass => /\ \A p \in DOMAIN d.paths : p + 1 \in DOMAIN Paths /\ d.paths[p] = Paths[p + 1]
                   /\ \A p \in DOMAIN d.done : d.reserved[p] = d.done[p]
    BY <1>4, <1>9 DEF Base
  <2> QED BY <1>8, <1>15, <2>1, <2>2, <2>3, <2>4 DEF Base
<1>17. Free(d)
  BY <1>9 DEF Free
<1> QED BY <1>12, <1>13, <1>14, <1>16, <1>17

\* A path that is found again gets a free identifier.
LEMMA RebuildIs ==
    ASSUME NEW c, Base(c), Free(c),
           NEW e, e = Skip(c, {c.queue[i] : i \in 1 .. Len(c.queue)}),
           NEW path \in Found(e), NEW d, d = Rebuild(e, path)
    PROVE  /\ ~OnePass
           /\ Base(d) /\ Free(d) /\ FreeId(e) \in DOMAIN d.paths \ DOMAIN d.done
           /\ \A p : ~Queued(d, p)
<1>0. c \in CoRecord /\ c.queue \in Seq(Ids) /\ Len(c.queue) \in Nat
  BY DEF Base, CoRecord
<1>1. PICK S : S = {c.queue[i] : i \in 1 .. Len(c.queue)}
  OBVIOUS
<1>2. \A p \in S : Queued(c, p)
  BY <1>0, <1>1 DEF Queued
<1>3. /\ e \in CoRecord
      /\ DOMAIN e.paths = DOMAIN c.paths \ S
      /\ e.reserved = c.reserved
      /\ e.done = c.done /\ e.rebuilt = c.rebuilt
      /\ DOMAIN c.reserved \subseteq DOMAIN c.paths \ S
  BY <1>1, <1>2, SkipIs
<1>4. path \in Routes /\ e.rebuilt < MaxRebuilds /\ e.rebuilt \in 0 .. MaxRebuilds /\ e.paths \in Partial(Routes)
  BY <1>3 DEF Found, Routes, CoRecord
<1>5. e.rebuilt \in Nat /\ MaxRebuilds \in Nat /\ e.rebuilt + 1 \in 0 .. MaxRebuilds
  BY <1>4, Constants
<1>6. IsFiniteSet(DOMAIN e.paths) /\ Cardinality(DOMAIN e.paths) \in Nat
      /\ Cardinality(DOMAIN e.paths) <= Len(Paths) + e.rebuilt
  <2>1. DOMAIN c.paths \in SUBSET Ids
    BY <1>0, PartialIs DEF CoRecord
  <2>2. IsFiniteSet(DOMAIN c.paths)
    BY <2>1, Constants, FS_Subset
  <2>3. Cardinality(DOMAIN e.paths) <= Cardinality(DOMAIN c.paths) /\ IsFiniteSet(DOMAIN e.paths)
    BY <1>3, <2>2, FS_Subset
  <2>4. Cardinality(DOMAIN e.paths) \in Nat /\ Cardinality(DOMAIN c.paths) \in Nat
    BY <2>2, <2>3, FS_CardinalityType
  <2> QED BY <1>3, <1>5, <2>3, <2>4, Constants DEF Base
<1>7. PICK id : id = FreeId(e)
  OBVIOUS
<1>8. id \in Ids /\ id \notin DOMAIN e.paths
  BY <1>4, <1>5, <1>6, <1>7, FreeIdType
<1>9. PICK f : f = With(e.paths, id, path)
  OBVIOUS
<1>10. f \in Partial(Routes) /\ DOMAIN f = DOMAIN e.paths \cup {id}
  <2>1. PICK g : g = e.paths
    OBVIOUS
  <2>3. g \in Partial(Routes)
    BY <1>4, <2>1
  <2>2. With(g, id, path) \in Partial(Routes) /\ DOMAIN With(g, id, path) = DOMAIN g \cup {id}
    <3>1. path \in Routes /\ id \in Ids
      BY <1>4, <1>8
    <3> QED BY <2>3, <3>1, RoutesWith
  <2> QED BY <1>9, <2>1, <2>2
<1>11. d = [e EXCEPT !.paths = f, !.queue = <<>>, !.direct = FALSE, !.troubled = FALSE, !.rebuilt = @ + 1]
  BY <1>7, <1>9 DEF Rebuild
<1>12. d \in CoRecord
  <2>1. PICK r \in 0 .. MaxRebuilds : r = e.rebuilt + 1
    BY <1>5
  <2>2. d = [e EXCEPT !.paths = f, !.queue = <<>>, !.direct = FALSE, !.troubled = FALSE, !.rebuilt = r]
    BY <1>11, <2>1
  <2>3. <<>> \in Seq(Ids)
    OBVIOUS
  <2> QED BY <1>3, <1>10, <2>2, <2>3 DEF CoRecord
<1>13. /\ d.paths = f /\ d.queue = <<>> /\ d.reserved = c.reserved /\ d.done = c.done
       /\ d.rebuilt = e.rebuilt + 1
  BY <1>3, <1>11 DEF CoRecord
<1>14. Cardinality(DOMAIN d.paths) <= Len(Paths) + d.rebuilt
  <2>1. Cardinality(DOMAIN e.paths \cup {id}) = Cardinality(DOMAIN e.paths) + 1
    BY <1>6, <1>8, FS_AddElement
  <2> QED BY <1>5, <1>6, <1>10, <1>13, <2>1, Constants
<1>15. ~OnePass
  BY <1>4, <1>5 DEF OnePass
<1>16. Len(<<>>) = 0
  OBVIOUS
<1>17. Base(d)
  <2>1. DOMAIN d.done \subseteq DOMAIN d.reserved
    BY <1>13 DEF Base
  <2>2. DOMAIN d.reserved \subseteq DOMAIN d.paths
    BY <1>3, <1>10, <1>13
  <2>3. Len(d.queue) = 0 /\ d.queue = <<>>
    BY <1>13, <1>16
  <2>4. \A i \in 1 .. Len(d.queue) : FALSE
    BY <2>3
  <2>5. \A i, j \in 1 .. Len(d.queue) : d.queue[i] = d.queue[j] => i = j
    BY <2>4
  <2>6. \A i \in 1 .. Len(d.queue) : d.queue[i] \in DOMAIN d.paths \ DOMAIN d.reserved
    BY <2>4
  <2> HIDE <1>13
  <2> QED BY <1>12, <1>14, <1>15, <2>1, <2>2, <2>5, <2>6 DEF Base
<1>18. \A p : ~Queued(d, p)
  BY <1>13, <1>16 DEF Queued
<1>19. id \in DOMAIN d.paths \ DOMAIN d.done
  BY <1>3, <1>8, <1>10, <1>13 DEF Free
<1> QED BY <1>7, <1>13, <1>15, <1>17, <1>18, <1>19 DEF Free

\* The coordinator takes the next path, finds a new one or rejects the payment.
LEMMA TryNextKeeps ==
    ASSUME ReservationInv, co.step \notin {"FinalAmounts", "Ended"},
           NEW c, Base(c), Free(c),
           \A p : Queued(c, p) => Queued(co, p),
           NEW taken, FirstTaken(taken), NEW sent, \A m \in sent : Plain(m),
           TryNextPath(c, taken, sent)
    PROVE  CoordinatorKeeps
<1>0. Kept(c)
  BY DEF Kept, Asked
<1>1. ASSUME NEW k \in 1 .. Len(c.queue), NEW amount \in Amounts,
             StartPath(Advanced(c, k), c.queue[k], amount, taken, sent)
      PROVE  CoordinatorKeeps
  <2>1. PICK d : d = Advanced(c, k)
    OBVIOUS
  <2>2. PICK p : p = c.queue[k]
    OBVIOUS
  <2>3. /\ Base(d) /\ Free(d) /\ p \in DOMAIN d.paths \ DOMAIN d.done
        /\ ~Queued(d, p) /\ \A q : Queued(d, q) => Queued(c, q)
    BY <1>1, <2>1, <2>2, AdvancedIs
  <2>4. Queued(c, p) /\ amount \in Amounts
    BY <1>1, <2>2 DEF Queued
  <2>5. Kept(d) /\ (OnePass => \A n : ~Asked(co, n, p))
    BY <1>0, <2>3, <2>4 DEF Kept
  <2>6. StartPath(d, p, amount, taken, sent)
    BY <1>1, <2>1, <2>2
  <2> QED BY <2>3, <2>4, <2>5, <2>6, StartKeeps
<1>2. ASSUME NEW e, e = Skip(c, {c.queue[i] : i \in 1 .. Len(c.queue)}),
             NEW path \in Found(e), NEW amount \in Amounts,
             StartPath(Rebuild(e, path), FreeId(e), amount, taken, sent)
      PROVE  CoordinatorKeeps
  <2>1. PICK d : d = Rebuild(e, path)
    OBVIOUS
  <2>2. PICK p : p = FreeId(e)
    OBVIOUS
  <2>3. /\ ~OnePass /\ Base(d) /\ Free(d) /\ p \in DOMAIN d.paths \ DOMAIN d.done
        /\ \A q : ~Queued(d, q)
    BY <1>2, <2>1, <2>2, RebuildIs
  <2>4. amount \in Amounts
    BY <1>2
  <2>5. StartPath(d, p, amount, taken, sent)
    BY <1>2, <2>1, <2>2
  <2> QED BY <2>3, <2>4, <2>5, StartKeeps DEF Kept
<1>3. ASSUME Reject(c, taken, sent) PROVE CoordinatorKeeps
  BY <1>3, RejectKeeps
<1>4. ASSUME NEW amount \in {x \in 1 .. Command : Collected(c) + x <= Command} PROVE amount \in Amounts
  BY DEF Amounts
<1> QED BY <1>1, <1>2, <1>3, <1>4 DEF TryNextPath, Advanced

-----------------------------------------------------------------------------
(* The current path. *)

\* Records with the same paths and reservations.
Same(c, d) ==
    /\ d \in CoRecord
    /\ d.paths = c.paths /\ d.queue = c.queue /\ d.reserved = c.reserved
    /\ d.done = c.done /\ d.rebuilt = c.rebuilt /\ d.at = c.at /\ d.flow = c.flow

LEMMA SameFits ==
    ASSUME NEW c, NEW d, Same(c, d), Base(c)
    PROVE  Base(d) /\ (Free(c) => Free(d)) /\ (Busy(c) => Busy(d))
BY DEF Same, Base, Free, Busy

\* The coordinator only takes a message, and answers.
LEMMA StayKeeps ==
    ASSUME ReservationInv, NEW taken, NEW sent, \A m \in sent : Plain(m),
           Coordinate(co, taken, sent)
    PROVE  CoordinatorKeeps
<1>1. co' = co /\ UNCHANGED tx /\ net' = Transit(taken, sent)
  BY DEF Coordinate
<1>2. \A m \in net' : m \in net \/ Plain(m)
  BY <1>1, TransitIs
<1>3. \A m \in net' : m \in net \/ MsgFits(co, m)
  BY <1>2, PlainFits
<1>4. \A m \in net' : First(m) => m \in net
  BY <1>2, PlainFits
<1>5. FirstFits(co, net')
  BY <1>4 DEF FirstFits, ReservationInv
<1> QED BY <1>1, <1>3, <1>5 DEF CoordinatorKeeps, Later, ReservationInv

\* CoordinatorPaymentTransaction gives up the current path.
LEMMA GiveUpKeeps ==
    ASSUME ReservationInv, co.step \in Reaching, NEW c, Same(co, c),
           NEW last, NEW taken, NEW sent, \A m \in sent : Plain(m),
           GiveUp(c, last, taken, sent)
    PROVE  CoordinatorKeeps
<1>0. Base(co) /\ Busy(co) /\ co.at \in Ids /\ co.step \notin {"FinalAmounts", "Ended"}
  BY DEF ReservationInv, CoFits, Base, CoRecord, Reaching
<1>1. Base(c) /\ Busy(c) /\ c \in CoRecord /\ c.at = co.at /\ c.queue = co.queue
      /\ c.paths \in Partial(Routes) /\ c.reserved \in Partial(Amounts)
  BY <1>0, SameFits DEF Same, CoRecord
<1>2. PICK f : f = Without(c.paths, {co.at})
  OBVIOUS
<1>3. PICK g : g = Without(c.reserved, {co.at})
  OBVIOUS
<1>4. f \in Partial(Routes) /\ DOMAIN f = DOMAIN c.paths \ {co.at}
      /\ \A p \in DOMAIN c.paths \ {co.at} : f[p] = c.paths[p]
  <2>1. f \in Partial(Routes)
    BY <1>1, <1>2, PartialWithout
  <2> QED BY <1>2, <2>1 DEF Without
<1>5. g \in Partial(Amounts) /\ DOMAIN g = DOMAIN c.reserved \ {co.at}
      /\ \A p \in DOMAIN c.reserved \ {co.at} : g[p] = c.reserved[p]
  <2>1. g \in Partial(Amounts)
    BY <1>1, <1>3, PartialWithout
  <2> QED BY <1>3, <2>1 DEF Without
<1>6. PICK d : d = [c EXCEPT !.paths = f, !.reserved = g, !.at = 0, !.flow = 0, !.pos = 0]
  OBVIOUS
<1>7. PICK final : final = FinalPaths(co.paths[co.at], co.at, last, 0)
  OBVIOUS
<1>8. TryNextPath(d, taken \cup Expired(co.at), sent \cup final)
  BY <1>2, <1>3, <1>6, <1>7 DEF GiveUp
<1>9. d \in CoRecord
  <2>1. 0 \in Ids /\ 0 \in 0 .. Command
    BY Constants
  <2> QED BY <1>1, <1>4, <1>5, <1>6, <2>1 DEF CoRecord
<1>10. /\ d.paths = f /\ d.reserved = g /\ d.queue = c.queue /\ d.done = c.done /\ d.rebuilt = c.rebuilt
  BY <1>1, <1>6 DEF CoRecord
<1>11. Cardinality(DOMAIN d.paths) <= Len(Paths) + d.rebuilt
  <2>1. DOMAIN c.paths \in SUBSET Ids
    BY <1>1, PartialIs
  <2>2. IsFiniteSet(DOMAIN c.paths)
    BY <2>1, Constants, FS_Subset
  <2>3. DOMAIN d.paths \subseteq DOMAIN c.paths
    BY <1>4, <1>10
  <2>4. Cardinality(DOMAIN d.paths) <= Cardinality(DOMAIN c.paths)
    BY <2>2, <2>3, FS_Subset
  <2>5. Cardinality(DOMAIN d.paths) \in Nat /\ Cardinality(DOMAIN c.paths) \in Nat
    BY <2>2, <2>3, FS_Subset, FS_CardinalityType
  <2>6. c.rebuilt \in Nat
    BY <1>1, Constants DEF CoRecord
  <2>7. Cardinality(DOMAIN c.paths) <= Len(Paths) + c.rebuilt
    BY <1>1 DEF Base
  <2> QED BY <1>10, <2>4, <2>5, <2>6, <2>7, Constants
<1>12. Base(d)
  <2>1. DOMAIN d.done \subseteq DOMAIN d.reserved /\ DOMAIN d.reserved \subseteq DOMAIN d.paths
    BY <1>1, <1>4, <1>5, <1>10 DEF Base, Busy
  <2>2. \A i, j \in 1 .. Len(d.queue) : d.queue[i] = d.queue[j] => i = j
    BY <1>1, <1>10 DEF Base
  <2>3. \A i \in 1 .. Len(d.queue) : d.queue[i] \in DOMAIN d.paths \ DOMAIN d.reserved
    <3>1. \A i \in 1 .. Len(c.queue) : c.queue[i] \in DOMAIN c.paths \ DOMAIN c.reserved
      BY <1>1 DEF Base
    <3>2. \A i \in 1 .. Len(c.queue) : c.queue[i] # co.at
      BY <1>1, <3>1 DEF Busy
    <3> QED BY <1>4, <1>5, <1>10, <3>1, <3>2
  <2>4. OnePass => /\ \A p \in DOMAIN d.paths : p + 1 \in DOMAIN Paths /\ d.paths[p] = Paths[p + 1]
                   /\ \A p \in DOMAIN d.done : d.reserved[p] = d.done[p]
    BY <1>1, <1>4, <1>5, <1>10 DEF Base, Busy
  <2> QED BY <1>9, <1>11, <2>1, <2>2, <2>3, <2>4 DEF Base
<1>13. Free(d)
  BY <1>1, <1>5, <1>10 DEF Busy, Free
<1>14. \A m \in sent \cup final : Plain(m)
  BY <1>0, <1>7, Constants DEF FinalPaths, Plain
<1>15. FirstTaken(taken \cup Expired(co.at))
  BY FirstExpires DEF FirstTaken
<1>16. \A p : Queued(d, p) => Queued(co, p)
  BY <1>1, <1>10 DEF Queued
<1> QED BY <1>0, <1>8, <1>12, <1>13, <1>14, <1>15, <1>16, TryNextKeeps

\* shortageReservationsOnPath: the flow of the current path is lowered.
LEMMA ShortFlowIs ==
    ASSUME NEW c, Base(c), Busy(c), NEW amount \in Amounts, NEW neighbor,
           OnePass => neighbor = c.paths[c.at][2],
           NEW d, d = ShortFlow(c, amount, neighbor)
    PROVE  /\ Base(d) /\ Busy(d) /\ d.paths = c.paths /\ d.queue = c.queue /\ d.at = c.at
           /\ d.done = c.done /\ d.pos = c.pos /\ d.step = c.step
<1>0. c \in CoRecord /\ c.reserved \in Partial(Amounts) /\ c.at \in Ids
  BY DEF Base, CoRecord
<1>1. PICK g : g = IF neighbor = c.paths[c.at][2] THEN With(c.reserved, c.at, amount) ELSE c.reserved
  OBVIOUS
<1>2. /\ g \in Partial(Amounts) /\ DOMAIN g = DOMAIN c.reserved
      /\ \A p \in DOMAIN g : p # c.at => g[p] = c.reserved[p]
      /\ OnePass => g[c.at] = amount
  <2>1. With(c.reserved, c.at, amount) \in Partial(Amounts)
    BY <1>0, PartialWith
  <2>3. /\ With(c.reserved, c.at, amount)[c.at] = amount
        /\ \A q \in DOMAIN c.reserved : q # c.at => With(c.reserved, c.at, amount)[q] = c.reserved[q]
    BY DEF With
  <2>2. DOMAIN With(c.reserved, c.at, amount) = DOMAIN c.reserved
    BY DEF With, Busy
  <2> QED BY <1>0, <1>1, <2>1, <2>2, <2>3
<1>3. d = [c EXCEPT !.flow = amount, !.reserved = g]
  BY <1>0, <1>1 DEF ShortFlow, CoRecord
<1>4. d \in CoRecord
  <2>1. amount \in 0 .. Command
    BY Constants DEF Amounts
  <2> QED BY <1>0, <1>2, <1>3, <2>1 DEF CoRecord
<1>5. /\ d.paths = c.paths /\ d.queue = c.queue /\ d.at = c.at /\ d.done = c.done /\ d.pos = c.pos
      /\ d.step = c.step /\ d.reserved = g /\ d.flow = amount /\ d.rebuilt = c.rebuilt
  BY <1>0, <1>3 DEF CoRecord
<1>6. Busy(d)
  BY <1>2, <1>5 DEF Busy
<1>7. Base(d)
  <2>1. OnePass => /\ \A p \in DOMAIN d.paths : p + 1 \in DOMAIN Paths /\ d.paths[p] = Paths[p + 1]
                   /\ \A p \in DOMAIN d.done : d.reserved[p] = d.done[p]
    BY <1>2, <1>5 DEF Base, Busy
  <2>2. DOMAIN d.done \subseteq DOMAIN d.reserved /\ DOMAIN d.reserved \subseteq DOMAIN d.paths
    BY <1>2, <1>5 DEF Base
  <2>3. \A i \in 1 .. Len(d.queue) : d.queue[i] \in DOMAIN d.paths \ DOMAIN d.reserved
    BY <1>2, <1>5 DEF Base
  <2> QED BY <1>4, <1>5, <2>1, <2>2, <2>3 DEF Base
<1> QED BY <1>5, <1>6, <1>7

\* The next node of the current path is asked.
LEMMA AskFurtherKeeps ==
    ASSUME ReservationInv, co.step \in Reaching,
           NEW c, Base(c), Busy(c), c.paths = co.paths, c.queue = co.queue, c.at = co.at,
           NEW pos \in 2 .. Len(c.paths[c.at]) - 1, co.pos = 2 \/ pos # 2,
           NEW taken, FirstTaken(taken), AskFurther(c, pos, taken)
    PROVE  CoordinatorKeeps
<1>0. /\ c \in CoRecord /\ c.at \in Ids /\ c.at \in DOMAIN c.paths /\ c.done \in Partial(Amounts)
      /\ c.paths[c.at] \in Routes /\ c.flow \in Amounts
  BY PartialIs DEF Base, Busy, CoRecord
<1>1. PICK d : d = [c EXCEPT !.step = "FurtherReservation", !.pos = pos]
  OBVIOUS
<1>2. PICK path : path = c.paths[c.at]
  OBVIOUS
<1>3. PICK m : m = [type |-> "CoordinatorRequest", from |-> Coordinator, to |-> path[pos], path |-> c.at,
              amount |-> c.flow, next |-> path[pos + 1], config |-> Config(c, path[pos + 1])]
  OBVIOUS
<1>4. co' = d /\ UNCHANGED tx /\ net' = Transit(taken, {m})
  BY <1>1, <1>2, <1>3 DEF AskFurther, Coordinate
<1>5. Len(path) \in Nat /\ Len(path) >= 2 /\ \A i \in 2 .. Len(path) : path[i] \in Participants
  BY <1>0, <1>2, RouteIs
<1>6. path[pos] \in Participants /\ path[pos + 1] \in Participants /\ pos \in Nat /\ pos \in 2 .. Len(path) - 1
  BY <1>2, <1>5
<1>7. d \in CoRecord /\ d.step = "FurtherReservation" /\ d.pos = pos
      /\ d.paths = c.paths /\ d.queue = c.queue /\ d.reserved = c.reserved
      /\ d.done = c.done /\ d.rebuilt = c.rebuilt /\ d.at = c.at /\ d.flow = c.flow
  BY <1>0, <1>1, <1>6 DEF CoRecord, Reaching
<1>8. Base(d) /\ Busy(d)
  BY <1>7, SameFits DEF Same
<1>9. CoFits(d)
  BY <1>2, <1>6, <1>7, <1>8 DEF CoFits, Reaching
<1>10. ~Queued(d, d.at)
  BY <1>7 DEF Queued, Base, Busy
<1>11. Later(co, d)
  <2>1. co.step \notin {"Initialization", "ReceiverResponse", "FinalAmounts", "Ended"}
    BY DEF Reaching
  <2>2. ASSUME NEW n, NEW p, Asked(co, n, p) PROVE Asked(d, n, p)
    <3>1. ~Queued(d, p)
      BY <1>7, <2>2 DEF Asked, Queued
    <3>2. pos = 2 /\ p = d.at => n = d.paths[p][2]
      BY <1>7, <2>2 DEF Asked
    <3> QED BY <1>7, <3>1, <3>2 DEF Asked
  <2> QED BY <2>1, <2>2 DEF Later
<1>12. MsgFits(d, m) /\ ~First(m)
  <2>1. m.type = "CoordinatorRequest" /\ m.to = path[pos] /\ m.path = c.at /\ m.amount = c.flow
        /\ m.next = path[pos + 1] /\ m.config = Config(c, path[pos + 1])
    BY <1>3
  <2>2. m.config \in Partial(Amounts)
    BY <1>0, <2>1, ConfigType
  <2>3. ASSUME OnePass PROVE Hop(m.path, m.to, m.next) /\ Asked(d, m.to, m.path)
    <3>1. c.at + 1 \in DOMAIN Paths /\ path = Paths[c.at + 1]
      BY <1>0, <1>2, <2>3 DEF Base
    <3>2. Hop(m.path, m.to, m.next)
      BY <1>5, <1>6, <2>1, <3>1 DEF Hop
    <3>3. Asked(d, m.to, m.path)
      BY <1>2, <1>7, <1>10, <2>1 DEF Asked
    <3> QED BY <3>2, <3>3
  <2> QED BY <1>0, <1>6, <2>1, <2>2, <2>3 DEF MsgFits, First
<1>13. \A k \in net' : (k \in net /\ (OnePass => ~First(k))) \/ k = m
  <2>1. PICK sent : sent = {m} /\ net' = Transit(taken, sent)
    BY <1>4
  <2> QED BY <2>1, TransitIs DEF FirstTaken
<1>14. \A k \in net' : k \in net \/ MsgFits(d, k)
  BY <1>12, <1>13
<1>15. FirstFits(d, net')
  BY <1>12, <1>13 DEF FirstFits
<1> QED BY <1>4, <1>9, <1>11, <1>14, <1>15 DEF CoordinatorKeeps

\* What is reserved depends on the reservations only.
TotalOf(reserved) == MapThenSumSet(LAMBDA p : reserved[p], DOMAIN reserved)

LEMMA CollectedIs == ASSUME NEW c PROVE Collected(c) = TotalOf(c.reserved)
BY Zenon DEF Collected, TotalOf

\* All nodes of the current path have reserved.
LEMMA FinishKeeps ==
    ASSUME ReservationInv, co.step \in Reaching,
           NEW c, Base(c), Busy(c), c.paths = co.paths, c.queue = co.queue,
           NEW taken, FirstTaken(taken), FinishPath(c, taken)
    PROVE  CoordinatorKeeps
<1>0. /\ c \in CoRecord /\ c.at \in Ids /\ c.done \in Partial(Amounts) /\ c.flow \in Amounts
      /\ c.reserved \in Partial(Amounts)
      /\ co.step \notin {"Initialization", "ReceiverResponse", "FinalAmounts", "Ended"}
  BY DEF Base, Busy, CoRecord, Reaching
<1>1. PICK g : g = With(c.done, c.at, c.flow)
  OBVIOUS
<1>2. /\ g \in Partial(Amounts) /\ DOMAIN g = DOMAIN c.done \cup {c.at}
      /\ g[c.at] = c.flow /\ \A p \in DOMAIN c.done : p # c.at => g[p] = c.done[p]
  <2>1. g \in Partial(Amounts)
    BY <1>0, <1>1, PartialWith
  <2> QED BY <1>1, <2>1 DEF With
<1>3. PICK d : d = [c EXCEPT !.done = g, !.at = 0, !.flow = 0, !.pos = 0]
  OBVIOUS
<1>4. PICK final : final = FinalPaths(c.paths[c.at], c.at, Len(c.paths[c.at]) - 1, c.flow)
  OBVIOUS
<1>5. PICK sums : sums =
         {[type |-> "FinalAmounts", from |-> Coordinator, to |-> n,
           config |-> Config(d, n), ids |-> Configured(d) \cup {Coordinator}] : n \in Configured(d)}
  OBVIOUS
<1>6. d \in CoRecord
  <2>1. 0 \in Ids /\ 0 \in 0 .. Command
    BY Constants
  <2> QED BY <1>0, <1>2, <1>3, <2>1 DEF CoRecord
<1>7. /\ d.paths = c.paths /\ d.queue = c.queue /\ d.reserved = c.reserved /\ d.done = g
      /\ d.rebuilt = c.rebuilt
  BY <1>0, <1>3 DEF CoRecord
<1>8. Base(d) /\ Free(d)
  <2>1. DOMAIN d.done \subseteq DOMAIN d.reserved /\ DOMAIN d.reserved \subseteq DOMAIN d.paths
    BY <1>2, <1>7 DEF Base, Busy
  <2>2. OnePass => /\ \A p \in DOMAIN d.paths : p + 1 \in DOMAIN Paths /\ d.paths[p] = Paths[p + 1]
                   /\ \A p \in DOMAIN d.done : d.reserved[p] = d.done[p]
    BY <1>2, <1>7 DEF Base, Busy
  <2>3. Free(d)
    BY <1>2, <1>7 DEF Free, Busy
  <2>4. /\ \A i, j \in 1 .. Len(d.queue) : d.queue[i] = d.queue[j] => i = j
        /\ \A i \in 1 .. Len(d.queue) : d.queue[i] \in DOMAIN d.paths \ DOMAIN d.reserved
        /\ Cardinality(DOMAIN d.paths) <= Len(Paths) + d.rebuilt
    BY <1>7 DEF Base
  <2> QED BY <1>6, <2>1, <2>2, <2>3, <2>4 DEF Base
<1>9. \A m \in final : Plain(m)
  <2>1. c.flow \in 0 .. Command
    BY <1>0, Constants DEF Amounts
  <2> QED BY <1>0, <1>4, <2>1 DEF FinalPaths, Plain
<1>10. ASSUME TryNextPath(d, taken, final) PROVE CoordinatorKeeps
  <2>1. \A p : Queued(d, p) => Queued(co, p)
    BY <1>7 DEF Queued
  <2> QED BY <1>0, <1>8, <1>9, <1>10, <2>1, TryNextKeeps
<1>11. ASSUME Reject(c, taken, {}) \/ Reject(d, taken, final) PROVE CoordinatorKeeps
  <2>1. \A m \in {} : Plain(m)
    OBVIOUS
  <2>2. CASE Reject(c, taken, {})
    BY <2>1, <2>2, RejectKeeps
  <2>3. CASE Reject(d, taken, final)
    BY <1>9, <2>3, RejectKeeps
  <2> QED BY <1>11, <2>2, <2>3
<1>12. ASSUME Coordinate([d EXCEPT !.step = "FinalAmounts"], taken, final \cup sums), Collected(c) = Command
       PROVE  CoordinatorKeeps
  <2>1. PICK e : e = [d EXCEPT !.step = "FinalAmounts"]
    OBVIOUS
  <2>2. co' = e /\ UNCHANGED tx /\ net' = Transit(taken, final \cup sums)
    BY <1>12, <2>1 DEF Coordinate
  <2>3. /\ e \in CoRecord /\ e.step = "FinalAmounts"
        /\ e.paths = d.paths /\ e.queue = d.queue /\ e.reserved = d.reserved
        /\ e.done = d.done /\ e.rebuilt = d.rebuilt /\ e.at = d.at /\ e.flow = d.flow
    BY <1>6, <2>1 DEF CoRecord
  <2>4. Base(e) /\ Free(e)
    BY <1>8, <2>3, SameFits DEF Same
  <2>5. Collected(e) = Command
    BY <1>7, <1>12, <2>3, CollectedIs
  <2>6. CoFits(e)
    BY <2>3, <2>4, <2>5 DEF CoFits, Reaching
  <2>7. Later(co, e)
    <3>1. ASSUME NEW n, NEW p, Asked(co, n, p) PROVE Asked(e, n, p)
      BY <1>7, <2>3, <3>1 DEF Asked, Queued, Reaching
    <3> QED BY <1>0, <3>1 DEF Later
  <2>8. \A m \in sums : MsgFits(e, m) /\ ~First(m)
    <3>1. ASSUME NEW n PROVE Config(d, n) = Config(e, n) /\ Config(d, n) \in Partial(Amounts)
      <4>1. Config(d, n) = Config(e, n)
        BY <2>3 DEF Config, PathsOf
      <4>2. d.done \in Partial(Amounts)
        BY <1>6 DEF CoRecord
      <4> QED BY <4>1, <4>2, ConfigType
    <3>2. \A m \in sums : m.type = "FinalAmounts" /\ m.config = Config(d, m.to)
      BY <1>5
    <3> QED BY <2>3, <3>1, <3>2 DEF MsgFits, First
  <2>9. \A m \in net' : (m \in net /\ (OnePass => ~First(m))) \/ Plain(m) \/ m \in sums
    BY <1>9, <2>2, TransitIs DEF FirstTaken
  <2>10. \A m \in net' : m \in net \/ MsgFits(e, m)
    BY <2>8, <2>9, PlainFits
  <2>11. FirstFits(e, net')
    BY <2>8, <2>9, PlainFits DEF FirstFits
  <2> QED BY <2>2, <2>6, <2>7, <2>10, <2>11 DEF CoordinatorKeeps
<1>13. \/ TryNextPath(d, taken, final)
       \/ Reject(c, taken, {}) \/ Reject(d, taken, final)
       \/ Coordinate([d EXCEPT !.step = "FinalAmounts"], taken, final \cup sums)
          /\ Collected(c) = Command
  <2>1. d = [c EXCEPT !.done = With(@, c.at, c.flow), !.at = 0, !.flow = 0, !.pos = 0]
    BY <1>1, <1>3
  <2> QED BY <1>4, <1>5, <2>1 DEF FinishPath
<1> QED BY <1>10, <1>11, <1>12, <1>13

-----------------------------------------------------------------------------
(* The steps of the coordinator. *)

LEMMA NoneFirst ==
    ASSUME ReservationInv, co.step # "NeighborReservation", NEW taken
    PROVE  FirstTaken(taken)
BY FirstExpires DEF FirstTaken

LEMMA NoneSent == \A m \in {} : Plain(m)
OBVIOUS

\* The coordinator ends before the first path is started.
LEMMA EarlyEnd ==
    ASSUME ReservationInv, co.step # "NeighborReservation", NEW taken, Coordinate(Ended, taken, {})
    PROVE  CoordinatorKeeps
<1>1. co' = Ended /\ UNCHANGED tx /\ net' = Transit(taken, {})
  BY DEF Coordinate
<1>2. \A m \in net' : m \in net /\ (OnePass => ~First(m))
  BY <1>1, TransitIs, FirstExpires
<1> QED BY <1>1, <1>2, EndKeeps

\* What is noted about nodes and lines leaves the paths and reservations alone.
LEMMA NotedSame ==
    ASSUME Base(co)
    PROVE  /\ \A a, b \in Nodes : Same(co, Refused(co, a, b))
           /\ \A n \in Nodes : Same(co, Offline(co, n))
           /\ Same(co, [co EXCEPT !.misses = @ + 1])
<1>0. co \in CoRecord
  BY DEF Base
<1>1. ASSUME NEW a \in Nodes, NEW b \in Nodes PROVE Same(co, Refused(co, a, b))
  <2>1. PICK r \in SUBSET (Nodes \X Nodes) : r = co.refused \cup {<<a, b>>}
    <3>1. co.refused \in SUBSET (Nodes \X Nodes)
      BY <1>0 DEF CoRecord
    <3>2. <<a, b>> \in Nodes \X Nodes
      BY <1>1
    <3>3. co.refused \cup {<<a, b>>} \in SUBSET (Nodes \X Nodes)
      BY <3>1, <3>2, Zenon
    <3> QED BY <3>3
  <2>2. Refused(co, a, b) = [co EXCEPT !.refused = r, !.troubled = TRUE]
    BY <1>0, <2>1 DEF Refused, CoRecord
  <2> QED BY <1>0, <2>1, <2>2 DEF Same, CoRecord
<1>2. ASSUME NEW n \in Nodes PROVE Same(co, Offline(co, n))
  <2>1. PICK r \in SUBSET Nodes : r = co.offline \cup {n}
    BY <1>0, <1>2 DEF CoRecord
  <2>2. Offline(co, n) = [co EXCEPT !.offline = r, !.troubled = TRUE]
    BY <1>0, <2>1 DEF Offline, CoRecord
  <2> QED BY <1>0, <2>1, <2>2 DEF Same, CoRecord
<1>3. Same(co, [co EXCEPT !.misses = @ + 1])
  <2>1. PICK k \in Nat : k = co.misses + 1
    BY <1>0 DEF CoRecord
  <2>2. PICK d : d = [co EXCEPT !.misses = k]
    OBVIOUS
  <2>3. Same(co, d)
    BY <1>0, <2>2 DEF Same, CoRecord
  <2> QED BY <2>1, <2>2, <2>3
<1> QED BY <1>1, <1>2, <1>3

\* The path that the coordinator is at.
LEMMA CurrentPath ==
    ASSUME ReservationInv, co.step \in Reaching, NEW path, path = co.paths[co.at]
    PROVE  /\ Base(co) /\ Busy(co) /\ co.at \in Ids /\ path \in Routes
           /\ Len(path) \in Nat /\ Len(path) >= 2 /\ path[1] = Coordinator /\ path[Len(path)] = Receiver
           /\ \A i \in 2 .. Len(path) : path[i] \in Participants
           /\ OnePass => co.at + 1 \in DOMAIN Paths /\ path = Paths[co.at + 1]
<1>1. Base(co) /\ Busy(co)
  BY DEF ReservationInv, CoFits
<1>2. co.at \in Ids /\ path \in Routes /\ (OnePass => co.at + 1 \in DOMAIN Paths /\ path = Paths[co.at + 1])
  BY <1>1, PartialIs DEF Base, Busy, CoRecord
<1> QED BY <1>1, <1>2, RouteIs

LEMMA InitializeKeeps == ASSUME ReservationInv, Initialize PROVE CoordinatorKeeps
<1>0. co.step = "Initialization" /\ co = NoPayment
  BY DEF Initialize, ReservationInv, CoFits
<1>1. CASE Coordinate(Ended, {}, {})
  BY <1>0, <1>1, EarlyEnd
<1>2. ASSUME NEW paths, paths = [p \in 0 .. Len(Paths) - 1 |-> Paths[p + 1]],
             NEW queue, queue = [i \in 1 .. Len(Paths) |-> i - 1],
             Coordinate([co EXCEPT !.step = "ReceiverResponse", !.paths = paths, !.queue = queue],
                        {}, {Msg("ReceiverInit", Coordinator, Receiver)})
      PROVE  CoordinatorKeeps
  <2>1. PICK d : d = [co EXCEPT !.step = "ReceiverResponse", !.paths = paths, !.queue = queue]
    OBVIOUS
  <2>2. PICK sent : sent = {Msg("ReceiverInit", Coordinator, Receiver)}
    OBVIOUS
  <2>3. co' = d /\ UNCHANGED tx /\ net' = Transit({}, sent)
    BY <1>2, <2>1, <2>2 DEF Coordinate
  <2>4. paths \in Partial(Routes) /\ DOMAIN paths = 0 .. Len(Paths) - 1
    <3>1. 0 .. Len(Paths) - 1 \in SUBSET Ids
      BY Constants DEF Ids
    <3>2. paths \in [0 .. Len(Paths) - 1 -> Routes]
      BY <1>2, Constants
    <3> QED BY <3>1, <3>2 DEF Partial
  <2>5. queue \in Seq(Ids) /\ Len(queue) = Len(Paths) /\ \A i \in 1 .. Len(Paths) : queue[i] = i - 1
    <3>1. queue \in [1 .. Len(Paths) -> Ids]
      BY <1>2, Constants
    <3> QED BY <1>2, <3>1, Constants
  <2>6. /\ d.step = "ReceiverResponse" /\ d.paths = paths /\ d.queue = queue /\ d.at = 0 /\ d.flow = 0
        /\ d.pos = 0 /\ d.reserved = <<>> /\ d.done = <<>> /\ d.rebuilt = 0
    BY <1>0, <2>1 DEF NoPayment
  <2>7. d \in CoRecord
    <3>1. co \in CoRecord
      BY DEF ReservationInv, CoFits, Base
    <3> QED BY <2>1, <2>4, <2>5, <3>1 DEF CoRecord
  <2>8. Base(d)
    <3>1. DOMAIN <<>> = {}
      OBVIOUS
    <3>2. Cardinality(DOMAIN d.paths) = Len(Paths)
      <4>1. Cardinality(0 .. Len(Paths) - 1) = Len(Paths)
        <5>1. PICK n \in Nat : n = Len(Paths)
          BY Constants
        <5>2. PICK k \in Int : k = n - 1
          OBVIOUS
        <5>3. Cardinality(0 .. k) = IF 0 > k THEN 0 ELSE k - 0 + 1
          BY FS_Interval
        <5> QED BY <5>1, <5>2, <5>3
      <4> QED BY <2>4, <2>6, <4>1
    <3>3. \A i, j \in 1 .. Len(d.queue) : d.queue[i] = d.queue[j] => i = j
      <4>1. ASSUME NEW i \in 1 .. Len(Paths), NEW j \in 1 .. Len(Paths), queue[i] = queue[j] PROVE i = j
        BY <2>5, <4>1, Constants
      <4> QED BY <2>5, <2>6, <4>1
    <3>4. \A i \in 1 .. Len(d.queue) : d.queue[i] \in DOMAIN d.paths \ DOMAIN d.reserved
      <4>1. \A i \in 1 .. Len(Paths) : queue[i] \in DOMAIN paths
        BY <2>4, <2>5, Constants
      <4> QED BY <2>5, <2>6, <3>1, <4>1
    <3>5. \A p \in DOMAIN d.paths : p + 1 \in DOMAIN Paths /\ d.paths[p] = Paths[p + 1]
      <4>1. \A p \in 0 .. Len(Paths) - 1 : p + 1 \in DOMAIN Paths /\ paths[p] = Paths[p + 1]
        BY <1>2, Constants
      <4> QED BY <2>4, <2>6, <4>1
    <3>6. DOMAIN d.done = {} /\ DOMAIN d.reserved = {}
      BY <2>6, <3>1
    <3>7. Cardinality(DOMAIN d.paths) <= Len(Paths) + d.rebuilt
      BY <2>6, <3>2, Constants
    <3> QED BY <2>7, <3>3, <3>4, <3>5, <3>6, <3>7 DEF Base
  <2>9. CoFits(d)
    <3>1. Free(d)
      BY <2>6 DEF Free
    <3> QED BY <2>6, <2>8, <3>1 DEF CoFits, Reaching
  <2>10. Later(co, d)
    BY <1>0 DEF Later, Asked
  <2>11. \A m \in sent : Plain(m)
    BY <2>2 DEF Msg, Plain
  <2>12. \A m \in net' : (m \in net /\ (OnePass => ~First(m))) \/ Plain(m)
    BY <1>0, <2>3, <2>11, TransitIs, FirstExpires
  <2>13. \A m \in net' : m \in net \/ MsgFits(d, m)
    BY <2>12, PlainFits
  <2>14. FirstFits(d, net')
    BY <2>12, PlainFits DEF FirstFits
  <2> QED BY <2>3, <2>9, <2>10, <2>13, <2>14 DEF CoordinatorKeeps
<1> QED BY <1>1, <1>2 DEF Initialize

LEMMA ReceiverResponseKeeps == ASSUME ReservationInv, ReceiverResponse PROVE CoordinatorKeeps
<1>0. co.step = "ReceiverResponse" /\ Base(co) /\ Free(co)
  BY DEF ReceiverResponse, ReservationInv, CoFits, Reaching
<1>1. ASSUME NEW m, TryNextPath(co, {m}, {}) PROVE CoordinatorKeeps
  BY <1>0, <1>1, NoneFirst, NoneSent, TryNextKeeps
<1>2. ASSUME NEW m, Coordinate(Ended, {m}, {}) PROVE CoordinatorKeeps
  BY <1>0, <1>2, EarlyEnd
<1> QED BY <1>1, <1>2 DEF ReceiverResponse

LEMMA NeighborResponseKeeps == ASSUME ReservationInv, NeighborResponse PROVE CoordinatorKeeps
<1>0. co.step = "NeighborReservation" /\ co.step \in Reaching
  BY DEF NeighborResponse, Reaching
<1>1. PICK m \in net : /\ m.to = Coordinator /\ m.type = "ReservationResponse"
                       /\ IF m.path # co.at THEN Coordinate(co, {m}, {})
                          ELSE \/ m.state = "Closed" /\ Reject(co, {m}, {})
                               \/ m.state = "Rejected" /\ GiveUp(Refused(co, Coordinator, m.from), 1, {m}, {})
                               \/ /\ m.state = "Accepted"
                                  /\ IF m.amount > co.flow THEN Reject(co, {m}, {})
                                     ELSE AskFurther(ShortFlow(co, m.amount, m.from), 2, {m})
  BY DEF NeighborResponse, ToCoordinator
<1>2. PICK path : path = co.paths[co.at]
  OBVIOUS
<1>3. /\ Base(co) /\ Busy(co) /\ co.at \in Ids /\ path \in Routes
      /\ Len(path) \in Nat /\ Len(path) >= 2 /\ path[1] = Coordinator /\ path[Len(path)] = Receiver
      /\ OnePass => co.at + 1 \in DOMAIN Paths /\ path = Paths[co.at + 1]
      /\ ~IsDirect(path) /\ co.pos = 2
  BY <1>0, <1>2, CurrentPath DEF ReservationInv, CoFits
<1>4. /\ m.from \in Participants /\ m.from \in Nodes
      /\ m.state = "Accepted" => m.amount \in Amounts
      /\ OnePass => Hop(m.path, Coordinator, m.from)
  BY <1>1, Constants DEF ReservationInv, MsgFits
<1>5. CASE Coordinate(co, {m}, {})
  BY <1>5, NoneSent, StayKeeps
<1>6. CASE Reject(co, {m}, {})
  BY <1>6, NoneSent, RejectKeeps
<1>7. CASE GiveUp(Refused(co, Coordinator, m.from), 1, {m}, {})
  <2>1. Same(co, Refused(co, Coordinator, m.from))
    BY <1>3, <1>4, NotedSame, Constants
  <2> QED BY <1>0, <1>7, <2>1, NoneSent, GiveUpKeeps
<1>8. CASE m.path = co.at /\ m.state = "Accepted" /\ AskFurther(ShortFlow(co, m.amount, m.from), 2, {m})
  <2>1. PICK d : d = ShortFlow(co, m.amount, m.from)
    OBVIOUS
  <2>2. OnePass => m.from = path[2]
    <3>1. OnePass => Hop(co.at, path[1], path[2])
      <4>1. 1 \in 1 .. Len(path) - 1 /\ 1 + 1 = 2
        BY <1>3
      <4> QED BY <1>3, <4>1 DEF Hop
    <3> QED BY <1>3, <1>4, <1>8, <3>1, HopUnique
  <2>3. /\ Base(d) /\ Busy(d) /\ d.paths = co.paths /\ d.queue = co.queue /\ d.at = co.at
    BY <1>2, <1>3, <1>4, <1>8, <2>1, <2>2, ShortFlowIs
  <2>4. FirstTaken({m})
    <3>1. SUFFICES ASSUME OnePass PROVE \A k \in net : First(k) => k = m
      BY DEF FirstTaken
    <3>2. path[2] # Receiver
      <4>1. \A i, j \in 1 .. Len(path) : path[i] = path[j] => i = j
        BY <1>3, RouteIs
      <4>2. Len(path) # 2 /\ 2 \in 1 .. Len(path) /\ Len(path) \in 1 .. Len(path)
        BY <1>3 DEF IsDirect
      <4> QED BY <1>3, <4>1, <4>2
    <3>3. First(m)
      BY <1>1, <2>2, <3>1, <3>2 DEF First
    <3> QED BY <1>1, <3>1, <3>3 DEF ReservationInv, FirstFits
  <2>5. 2 \in 2 .. Len(d.paths[d.at]) - 1
    <3>1. d.paths[d.at] = path
      BY <1>2, <2>3
    <3>2. 2 \in 2 .. Len(path) - 1
      <4>1. PICK n \in Nat : n = Len(path)
        BY <1>3
      <4>2. n >= 2 /\ n # 2
        BY <1>3, <4>1 DEF IsDirect
      <4> QED BY <4>1, <4>2
    <3> QED BY <3>1, <3>2
  <2>6. AskFurther(d, 2, {m})
    BY <1>8, <2>1
  <2> QED BY <1>0, <1>3, <2>3, <2>4, <2>5, <2>6, AskFurtherKeeps
<1> QED BY <1>1, <1>5, <1>6, <1>7, <1>8

LEMMA FurtherResponseKeeps == ASSUME ReservationInv, FurtherResponse PROVE CoordinatorKeeps
<1>0. co.step = "FurtherReservation" /\ co.step \in Reaching
  BY DEF FurtherResponse, Reaching
<1>1. PICK path : path = co.paths[co.at]
  OBVIOUS
<1>2. PICK from, to : from = path[co.pos] /\ to = path[co.pos + 1]
  OBVIOUS
<1>3. PICK m \in net :
        /\ m.to = Coordinator /\ m.type = "CoordinatorResponse"
        /\ \/ Coordinate(co, {m}, {})
           \/ Reject(co, {m}, {})
           \/ GiveUp(Refused(co, from, to), co.pos - 1, {m}, ToReceiver)
           \/ GiveUp(Offline(co, to), co.pos - 1, {m}, ToReceiver)
           \/ GiveUp([co EXCEPT !.misses = @ + 1], co.pos - 1, {m}, ToReceiver)
           \/ Reject(co, {m}, FinalPaths(path, co.at, co.pos - 1, 0))
           \/ /\ m.path = co.at /\ m.state = "Accepted"
              /\ LET d == ShortFlow(co, m.amount, IF co.pos = 2 THEN m.from ELSE path[2])
                 IN  IF co.pos = Len(path) - 1 THEN FinishPath(d, {m}) ELSE AskFurther(d, co.pos + 1, {m})
  BY <1>1, <1>2, Zenon DEF FurtherResponse, ToCoordinator
<1>4. /\ Base(co) /\ Busy(co) /\ co.at \in Ids /\ path \in Routes
      /\ Len(path) \in Nat /\ Len(path) >= 2
      /\ co.pos \in 2 .. Len(path) - 1
      /\ \A i \in 2 .. Len(path) : path[i] \in Participants
  BY <1>0, <1>1, CurrentPath DEF ReservationInv, CoFits
<1>5. from \in Nodes /\ to \in Nodes
  <2>1. co.pos \in 2 .. Len(path) /\ co.pos + 1 \in 2 .. Len(path)
    BY <1>4
  <2> QED BY <1>2, <1>4, <2>1, Constants
<1>6. \A k \in ToReceiver : Plain(k)
  BY DEF ToReceiver, Msg, Plain
<1>7. CASE Coordinate(co, {m}, {})
  BY <1>7, NoneSent, StayKeeps
<1>8. CASE Reject(co, {m}, {})
  BY <1>8, NoneSent, RejectKeeps
<1>9. CASE GiveUp(Refused(co, from, to), co.pos - 1, {m}, ToReceiver)
  <2>1. Same(co, Refused(co, from, to))
    BY <1>4, <1>5, NotedSame
  <2> QED BY <1>0, <1>6, <1>9, <2>1, GiveUpKeeps
<1>10. CASE GiveUp(Offline(co, to), co.pos - 1, {m}, ToReceiver)
  <2>1. Same(co, Offline(co, to))
    BY <1>4, <1>5, NotedSame
  <2> QED BY <1>0, <1>6, <1>10, <2>1, GiveUpKeeps
<1>11. CASE GiveUp([co EXCEPT !.misses = @ + 1], co.pos - 1, {m}, ToReceiver)
  <2>1. PICK d : d = [co EXCEPT !.misses = @ + 1]
    OBVIOUS
  <2>2. Same(co, d)
    BY <1>4, <2>1, NotedSame
  <2>3. GiveUp(d, co.pos - 1, {m}, ToReceiver)
    BY <1>11, <2>1
  <2> QED BY <1>0, <1>6, <2>2, <2>3, GiveUpKeeps
<1>12. CASE Reject(co, {m}, FinalPaths(path, co.at, co.pos - 1, 0))
  <2>1. \A k \in FinalPaths(path, co.at, co.pos - 1, 0) : Plain(k)
    BY <1>4, Constants DEF FinalPaths, Plain
  <2> QED BY <1>12, <2>1, RejectKeeps
<1>13. ASSUME m.path = co.at, m.state = "Accepted",
              NEW n, n = IF co.pos = 2 THEN m.from ELSE path[2],
              NEW d, d = ShortFlow(co, m.amount, n),
              IF co.pos = Len(path) - 1 THEN FinishPath(d, {m}) ELSE AskFurther(d, co.pos + 1, {m})
       PROVE  CoordinatorKeeps
  <2>1. m.amount \in Amounts /\ (OnePass => Asked(co, m.from, m.path))
    BY <1>3, <1>13 DEF ReservationInv, MsgFits
  <2>2. OnePass => n = co.paths[co.at][2]
    BY <1>0, <1>1, <1>13, <2>1 DEF Asked
  <2>3. /\ Base(d) /\ Busy(d) /\ d.paths = co.paths /\ d.queue = co.queue /\ d.at = co.at
    BY <1>4, <1>13, <2>1, <2>2, ShortFlowIs
  <2>4. FirstTaken({m})
    BY <1>0, NoneFirst
  <2>5. CASE FinishPath(d, {m})
    BY <1>0, <2>3, <2>4, <2>5, FinishKeeps
  <2>6. CASE co.pos # Len(path) - 1 /\ AskFurther(d, co.pos + 1, {m})
    <3>1. PICK pos : pos = co.pos + 1
      OBVIOUS
    <3>2. pos \in 2 .. Len(d.paths[d.at]) - 1 /\ pos # 2
      BY <1>1, <1>4, <2>3, <2>6, <3>1
    <3>3. AskFurther(d, pos, {m})
      BY <2>6, <3>1
    <3> QED BY <1>0, <2>3, <2>4, <3>2, <3>3, AskFurtherKeeps
  <2> QED BY <1>13, <2>5, <2>6
<1> QED BY <1>3, <1>7, <1>8, <1>9, <1>10, <1>11, <1>12, <1>13

LEMMA ShortPathResponseKeeps == ASSUME ReservationInv, ShortPathResponse PROVE CoordinatorKeeps
<1>0. co.step = "ShortPath" /\ co.step \in Reaching
  BY DEF ShortPathResponse, Reaching
<1>1. PICK m \in net :
        /\ m.to = Coordinator /\ m.type = "ReservationResponse"
        /\ IF m.state # "Accepted" THEN GiveUp(Refused(co, Coordinator, m.from), 1, {m}, {})
           ELSE IF m.amount > co.flow THEN Reject(co, {m}, {})
           ELSE FinishPath(ShortFlow(co, m.amount, m.from), {m})
  BY DEF ShortPathResponse, ToCoordinator
<1>2. PICK path : path = co.paths[co.at]
  OBVIOUS
<1>3. Base(co) /\ Busy(co) /\ path[Len(path)] = Receiver /\ IsDirect(path)
  BY <1>0, <1>2, CurrentPath DEF ReservationInv, CoFits
<1>4. m.from \in Nodes /\ (m.state = "Accepted" => m.amount \in Amounts)
  BY <1>1, Constants DEF ReservationInv, MsgFits
<1>5. CASE GiveUp(Refused(co, Coordinator, m.from), 1, {m}, {})
  <2>1. Same(co, Refused(co, Coordinator, m.from))
    BY <1>3, <1>4, NotedSame, Constants
  <2> QED BY <1>0, <1>5, <2>1, NoneSent, GiveUpKeeps
<1>6. CASE Reject(co, {m}, {})
  BY <1>6, NoneSent, RejectKeeps
<1>7. CASE m.state = "Accepted" /\ FinishPath(ShortFlow(co, m.amount, m.from), {m})
  <2>1. PICK d : d = ShortFlow(co, m.amount, m.from)
    OBVIOUS
  <2>2. OnePass => m.from = co.paths[co.at][2]
    <3>1. OnePass => ~First(m)
      BY <1>0, <1>1, FirstExpires
    <3> QED BY <1>1, <1>2, <1>3, <3>1 DEF First, IsDirect
  <2>3. Base(d) /\ Busy(d) /\ d.paths = co.paths /\ d.queue = co.queue
    BY <1>3, <1>4, <1>7, <2>1, <2>2, ShortFlowIs
  <2>4. FirstTaken({m})
    BY <1>0, NoneFirst
  <2>5. FinishPath(d, {m})
    BY <1>7, <2>1
  <2> QED BY <1>0, <2>3, <2>4, <2>5, FinishKeeps
<1> QED BY <1>1, <1>5, <1>6, <1>7

LEMMA TTLRequestedKeeps == ASSUME ReservationInv, TTLRequested PROVE CoordinatorKeeps
<1>1. PICK m, sent : /\ Coordinate(co, {m}, sent)
                     /\ \/ sent = {Msg("TTLContinue", Coordinator, m.from)}
                        \/ sent = {Msg("TTLFinish", Coordinator, m.from)}
  <2>1. PICK m \in ToCoordinator("TTLRequest") :
           LET alive == \/ m.from \in Configured(co)
                        \/ m.from = Receiver /\ co.step \in {"NeighborReservation", "FurtherReservation"}
           IN  Coordinate(co, {m}, {Msg(IF alive THEN "TTLContinue" ELSE "TTLFinish", Coordinator, m.from)})
    BY DEF TTLRequested
  <2>2. CASE \/ m.from \in Configured(co)
             \/ m.from = Receiver /\ co.step \in {"NeighborReservation", "FurtherReservation"}
    BY <2>1, <2>2
  <2>3. CASE ~(\/ m.from \in Configured(co)
               \/ m.from = Receiver /\ co.step \in {"NeighborReservation", "FurtherReservation"})
    BY <2>1, <2>3
  <2> QED BY <2>2, <2>3
<1>2. \A k \in sent : Plain(k)
  BY <1>1 DEF Msg, Plain
<1> QED BY <1>1, <1>2, StayKeeps

LEMMA CoordinatorTimeoutKeeps == ASSUME ReservationInv, CoordinatorTimeout PROVE CoordinatorKeeps
<1>1. \A k \in ToReceiver : Plain(k)
  BY DEF ToReceiver, Msg, Plain
<1>2. ASSUME co.step \in Reaching PROVE Base(co)
  BY <1>2 DEF ReservationInv, CoFits
<1>3. CASE co.step = "ReceiverResponse" /\ Coordinate(Ended, {}, {})
  BY <1>3, EarlyEnd
<1>4. CASE co.step = "NeighborReservation" /\ GiveUp(Offline(co, co.paths[co.at][2]), 1, {}, ToReceiver)
  <2>1. co.step \in Reaching
    BY <1>4 DEF Reaching
  <2>2. PICK path : path = co.paths[co.at]
    OBVIOUS
  <2>3. path[2] \in Nodes
    <3>1. Len(path) \in Nat /\ Len(path) >= 2 /\ \A i \in 2 .. Len(path) : path[i] \in Participants
      BY <2>1, <2>2, CurrentPath
    <3> QED BY <3>1, Constants
  <2>4. Same(co, Offline(co, path[2]))
    BY <1>2, <2>1, <2>3, NotedSame
  <2> QED BY <1>1, <1>4, <2>1, <2>2, <2>4, GiveUpKeeps
<1>5. CASE co.step = "FurtherReservation" /\ GiveUp(Offline(co, co.paths[co.at][co.pos]), co.pos, {}, ToReceiver)
  <2>1. co.step \in Reaching
    BY <1>5 DEF Reaching
  <2>2. PICK path : path = co.paths[co.at]
    OBVIOUS
  <2>3. path[co.pos] \in Nodes
    <3>1. Len(path) \in Nat /\ Len(path) >= 2 /\ \A i \in 2 .. Len(path) : path[i] \in Participants
      BY <2>1, <2>2, CurrentPath
    <3>2. co.pos \in 2 .. Len(path) - 1
      BY <1>5, <2>2 DEF ReservationInv, CoFits
    <3> QED BY <3>1, <3>2, Constants
  <2>4. Same(co, Offline(co, path[co.pos]))
    BY <1>2, <2>1, <2>3, NotedSame
  <2> QED BY <1>1, <1>5, <2>1, <2>2, <2>4, GiveUpKeeps
<1>6. CASE co.step = "ShortPath" /\ GiveUp([co EXCEPT !.misses = @ + 1], 1, {}, {})
  <2>1. co.step \in Reaching
    BY <1>6 DEF Reaching
  <2>2. PICK d : d = [co EXCEPT !.misses = @ + 1]
    OBVIOUS
  <2>3. Same(co, d)
    BY <1>2, <2>1, <2>2, NotedSame
  <2>4. GiveUp(d, 1, {}, {})
    BY <1>6, <2>2
  <2> QED BY <2>1, <2>3, <2>4, NoneSent, GiveUpKeeps
<1>7. CASE Reject(co, {}, {})
  BY <1>7, NoneSent, RejectKeeps
<1> QED BY <1>3, <1>4, <1>5, <1>6, <1>7 DEF CoordinatorTimeout

LEMMA CoordinatingKeeps == ASSUME ReservationInv, Coordinating PROVE ReservationInv'
BY InitializeKeeps, ReceiverResponseKeeps, NeighborResponseKeeps, FurtherResponseKeeps,
   ShortPathResponseKeeps, TTLRequestedKeeps, CoordinatorTimeoutKeeps, CoordinatorKept DEF Coordinating

-----------------------------------------------------------------------------
(* Reservations of a participant. *)

\* Reservations on the lines of n, each on its path.
Holds(n, R) == R \in SUBSET Reservations /\ (OnePass => \A r \in R : OnHop(n, r))

LEMMA HoldsOff == ASSUME NEW n, NEW R, Holds(n, R), NEW p PROVE Holds(n, OffPath(R, p))
BY DEF Holds, OffPath

LEMMA HoldsUpdated ==
    ASSUME NEW n, NEW R, Holds(n, R), NEW a \in Partial(Amounts)
    PROVE  /\ Holds(n, Updated(R, a))
           /\ \A r \in Updated(R, a) : r.path \in DOMAIN a /\ r.amount = a[r.path]
<1>1. ASSUME NEW r \in Updated(R, a)
      PROVE  r \in Reservations /\ (OnePass => OnHop(n, r)) /\ r.path \in DOMAIN a /\ r.amount = a[r.path]
  <2>1. PICK s \in R : s.path \in DOMAIN a /\ r = [s EXCEPT !.amount = a[s.path]]
    BY <1>1 DEF Updated
  <2>2. s \in Reservations /\ a[s.path] \in Amounts
    BY <2>1, PartialIs DEF Holds
  <2>3. r \in Reservations /\ r.peer = s.peer /\ r.path = s.path /\ r.direction = s.direction
        /\ r.amount = a[s.path]
    BY <2>1, <2>2 DEF Reservations
  <2>4. OnePass => OnHop(n, r)
    BY <2>3 DEF Holds, OnHop
  <2> QED BY <2>1, <2>3, <2>4
<1> QED BY <1>1 DEF Holds

LEMMA HoldsShortened ==
    ASSUME NEW n, NEW R, Holds(n, R), NEW p \in Ids, NEW amount \in Amounts
    PROVE  Holds(n, Shortened(R, p, amount))
<1>1. AmountOf(p, amount) \in Partial(Amounts)
  BY AmountOfIs
<1>2. Holds(n, OffPath(R, p)) /\ Holds(n, Updated(R, AmountOf(p, amount)))
  BY <1>1, HoldsOff, HoldsUpdated
<1> QED BY <1>2 DEF Shortened, Holds

LEMMA HoldsAdded ==
    ASSUME NEW n, NEW R, Holds(n, R), NEW p \in Ids, NEW amount \in Amounts, NEW peer \in Nodes,
           NEW direction \in Direction,
           OnePass => IF direction = "Incoming" THEN Hop(p, peer, n) ELSE Hop(p, n, peer)
    PROVE  Holds(n, R \cup {Reservation(peer, p, direction, amount)})
BY DEF Holds, Reservation, Reservations, OnHop

-----------------------------------------------------------------------------
(* A step of a participant. *)

\* Messages that a participant sends for those it takes.  The answer to the
\* first hop of a path takes the place of the request.
SentFit(taken, sent) ==
    /\ \A m \in sent : MsgFits(co, m)
    /\ OnePass => \A m \in sent : First(m) =>
          /\ \A k \in sent : k = m
          /\ \E k \in taken : k \in net /\ First(k) /\ k.path = m.path

LEMMA PlainSent == ASSUME NEW taken, NEW sent, \A m \in sent : Plain(m) PROVE SentFit(taken, sent)
BY PlainFits DEF SentFit

LEMMA FirstStaysFit ==
    ASSUME ReservationInv, NEW taken, NEW sent, SentFit(taken, sent), net' = Transit(taken, sent)
    PROVE  /\ \A m \in net' : MsgFits(co, m)
           /\ FirstFits(co, net')
<1>1. \A m \in net' : (m \in net /\ m \notin taken) \/ m \in sent
  BY TransitIs
<1>2. \A m \in net' : MsgFits(co, m)
  BY <1>1 DEF ReservationInv, SentFit
<1>3. ASSUME OnePass, NEW m \in net', First(m)
      PROVE  /\ co.step = "NeighborReservation" /\ m.path = co.at
             /\ \A k \in net' : First(k) => k = m
  <2>1. \A j \in net : First(j) => /\ co.step = "NeighborReservation" /\ j.path = co.at
                                   /\ \A k \in net : First(k) => k = j
    BY <1>3 DEF ReservationInv, FirstFits
  <2>2. \A j \in sent : First(j) => /\ \A k \in sent : k = j
                                    /\ \E k \in taken : k \in net /\ First(k) /\ k.path = j.path
    BY <1>3 DEF SentFit
  <2>3. CASE m \in net /\ m \notin taken
    BY <1>1, <1>3, <2>1, <2>2, <2>3
  <2>4. CASE m \in sent
    BY <1>1, <1>3, <2>1, <2>2, <2>4
  <2> QED BY <1>1, <2>3, <2>4
<1>4. FirstFits(co, net')
  BY <1>3 DEF FirstFits
<1> QED BY <1>2, <1>4

LEMMA DoKeeps ==
    ASSUME ReservationInv, NEW n \in Participants, NEW t, TxFits(co, n, t),
           NEW taken, NEW sent, SentFit(taken, sent), Do(n, t, taken, sent)
    PROVE  ReservationInv'
<1>1. tx' = [tx EXCEPT ![n] = t] /\ co' = co /\ net' = Transit(taken, sent)
  BY DEF Do
<1>2. tx \in [Participants -> TxRecord] /\ t \in TxRecord
  BY DEF ReservationInv, TxFits
<1>3. tx' \in [Participants -> TxRecord]
  BY <1>1, <1>2
<1>4. \A k \in Participants : TxFits(co, k, tx'[k])
  <2>1. ASSUME NEW k \in Participants PROVE TxFits(co, k, tx'[k])
    <3>1. CASE k = n
      <4>1. tx'[k] = t
        BY <1>1, <1>2, <3>1
      <4> QED BY <3>1, <4>1
    <3>2. CASE k # n
      <4>1. tx'[k] = tx[k]
        BY <1>1, <1>2, <3>2
      <4> QED BY <4>1 DEF ReservationInv
    <3> QED BY <3>1, <3>2
  <2> QED BY <2>1
<1>5. /\ \A m \in net' : MsgFits(co, m)
      /\ FirstFits(co, net')
  BY <1>1, FirstStaysFit
<1> HIDE DEF ReservationInv
<1>6. CoFits(co)
  BY DEF ReservationInv
<1> QED BY <1>1, <1>3, <1>4, <1>5, <1>6 DEF ReservationInv

\* A transaction that may go on with any step but the agreement.
Ready(n, t) ==
    /\ t \in TxRecord /\ t.left = {}
    /\ t.role = "Receiver" => n = Receiver
    /\ Holds(n, t.reservations)

Waiting == {"CoordinatorRequest", "FinalPath", "Prolongation", "Reservations", "FinalAmounts",
            "VotesChecking"} \cup Clarifying

LEMMA WaitFits ==
    ASSUME NEW n, NEW t, Ready(n, t), NEW step \in Waiting,
           NEW waits \in SUBSET WaitTypes, "ReservationResponse" \notin waits,
           NEW u, u = WaitIn(t, step, waits)
    PROVE  TxFits(co, n, u)
<1>1. /\ u \in TxRecord /\ u.left = {} /\ u.role = t.role /\ u.reservations = t.reservations
      /\ u.step = step /\ u.waits = waits
  BY DEF WaitIn, Ready, TxRecord, Waiting
<1>2. step \notin {"Agreed", "NextNeighborResponse"}
  BY DEF Waiting, Clarifying
<1> QED BY <1>1, <1>2 DEF TxFits, Ready, Holds

LEMMA NoneReady == ASSUME NEW n PROVE Ready(n, NoTransaction) /\ TxFits(co, n, NoTransaction)
<1>1. NoTransaction \in TxRecord /\ NoTransaction.left = {} /\ NoTransaction.role = "None"
      /\ NoTransaction.reservations = {} /\ NoTransaction.step = "None" /\ NoTransaction.waits = {}
  BY Constants DEF NoTransaction, TxRecord
<1> QED BY <1>1 DEF Ready, Holds, TxFits

LEMMA WaitKeeps ==
    ASSUME ReservationInv, NEW n \in Participants, NEW t, Ready(n, t), NEW step \in Waiting,
           NEW waits \in SUBSET WaitTypes, "ReservationResponse" \notin waits,
           NEW taken, NEW sent, SentFit(taken, sent),
           Do(n, WaitIn(t, step, waits), taken, sent)
    PROVE  ReservationInv'
BY WaitFits, DoKeeps

LEMMA LeaveKeeps ==
    ASSUME ReservationInv, NEW n \in Participants, NEW taken, Leave(n, taken)
    PROVE  ReservationInv'
<1>1. SentFit(taken, {})
  BY DEF SentFit
<1> QED BY <1>1, NoneReady, DoKeeps DEF Leave

LEMMA WaitsTyped ==
    /\ ProlongationWaits \in SUBSET WaitTypes /\ "ReservationResponse" \notin ProlongationWaits
    /\ ReceiverWaits \in SUBSET WaitTypes /\ "ReservationResponse" \notin ReceiverWaits
    /\ {"CoordinatorRequest", "ReservationResponse", "FinalPath", "FinalAmounts"} \subseteq WaitTypes
    /\ TTLResponse \in SUBSET WaitTypes /\ "ReservationResponse" \notin TTLResponse
BY DEF ProlongationWaits, WaitTypes, ReceiverWaits, TTLResponse

LEMMA KeepOrCloseKeeps ==
    ASSUME ReservationInv, NEW n \in Participants, NEW t, Ready(n, t),
           NEW taken, NEW sent, SentFit(taken, sent), KeepOrClose(n, t, taken, sent)
    PROVE  ReservationInv'
<1>1. CASE Do(n, NoTransaction, taken, sent)
  BY <1>1, NoneReady, DoKeeps
<1>2. CASE Do(n, WaitIn(t, "Prolongation", ProlongationWaits), taken, sent)
  <2>1. "Prolongation" \in Waiting
    BY DEF Waiting
  <2> QED BY <1>2, <2>1, WaitsTyped, WaitKeeps
<1> QED BY <1>1, <1>2 DEF KeepOrClose

-----------------------------------------------------------------------------
(* The steps of the participants. *)

LEMMA OwnTx ==
    ASSUME ReservationInv, NEW n \in Participants, NEW t, t = tx[n]
    PROVE  /\ TxFits(co, n, t) /\ t \in TxRecord /\ Holds(n, t.reservations)
           /\ t.left = {} => Ready(n, t)
           /\ t.left # {} => t.role = "Receiver" /\ t.step = "ClarificationVoting" /\ t.waits = ReceiverWaits
<1>1. TxFits(co, n, t)
  BY DEF ReservationInv
<1>2. Holds(n, t.reservations)
  BY <1>1 DEF TxFits, Holds, TxRecord
<1> QED BY <1>1, <1>2 DEF TxFits, Ready

LEMMA ReadyWith ==
    ASSUME NEW n, NEW t, Ready(n, t), NEW R, Holds(n, R), NEW last \in Ids, NEW known \in BOOLEAN,
           NEW u, \/ u = [t EXCEPT !.reservations = R]
                  \/ u = [t EXCEPT !.reservations = R, !.last = last]
                  \/ u = [t EXCEPT !.reservations = R, !.last = last, !.known = known]
    PROVE  Ready(n, u)
BY DEF Ready, TxRecord, Holds

\* The answer to a reservation request.
LEMMA AnswerFits ==
    ASSUME ReservationInv, NEW n \in Participants, NEW m, RequestFits(m), m.to = n,
           NEW state, NEW amount, state = "Accepted" => amount \in Amounts,
           NEW taken, (m \in net /\ m \in taken) \/ n = Receiver
    PROVE  SentFit(taken, {Response("ReservationResponse", n, m.from, m.path, state, amount)})
<1>1. PICK k : k = Response("ReservationResponse", n, m.from, m.path, state, amount)
  OBVIOUS
<1>2. k.type = "ReservationResponse" /\ k.from = n /\ k.to = m.from /\ k.path = m.path
      /\ k.state = state /\ k.amount = amount
  BY <1>1 DEF Response
<1>3. m.path \in Ids /\ m.type = "ReservationRequest" /\ (OnePass => Hop(m.path, m.from, n))
  BY DEF RequestFits, Requests
<1>4. MsgFits(co, k)
  BY <1>2, <1>3 DEF MsgFits
<1>5. First(k) => m \in net /\ m \in taken /\ First(m)
  BY <1>2, <1>3 DEF First
<1> QED BY <1>1, <1>2, <1>4, <1>5 DEF SentFit

LEMMA IntermediateReserveKeeps ==
    ASSUME ReservationInv, NEW n \in Participants, NEW t, Ready(n, t),
           NEW m \in net, m.to = n, m.type = "ReservationRequest",
           IntermediateReserve(n, t, m)
    PROVE  ReservationInv'
<1>0. RequestFits(m) /\ m.config \in Partial(Amounts) /\ m.path \in Ids /\ m.from \in Nodes /\ m.amount \in Amounts
      /\ (OnePass => Hop(m.path, m.from, n))
  BY DEF ReservationInv, MsgFits, RequestFits, Requests
<1>1. PICK u : u = [t EXCEPT !.reservations = Updated(@, m.config)]
  OBVIOUS
<1>2. t \in TxRecord /\ Holds(n, t.reservations)
  BY DEF Ready
<1>3. Holds(n, Updated(t.reservations, m.config))
  BY <1>0, <1>2, HoldsUpdated
<1>4. Ready(n, u) /\ u.reservations = Updated(t.reservations, m.config) /\ u \in TxRecord
  <2>1. u = [t EXCEPT !.reservations = Updated(t.reservations, m.config)]
    BY <1>1, <1>2
  <2>2. Ready(n, u)
    BY <1>0, <1>3, <2>1, ReadyWith
  <2> QED BY <1>2, <2>1, <2>2 DEF TxRecord, Ready
<1>5. CASE Leave(n, {m})
  BY <1>5, LeaveKeeps
<1>6. ASSUME NEW state \in {"Closed", "Rejected"},
             KeepOrClose(n, u, {m}, {Response("ReservationResponse", n, m.from, m.path, state, 0)})
      PROVE  ReservationInv'
  <2>1. SentFit({m}, {Response("ReservationResponse", n, m.from, m.path, state, 0)})
    BY <1>0, <1>6, AnswerFits
  <2> QED BY <1>4, <1>6, <2>1, KeepOrCloseKeeps
<1>7. ASSUME NEW amount \in 1 .. m.amount,
             NEW v, v = [WaitIn(u, "CoordinatorRequest", ProlongationWaits \cup {"CoordinatorRequest"})
                            EXCEPT !.reservations = @ \cup {Reservation(m.from, m.path, "Incoming", amount)},
                                   !.last = m.path],
             Do(n, v, {m}, {Response("ReservationResponse", n, m.from, m.path, "Accepted", amount)})
      PROVE  ReservationInv'
  <2>1. amount \in Amounts
    BY <1>0, Constants DEF Amounts
  <2>2. SentFit({m}, {Response("ReservationResponse", n, m.from, m.path, "Accepted", amount)})
    BY <1>0, <2>1, AnswerFits
  <2>3. PICK R : R = u.reservations \cup {Reservation(m.from, m.path, "Incoming", amount)}
    OBVIOUS
  <2>4. Holds(n, R)
    BY <1>0, <1>3, <1>4, <2>1, <2>3, HoldsAdded DEF Direction
  <2>5. PICK w : w = [u EXCEPT !.reservations = R, !.last = m.path]
    OBVIOUS
  <2>6. Ready(n, w)
    BY <1>0, <1>4, <2>4, <2>5, ReadyWith
  <2>7. v = WaitIn(w, "CoordinatorRequest", ProlongationWaits \cup {"CoordinatorRequest"})
    BY <1>4, <1>7, <2>3, <2>5 DEF WaitIn, TxRecord
  <2>8. TxFits(co, n, v)
    <3>1. "CoordinatorRequest" \in Waiting
      BY DEF Waiting
    <3>2. PICK waits : waits = ProlongationWaits \cup {"CoordinatorRequest"}
      OBVIOUS
    <3>3. waits \in SUBSET WaitTypes /\ "ReservationResponse" \notin waits
      BY <3>2, WaitsTyped
    <3> QED BY <2>6, <2>7, <3>1, <3>2, <3>3, WaitFits
  <2> QED BY <1>7, <2>2, <2>8, DoKeeps
<1>8. CASE KeepOrClose(n, t, {m}, {Response("ReservationResponse", n, m.from, m.path, "Rejected", 0)})
  <2>1. SentFit({m}, {Response("ReservationResponse", n, m.from, m.path, "Rejected", 0)})
    BY <1>0, AnswerFits
  <2> QED BY <1>8, <2>1, KeepOrCloseKeeps
<1> QED BY <1>1, <1>5, <1>6, <1>7, <1>8 DEF IntermediateReserve

LEMMA LaunchIntermediateKeeps ==
    ASSUME ReservationInv, NEW n \in Participants, LaunchIntermediate(n)
    PROVE  ReservationInv'
<1>1. PICK t : t = [NoTransaction EXCEPT !.role = "Intermediate"]
  OBVIOUS
<1>2. Ready(n, t)
  <2>1. t \in TxRecord /\ t.left = {} /\ t.role = "Intermediate" /\ t.reservations = {}
    BY <1>1, Constants DEF NoTransaction, TxRecord
  <2> QED BY <2>1 DEF Ready, Holds
<1>3. PICK m \in net : m.to = n /\ m.type = "ReservationRequest" /\ IntermediateReserve(n, t, m)
  BY <1>1 DEF LaunchIntermediate
<1> QED BY <1>2, <1>3, IntermediateReserveKeeps

LEMMA RequestNextKeeps ==
    ASSUME ReservationInv, NEW n \in Participants, RequestNext(n)
    PROVE  ReservationInv'
<1>1. PICK m \in net : m.to = n /\ m.type = "ReservationRequest" /\ IntermediateReserve(n, tx[n], m)
  BY DEF RequestNext, To
<1>2. Ready(n, tx[n])
  BY OwnTx DEF RequestNext
<1> QED BY <1>1, <1>2, IntermediateReserveKeeps

\* What a node tells the coordinator about its reservation to the next node.
LEMMA ToldFits ==
    ASSUME NEW n \in Participants, NEW p, OnePass => Asked(co, n, p),
           NEW state, NEW amount, state = "Accepted" => amount \in Amounts, NEW taken
    PROVE  SentFit(taken, {Response("CoordinatorResponse", n, Coordinator, p, state, amount)})
<1>1. PICK k : k = Response("CoordinatorResponse", n, Coordinator, p, state, amount)
  OBVIOUS
<1>2. k.type = "CoordinatorResponse" /\ k.from = n /\ k.path = p /\ k.state = state /\ k.amount = amount
  BY <1>1 DEF Response
<1> QED BY <1>1, <1>2 DEF SentFit, MsgFits, First

\* A node without the reservations of one path.
LEMMA OffKeeps ==
    ASSUME ReservationInv, NEW n \in Participants, NEW t, Ready(n, t), NEW p,
           NEW taken, NEW sent, SentFit(taken, sent),
           KeepOrClose(n, [t EXCEPT !.reservations = OffPath(@, p)], taken, sent)
    PROVE  ReservationInv'
<1>1. PICK u : u = [t EXCEPT !.reservations = OffPath(@, p)]
  OBVIOUS
<1>2. Ready(n, u)
  <2>1. Holds(n, OffPath(t.reservations, p))
    BY HoldsOff DEF Ready
  <2>2. u = [t EXCEPT !.reservations = OffPath(t.reservations, p)]
    BY <1>1 DEF Ready, TxRecord
  <2> QED BY <2>1, <2>2, ReadyWith, Constants
<1> QED BY <1>1, <1>2, KeepOrCloseKeeps

\* A node with a lowered reservation waits on.
LEMMA ShortenedKeeps ==
    ASSUME ReservationInv, NEW n \in Participants, NEW t, Ready(n, t), NEW p \in Ids, NEW amount \in Amounts,
           NEW step \in Waiting, NEW waits \in SUBSET WaitTypes, "ReservationResponse" \notin waits,
           NEW taken, NEW sent, SentFit(taken, sent),
           Do(n, [WaitIn(t, step, waits) EXCEPT !.reservations = Shortened(@, p, amount)], taken, sent)
    PROVE  ReservationInv'
<1>1. PICK R : R = Shortened(t.reservations, p, amount)
  OBVIOUS
<1>2. PICK u : u = [t EXCEPT !.reservations = R]
  OBVIOUS
<1>3. Ready(n, u)
  <2>1. Holds(n, R)
    BY <1>1, HoldsShortened DEF Ready
  <2> QED BY <1>2, <2>1, ReadyWith, Constants
<1>4. [WaitIn(t, step, waits) EXCEPT !.reservations = Shortened(@, p, amount)] = WaitIn(u, step, waits)
  BY <1>1, <1>2 DEF WaitIn, Ready, TxRecord
<1> QED BY <1>3, <1>4, WaitKeeps

LEMMA CoordinatorRequestKeeps ==
    ASSUME ReservationInv, NEW n \in Participants, CoordinatorRequest(n)
    PROVE  ReservationInv'
<1>0. PICK m \in To(n, "CoordinatorRequest") :
        LET t == [tx[n] EXCEPT !.known = TRUE, !.last = m.path]
        IN  \/ KeepOrClose(n, [t EXCEPT !.reservations = OffPath(@, m.path)], {m},
                           {Response("CoordinatorResponse", n, Coordinator, m.path, "Rejected", 0)})
            \/ \E amount \in 1 .. m.amount :
                Do(n,
                   [WaitIn(t, "NextNeighborResponse",
                           ProlongationWaits \cup {"ReservationResponse", "FinalPath"})
                        EXCEPT !.reservations = @ \cup {Reservation(m.next, m.path, "Outgoing", amount)}],
                   {m}, {Request(n, m.next, m.path, amount, m.config)})
  BY DEF CoordinatorRequest
<1>1. m \in net /\ m.to = n /\ m.type = "CoordinatorRequest" /\ "CoordinatorRequest" \in tx[n].waits
  BY DEF To
<1>2. /\ m.next \in Participants /\ m.path \in Ids /\ m.amount \in Amounts /\ m.config \in Partial(Amounts)
      /\ OnePass => Hop(m.path, n, m.next) /\ Asked(co, n, m.path)
  BY <1>1 DEF ReservationInv, MsgFits
<1>3. PICK s : s = tx[n]
  OBVIOUS
<1>4. Ready(n, s)
  <2>1. "CoordinatorRequest" \notin ReceiverWaits
    BY DEF ReceiverWaits, TTLResponse
  <2> QED BY <1>1, <1>3, <2>1, OwnTx
<1>5. PICK t : t = [s EXCEPT !.known = TRUE, !.last = m.path]
  OBVIOUS
<1>6. Ready(n, t) /\ t.last = m.path
  BY <1>2, <1>4, <1>5 DEF Ready, TxRecord
<1>7. CASE KeepOrClose(n, [t EXCEPT !.reservations = OffPath(@, m.path)], {m},
                       {Response("CoordinatorResponse", n, Coordinator, m.path, "Rejected", 0)})
  <2>1. SentFit({m}, {Response("CoordinatorResponse", n, Coordinator, m.path, "Rejected", 0)})
    BY <1>2, ToldFits
  <2> QED BY <1>6, <1>7, <2>1, OffKeeps
<1>8. ASSUME NEW amount \in 1 .. m.amount,
             NEW v, v = [WaitIn(t, "NextNeighborResponse",
                                ProlongationWaits \cup {"ReservationResponse", "FinalPath"})
                            EXCEPT !.reservations = @ \cup {Reservation(m.next, m.path, "Outgoing", amount)}],
             Do(n, v, {m}, {Request(n, m.next, m.path, amount, m.config)})
      PROVE  ReservationInv'
  <2>1. amount \in Amounts
    BY <1>2, Constants DEF Amounts
  <2>2. SentFit({m}, {Request(n, m.next, m.path, amount, m.config)})
    <3>1. PICK k : k = Request(n, m.next, m.path, amount, m.config)
      OBVIOUS
    <3>2. k \in Requests
      BY <1>2, <2>1, <3>1, Constants DEF Request, Requests
    <3>3. k.type = "ReservationRequest" /\ k.from = n /\ k.to = m.next /\ k.path = m.path
      BY <3>1 DEF Request
    <3>4. MsgFits(co, k) /\ ~First(k)
      BY <1>2, <3>2, <3>3, Constants DEF MsgFits, First, RequestFits
    <3> QED BY <3>1, <3>4 DEF SentFit
  <2>3. PICK R : R = t.reservations \cup {Reservation(m.next, m.path, "Outgoing", amount)}
    OBVIOUS
  <2>4. Holds(n, R)
    <3>1. m.next \in Nodes
      BY <1>2, Constants
    <3> QED BY <1>2, <1>6, <2>1, <2>3, <3>1, HoldsAdded DEF Direction, Ready
  <2>5. PICK waits : waits = ProlongationWaits \cup {"ReservationResponse", "FinalPath"}
    OBVIOUS
  <2>6. waits \in SUBSET WaitTypes
    BY <2>5, WaitsTyped
  <2>7. v = [t EXCEPT !.step = "NextNeighborResponse", !.waits = waits, !.reservations = R]
    BY <1>6, <1>8, <2>3, <2>5 DEF WaitIn, Ready, TxRecord
  <2>8. /\ v \in TxRecord /\ v.left = {} /\ v.role = t.role /\ v.step = "NextNeighborResponse"
        /\ v.reservations = R /\ v.last = m.path
    BY <1>6, <2>4, <2>6, <2>7 DEF Ready, TxRecord, Holds
  <2>9. TxFits(co, n, v)
    BY <1>2, <1>6, <2>4, <2>8 DEF TxFits, Ready, Holds
  <2> QED BY <1>8, <2>2, <2>9, DoKeeps
<1> QED BY <1>0, <1>3, <1>5, <1>7, <1>8

LEMMA NextNeighborResponseKeeps ==
    ASSUME ReservationInv, NEW n \in Participants, NextNeighborResponse(n)
    PROVE  ReservationInv'
<1>0. PICK t : t = tx[n]
  OBVIOUS
<1>1. PICK m \in To(n, "ReservationResponse") :
        \/ Do(n, t, {m}, {})
        \/ /\ m.state # "Accepted"
           /\ KeepOrClose(n, [t EXCEPT !.reservations = OffPath(@, m.path)], {m},
                          {Response("CoordinatorResponse", n, Coordinator, t.last, m.state, 0)})
        \/ Leave(n, {m})
        \/ /\ m.state = "Accepted"
           /\ Do(n, [WaitIn(t, "FinalPath", ProlongationWaits \cup {"FinalPath"})
                        EXCEPT !.reservations = Shortened(@, m.path, m.amount)],
                 {m}, {Response("CoordinatorResponse", n, Coordinator, t.last, "Accepted", m.amount)})
  BY <1>0 DEF NextNeighborResponse
<1>2. m \in net /\ m.type = "ReservationResponse" /\ "ReservationResponse" \in t.waits
  BY <1>0 DEF To
<1>3. m.path \in Ids /\ (m.state = "Accepted" => m.amount \in Amounts)
  BY <1>2 DEF ReservationInv, MsgFits
<1>4. TxFits(co, n, t) /\ Ready(n, t)
  BY <1>0, <1>2, OwnTx, WaitsTyped
<1>5. OnePass => Asked(co, n, t.last)
  BY <1>2, <1>4 DEF TxFits
<1>6. CASE Do(n, t, {m}, {})
  <2>1. SentFit({m}, {})
    BY DEF SentFit
  <2> QED BY <1>4, <1>6, <2>1, DoKeeps
<1>7. CASE /\ m.state # "Accepted"
           /\ KeepOrClose(n, [t EXCEPT !.reservations = OffPath(@, m.path)], {m},
                          {Response("CoordinatorResponse", n, Coordinator, t.last, m.state, 0)})
  <2>1. SentFit({m}, {Response("CoordinatorResponse", n, Coordinator, t.last, m.state, 0)})
    BY <1>5, <1>7, ToldFits
  <2> QED BY <1>4, <1>7, <2>1, OffKeeps
<1>8. CASE Leave(n, {m})
  BY <1>8, LeaveKeeps
<1>9. CASE /\ m.state = "Accepted"
           /\ Do(n, [WaitIn(t, "FinalPath", ProlongationWaits \cup {"FinalPath"})
                        EXCEPT !.reservations = Shortened(@, m.path, m.amount)],
                 {m}, {Response("CoordinatorResponse", n, Coordinator, t.last, "Accepted", m.amount)})
  <2>1. SentFit({m}, {Response("CoordinatorResponse", n, Coordinator, t.last, "Accepted", m.amount)})
    BY <1>3, <1>5, <1>9, ToldFits
  <2>2. PICK waits : waits = ProlongationWaits \cup {"FinalPath"}
    OBVIOUS
  <2>3. waits \in SUBSET WaitTypes /\ "ReservationResponse" \notin waits /\ "FinalPath" \in Waiting
    BY <2>2, WaitsTyped DEF Waiting
  <2> QED BY <1>3, <1>4, <1>9, <2>1, <2>2, <2>3, ShortenedKeeps
<1> QED BY <1>1, <1>6, <1>7, <1>8, <1>9

LEMMA FinalPathKeeps ==
    ASSUME ReservationInv, NEW n \in Participants, FinalPath(n)
    PROVE  ReservationInv'
<1>0. PICK t : t = tx[n]
  OBVIOUS
<1>1. PICK m \in To(n, "FinalPath") :
        \/ KeepOrClose(n, [t EXCEPT !.reservations = OffPath(@, m.path)], {m}, {})
        \/ Leave(n, {m})
        \/ /\ m.amount # 0
           /\ Do(n, [WaitIn(t, "Prolongation", ProlongationWaits)
                        EXCEPT !.reservations = Shortened(@, m.path, m.amount)], {m}, {})
  BY <1>0 DEF FinalPath
<1>2. m \in net /\ m.type = "FinalPath" /\ "FinalPath" \in t.waits
  BY <1>0 DEF To
<1>3. m.path \in Ids /\ (m.amount # 0 => m.amount \in Amounts)
  BY <1>2, Constants DEF ReservationInv, MsgFits, Amounts
<1>4. Ready(n, t)
  <2>1. "FinalPath" \notin ReceiverWaits
    BY DEF ReceiverWaits, TTLResponse
  <2> QED BY <1>0, <1>2, <2>1, OwnTx
<1>5. SentFit({m}, {})
  BY DEF SentFit
<1>6. CASE KeepOrClose(n, [t EXCEPT !.reservations = OffPath(@, m.path)], {m}, {})
  BY <1>4, <1>5, <1>6, OffKeeps
<1>7. CASE Leave(n, {m})
  BY <1>7, LeaveKeeps
<1>8. CASE /\ m.amount # 0
           /\ Do(n, [WaitIn(t, "Prolongation", ProlongationWaits)
                        EXCEPT !.reservations = Shortened(@, m.path, m.amount)], {m}, {})
  <2>1. "Prolongation" \in Waiting
    BY DEF Waiting
  <2> QED BY <1>3, <1>4, <1>5, <1>8, <2>1, WaitsTyped, ShortenedKeeps
<1> QED BY <1>1, <1>6, <1>7, <1>8

LEMMA AskFits == ASSUME NEW n, NEW taken PROVE SentFit(taken, AskTTL(n))
<1>1. \A m \in AskTTL(n) : Plain(m)
  BY DEF AskTTL, Msg, Plain
<1> QED BY <1>1, PlainSent

LEMMA ClarifiedKeeps ==
    ASSUME ReservationInv, NEW n \in Participants, Clarified(n)
    PROVE  ReservationInv'
<1>1. Ready(n, tx[n])
  BY OwnTx DEF Clarified
<1>2. PICK m : \/ Do(n, WaitIn(tx[n], "Prolongation", ProlongationWaits \cup {"FinalPath"}), {m}, {})
               \/ Leave(n, {m})
  BY DEF Clarified
<1>3. CASE Do(n, WaitIn(tx[n], "Prolongation", ProlongationWaits \cup {"FinalPath"}), {m}, {})
  <2>1. SentFit({m}, {})
    BY DEF SentFit
  <2>2. PICK waits : waits = ProlongationWaits \cup {"FinalPath"}
    OBVIOUS
  <2>3. waits \in SUBSET WaitTypes /\ "ReservationResponse" \notin waits /\ "Prolongation" \in Waiting
    BY <2>2, WaitsTyped DEF Waiting
  <2> QED BY <1>1, <1>3, <2>1, <2>2, <2>3, WaitKeeps
<1> QED BY <1>2, <1>3, LeaveKeeps

LEMMA ReservingTimeoutKeeps ==
    ASSUME ReservationInv, NEW n \in Participants, ReservingTimeout(n)
    PROVE  ReservationInv'
<1>0. PICK t : t = tx[n]
  OBVIOUS
<1>1. \/ Do(n, WaitIn(t, "Clarification", ProlongationWaits \cup {"FinalPath"}), {}, AskTTL(n))
      \/ /\ t.step = "NextNeighborResponse"
         /\ KeepOrClose(n, [t EXCEPT !.reservations = OffPath(@, t.last)], Expired(t.last),
               {Response("CoordinatorResponse", n, Coordinator, t.last, "NextNodeInaccessible", 0)})
      \/ Leave(n, {})
  BY <1>0 DEF ReservingTimeout
<1>2. TxFits(co, n, t) /\ Ready(n, t)
  BY <1>0, OwnTx DEF ReservingTimeout
<1>3. CASE Do(n, WaitIn(t, "Clarification", ProlongationWaits \cup {"FinalPath"}), {}, AskTTL(n))
  <2>1. PICK waits : waits = ProlongationWaits \cup {"FinalPath"}
    OBVIOUS
  <2>2. waits \in SUBSET WaitTypes /\ "ReservationResponse" \notin waits /\ "Clarification" \in Waiting
    BY <2>1, WaitsTyped DEF Waiting, Clarifying
  <2> QED BY <1>2, <1>3, <2>1, <2>2, AskFits, WaitKeeps
<1>4. CASE /\ t.step = "NextNeighborResponse"
           /\ KeepOrClose(n, [t EXCEPT !.reservations = OffPath(@, t.last)], Expired(t.last),
                 {Response("CoordinatorResponse", n, Coordinator, t.last, "NextNodeInaccessible", 0)})
  <2>1. OnePass => Asked(co, n, t.last)
    BY <1>2, <1>4 DEF TxFits
  <2>2. SentFit(Expired(t.last), {Response("CoordinatorResponse", n, Coordinator, t.last, "NextNodeInaccessible", 0)})
    BY <2>1, ToldFits
  <2> QED BY <1>2, <1>4, <2>2, OffKeeps
<1> QED BY <1>1, <1>3, <1>4, LeaveKeeps

-----------------------------------------------------------------------------
(* The steps of the receiver. *)

LEMMA ReceiverInitKeeps == ASSUME ReservationInv, ReceiverInit PROVE ReservationInv'
<1>0. Receiver \in Participants
  BY Constants
<1>1. PICK m :
        \/ Do(Receiver, NoTransaction, {m}, {Msg("ReceiverRejects", Receiver, Coordinator)})
        \/ Do(Receiver,
              [WaitIn(NoTransaction, "Reservations", ReceiverWaits)
                 EXCEPT !.role = "Receiver", !.known = TRUE],
              {m}, {Msg("ReceiverAccepts", Receiver, Coordinator)})
  BY DEF ReceiverInit
<1>2. ASSUME NEW type \in {"ReceiverRejects", "ReceiverAccepts"}
      PROVE  SentFit({m}, {Msg(type, Receiver, Coordinator)})
  <2>1. \A k \in {Msg(type, Receiver, Coordinator)} : Plain(k)
    BY <1>2 DEF Msg, Plain
  <2> QED BY <2>1, PlainSent
<1>3. CASE Do(Receiver, NoTransaction, {m}, {Msg("ReceiverRejects", Receiver, Coordinator)})
  BY <1>0, <1>2, <1>3, NoneReady, DoKeeps
<1>4. CASE Do(Receiver,
              [WaitIn(NoTransaction, "Reservations", ReceiverWaits)
                 EXCEPT !.role = "Receiver", !.known = TRUE],
              {m}, {Msg("ReceiverAccepts", Receiver, Coordinator)})
  <2>1. PICK t : t = [NoTransaction EXCEPT !.role = "Receiver", !.known = TRUE]
    OBVIOUS
  <2>2. Ready(Receiver, t)
    <3>1. t \in TxRecord /\ t.left = {} /\ t.reservations = {}
      BY <2>1, Constants DEF NoTransaction, TxRecord
    <3> QED BY <3>1 DEF Ready, Holds
  <2>3. [WaitIn(NoTransaction, "Reservations", ReceiverWaits) EXCEPT !.role = "Receiver", !.known = TRUE]
           = WaitIn(t, "Reservations", ReceiverWaits)
    BY <2>1 DEF WaitIn, NoTransaction
  <2>4. "Reservations" \in Waiting
    BY DEF Waiting
  <2> QED BY <1>0, <1>2, <1>4, <2>2, <2>3, <2>4, WaitsTyped, WaitKeeps
<1> QED BY <1>1, <1>3, <1>4

\* The receiver, in a step in which it may, takes a request.
LEMMA ReceiverReserveKeeps ==
    ASSUME ReservationInv, NEW t, Ready(Receiver, t), t.step \in Waiting, t.role = "Receiver",
           NEW m, RequestFits(m), m.to = Receiver, NEW taken, ReceiverReserve(t, m, taken)
    PROVE  ReservationInv'
<1>0. /\ Receiver \in Participants /\ m.config \in Partial(Amounts) /\ m.path \in Ids /\ m.from \in Nodes
      /\ m.amount \in Amounts /\ (OnePass => Hop(m.path, m.from, Receiver))
  BY Constants DEF RequestFits, Requests
<1>1. PICK w, u : w = [t EXCEPT !.waits = ReceiverWaits] /\ u = [w EXCEPT !.reservations = Updated(@, m.config)]
  OBVIOUS
<1>2. t \in TxRecord /\ Holds(Receiver, t.reservations) /\ t.left = {}
  BY DEF Ready
<1>3. Holds(Receiver, Updated(t.reservations, m.config))
  BY <1>0, <1>2, HoldsUpdated
<1>4. /\ Ready(Receiver, u) /\ u \in TxRecord /\ u.reservations = Updated(t.reservations, m.config)
      /\ u.waits = ReceiverWaits /\ u.step = t.step
  <2>1. u = [t EXCEPT !.reservations = Updated(t.reservations, m.config), !.waits = ReceiverWaits]
    BY <1>1, <1>2 DEF TxRecord
  <2>2. u \in TxRecord /\ u.left = {}
    BY <1>2, <1>3, <2>1, WaitsTyped DEF TxRecord, Holds
  <2> QED BY <1>2, <1>3, <2>1, <2>2 DEF TxRecord, Ready
<1>5. ASSUME NEW v, Ready(Receiver, v), v.step \in Waiting, "ReservationResponse" \notin v.waits
      PROVE  TxFits(co, Receiver, v)
  BY <1>5 DEF TxFits, Ready, Holds, Waiting, Clarifying
<1>6. ASSUME NEW v, Ready(Receiver, v), v.step \in Waiting, "ReservationResponse" \notin v.waits,
             NEW state, NEW amount, state = "Accepted" => amount \in Amounts,
             Do(Receiver, v, taken, {Response("ReservationResponse", Receiver, m.from, m.path, state, amount)})
      PROVE  ReservationInv'
  <2>1. SentFit(taken, {Response("ReservationResponse", Receiver, m.from, m.path, state, amount)})
    BY <1>0, <1>6, AnswerFits
  <2>2. TxFits(co, Receiver, v)
    BY <1>5, <1>6
  <2> QED BY <1>0, <1>6, <2>1, <2>2, DoKeeps
<1>7. CASE Leave(Receiver, taken)
  BY <1>0, <1>7, LeaveKeeps
<1>8. ASSUME NEW state \in {"Closed", "Rejected"},
             Do(Receiver, u, taken, {Response("ReservationResponse", Receiver, m.from, m.path, state, 0)})
      PROVE  ReservationInv'
  BY <1>4, <1>6, <1>8, WaitsTyped
<1>9. ASSUME NEW amount \in 1 .. m.amount,
             NEW v, v = [u EXCEPT !.reservations = @ \cup {Reservation(m.from, m.path, "Incoming", amount)}]
      PROVE  /\ amount \in Amounts
             /\ Ready(Receiver, v) /\ v.step \in Waiting /\ v.waits = ReceiverWaits /\ v \in TxRecord
  <2>1. amount \in Amounts
    BY <1>0, Constants DEF Amounts
  <2>2. PICK R : R = u.reservations \cup {Reservation(m.from, m.path, "Incoming", amount)}
    OBVIOUS
  <2>3. Holds(Receiver, R)
    BY <1>0, <1>3, <1>4, <2>1, <2>2, HoldsAdded DEF Direction
  <2>4. v = [u EXCEPT !.reservations = R]
    BY <1>4, <1>9, <2>2
  <2>5. Ready(Receiver, v)
    BY <1>4, <2>3, <2>4, ReadyWith, Constants
  <2> QED BY <1>4, <2>1, <2>4, <2>5 DEF Ready, TxRecord
<1>10. ASSUME NEW amount \in 1 .. m.amount,
              NEW v, v = [u EXCEPT !.reservations = @ \cup {Reservation(m.from, m.path, "Incoming", amount)}],
              \/ Do(Receiver, v, taken, {Response("ReservationResponse", Receiver, m.from, m.path, "Closed", 0)})
              \/ Do(Receiver, v, taken, {Response("ReservationResponse", Receiver, m.from, m.path, "Accepted", amount)})
       PROVE  ReservationInv'
  <2>1. /\ amount \in Amounts /\ Ready(Receiver, v) /\ v.step \in Waiting
        /\ "ReservationResponse" \notin v.waits
    BY <1>9, <1>10, WaitsTyped
  <2>2. CASE Do(Receiver, v, taken, {Response("ReservationResponse", Receiver, m.from, m.path, "Closed", 0)})
    BY <1>6, <2>1, <2>2
  <2>3. CASE Do(Receiver, v, taken, {Response("ReservationResponse", Receiver, m.from, m.path, "Accepted", amount)})
    BY <1>6, <2>1, <2>3
  <2> QED BY <1>10, <2>2, <2>3
<1>11. ASSUME NEW amount \in 1 .. m.amount,
              NEW v, v = [u EXCEPT !.reservations = @ \cup {Reservation(m.from, m.path, "Incoming", amount)}],
              Do(Receiver, WaitIn(v, "FinalAmounts", ReceiverWaits \cup {"FinalAmounts"}), taken,
                 {Response("ReservationResponse", Receiver, m.from, m.path, "Accepted", amount)})
       PROVE  ReservationInv'
  <2>1. amount \in Amounts /\ Ready(Receiver, v)
    BY <1>9, <1>11
  <2>2. PICK waits : waits = ReceiverWaits \cup {"FinalAmounts"}
    OBVIOUS
  <2>3. waits \in SUBSET WaitTypes /\ "ReservationResponse" \notin waits /\ "FinalAmounts" \in Waiting
    BY <2>2, WaitsTyped DEF Waiting
  <2>4. SentFit(taken, {Response("ReservationResponse", Receiver, m.from, m.path, "Accepted", amount)})
    BY <1>0, <2>1, AnswerFits
  <2> QED BY <1>0, <1>11, <2>1, <2>2, <2>3, <2>4, WaitKeeps
<1>12. CASE Do(Receiver, w, taken, {Response("ReservationResponse", Receiver, m.from, m.path, "Rejected", 0)})
  <2>1. Ready(Receiver, w) /\ w.step \in Waiting /\ w.waits = ReceiverWaits
    BY <1>1, <1>2, WaitsTyped DEF Ready, TxRecord
  <2> QED BY <1>6, <1>12, <2>1, WaitsTyped
<1>13. \/ Do(Receiver, w, taken, {Response("ReservationResponse", Receiver, m.from, m.path, "Rejected", 0)})
       \/ Leave(Receiver, taken)
       \/ Do(Receiver, u, taken, {Response("ReservationResponse", Receiver, m.from, m.path, "Closed", 0)})
       \/ Do(Receiver, u, taken, {Response("ReservationResponse", Receiver, m.from, m.path, "Rejected", 0)})
       \/ \E amount \in 1 .. m.amount :
            \E v : /\ v = [u EXCEPT !.reservations = @ \cup {Reservation(m.from, m.path, "Incoming", amount)}]
                   /\ \/ Do(Receiver, v, taken, {Response("ReservationResponse", Receiver, m.from, m.path, "Closed", 0)})
                      \/ Do(Receiver, v, taken, {Response("ReservationResponse", Receiver, m.from, m.path, "Accepted", amount)})
                      \/ Do(Receiver, WaitIn(v, "FinalAmounts", ReceiverWaits \cup {"FinalAmounts"}), taken,
                            {Response("ReservationResponse", Receiver, m.from, m.path, "Accepted", amount)})
  BY <1>1 DEF ReceiverReserve
<1> QED BY <1>7, <1>8, <1>10, <1>11, <1>12, <1>13

LEMMA ReceiverRequestKeeps == ASSUME ReservationInv, ReceiverRequest PROVE ReservationInv'
<1>0. PICK t : t = tx[Receiver]
  OBVIOUS
<1>1. PICK m \in To(Receiver, "ReservationRequest") :
        \/ /\ t.step \in {"Reservations", "Clarification", "ClarificationFinal"}
           /\ ReceiverReserve(t, m, {m})
        \/ /\ t.left = {}
           /\ ReceiverReserve([t EXCEPT !.step = "Reservations"], m, {m})
        \/ /\ t.step = "VotesChecking"
           /\ Do(Receiver, [WaitIn(t, "ClarificationVoting", ReceiverWaits) EXCEPT !.left = {m}],
                 {m}, AskTTL(Receiver))
        \/ Leave(Receiver, {m})
  BY <1>0 DEF ReceiverRequest
<1>2. RequestFits(m) /\ m.to = Receiver /\ t.role = "Receiver" /\ Receiver \in Participants /\ m \in Requests
  BY <1>0, Constants DEF To, ReservationInv, MsgFits, ReceiverRequest, RequestFits
<1>3. /\ t \in TxRecord /\ Holds(Receiver, t.reservations) /\ TxFits(co, Receiver, t)
      /\ t.left = {} => Ready(Receiver, t)
      /\ t.step # "ClarificationVoting" => t.left = {}
  BY <1>0, <1>2, OwnTx
<1>4. CASE /\ t.step \in {"Reservations", "Clarification", "ClarificationFinal"}
           /\ ReceiverReserve(t, m, {m})
  <2>1. Ready(Receiver, t) /\ t.step \in Waiting
    BY <1>3, <1>4 DEF Waiting, Clarifying
  <2> QED BY <1>2, <1>4, <2>1, ReceiverReserveKeeps
<1>5. CASE t.left = {} /\ ReceiverReserve([t EXCEPT !.step = "Reservations"], m, {m})
  <2>1. PICK u : u = [t EXCEPT !.step = "Reservations"]
    OBVIOUS
  <2>2. Ready(Receiver, u) /\ u.role = "Receiver" /\ u.step \in Waiting
    BY <1>2, <1>3, <1>5, <2>1 DEF Ready, TxRecord, Waiting
  <2> QED BY <1>2, <1>5, <2>1, <2>2, ReceiverReserveKeeps
<1>6. CASE /\ t.step = "VotesChecking"
           /\ Do(Receiver, [WaitIn(t, "ClarificationVoting", ReceiverWaits) EXCEPT !.left = {m}],
                 {m}, AskTTL(Receiver))
  <2>1. PICK u : u = [t EXCEPT !.step = "ClarificationVoting", !.waits = ReceiverWaits, !.left = {m}]
    OBVIOUS
  <2>2. u = [WaitIn(t, "ClarificationVoting", ReceiverWaits) EXCEPT !.left = {m}]
    BY <1>3, <2>1 DEF WaitIn, TxRecord
  <2>3. /\ u \in TxRecord /\ u.role = "Receiver" /\ u.step = "ClarificationVoting" /\ u.waits = ReceiverWaits
        /\ u.left = {m} /\ u.reservations = t.reservations
    BY <1>2, <1>3, <2>1, WaitsTyped DEF TxRecord, Clarifying
  <2>4. TxFits(co, Receiver, u)
    BY <1>2, <1>3, <2>3, WaitsTyped DEF TxFits, Holds
  <2> QED BY <1>2, <1>6, <2>2, <2>4, AskFits, DoKeeps
<1> QED BY <1>1, <1>2, <1>4, <1>5, <1>6, LeaveKeeps

LEMMA ReceiverContinueKeeps == ASSUME ReservationInv, ReceiverContinue PROVE ReservationInv'
<1>0. PICK t : t = tx[Receiver]
  OBVIOUS
<1>1. PICK m :
        \/ t.step = "Reservations" /\ Do(Receiver, WaitIn(t, t.step, ReceiverWaits), {m}, {})
        \/ t.step = "FinalAmounts" /\ Do(Receiver, WaitIn(t, t.step, ReceiverWaits \cup {"FinalAmounts"}), {m}, {})
        \/ t.step = "VotesChecking" /\ Do(Receiver, WaitIn(t, t.step, ReceiverWaits), {m}, {})
        \/ t.left = {} /\ Do(Receiver, WaitIn(t, "VotesChecking", TTLResponse), {m}, {})
        \/ Leave(Receiver, {m})
  BY <1>0 DEF ReceiverContinue
<1>2. Receiver \in Participants
  BY Constants
<1>3. /\ t.left = {} => Ready(Receiver, t)
      /\ t.step # "ClarificationVoting" => t.left = {}
  BY <1>0, <1>2, OwnTx
<1>4. SentFit({m}, {})
  BY DEF SentFit
<1>5. ASSUME NEW step \in {"Reservations", "FinalAmounts", "VotesChecking"}, t.left = {},
             NEW waits \in {ReceiverWaits, ReceiverWaits \cup {"FinalAmounts"}, TTLResponse},
             Do(Receiver, WaitIn(t, step, waits), {m}, {})
      PROVE  ReservationInv'
  <2>1. step \in Waiting
    BY <1>5 DEF Waiting
  <2>2. waits \in SUBSET WaitTypes /\ "ReservationResponse" \notin waits
    BY <1>5, WaitsTyped
  <2> QED BY <1>2, <1>3, <1>4, <1>5, <2>1, <2>2, WaitKeeps
<1> QED BY <1>1, <1>2, <1>3, <1>5, LeaveKeeps

LEMMA ReceiverTimeoutKeeps == ASSUME ReservationInv, ReceiverTimeout PROVE ReservationInv'
<1>0. PICK t : t = tx[Receiver]
  OBVIOUS
<1>1. \/ /\ t.step = "Reservations"
         /\ Do(Receiver, WaitIn(t, "Clarification", ReceiverWaits), {}, AskTTL(Receiver))
      \/ /\ t.step = "FinalAmounts"
         /\ Do(Receiver, WaitIn(t, "ClarificationFinal", ReceiverWaits \cup {"FinalAmounts"}), {}, AskTTL(Receiver))
      \/ /\ t.step = "VotesChecking"
         /\ Do(Receiver, WaitIn(t, "ClarificationVoting", ReceiverWaits), {}, AskTTL(Receiver))
      \/ Leave(Receiver, {})
      \/ \E m \in t.left : ReceiverReserve([t EXCEPT !.step = "Reservations", !.left = {}], m, {})
  BY <1>0 DEF ReceiverTimeout
<1>2. Receiver \in Participants /\ t.role = "Receiver"
  BY <1>0, Constants DEF ReceiverTimeout
<1>3. /\ t \in TxRecord /\ TxFits(co, Receiver, t) /\ Holds(Receiver, t.reservations)
      /\ t.left = {} => Ready(Receiver, t)
      /\ t.step # "ClarificationVoting" => t.left = {}
  BY <1>0, <1>2, OwnTx
<1>4. ASSUME NEW step \in Clarifying, t.left = {},
             NEW waits \in {ReceiverWaits, ReceiverWaits \cup {"FinalAmounts"}},
             Do(Receiver, WaitIn(t, step, waits), {}, AskTTL(Receiver))
      PROVE  ReservationInv'
  <2>1. step \in Waiting
    BY <1>4 DEF Waiting
  <2>2. waits \in SUBSET WaitTypes /\ "ReservationResponse" \notin waits
    BY <1>4, WaitsTyped
  <2> QED BY <1>2, <1>3, <1>4, <2>1, <2>2, AskFits, WaitKeeps
<1>5. ASSUME NEW m \in t.left, ReceiverReserve([t EXCEPT !.step = "Reservations", !.left = {}], m, {})
      PROVE  ReservationInv'
  <2>1. PICK u : u = [t EXCEPT !.step = "Reservations", !.left = {}]
    OBVIOUS
  <2>2. Ready(Receiver, u) /\ u.role = "Receiver" /\ u.step \in Waiting
    BY <1>2, <1>3, <2>1 DEF Ready, TxRecord, Waiting
  <2>3. RequestFits(m) /\ m.to = Receiver
    BY <1>3, <1>5 DEF TxFits
  <2> QED BY <1>5, <2>1, <2>2, <2>3, ReceiverReserveKeeps
<1> QED BY <1>1, <1>2, <1>3, <1>4, <1>5, LeaveKeeps DEF Clarifying

LEMMA ReceivingKeeps == ASSUME ReservationInv, Receiving PROVE ReservationInv'
<1>1. ASSUME ReceiverFinish PROVE ReservationInv'
  BY <1>1, Constants, LeaveKeeps DEF ReceiverFinish
<1> QED BY <1>1, ReceiverInitKeeps, ReceiverRequestKeeps, ReceiverContinueKeeps, ReceiverTimeoutKeeps
        DEF Receiving

-----------------------------------------------------------------------------
(* The final amounts. *)

\* The place of a node on a path.
LEMMA PlaceIs ==
    ASSUME NEW path \in Routes, NEW n, NEW j \in 1 .. Len(path), path[j] = n
    PROVE  (CHOOSE k \in DOMAIN path : path[k] = n) = j
<1>1. DOMAIN path = 1 .. Len(path) /\ \A k, l \in 1 .. Len(path) : path[k] = path[l] => k = l
  BY RouteIs
<1>2. \E k \in DOMAIN path : path[k] = n
  BY <1>1
<1>3. \A k \in DOMAIN path : path[k] = n => k = j
  BY <1>1
<1> QED BY <1>2, <1>3

\* What the coordinator expects of n on one path.
ExpectedOn(c, n, p, i) ==
    {Reservation(c.paths[p][i - 1], p, "Incoming", c.done[p])}
        \cup IF n = Receiver THEN {} ELSE {Reservation(c.paths[p][i + 1], p, "Outgoing", c.done[p])}

LEMMA ExpectedIs ==
    ASSUME NEW c, NEW n
    PROVE  \A r : r \in Expected(c, n) <=>
               \E p \in PathsOf(c, n) :
                  r \in ExpectedOn(c, n, p, CHOOSE j \in DOMAIN c.paths[p] : c.paths[p][j] = n)
BY DEF Expected, ExpectedOn

\* Where the reservations of n are on hops of the paths, one incoming and one
\* outgoing on each, they are what the coordinator expects.
LEMMA AgreedIsExpected ==
    ASSUME OnePass, NEW c, Base(c), NEW n \in Participants, NEW t, Holds(n, t.reservations),
           t.role = "Receiver" => n = Receiver,
           \A r \in t.reservations : r.path \in PathsOf(c, n) /\ r.amount = c.done[r.path],
           {r.path : r \in t.reservations} = PathsOf(c, n),
           DirectionsFit(t)
    PROVE  t.reservations = Expected(c, n)
<1> DEFINE R == t.reservations
           place(p) == CHOOSE j \in DOMAIN c.paths[p] : c.paths[p][j] = n
<1>0. ASSUME NEW p \in PathsOf(c, n)
      PROVE  /\ p \in Ids /\ p + 1 \in DOMAIN Paths /\ c.paths[p] = Paths[p + 1] /\ c.paths[p] \in Routes
  BY <1>0, PartialIs DEF PathsOf, Base, CoRecord
<1>1. \A r \in R : r \in Reservations /\ OnHop(n, r)
  BY DEF Holds
\* A reservation of n is the expected one of its direction.
<1>2. ASSUME NEW r \in R
      PROVE  /\ r.direction = "Incoming" =>
                   r = Reservation(c.paths[r.path][place(r.path) - 1], r.path, "Incoming", c.done[r.path])
             /\ r.direction = "Outgoing" =>
                   /\ n # Receiver
                   /\ r = Reservation(c.paths[r.path][place(r.path) + 1], r.path, "Outgoing", c.done[r.path])
  <2>1. PICK p : p = r.path
    OBVIOUS
  <2>2. PICK path : path = c.paths[p]
    OBVIOUS
  <2>3. /\ p \in PathsOf(c, n) /\ p \in Ids /\ p + 1 \in DOMAIN Paths /\ path = Paths[p + 1]
        /\ path \in Routes /\ Len(path) \in Nat /\ r.amount = c.done[p]
    BY <1>0, <1>2, <2>1, <2>2, RouteIs
  <2>4. r = Reservation(r.peer, p, r.direction, c.done[p])
    BY <1>1, <2>1, <2>3 DEF Reservations, Reservation
  <2>5. CASE r.direction = "Incoming"
    <3>1. PICK i \in 1 .. Len(path) - 1 : path[i] = r.peer /\ path[i + 1] = n
      BY <1>1, <2>1, <2>3, <2>5 DEF OnHop, Hop
    <3>2. PICK j \in 1 .. Len(path) : j = i + 1 /\ i = j - 1
      BY <2>3, <3>1
    <3>3. place(p) = j
      BY <2>2, <2>3, <3>1, <3>2, PlaceIs
    <3> HIDE DEF place
    <3> QED BY <2>1, <2>2, <2>4, <2>5, <3>1, <3>2, <3>3
  <2>6. CASE r.direction = "Outgoing"
    <3>0. Hop(p, n, r.peer)
      BY <1>1, <2>1, <2>6 DEF OnHop
    <3>1. PICK i \in 1 .. Len(path) - 1 : path[i] = n /\ path[i + 1] = r.peer
      BY <2>3, <3>0 DEF Hop
    <3>2. i \in 1 .. Len(path)
      BY <2>3, <3>1
    <3>3. place(p) = i
      BY <2>2, <2>3, <3>1, <3>2, PlaceIs
    <3>4. n # Receiver
      BY <2>3, <3>0, HopUnique
    <3> HIDE DEF place
    <3> QED BY <2>1, <2>2, <2>4, <2>6, <3>1, <3>3, <3>4
  <2> QED BY <2>5, <2>6
<1>3. \A r \in R : r.direction \in {"Incoming", "Outgoing"}
  BY <1>1 DEF Reservations, Direction
<1>4. ASSUME NEW r \in R PROVE r \in Expected(c, n)
  <2>1. r.path \in PathsOf(c, n)
    BY <1>4
  <2>2. r \in ExpectedOn(c, n, r.path, place(r.path))
    BY <1>2, <1>3, <1>4 DEF ExpectedOn
  <2> QED BY <2>1, <2>2, ExpectedIs
<1>5. ASSUME NEW e \in Expected(c, n) PROVE e \in R
  <2>1. PICK p \in PathsOf(c, n) : e \in ExpectedOn(c, n, p, place(p))
    BY <1>5, ExpectedIs
  <2>2. PICK r \in R : r.path = p
    BY <2>1
  <2>3. CASE t.role = "Receiver"
    <3>1. r.direction = "Incoming" /\ n = Receiver
      BY <2>2, <2>3 DEF DirectionsFit
    <3> QED BY <1>2, <2>1, <2>2, <3>1 DEF ExpectedOn
  <2>4. CASE t.role # "Receiver"
    <3>1. PICK s \in R : {s, r} = {q \in R : q.path = r.path} /\ s.direction # r.direction
      BY <2>2, <2>4 DEF DirectionsFit
    <3>2. s.path = p
      BY <2>2, <3>1
    <3> HIDE DEF place
    <3> QED BY <1>2, <1>3, <2>1, <2>2, <3>1, <3>2 DEF ExpectedOn
  <2> QED BY <2>3, <2>4
<1> QED BY <1>4, <1>5

LEMMA FinalAmountsKeeps ==
    ASSUME ReservationInv, NEW n \in Participants, FinalAmounts(n)
    PROVE  ReservationInv'
<1>0. PICK s : s = tx[n]
  OBVIOUS
<1>1. PICK m \in To(n, "FinalAmounts") :
        \E t : /\ t = [s EXCEPT !.reservations = Updated(@, m.config)]
               /\ \/ Leave(n, {m})
                  \/ /\ Covers(s.reservations, m.config) /\ DirectionsFit(t)
                     /\ Do(n, WaitIn(t, "Agreed", {}), {m}, {})
  BY <1>0 DEF FinalAmounts
<1>2. PICK t : /\ t = [s EXCEPT !.reservations = Updated(@, m.config)]
               /\ \/ Leave(n, {m})
                  \/ /\ Covers(s.reservations, m.config) /\ DirectionsFit(t)
                     /\ Do(n, WaitIn(t, "Agreed", {}), {m}, {})
  BY <1>1
<1>3. m \in net /\ m.to = n /\ m.type = "FinalAmounts" /\ "FinalAmounts" \in s.waits
  BY <1>0 DEF To
<1>4. /\ m.config \in Partial(Amounts) /\ co.step \in {"FinalAmounts", "Ended"}
      /\ co.step = "FinalAmounts" => m.config = Config(co, n)
  BY <1>3 DEF ReservationInv, MsgFits
<1>5. s \in TxRecord /\ Ready(n, s) /\ Holds(n, s.reservations)
  <2>1. "FinalAmounts" \notin ReceiverWaits
    BY DEF ReceiverWaits, TTLResponse
  <2> QED BY <1>0, <1>3, <2>1, OwnTx
<1>6. /\ Holds(n, Updated(s.reservations, m.config))
      /\ \A r \in Updated(s.reservations, m.config) : r.path \in DOMAIN m.config /\ r.amount = m.config[r.path]
  BY <1>4, <1>5, HoldsUpdated
<1>7. Ready(n, t) /\ t.reservations = Updated(s.reservations, m.config) /\ t.role = s.role
  <2>1. t = [s EXCEPT !.reservations = Updated(s.reservations, m.config)]
    BY <1>2, <1>5
  <2>2. Ready(n, t)
    BY <1>5, <1>6, <2>1, ReadyWith, Constants
  <2> QED BY <1>5, <2>1, <2>2 DEF TxRecord
<1>8. CASE Covers(s.reservations, m.config) /\ DirectionsFit(t) /\ Do(n, WaitIn(t, "Agreed", {}), {m}, {})
  <2>1. PICK u : u = WaitIn(t, "Agreed", {})
    OBVIOUS
  <2>2. /\ u \in TxRecord /\ u.left = {} /\ u.role = t.role /\ u.reservations = t.reservations
        /\ u.step = "Agreed" /\ u.waits = {}
    BY <1>7, <2>1 DEF WaitIn, Ready, TxRecord
  <2>3. ASSUME OnePass, co.step = "FinalAmounts" PROVE t.reservations = Expected(co, n)
    <3>1. Base(co) /\ co.done \in Partial(Amounts)
      BY DEF ReservationInv, CoFits, Base, CoRecord
    <3>2. m.config = Config(co, n) /\ DOMAIN m.config = PathsOf(co, n)
      BY <1>4, <2>3, <3>1, ConfigType
    <3>3. \A p \in PathsOf(co, n) : m.config[p] = co.done[p]
      BY <3>2 DEF Config
    <3>4. \A r \in t.reservations : r.path \in PathsOf(co, n) /\ r.amount = co.done[r.path]
      BY <1>6, <1>7, <3>2, <3>3
    <3>5. {r.path : r \in t.reservations} = PathsOf(co, n)
      BY <1>7, <1>8, <3>2 DEF Covers
    <3>6. Holds(n, t.reservations) /\ (t.role = "Receiver" => n = Receiver)
      BY <1>7 DEF Ready
    <3> QED BY <1>8, <2>3, <3>1, <3>4, <3>5, <3>6, AgreedIsExpected
  <2>4. TxFits(co, n, u)
    BY <1>4, <1>7, <2>2, <2>3 DEF TxFits, Ready, Holds
  <2>5. SentFit({m}, {})
    BY DEF SentFit
  <2> QED BY <1>8, <2>1, <2>4, <2>5, DoKeeps
<1> QED BY <1>2, <1>8, LeaveKeeps

LEMMA CrashKeeps ==
    ASSUME ReservationInv, NEW n \in Participants, Crash(n)
    PROVE  ReservationInv'
<1>1. /\ tx' = [tx EXCEPT ![n] = NoTransaction] /\ co' = co /\ net' = Transit({}, {})
  BY DEF Crash
<1>2. SentFit({}, {})
  BY DEF SentFit
<1>3. \A m \in net' : MsgFits(co, m)
  BY <1>1, <1>2, FirstStaysFit
<1>4. FirstFits(co, net')
  BY <1>1, <1>2, FirstStaysFit
<1>5. tx \in [Participants -> TxRecord] /\ NoTransaction \in TxRecord
  BY NoneReady DEF ReservationInv, Ready
<1>6. tx' \in [Participants -> TxRecord]
  BY <1>1, <1>5
<1>7. ASSUME NEW k \in Participants PROVE TxFits(co, k, tx'[k])
  <2>1. CASE k = n
    <3>1. tx'[k] = NoTransaction
      BY <1>1, <1>5, <2>1
    <3> QED BY <3>1, NoneReady
  <2>2. CASE k # n
    <3>1. tx'[k] = tx[k]
      BY <1>1, <1>5, <2>2
    <3> QED BY <3>1 DEF ReservationInv
  <2> QED BY <2>1, <2>2
<1>8. CoFits(co)
  BY DEF ReservationInv
<1> QED BY <1>1, <1>3, <1>4, <1>6, <1>7, <1>8 DEF ReservationInv

-----------------------------------------------------------------------------
(* The theorems. *)

LEMMA InitFits == ASSUME Init PROVE ReservationInv
<1>1. co = NoPayment /\ tx = [n \in Participants |-> NoTransaction] /\ net = {}
  BY DEF Init
<1>2. /\ NoPayment.step = "Initialization" /\ NoPayment.paths = <<>> /\ NoPayment.queue = <<>>
      /\ NoPayment.reserved = <<>> /\ NoPayment.done = <<>> /\ NoPayment.rebuilt = 0
  BY DEF NoPayment
<1>3. NoPayment \in CoRecord
  <2>1. <<>> \in Partial(Routes) /\ <<>> \in Partial(Amounts) /\ <<>> \in Seq(Ids)
    BY PartialNone
  <2>2. 0 \in Ids /\ 0 \in 0 .. Command /\ 0 \in 0 .. MaxRebuilds
    BY Constants
  <2> QED BY <2>1, <2>2 DEF CoRecord, NoPayment
<1>4. DOMAIN <<>> = {} /\ Len(<<>>) = 0 /\ Cardinality({}) = 0
  BY FS_EmptySet
<1>5. Base(NoPayment)
  BY <1>2, <1>3, <1>4, Constants DEF Base
<1>6. CoFits(NoPayment)
  <2>1. Free(NoPayment)
    BY <1>2 DEF Free
  <2> QED BY <1>2, <1>5, <2>1 DEF CoFits, Reaching
<1>7. tx \in [Participants -> TxRecord] /\ \A n \in Participants : TxFits(co, n, tx[n])
  <2>1. NoTransaction \in TxRecord
    BY NoneReady DEF Ready
  <2> QED BY <1>1, <2>1, NoneReady
<1>8. FirstFits(co, net)
  BY <1>1 DEF FirstFits
<1> QED BY <1>1, <1>6, <1>7, <1>8 DEF ReservationInv

LEMMA StutterKeeps == ASSUME ReservationInv, UNCHANGED vars PROVE ReservationInv'
<1>1. co' = co /\ tx' = tx /\ net' = net
  BY DEF vars
<1>2. CoFits(co) /\ tx \in [Participants -> TxRecord] /\ FirstFits(co, net)
  BY DEF ReservationInv
<1>3. (\A n \in Participants : TxFits(co, n, tx[n])) /\ \A m \in net : MsgFits(co, m)
  BY DEF ReservationInv
<1> QED BY <1>1, <1>2, <1>3 DEF ReservationInv

LEMMA StepKeeps == ASSUME ReservationInv, [Next]_vars PROVE ReservationInv'
<1>1. ASSUME NEW n \in Participants, Participating(n) PROVE ReservationInv'
  BY <1>1, LaunchIntermediateKeeps, RequestNextKeeps, CoordinatorRequestKeeps, NextNeighborResponseKeeps,
     FinalPathKeeps, ClarifiedKeeps, ReservingTimeoutKeeps, FinalAmountsKeeps, CrashKeeps DEF Participating
<1> QED BY <1>1, CoordinatingKeeps, ReceivingKeeps, StutterKeeps DEF Next

LEMMA InvHolds == Spec => []ReservationInv
BY InitFits, StepKeeps, PTL DEF Spec

LEMMA InvTypes == ASSUME ReservationInv PROVE TypeOK
<1>1. co \in CoRecord /\ DOMAIN co.done \subseteq DOMAIN co.reserved /\ DOMAIN co.reserved \subseteq DOMAIN co.paths
  BY DEF ReservationInv, CoFits, Base
<1>2. ASSUME NEW r \in UNION {tx[n].reservations : n \in Participants}
      PROVE  r.direction \in Direction /\ r.amount \in 1 .. Command
  <2>1. PICK n \in Participants : r \in tx[n].reservations
    BY <1>2
  <2>2. r \in Reservations
    BY <2>1 DEF ReservationInv, TxFits, TxRecord
  <2> QED BY <2>2 DEF Reservations, Amounts
<1>3. co.step \in {"Initialization", "ReceiverResponse", "NeighborReservation", "FurtherReservation",
                   "ShortPath", "FinalAmounts", "Ended"} /\ co.flow \in 0 .. Command
  BY <1>1 DEF CoRecord, Reaching
<1> QED BY <1>1, <1>2, <1>3 DEF TypeOK

LEMMA InvAgrees == ASSUME OnePass, ReservationInv PROVE FinalAmountsAgree
<1>1. SUFFICES ASSUME co.step = "FinalAmounts"
               PROVE  /\ co.reserved = co.done
                      /\ Collected(co) = Command
                      /\ \A n \in Participants :
                            tx[n].step = "Agreed" => tx[n].reservations = Expected(co, n)
  BY DEF FinalAmountsAgree
<1>2. Base(co) /\ Free(co) /\ Collected(co) = Command
  BY <1>1 DEF ReservationInv, CoFits, Reaching
<1>3. co.reserved = co.done
  <2>1. PICK f \in Partial(Amounts) : f = co.reserved
    BY <1>2 DEF Base, CoRecord
  <2>2. PICK g \in Partial(Amounts) : g = co.done
    BY <1>2 DEF Base, CoRecord
  <2>3. DOMAIN f = DOMAIN g /\ \A p \in DOMAIN g : f[p] = g[p]
    BY <1>2, <2>1, <2>2 DEF Base, Free
  <2>4. f = [p \in DOMAIN f |-> f[p]] /\ g = [p \in DOMAIN g |-> g[p]]
    BY PartialIs
  <2> QED BY <2>1, <2>2, <2>3, <2>4
<1>4. \A n \in Participants : tx[n].step = "Agreed" => tx[n].reservations = Expected(co, n)
  BY <1>1 DEF ReservationInv, TxFits
<1> QED BY <1>2, <1>3, <1>4

\* Every state of the reservation phase has its form, whatever is lost, late or
\* asked for again: the coordinator reserves on the paths it has only, and no
\* node ever reserves more than the amount of the command on a line of a path.
THEOREM TypeCorrect == Spec => []TypeOK
BY InvHolds, InvTypes, PTL

\* While paths are taken once and no message comes when nobody waits for it any
\* more, whoever agrees to the final amounts holds exactly the reservations that
\* the coordinator has put together for it, for every set of nodes and paths.
THEOREM AmountsAgree ==
    ASSUME OnePass
    PROVE  Spec => []FinalAmountsAgree
BY InvHolds, InvAgrees, PTL
=============================================================================
