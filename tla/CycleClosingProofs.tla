------------------------- MODULE CycleClosingProofs -------------------------
(***************************************************************************)
(* Theorems about CycleClosing, for cycles of every length, every amount   *)
(* and any number of reservations that other cycles take away: types, and  *)
(* that the nodes which commit agree on one decision and on the amounts.   *)
(***************************************************************************)
EXTENDS CycleClosing, FiniteSetTheorems, TLAPS

-----------------------------------------------------------------------------
(* Type correctness. *)

\* A message, sent by a node of the cycle where it has to be.
Envelope ==
    {m \in [type : MessageTypes, from : Nodes, to : Nodes, amount : 0..MaxAmount] :
        m.type \in {"KeyHash", "FinalResponse", "Vote"} => m.from \in Intermediates}

\* The nodes around the cycle.
LEMMA NodeFacts ==
    /\ Coordinator \in Nodes /\ Intermediates \subseteq Nodes
    /\ N \in Intermediates /\ 1 \in Intermediates /\ Coordinator \notin Intermediates
    /\ \A n \in Nodes : NextNode(n) \in Nodes /\ PreviousNode(n) \in Nodes
    /\ \A n \in Nodes : n = Coordinator \/ n \in Intermediates
BY CycleAssumption DEF Coordinator, Intermediates, Nodes, NextNode, PreviousNode

\* What any node sends is an envelope.
LEMMA MessageType ==
    ASSUME NEW n \in Nodes, NEW a \in 0..MaxAmount
    PROVE  /\ Request(n, a) \in Envelope /\ Response(n, a) \in Envelope
           /\ CoordinatorRequest(n, a) \in Envelope /\ CoordinatorResponse(n, a) \in Envelope
           /\ FinalPath(n, a) \in Envelope /\ PublicKeys(n) \in Envelope /\ Finish(n) \in Envelope
<1>1. 0 \in Nodes /\ NextNode(n) \in Nodes /\ PreviousNode(n) \in Nodes /\ 0 \in 0..MaxAmount
  BY NodeFacts, CycleAssumption DEF Coordinator
<1> QED BY <1>1 DEF Request, Response, CoordinatorRequest, CoordinatorResponse, FinalPath, PublicKeys, Finish,
                Message, Envelope, MessageTypes

\* So is what only intermediate nodes send.
LEMMA AnswerType ==
    ASSUME NEW n \in Intermediates, NEW a \in 0..MaxAmount, NEW ok \in BOOLEAN
    PROVE  /\ \A k \in Nodes : KeyHash(n, k, a) \in Envelope
           /\ FinalResponse(n, ok) \in Envelope /\ Vote(n) \in Envelope
<1>1. 0 \in Nodes /\ n \in Nodes /\ 0 \in 0..MaxAmount /\ 1 \in 0..MaxAmount
  BY NodeFacts, CycleAssumption DEF Coordinator
<1> QED BY <1>1 DEF KeyHash, FinalResponse, Vote, Message, Envelope, MessageTypes

\* Reservations stay reservations when one side or both are written.
LEMMA HeldType ==
    ASSUME held \in [Nodes -> Reservation], NEW n \in Nodes, NEW a \in 0..MaxAmount
    PROVE  /\ [held EXCEPT ![n].in = a] \in [Nodes -> Reservation]
           /\ [held EXCEPT ![n].out = a] \in [Nodes -> Reservation]
           /\ [held EXCEPT ![n] = Nothing] \in [Nodes -> Reservation]
           /\ [held EXCEPT ![n] = ShortenTo(@, a)] \in [Nodes -> Reservation]
           /\ ShortenTo(held[n], a) \in Reservation /\ Nothing \in Reservation
<1>1. held[n] \in Reservation /\ 0 \in 0..MaxAmount
  BY CycleAssumption
<1>2. ShortenTo(held[n], a) \in Reservation /\ Nothing \in Reservation
  BY <1>1 DEF ShortenTo, Nothing, Reservation
<1>3. [held[n] EXCEPT !.in = a] \in Reservation /\ [held[n] EXCEPT !.out = a] \in Reservation
  BY <1>1 DEF Reservation
<1> QED BY <1>2, <1>3

\* How far the initiator is tells how many nodes have reserved.
ApprovedFits ==
    /\ stage[Coordinator] \in {"Idle", "WaitForOutgoing", "NeighborAsked"} => approved = 0
    /\ stage[Coordinator] \in {"NodeAsked", "PreviousNeighborRequest", "WaitForIncoming"} => approved < N

\* The conjuncts of TypeOK, and what makes them inductive.
ReservationOK == held \in [Nodes -> Reservation] /\ want \in [Nodes -> 0..MaxAmount]
StageOK == stage \in [Nodes -> Stages] /\ approved \in 0..N /\ ApprovedFits
RestOK ==
    /\ moved \in [Nodes -> Reservation] /\ flow \in 0..MaxAmount
    /\ hashes \in [Nodes -> SUBSET Intermediates] /\ receipt \in BOOLEAN
    /\ ids \subseteq Intermediates /\ keys \subseteq Intermediates
    /\ votes \subseteq Intermediates /\ voted \subseteq Intermediates /\ taken \subseteq Nodes
TypeInv == ReservationOK /\ StageOK /\ RestOK /\ net \subseteq Envelope

\* What a node does to its reservations.
Edits(n) ==
    /\ \A a \in 0..MaxAmount :
          /\ [held EXCEPT ![n].in = a] \in [Nodes -> Reservation]
          /\ [held EXCEPT ![n].out = a] \in [Nodes -> Reservation]
          /\ [held EXCEPT ![n] = ShortenTo(@, a)] \in [Nodes -> Reservation]
    /\ [held EXCEPT ![n] = Nothing] \in [Nodes -> Reservation]
    /\ held \in [Nodes -> Reservation] /\ want \in [Nodes -> 0..MaxAmount]

\* Every edit a node makes keeps the type of the reservations.
LEMMA HeldEdits == ASSUME ReservationOK, NEW n \in Nodes PROVE Edits(n)
BY HeldType DEF ReservationOK, Edits

\* The inductive form implies the type invariant.
LEMMA TypeParts == TypeInv => TypeOK
BY DEF TypeInv, ReservationOK, StageOK, RestOK, TypeOK, Envelope

\* Reserving one side keeps the types.
LEMMA ReservationsType ==
    ASSUME TypeInv, NEW n \in Nodes,
           \/ PreviousNeighborRequest(n) \/ PreviousNeighborRequestAgain(n)
           \/ n \in Intermediates /\ (CoordinatorRequestProcessing(n) \/ CoordinatorRequestAgain(n) \/ NextNeighborResponse(n))
    PROVE  TypeInv'
<1> USE DEF End, RollBack, Goto, Receive, Send, To
<1>0. /\ ReservationOK /\ StageOK /\ RestOK /\ net \subseteq Envelope /\ 0 \in 0..MaxAmount
      /\ want[n] \in 0..MaxAmount
      /\ \A m \in net : m.amount \in 0..MaxAmount /\ \A a \in 1..m.amount : a \in 0..MaxAmount
  BY CycleAssumption DEF TypeInv, Envelope, ReservationOK
<1>h. Edits(n)
  BY <1>0, HeldEdits
<1>1. RestOK'
  BY <1>0 DEF PreviousNeighborRequest, PreviousNeighborRequestAgain, CoordinatorRequestProcessing,
     CoordinatorRequestAgain, NextNeighborResponse, KeepFinal, final, RestOK
<1>2. CASE PreviousNeighborRequest(n)
  <2>1. ReservationOK'
    <3>1. \E a \in 0..MaxAmount :
             /\ held' \in {held, [held EXCEPT ![n].in = a], [held EXCEPT ![n] = Nothing]}
             /\ want' \in {want, [want EXCEPT ![n] = a]}
      BY <1>0, <1>2 DEF PreviousNeighborRequest, AcceptPrevious, ReserveIn
    <3> QED BY <1>h, <3>1 DEF ReservationOK, Edits
  <2>2. StageOK'
    BY <1>0, <1>2, NodeFacts DEF PreviousNeighborRequest, AcceptPrevious, StageOK, ApprovedFits, Stages
  <2>3. net' \subseteq Envelope
    BY <1>0, <1>2, MessageType DEF PreviousNeighborRequest
  <2> QED BY <1>1, <2>1, <2>2, <2>3 DEF TypeInv
<1>3. CASE PreviousNeighborRequestAgain(n)
  <2>1. ReservationOK'
    BY <1>0, <1>3, <1>h DEF PreviousNeighborRequestAgain, AcceptPrevious, ReserveIn, ReservationOK, Edits
  <2>2. StageOK'
    BY <1>0, <1>3, NodeFacts DEF PreviousNeighborRequestAgain, AcceptPrevious, StageOK, ApprovedFits, Stages
  <2>3. net' \subseteq Envelope
    BY <1>0, <1>3, MessageType DEF PreviousNeighborRequestAgain
  <2> QED BY <1>1, <2>1, <2>2, <2>3 DEF TypeInv
<1>4. CASE n \in Intermediates /\ CoordinatorRequestProcessing(n)
  <2>1. ReservationOK'
    <3>1. \E a \in 0..MaxAmount :
             /\ held' \in {held, [held EXCEPT ![n].out = a], [held EXCEPT ![n] = Nothing]}
             /\ want' \in {want, [want EXCEPT ![n] = a]}
      BY <1>0, <1>4 DEF CoordinatorRequestProcessing, ReserveOut
    <3> QED BY <1>h, <3>1 DEF ReservationOK, Edits
  <2>2. StageOK'
    BY <1>0, <1>4, NodeFacts DEF CoordinatorRequestProcessing, StageOK, ApprovedFits, Stages
  <2>3. net' \subseteq Envelope
    BY <1>0, <1>4, MessageType DEF CoordinatorRequestProcessing
  <2> QED BY <1>1, <2>1, <2>2, <2>3 DEF TypeInv
<1>5. CASE n \in Intermediates /\ CoordinatorRequestAgain(n)
  <2>1. ReservationOK'
    BY <1>0, <1>5, <1>h DEF CoordinatorRequestAgain, ReserveOut, ReservationOK, Edits
  <2>2. StageOK'
    BY <1>0, <1>5, NodeFacts DEF CoordinatorRequestAgain, StageOK, ApprovedFits, Stages
  <2>3. net' \subseteq Envelope
    BY <1>0, <1>5, MessageType DEF CoordinatorRequestAgain
  <2> QED BY <1>1, <2>1, <2>2, <2>3 DEF TypeInv
<1>6. CASE n \in Intermediates /\ NextNeighborResponse(n)
  <2>1. ReservationOK'
    <3>1. \E a \in 0..MaxAmount :
             held' \in {[held EXCEPT ![n] = ShortenTo(@, a)], [held EXCEPT ![n] = Nothing]} /\ want' = want
      BY <1>0, <1>6 DEF NextNeighborResponse
    <3> QED BY <1>h, <3>1 DEF ReservationOK, Edits
  <2>2. StageOK'
    BY <1>0, <1>6, NodeFacts DEF NextNeighborResponse, StageOK, ApprovedFits, Stages
  <2>3. net' \subseteq Envelope
    BY <1>0, <1>6, MessageType DEF NextNeighborResponse
  <2> QED BY <1>1, <2>1, <2>2, <2>3 DEF TypeInv
<1> QED BY <1>2, <1>3, <1>4, <1>5, <1>6

\* The initiator keeps the types while it reserves the cycle.
LEMMA BuildingType ==
    ASSUME TypeInv,
           \/ Start \/ StartAgain \/ NeighborAmountResponse \/ FurtherReservationResponse
           \/ AnswerBeforeRequest \/ CoordinatorTimeout
    PROVE  TypeInv'
<1> USE DEF End, RollBack, Goto, Receive, Send, To
<1> DEFINE c == Coordinator
<1>0. /\ ReservationOK /\ StageOK /\ RestOK /\ net \subseteq Envelope /\ 0 \in 0..MaxAmount
      /\ c \in Nodes /\ want[c] \in 0..MaxAmount
      /\ \A a \in 1..MaxAmount : a \in 0..MaxAmount
      /\ \A m \in net : m.amount \in 0..MaxAmount
  BY CycleAssumption, NodeFacts DEF TypeInv, Envelope, ReservationOK
<1>h. Edits(c)
  BY <1>0, HeldEdits
<1>f. \A k \in 0..N : FinishTo(k) \subseteq Envelope
  BY <1>0, MessageType, CycleAssumption DEF FinishTo, Nodes
<1>n. N \in Nat /\ N > 1 /\ \A k \in 1..N : k \in Nodes
  BY CycleAssumption DEF Nodes
<1> HIDE DEF c
<1>u. UNCHANGED <<moved, hashes, receipt, ids, keys, votes, voted, taken>> /\ (flow' \in 0..MaxAmount => RestOK')
  <2>1. UNCHANGED <<moved, hashes, receipt, ids, keys, votes, voted, taken>>
    BY DEF Start, StartAgain, NeighborAmountResponse, FurtherReservationResponse,
       AnswerBeforeRequest, CoordinatorTimeout, KeepOffer, KeepFinal, final
  <2> QED BY <1>0, <2>1 DEF RestOK
<1>1. CASE Start
  <2>1. PICK a \in 0..MaxAmount :
           /\ held' \in {held, [held EXCEPT ![c].out = a]}
           /\ want' \in {want, [want EXCEPT ![c] = a]}
           /\ flow' \in {flow, a} /\ net' \subseteq net \cup {Request(c, a)}
    BY <1>0, <1>1 DEF Start, Ask, ReserveOut, c
  <2>2. ReservationOK' /\ flow' \in 0..MaxAmount
    <3>1. held' \in [Nodes -> Reservation]
      BY <1>h, <2>1 DEF Edits
    <3>2. want' \in [Nodes -> 0..MaxAmount]
      BY <1>0, <2>1 DEF ReservationOK
    <3> QED BY <1>0, <2>1, <3>1, <3>2 DEF ReservationOK, RestOK
  <2>4. net' \subseteq Envelope
    BY <1>0, <2>1, MessageType
  <2>3. StageOK'
    BY <1>0, <1>1, <1>n DEF Start, Ask, StageOK, ApprovedFits, Stages, c
  <2> QED BY <1>u, <2>2, <2>3, <2>4 DEF TypeInv
<1>2. CASE StartAgain
  <2>1. /\ held' \in {held, [held EXCEPT ![c].out = want[c]]} /\ want' = want
        /\ flow' \in {flow, want[c]} /\ net' \subseteq net \cup {Request(c, want[c])}
    BY <1>0, <1>2 DEF StartAgain, Ask, ReserveOut, KeepOffer, c
  <2>2. ReservationOK' /\ flow' \in 0..MaxAmount /\ net' \subseteq Envelope
    BY <1>0, <1>h, <2>1, MessageType DEF ReservationOK, Edits, RestOK
  <2>3. StageOK'
    BY <1>0, <1>2, <1>n DEF StartAgain, Ask, StageOK, ApprovedFits, Stages, c
  <2> QED BY <1>u, <2>2, <2>3 DEF TypeInv
<1>3. CASE NeighborAmountResponse
  <2>1. \E a \in 0..MaxAmount :
           /\ held' \in {held, [held EXCEPT ![c] = Nothing]} /\ want' = want
           /\ flow' \in {flow, a} /\ net' \subseteq net \cup {CoordinatorRequest(1, a)}
    BY <1>0, <1>3 DEF NeighborAmountResponse, KeepOffer, c
  <2>2. ReservationOK' /\ flow' \in 0..MaxAmount /\ net' \subseteq Envelope
    BY <1>0, <1>h, <1>n, <2>1, MessageType DEF ReservationOK, Edits, RestOK
  <2>3. StageOK'
    BY <1>0, <1>3, <1>n DEF NeighborAmountResponse, StageOK, ApprovedFits, Stages, c
  <2> QED BY <1>u, <2>2, <2>3 DEF TypeInv
<1>4. CASE FurtherReservationResponse
  <2>0. approved < N /\ approved \in 0..N /\ approved + 1 \in 1..N
    BY <1>0, <1>4, <1>n DEF FurtherReservationResponse, StageOK, ApprovedFits
  <2>1. \E a \in 0..MaxAmount :
           /\ held' \in {held, [held EXCEPT ![c] = ShortenTo(@, a)], [held EXCEPT ![c] = Nothing]} /\ want' = want
           /\ flow' \in {flow, a}
    BY <1>0, <1>4 DEF FurtherReservationResponse, ShortenOwn, KeepOffer, c
  <2>2. ReservationOK' /\ flow' \in 0..MaxAmount
    BY <1>0, <1>h, <2>1 DEF ReservationOK, Edits, RestOK
  <2>3. StageOK'
    BY <1>0, <1>4, <1>n, <2>0 DEF FurtherReservationResponse, StageOK, ApprovedFits, Stages, c
  <2>4. net' \subseteq Envelope
    <3>1. PICK m \in net :
             \/ net' \subseteq net \cup FinishTo(approved)
             \/ net' \subseteq net \cup {FinalPath(k, m.amount) : k \in Intermediates}
             \/ /\ net' \subseteq net \cup {CoordinatorRequest(approved' + 1, m.amount)}
                /\ approved' = approved + 1 /\ approved' # N
      BY <1>4 DEF FurtherReservationResponse
    <3>2. approved + 1 # N => approved + 1 + 1 \in 1..N
      BY <1>n, <2>0
    <3> QED BY <1>0, <1>f, <1>n, <2>0, <3>1, <3>2, MessageType DEF Intermediates
  <2> QED BY <1>u, <2>2, <2>3, <2>4 DEF TypeInv
<1>5. CASE AnswerBeforeRequest
  <2>1. held' = [held EXCEPT ![c] = Nothing] /\ UNCHANGED <<want, flow>> /\ net' \subseteq net
    BY <1>5 DEF AnswerBeforeRequest, KeepOffer, c
  <2>2. StageOK'
    BY <1>0, <1>5, <1>n DEF AnswerBeforeRequest, StageOK, ApprovedFits, Stages, c
  <2> QED BY <1>0, <1>h, <1>u, <2>1, <2>2 DEF TypeInv, ReservationOK, Edits, RestOK
<1>6. CASE CoordinatorTimeout
  <2>1. /\ held' \in {held, [held EXCEPT ![c] = Nothing]} /\ UNCHANGED <<want, flow, approved>>
        /\ \/ net' = net \/ net' = net \cup FinishTo(1)
           \/ stage[c] = "NodeAsked" /\ net' = net \cup FinishTo(approved + 1)
    BY <1>6 DEF CoordinatorTimeout, KeepOffer, c
  <2>2. StageOK'
    BY <1>0, <1>6, <1>n DEF CoordinatorTimeout, StageOK, ApprovedFits, Stages, c
  <2>3. stage[c] = "NodeAsked" => approved + 1 \in 0..N
    BY <1>0, <1>n DEF StageOK, ApprovedFits, c
  <2>4. net' \subseteq Envelope
    BY <1>0, <1>f, <1>n, <2>1, <2>3
  <2> QED BY <1>0, <1>h, <1>u, <2>1, <2>2, <2>4 DEF TypeInv, ReservationOK, Edits, RestOK
<1> QED BY <1>1, <1>2, <1>3, <1>4, <1>5, <1>6

\* The final amount is taken with the reservations shortened or as they are.
LEMMA SettleType ==
    ASSUME TypeInv, NEW n \in Intermediates, NEW h \in Reservation, NEW ms \in SUBSET Envelope,
           Settle(n, h, ms), UNCHANGED <<want, approved>>
    PROVE  ReservationOK' /\ StageOK' /\ net' \subseteq Envelope
<1>0. ReservationOK /\ StageOK /\ n \in Nodes /\ n # Coordinator /\ Edits(n)
  BY NodeFacts, HeldEdits DEF TypeInv
<1>1. ReservationOK'
  BY <1>0 DEF Settle, Reject, RollBack, ReservationOK, Edits
<1>2. StageOK'
  <2>1. stage' \in {stage, [stage EXCEPT ![n] = "VotesChecking"], [stage EXCEPT ![n] = "Ended"]}
    BY DEF Settle, Reject, End, Goto
  <2> QED BY <1>0, <2>1, NodeFacts DEF StageOK, ApprovedFits, Stages
<1>3. net' \subseteq Envelope
  <2>1. 0 \in 0..MaxAmount
    BY CycleAssumption
  <2>2. FinalResponse(n, TRUE) \in Envelope /\ FinalResponse(n, FALSE) \in Envelope
    BY <2>1, AnswerType
  <2> QED BY <2>2 DEF Settle
<1> QED BY <1>1, <1>2, <1>3

\* Taking the final amount keeps the types.
LEMMA FinalPathType ==
    ASSUME TypeInv, NEW n \in Intermediates,
           FinalPathConfiguration(n) \/ FinalReservationsNeighborConfirmation(n)
    PROVE  TypeInv'
<1>0. /\ ReservationOK /\ StageOK /\ RestOK /\ net \subseteq Envelope /\ n \in Nodes /\ n # Coordinator
      /\ Edits(n) /\ held[n] \in Reservation
      /\ \A m \in net : m.amount \in 0..MaxAmount /\ (m.type = "KeyHash" => m.from \in Intermediates)
  BY NodeFacts, HeldEdits DEF TypeInv, Envelope, ReservationOK
<1>1. ASSUME Reject(n), net' \subseteq net, UNCHANGED <<want, approved>>
      PROVE  ReservationOK' /\ StageOK' /\ net' \subseteq Envelope
  BY <1>0, <1>1 DEF Reject, RollBack, End, Goto, ReservationOK, Edits, StageOK, ApprovedFits, Stages
<1>2. CASE FinalPathConfiguration(n)
  <2>1. RestOK'
    BY <1>0, <1>2 DEF FinalPathConfiguration, initiator, final, RestOK
  <2>2. PICK m \in net :
            \/ Reject(n) /\ Receive(m, {})
            \/ Settle(n, ShortenTo(held[n], m.amount), (net \ {m}) \cup HashesOf(n, m.amount))
    BY <1>2 DEF FinalPathConfiguration, To
  <2>3. UNCHANGED <<want, approved>>
    BY <1>2 DEF FinalPathConfiguration, initiator
  <2>4. ShortenTo(held[n], m.amount) \in Reservation
    BY <1>0, HeldType DEF ReservationOK
  <2>5. HashesOf(n, m.amount) \subseteq Envelope
    BY <1>0, NodeFacts, AnswerType DEF HashesOf
  <2>6. ReservationOK' /\ StageOK' /\ net' \subseteq Envelope
    BY <1>0, <1>1, <2>2, <2>3, <2>4, <2>5, SettleType DEF Receive
  <2> QED BY <2>1, <2>6 DEF TypeInv
<1>3. CASE FinalReservationsNeighborConfirmation(n)
  <2>1. PICK m \in net :
            /\ m.type = "KeyHash" /\ hashes' = [hashes EXCEPT ![n] = @ \cup {m.from}] /\ UNCHANGED ids
            /\ Settle(n, held[n], net \ {m}) \/ (Reject(n) /\ Receive(m, {}))
    BY <1>3 DEF FinalReservationsNeighborConfirmation, To
  <2>2. UNCHANGED <<want, initiator, voted, moved, taken>>
    BY <1>3 DEF FinalReservationsNeighborConfirmation
  <2>3. RestOK'
    BY <1>0, <2>1, <2>2 DEF initiator, RestOK
  <2>4. UNCHANGED <<want, approved>> /\ net \ {m} \subseteq Envelope
    BY <1>0, <2>2 DEF initiator
  <2>5. ReservationOK' /\ StageOK' /\ net' \subseteq Envelope
    BY <1>0, <1>1, <2>1, <2>4, SettleType DEF Receive
  <2> QED BY <2>3, <2>5 DEF TypeInv
<1> QED BY <1>2, <1>3

\* The confirmations of the final amount keep the types.
LEMMA ConfirmationsType ==
    ASSUME TypeInv, FinalAmountsParticipantConfirmation \/ FinalReceipt
    PROVE  TypeInv'
<1>0. /\ ReservationOK /\ StageOK /\ RestOK /\ net \subseteq Envelope /\ Coordinator \in Nodes /\ Edits(Coordinator)
      /\ \A m \in net : m.type = "FinalResponse" => m.from \in Intermediates
      /\ \A n \in Intermediates : PublicKeys(n) \in Envelope
  <2>1. 0 \in 0..MaxAmount
    BY CycleAssumption
  <2>2. \A n \in Intermediates : PublicKeys(n) \in Envelope
    BY <2>1, NodeFacts, MessageType
  <2>3. \A m \in Envelope : m.type = "FinalResponse" => m.from \in Intermediates
    BY DEF Envelope
  <2> QED BY <2>2, <2>3, NodeFacts, HeldEdits DEF TypeInv
<1>1. ReservationOK'
  BY <1>0 DEF FinalAmountsParticipantConfirmation, FinalReceipt, PublishKeys, Reject, RollBack, KeepCycle,
     ReservationOK, Edits
<1>2. StageOK'
  BY <1>0 DEF FinalAmountsParticipantConfirmation, FinalReceipt, PublishKeys, Reject, End, Goto, KeepCycle,
     StageOK, ApprovedFits, Stages
<1>3. RestOK'
  <2>1. keys' \subseteq Intermediates /\ receipt' \in BOOLEAN
    <3>1. CASE FinalAmountsParticipantConfirmation
      <4>1. keys' = keys \/ \E m \in net : m.type = "FinalResponse" /\ keys' = keys \cup {m.from}
        BY <3>1 DEF FinalAmountsParticipantConfirmation, To
      <4>2. receipt' = receipt
        BY <3>1 DEF FinalAmountsParticipantConfirmation
      <4> QED BY <1>0, <4>1, <4>2 DEF RestOK
    <3>2. CASE FinalReceipt
      BY <1>0, <3>2 DEF FinalReceipt, RestOK
    <3> QED BY <3>1, <3>2
  <2>2. UNCHANGED <<flow, hashes, ids, votes, voted, moved, taken>>
    BY DEF FinalAmountsParticipantConfirmation, FinalReceipt, KeepCycle, final
  <2> QED BY <1>0, <2>1, <2>2 DEF RestOK
<1>4. net' \subseteq Envelope
  BY <1>0 DEF FinalAmountsParticipantConfirmation, FinalReceipt, Receive
<1> QED BY <1>1, <1>2, <1>3, <1>4 DEF TypeInv

\* The votes and the recovery keep the types.
LEMMA VotesType ==
    ASSUME TypeInv, NEW n \in Intermediates,
           \/ VoteOnKeys(n) \/ VotesConsistencyChecking \/ VotesOrTimeout(n) \/ Recover(n)
           \/ Timeout(n) \/ FinishArrives(n)
    PROVE  TypeInv'
<1>0. /\ ReservationOK /\ StageOK /\ RestOK /\ net \subseteq Envelope /\ Coordinator \in Nodes /\ n \in Nodes
      /\ Edits(Coordinator) /\ Edits(n) /\ n # Coordinator
      /\ \A m \in net : m.type = "Vote" => m.from \in Intermediates
      /\ Vote(n) \in Envelope /\ CoordinatorResponse(n, 0) \in Envelope
  <2>1. 0 \in 0..MaxAmount /\ n \in Nodes
    BY CycleAssumption, NodeFacts
  <2>2. Vote(n) \in Envelope /\ CoordinatorResponse(n, 0) \in Envelope
    BY <2>1, MessageType, AnswerType
  <2>3. \A m \in Envelope : m.type = "Vote" => m.from \in Intermediates
    BY DEF Envelope
  <2> QED BY <2>1, <2>2, <2>3, NodeFacts, HeldEdits DEF TypeInv
<1>1. ReservationOK'
  BY <1>0 DEF VoteOnKeys, VotesConsistencyChecking, VotesOrTimeout, Recover, Timeout, FinishArrives, Commit,
     Reject, RollBack, KeepCycle, ReservationOK, Edits
<1>2. StageOK'
  BY <1>0 DEF VoteOnKeys, VotesConsistencyChecking, VotesOrTimeout, Recover, Timeout, FinishArrives, Commit,
     Reject, End, Goto, KeepCycle, StageOK, ApprovedFits, Stages
<1>3. RestOK'
  <2>1. moved' = moved \/ \E k \in Nodes : moved' = [moved EXCEPT ![k] = held[k]]
    BY <1>0 DEF VoteOnKeys, VotesConsistencyChecking, VotesOrTimeout, Recover, Timeout, FinishArrives, Commit
  <2>2. moved' \in [Nodes -> Reservation]
    BY <1>0, <2>1 DEF ReservationOK, RestOK
  <2>3. votes' \subseteq Intermediates /\ voted' \subseteq Intermediates
    BY <1>0 DEF VoteOnKeys, VotesConsistencyChecking, VotesOrTimeout, Recover, Timeout, FinishArrives, RestOK, To
  <2>4. UNCHANGED <<flow, hashes, ids, keys, receipt, taken>>
    BY DEF VoteOnKeys, VotesConsistencyChecking, VotesOrTimeout, Recover, Timeout, FinishArrives, KeepCycle, final
  <2> QED BY <1>0, <2>2, <2>3, <2>4 DEF RestOK
<1>4. net' \subseteq Envelope
  BY <1>0 DEF VoteOnKeys, VotesConsistencyChecking, VotesOrTimeout, Recover, Timeout, FinishArrives, Receive, Send
<1> QED BY <1>1, <1>2, <1>3, <1>4 DEF TypeInv

\* The loss of a reservation to another cycle keeps the types.
LEMMA ChallengeType ==
    ASSUME TypeInv, NEW n \in Nodes, Challenge(n) \/ RollbackByOtherTransaction(n)
    PROVE  TypeInv'
<1>0. ReservationOK /\ StageOK /\ RestOK /\ net \subseteq Envelope /\ Edits(n)
  BY HeldEdits DEF TypeInv
<1>1. ReservationOK' /\ net' \subseteq Envelope
  BY <1>0 DEF Challenge, RollbackByOtherTransaction, Reject, RollBack, KeepCycle, reservation, ReservationOK, Edits
<1>2. StageOK'
  <2>1. stage' \in {[stage EXCEPT ![n] = "RollbackByOther"], [stage EXCEPT ![n] = "Ended"]} /\ approved' = approved
    BY DEF Challenge, RollbackByOtherTransaction, Reject, End, Goto, KeepCycle, initiator
  <2> QED BY <1>0, <2>1, NodeFacts DEF StageOK, ApprovedFits, Stages
<1>3. RestOK'
  BY <1>0 DEF Challenge, RollbackByOtherTransaction, KeepCycle, initiator, final, RestOK
<1> QED BY <1>1, <1>2, <1>3 DEF TypeInv

\* Every step keeps the types.
LEMMA NextType == ASSUME TypeInv, [Next]_vars PROVE TypeInv'
<1>1. CASE UNCHANGED vars
  BY <1>1 DEF vars, reservation, initiator, final, TypeInv, ReservationOK, StageOK, ApprovedFits, RestOK
<1>2. CASE Coordinate
  <2>1. 1 \in Intermediates
    BY NodeFacts
  <2> QED BY <1>2, <2>1, BuildingType, ConfirmationsType, VotesType DEF Coordinate
<1>3. ASSUME NEW n \in Intermediates, TakePart(n) PROVE TypeInv'
  BY <1>3, NodeFacts, ReservationsType, FinalPathType, VotesType DEF TakePart
<1> QED BY <1>1, <1>2, <1>3, ReservationsType, ChallengeType DEF Next

\* The inductive form of the types holds.
LEMMA TypeInductive == Spec => []TypeInv
<1>1. Init => TypeInv
  <2> SUFFICES ASSUME Init PROVE TypeInv
    OBVIOUS
  <2>1. 0 \in 0..MaxAmount /\ 0 \in 0..N /\ Nothing \in Reservation
    BY CycleAssumption DEF Nothing, Reservation
  <2>2. ReservationOK /\ RestOK /\ net \subseteq Envelope
    BY <2>1 DEF Init, ReservationOK, RestOK
  <2>3. StageOK
    BY <2>1, NodeFacts DEF Init, StageOK, ApprovedFits, Stages
  <2> QED BY <2>2, <2>3 DEF TypeInv
<1> QED BY <1>1, NextType, PTL DEF Spec

\* Amounts, stages and messages keep the types the code gives them.
THEOREM TypeCorrect == Spec => []TypeOK
BY TypeInductive, TypeParts, PTL
-----------------------------------------------------------------------------
(* The final amount is one: what is reserved, voted for and committed.       *)

\* A reservation of the final amount on both sides.
Whole == [in |-> flow, out |-> flow]

\* The final amount is sent once the last node has reserved: it is the flow, and the flow
\* is fixed.  Receipts are over it, votes come from nodes that have voted.
MessageFits(m) ==
    /\ m.type = "FinalPath" => m.amount = flow /\ flow # 0 /\ approved = N
    /\ m.type = "KeyHash" /\ m.to = NextNode(m.from) => m.amount = flow /\ approved = N
    /\ m.type = "KeyHash" /\ m.to = Coordinator => m.from = N
    /\ m.type = "Vote" => m.from \in voted
MessagesFit == \A m \in net : MessageFits(m)

\* A node that knows the final amount holds it on both sides, until it has committed it
\* or given it back before its vote.
NodesFit ==
    \A n \in Intermediates :
        /\ n \in ids =>
              /\ approved = N /\ flow # 0
              /\ stage[n] \in {"FinalPath", "VotesChecking", "Recovery", "Committed", "Ended", "RollbackByOther"}
        /\ n \in ids /\ stage[n] \in {"FinalPath", "VotesChecking", "Recovery"} => held[n] = Whole
        /\ stage[n] \in {"VotesChecking", "Recovery", "Committed"} => n \in ids
        /\ Committed(n) => moved[n] = Whole /\ Committed(Coordinator)
        /\ stage[n] \in {"Recovery", "Committed"} => n \in voted
        /\ n \in voted => n \in taken \/ stage[n] \in {"VotesChecking", "Recovery", "Committed"}

\* The initiator has the receipt of the last node for what it commits, and all votes.
CoordinatorFits ==
    /\ votes \subseteq voted
    /\ receipt => stage[Coordinator] \in {"FinalAmounts", "VotesChecking", "Committed", "Ended", "RollbackByOther"}
    /\ receipt /\ stage[Coordinator] \in {"FinalAmounts", "VotesChecking"} => held[Coordinator].in = flow
    /\ stage[Coordinator] = "VotesChecking" => receipt
    /\ Committed(Coordinator) => moved[Coordinator].in = flow /\ voted = Intermediates

Fit == MessagesFit /\ NodesFit /\ CoordinatorFits

\* The stages before a node knows the final amount, and before the initiator fixes it.
Reserving == {"Idle", "WaitForIncoming", "WaitForOutgoing", "CoordinatorRequest", "NextNeighborResponse"}
Building == {"Idle", "NeighborAsked", "NodeAsked", "PreviousNeighborRequest", "WaitForIncoming", "WaitForOutgoing"}

\* n does something before it knows the final amount, gives its reservations back before its
\* vote, or loses them to another cycle.
Aside(n) ==
    /\ \A k \in Nodes \ {n} : UNCHANGED <<stage[k], held[k]>>
    /\ UNCHANGED <<flow, approved, ids, receipt, votes, voted, moved>>
    /\ taken \subseteq taken'
    /\ \A m \in net' \ net : m.type \notin {"FinalPath", "KeyHash", "Vote"}
    /\ \/ n # Coordinator /\ stage[n] \in Reserving /\ stage'[n] \in Reserving \cup {"FinalPath"}
       \/ /\ stage'[n] = "Ended" /\ stage[n] \notin {"Recovery", "Committed"}
          /\ n \notin voted \/ stage[n] # "VotesChecking"
       \/ stage'[n] = "RollbackByOther" /\ stage[n] # "Committed" /\ n \in taken'

\* The initiator reserves the cycle, and sends the final amount at the end.
Builds ==
    /\ stage[Coordinator] \in Building /\ approved < N
    /\ stage'[Coordinator] \in Building \cup {"FinalAmounts", "Ended"}
    /\ \A k \in Intermediates : UNCHANGED <<stage[k], held[k]>>
    /\ UNCHANGED <<ids, receipt, votes, voted, moved, taken>>
    /\ \A m \in net' \ net :
          /\ m.type \notin {"KeyHash", "Vote"}
          /\ m.type = "FinalPath" => m.amount = flow' /\ flow' # 0 /\ approved' = N

\* A node that steps aside disturbs nothing the others rely on.
LEMMA AsideKeeps ==
    ASSUME TypeInv, Fit, NEW n \in Nodes, Aside(n)
    PROVE  Fit'
<1>0. /\ UNCHANGED <<flow, approved, ids, receipt, votes, voted, moved>> /\ taken \subseteq taken'
      /\ \A k \in Nodes \ {n} : UNCHANGED <<stage[k], held[k]>>
      /\ Whole' = Whole
  BY DEF Aside, Whole
<1>1. MessagesFit'
  BY <1>0 DEF Fit, MessagesFit, MessageFits, Aside
<1>2. NodesFit'
  <2> SUFFICES ASSUME NEW k \in Intermediates
               PROVE  /\ k \in ids =>
                            /\ approved = N /\ flow # 0
                            /\ stage'[k] \in {"FinalPath", "VotesChecking", "Recovery", "Committed", "Ended", "RollbackByOther"}
                      /\ k \in ids /\ stage'[k] \in {"FinalPath", "VotesChecking", "Recovery"} => held'[k] = Whole
                      /\ stage'[k] \in {"VotesChecking", "Recovery", "Committed"} => k \in ids
                      /\ Committed(k)' => moved[k] = Whole /\ Committed(Coordinator)'
                      /\ stage'[k] \in {"Recovery", "Committed"} => k \in voted
                      /\ k \in voted => k \in taken' \/ stage'[k] \in {"VotesChecking", "Recovery", "Committed"}
    BY <1>0 DEF NodesFit
  <2>0. k \in Nodes /\ k # Coordinator /\ Coordinator \in Nodes
    BY NodeFacts
  <2>1. Committed(Coordinator) => Committed(Coordinator)'
    BY <1>0, <2>0 DEF Aside, Committed, Reserving
  <2>2. CASE k # n
    BY <1>0, <2>0, <2>1, <2>2 DEF Fit, NodesFit, Committed
  <2>3. CASE k = n
    BY <1>0, <2>0, <2>3 DEF Aside, Reserving, Fit, NodesFit, Committed
  <2> QED BY <2>2, <2>3
<1>3. CoordinatorFits'
  <2>1. CASE n = Coordinator
    BY <1>0, <2>1 DEF Aside, Reserving, Fit, CoordinatorFits, Committed
  <2>2. CASE n # Coordinator
    <3>1. UNCHANGED <<stage[Coordinator], held[Coordinator]>>
      BY <1>0, <2>2, NodeFacts
    <3> QED BY <1>0, <3>1 DEF Fit, CoordinatorFits, Committed
  <2> QED BY <2>1, <2>2
<1> QED BY <1>1, <1>2, <1>3 DEF Fit

\* The initiator disturbs nothing while the final amount is open.
LEMMA BuildsKeep ==
    ASSUME TypeInv, Fit, Builds
    PROVE  Fit'
<1>0. /\ \A k \in Intermediates : UNCHANGED <<stage[k], held[k]>>
      /\ UNCHANGED <<ids, receipt, votes, voted, moved, taken>>
      /\ \A k \in Intermediates : k \notin ids /\ stage[k] \notin {"VotesChecking", "Recovery", "Committed"}
      /\ ~receipt /\ approved # N
  <2>1. approved # N
    BY CycleAssumption DEF Builds, TypeInv, StageOK
  <2> QED BY <2>1 DEF Builds, Building, Fit, NodesFit, CoordinatorFits
<1>1. MessagesFit'
  BY <1>0 DEF Builds, Fit, MessagesFit, MessageFits
<1>2. NodesFit'
  BY <1>0 DEF Fit, NodesFit, Committed
<1>3. CoordinatorFits'
  BY <1>0 DEF Builds, Building, Fit, CoordinatorFits, Committed
<1> QED BY <1>1, <1>2, <1>3 DEF Fit

\* What a node does before it knows the final amount.
LEMMA ReservesAside ==
    ASSUME TypeInv, NEW n \in Intermediates,
           \/ PreviousNeighborRequest(n) \/ PreviousNeighborRequestAgain(n)
           \/ CoordinatorRequestProcessing(n) \/ CoordinatorRequestAgain(n) \/ NextNeighborResponse(n)
    PROVE  Aside(n)
<1> USE DEF End, RollBack, Goto, Receive, Send
<1>0. n \in Nodes /\ n # Coordinator /\ stage \in [Nodes -> Stages] /\ held \in [Nodes -> Reservation]
  BY NodeFacts DEF TypeInv, StageOK, ReservationOK
<1>1. UNCHANGED <<flow, approved, ids, receipt, votes, voted, moved, taken>>
  BY DEF PreviousNeighborRequest, PreviousNeighborRequestAgain, CoordinatorRequestProcessing,
     CoordinatorRequestAgain, NextNeighborResponse, KeepFinal, final
<1>2. \A k \in Nodes \ {n} : UNCHANGED <<stage[k], held[k]>>
  BY <1>0 DEF PreviousNeighborRequest, PreviousNeighborRequestAgain, CoordinatorRequestProcessing,
     CoordinatorRequestAgain, NextNeighborResponse, AcceptPrevious, ReserveIn, ReserveOut
<1>3. \A m \in net' \ net : m.type \notin {"FinalPath", "KeyHash", "Vote"}
  BY DEF PreviousNeighborRequest, PreviousNeighborRequestAgain, CoordinatorRequestProcessing,
     CoordinatorRequestAgain, NextNeighborResponse, Request, Response, CoordinatorResponse, Message
<1>4. stage[n] \in Reserving /\ stage'[n] \in Reserving \cup {"FinalPath", "Ended"}
  BY <1>0 DEF PreviousNeighborRequest, PreviousNeighborRequestAgain, CoordinatorRequestProcessing,
     CoordinatorRequestAgain, NextNeighborResponse, AcceptPrevious, Reserving
<1> QED BY <1>0, <1>1, <1>2, <1>3, <1>4 DEF Aside, Reserving

\* What ends a node before its vote, or takes its reservations away.
LEMMA EndsAside ==
    ASSUME TypeInv, Fit, NEW n \in Nodes,
           \/ Challenge(n) \/ RollbackByOtherTransaction(n)
           \/ n \in Intermediates /\ (Timeout(n) \/ FinishArrives(n))
    PROVE  Aside(n)
<1> USE DEF Reject, End, RollBack, Goto, Receive, Send
<1>0. /\ stage \in [Nodes -> Stages] /\ held \in [Nodes -> Reservation]
      /\ n \notin Intermediates => n \notin voted
  BY NodeFacts DEF TypeInv, StageOK, ReservationOK, RestOK
<1>1. CASE Challenge(n)
  BY <1>0, <1>1 DEF Challenge, Challengeable, reservation, initiator, final, Aside
<1>2. CASE RollbackByOtherTransaction(n)
  BY <1>0, <1>2 DEF RollbackByOtherTransaction, KeepCycle, final, Aside
<1>3. CASE n \in Intermediates /\ (Timeout(n) \/ FinishArrives(n))
  <2>1. UNCHANGED <<flow, approved, ids, receipt, votes, voted, moved, taken>>
    BY <1>3 DEF Timeout, FinishArrives, KeepCycle, final
  <2>2. \A m \in net' \ net : m.type \notin {"FinalPath", "KeyHash", "Vote"}
    BY <1>3 DEF Timeout, FinishArrives, CoordinatorResponse, Message
  <2>3. \A k \in Nodes \ {n} : UNCHANGED <<stage[k], held[k]>>
    BY <1>0, <1>3 DEF Timeout, FinishArrives
  <2>4. stage'[n] = "Ended" /\ stage[n] \notin {"Recovery", "Committed"} /\ (n \notin voted \/ stage[n] # "VotesChecking")
    BY <1>0, <1>3 DEF Timeout, FinishArrives
  <2> QED BY <2>1, <2>2, <2>3, <2>4 DEF Aside
<1> QED BY <1>1, <1>2, <1>3

\* What the initiator does until the final amount.
LEMMA BuildingBuilds ==
    ASSUME TypeInv,
           \/ Start \/ StartAgain \/ NeighborAmountResponse \/ FurtherReservationResponse \/ AnswerBeforeRequest
           \/ PreviousNeighborRequest(Coordinator) \/ PreviousNeighborRequestAgain(Coordinator)
           \/ CoordinatorTimeout /\ stage[Coordinator] \in Building
    PROVE  Builds
<1> USE DEF End, RollBack, Goto, Receive, Send
<1>0. /\ stage \in [Nodes -> Stages] /\ held \in [Nodes -> Reservation]
      /\ Coordinator \in Nodes /\ \A k \in Intermediates : k \in Nodes /\ k # Coordinator
      /\ N \in Nat /\ N > 1 /\ approved \in 0..N /\ ApprovedFits
  BY NodeFacts, CycleAssumption DEF TypeInv, StageOK, ReservationOK
<1>1. stage[Coordinator] \in Building
  BY DEF Start, StartAgain, NeighborAmountResponse, FurtherReservationResponse, AnswerBeforeRequest,
     PreviousNeighborRequest, PreviousNeighborRequestAgain, Building
<1>2. approved < N
  BY <1>0, <1>1 DEF ApprovedFits, Building
<1>3. UNCHANGED <<ids, receipt, votes, voted, moved, taken>>
  BY DEF Start, StartAgain, NeighborAmountResponse, FurtherReservationResponse, AnswerBeforeRequest,
     PreviousNeighborRequest, PreviousNeighborRequestAgain, CoordinatorTimeout, KeepOffer, KeepFinal, final
<1>4. \A k \in Intermediates : UNCHANGED <<stage[k], held[k]>>
  <2>1. CASE Start \/ StartAgain \/ NeighborAmountResponse
    BY <1>0, <2>1 DEF Start, StartAgain, NeighborAmountResponse, Ask, ReserveOut
  <2>2. CASE FurtherReservationResponse
    BY <1>0, <2>2 DEF FurtherReservationResponse, ShortenOwn
  <2>3. CASE AnswerBeforeRequest \/ CoordinatorTimeout
    BY <1>0, <2>3 DEF AnswerBeforeRequest, CoordinatorTimeout
  <2>4. CASE PreviousNeighborRequest(Coordinator) \/ PreviousNeighborRequestAgain(Coordinator)
    BY <1>0, <2>4 DEF PreviousNeighborRequest, PreviousNeighborRequestAgain, AcceptPrevious, ReserveIn
  <2> QED BY <2>1, <2>2, <2>3, <2>4
<1>5. stage'[Coordinator] \in Building \cup {"FinalAmounts", "Ended"}
  <2>1. CASE Start \/ StartAgain \/ NeighborAmountResponse
    BY <1>0, <2>1 DEF Start, StartAgain, NeighborAmountResponse, Ask, Building
  <2>2. CASE FurtherReservationResponse \/ AnswerBeforeRequest \/ CoordinatorTimeout
    BY <1>0, <2>2 DEF FurtherReservationResponse, AnswerBeforeRequest, CoordinatorTimeout, Building
  <2>3. CASE PreviousNeighborRequest(Coordinator) \/ PreviousNeighborRequestAgain(Coordinator)
    BY <1>0, <2>3 DEF PreviousNeighborRequest, PreviousNeighborRequestAgain, AcceptPrevious, Building
  <2> QED BY <2>1, <2>2, <2>3
<1>6. \A m \in net' \ net :
          /\ m.type \notin {"KeyHash", "Vote"}
          /\ m.type = "FinalPath" => m.amount = flow' /\ flow' # 0 /\ approved' = N
  <2>1. CASE Start \/ StartAgain \/ NeighborAmountResponse
    BY <2>1 DEF Start, StartAgain, NeighborAmountResponse, Ask, Request, CoordinatorRequest, Message
  <2>2. CASE FurtherReservationResponse
    BY <2>2 DEF FurtherReservationResponse, FinishTo, Finish, FinalPath, CoordinatorRequest, Message
  <2>3. CASE AnswerBeforeRequest \/ CoordinatorTimeout
    BY <2>3 DEF AnswerBeforeRequest, CoordinatorTimeout, FinishTo, Finish, Message
  <2>4. CASE PreviousNeighborRequest(Coordinator) \/ PreviousNeighborRequestAgain(Coordinator)
    BY <2>4 DEF PreviousNeighborRequest, PreviousNeighborRequestAgain, Response, Message
  <2> QED BY <2>1, <2>2, <2>3, <2>4
<1> QED BY <1>1, <1>2, <1>3, <1>4, <1>5, <1>6 DEF Builds

\* A node whose timer fires before its vote gives its reservations back.
LEMMA LateTimeoutAside ==
    ASSUME TypeInv, CoordinatorTimeout, stage[Coordinator] \notin Building
    PROVE  Aside(Coordinator)
<1>0. /\ stage \in [Nodes -> Stages] /\ held \in [Nodes -> Reservation] /\ Coordinator \in Nodes
      /\ Coordinator \notin voted
  BY NodeFacts DEF TypeInv, StageOK, ReservationOK, RestOK
<1>1. /\ stage[Coordinator] \in {"FinalAmounts", "VotesChecking"}
      /\ RollBack(Coordinator) /\ UNCHANGED net /\ End(Coordinator)
      /\ UNCHANGED <<flow, approved, ids, receipt, votes, voted, moved, taken>>
  BY DEF CoordinatorTimeout, KeepOffer, final, Building
<1> QED BY <1>0, <1>1 DEF RollBack, End, Goto, Aside

\* A node that has taken the final amount holds it on both sides.
LEMMA SettleKeeps ==
    ASSUME TypeInv, Fit, NEW n \in Intermediates, NEW h, NEW ms, Settle(n, h, ms), stage[n] = "FinalPath",
           ids' \in {ids, ids \cup {n}}, n \notin ids' => h = held[n],
           n \in ids' => h = Whole /\ approved = N /\ flow # 0,
           UNCHANGED <<flow, approved, receipt, votes, voted, moved, taken>>,
           \A m \in ms : MessageFits(m)
    PROVE  Fit'
<1>0. /\ n \in Nodes /\ n # Coordinator /\ Coordinator \in Nodes
      /\ stage \in [Nodes -> Stages] /\ held \in [Nodes -> Reservation]
      /\ \A k \in Intermediates : k \in Nodes /\ k # Coordinator
  BY NodeFacts DEF TypeInv, StageOK, ReservationOK
<1>1. /\ \A k \in Nodes \ {n} : UNCHANGED <<stage[k], held[k]>>
      /\ \/ stage'[n] = "FinalPath" /\ held'[n] = h
         \/ stage'[n] = "VotesChecking" /\ held'[n] = h /\ n \in ids'
         \/ stage'[n] = "Ended" /\ n \in ids'
  BY <1>0 DEF Settle, Reject, RollBack, End, Goto
<1>2. \A m \in net' : m \in ms \/ m.type = "FinalResponse"
  BY DEF Settle, FinalResponse, Message
<1>3. MessagesFit'
  BY <1>2 DEF MessagesFit, MessageFits
<1>4. NodesFit'
  <2>1. Whole' = Whole /\ (Committed(Coordinator)' <=> Committed(Coordinator))
    BY <1>0, <1>1 DEF Whole, Committed
  <2> SUFFICES ASSUME NEW k \in Intermediates
               PROVE  /\ k \in ids' =>
                            /\ approved = N /\ flow # 0
                            /\ stage'[k] \in {"FinalPath", "VotesChecking", "Recovery", "Committed", "Ended", "RollbackByOther"}
                      /\ k \in ids' /\ stage'[k] \in {"FinalPath", "VotesChecking", "Recovery"} => held'[k] = Whole
                      /\ stage'[k] \in {"VotesChecking", "Recovery", "Committed"} => k \in ids'
                      /\ Committed(k)' => moved[k] = Whole /\ Committed(Coordinator)
                      /\ stage'[k] \in {"Recovery", "Committed"} => k \in voted
                      /\ k \in voted => k \in taken \/ stage'[k] \in {"VotesChecking", "Recovery", "Committed"}
    BY <2>1 DEF NodesFit
  <2>2. CASE k # n
    BY <1>0, <1>1, <2>2 DEF Fit, NodesFit, Committed
  <2>3. CASE k = n
    BY <1>0, <1>1, <2>3 DEF Fit, NodesFit, Committed
  <2> QED BY <2>2, <2>3
<1>5. CoordinatorFits'
  BY <1>0, <1>1 DEF Fit, CoordinatorFits, Committed
<1> QED BY <1>3, <1>4, <1>5 DEF Fit

\* The message of the final amount is taken as it was sent.
LEMMA FinalPathKeeps ==
    ASSUME TypeInv, Fit, NEW n \in Intermediates, FinalPathConfiguration(n)
    PROVE  Fit'
<1>0. /\ n \in Nodes /\ n # Coordinator
      /\ stage \in [Nodes -> Stages] /\ held \in [Nodes -> Reservation]
  BY NodeFacts DEF TypeInv, StageOK, ReservationOK
<1>1. PICK m \in net :
          /\ m.type = "FinalPath"
          /\ IF ~CanFix(held[n], m.amount)
             THEN Reject(n) /\ Receive(m, {}) /\ UNCHANGED final
             ELSE /\ ids' = ids \cup {n}
                  /\ Settle(n, ShortenTo(held[n], m.amount), (net \ {m}) \cup HashesOf(n, m.amount))
  BY DEF FinalPathConfiguration, To
<1>2. /\ stage[n] = "FinalPath" /\ n \notin ids
      /\ UNCHANGED <<flow, approved, receipt, votes, voted, moved, taken>>
  BY DEF FinalPathConfiguration, initiator
<1>3. m.amount = flow /\ flow # 0 /\ approved = N
  BY <1>1 DEF Fit, MessagesFit, MessageFits
<1>4. CASE ~CanFix(held[n], m.amount)
  <2>1. Aside(n)
    BY <1>0, <1>1, <1>2, <1>4 DEF Reject, RollBack, End, Goto, Receive, final, Aside
  <2> QED BY <1>0, <2>1, AsideKeeps
<1>5. CASE CanFix(held[n], m.amount)
  <2>1. ShortenTo(held[n], m.amount) = Whole
    BY <1>3, <1>5 DEF CanFix, ShortenTo, Whole
  <2>2. \A k \in HashesOf(n, m.amount) : MessageFits(k)
    <3> SUFFICES ASSUME NEW k \in (Intermediates \ {n}) \cup {NextNode(n)}
                 PROVE  MessageFits(KeyHash(n, k, flow))
      BY <1>3 DEF HashesOf
    <3>1. k = Coordinator => n = N
      <4>1. n \in Int /\ n >= 1 /\ n + 1 # 0 /\ 0 \notin Intermediates
        BY CycleAssumption DEF Intermediates
      <4> QED BY <4>1 DEF NextNode, Coordinator
    <3> QED BY <1>3, <3>1 DEF MessageFits, KeyHash, Message
  <2>3. \A k \in (net \ {m}) \cup HashesOf(n, m.amount) : MessageFits(k)
    BY <2>2 DEF Fit, MessagesFit
  <2> HIDE DEF HashesOf
  <2> QED BY <1>1, <1>2, <1>3, <1>5, <2>1, <2>3, SettleKeeps
<1> QED BY <1>4, <1>5

\* The confirmation of a neighbour is for the amount the node holds.
LEMMA KeyHashKeeps ==
    ASSUME TypeInv, Fit, NEW n \in Intermediates, FinalReservationsNeighborConfirmation(n)
    PROVE  Fit'
<1>0. /\ n \in Nodes /\ n # Coordinator
      /\ stage \in [Nodes -> Stages] /\ held \in [Nodes -> Reservation]
  BY NodeFacts DEF TypeInv, StageOK, ReservationOK
<1>1. PICK m \in net : Settle(n, held[n], net \ {m}) \/ (Reject(n) /\ Receive(m, {}))
  BY DEF FinalReservationsNeighborConfirmation, To
<1>2. /\ stage[n] = "FinalPath" /\ ids' = ids
      /\ UNCHANGED <<flow, approved, receipt, votes, voted, moved, taken>>
  BY DEF FinalReservationsNeighborConfirmation, initiator
<1>3. CASE Reject(n) /\ Receive(m, {})
  <2>1. Aside(n)
    BY <1>0, <1>2, <1>3 DEF Reject, RollBack, End, Goto, Receive, Aside
  <2> QED BY <1>0, <2>1, AsideKeeps
<1>4. CASE Settle(n, held[n], net \ {m})
  <2>1. n \in ids => held[n] = Whole /\ approved = N /\ flow # 0
    BY <1>2 DEF Fit, NodesFit
  <2>2. \A k \in net \ {m} : MessageFits(k)
    BY DEF Fit, MessagesFit
  <2> QED BY <1>2, <1>4, <2>1, <2>2, SettleKeeps
<1> QED BY <1>1, <1>3, <1>4

\* The initiator goes on to the votes with the receipt of the last node.
LEMMA ConfirmationsKeep ==
    ASSUME TypeInv, Fit, FinalAmountsParticipantConfirmation \/ FinalReceipt
    PROVE  Fit'
<1>0. /\ Coordinator \in Nodes /\ \A k \in Intermediates : k \in Nodes /\ k # Coordinator
      /\ stage \in [Nodes -> Stages] /\ held \in [Nodes -> Reservation] /\ Coordinator \notin voted
  BY NodeFacts DEF TypeInv, StageOK, ReservationOK, RestOK
<1>1. /\ stage[Coordinator] = "FinalAmounts"
      /\ UNCHANGED <<flow, approved, ids, votes, voted, moved, taken>>
  BY DEF FinalAmountsParticipantConfirmation, FinalReceipt, KeepCycle, final
<1>2. \A m \in net' \ net : m.type = "PublicKeys"
  BY DEF FinalAmountsParticipantConfirmation, FinalReceipt, Receive, PublicKeys, Message
<1>3. CASE Reject(Coordinator)
  <2>1. receipt' = receipt
    BY <1>0, <1>1, <1>3 DEF FinalAmountsParticipantConfirmation, FinalReceipt, Reject, End, Goto
  <2>2. Aside(Coordinator)
    BY <1>0, <1>1, <1>2, <1>3, <2>1 DEF Reject, RollBack, End, Goto, Aside
  <2> QED BY <1>0, <2>2, AsideKeeps
<1>4. CASE ~Reject(Coordinator)
  <2>1. /\ held' = held
        /\ stage' \in {stage, [stage EXCEPT ![Coordinator] = "VotesChecking"]}
        /\ receipt \/ stage' = stage
        /\ \/ receipt' = receipt
           \/ \E m \in net : /\ m.type = "KeyHash" /\ m.to = Coordinator
                             /\ ReceiptFits(Coordinator, m) /\ stage' = stage
    BY <1>4 DEF FinalAmountsParticipantConfirmation, FinalReceipt, PublishKeys, Goto, To
  <2>2. receipt' => held[Coordinator].in = flow
    <3>1. CASE receipt' = receipt
      BY <1>1, <3>1 DEF Fit, CoordinatorFits
    <3>2. CASE receipt' # receipt
      <4>1. PICK m \in net : m.type = "KeyHash" /\ m.to = Coordinator /\ ReceiptFits(Coordinator, m)
        BY <2>1, <3>2
      <4>2. m.from = N
        BY <4>1 DEF Fit, MessagesFit, MessageFits
      <4>3. NextNode(N) = Coordinator /\ PreviousNode(Coordinator) = N
        BY DEF NextNode, PreviousNode, Coordinator
      <4>4. m.amount = flow
        BY <4>1, <4>2, <4>3 DEF Fit, MessagesFit, MessageFits
      <4> QED BY <4>1, <4>2, <4>3, <4>4 DEF ReceiptFits
    <3> QED BY <3>1, <3>2
  <2>3. MessagesFit'
    BY <1>1, <1>2 DEF Fit, MessagesFit, MessageFits
  <2>4. \A k \in Intermediates : UNCHANGED <<stage[k], held[k]>>
    BY <1>0, <2>1
  <2>5. stage'[Coordinator] \in {"FinalAmounts", "VotesChecking"} /\ (stage'[Coordinator] = "VotesChecking" => receipt)
    BY <1>0, <1>1, <2>1
  <2>6. receipt => receipt'
    BY <1>1 DEF FinalAmountsParticipantConfirmation, FinalReceipt
  <2>7. NodesFit'
    BY <1>1, <2>4 DEF Fit, NodesFit, Committed, Whole
  <2>8. CoordinatorFits'
    BY <1>1, <2>1, <2>2, <2>5, <2>6 DEF Fit, CoordinatorFits, Committed
  <2> QED BY <2>3, <2>7, <2>8 DEF Fit
<1> QED BY <1>3, <1>4

\* All votes are those of the intermediate nodes.
LEMMA AllVotes ==
    ASSUME NEW vs \in SUBSET Intermediates, AllVoted(vs)
    PROVE  vs = Intermediates
<1>1. IsFiniteSet(Intermediates) /\ Cardinality(Intermediates) = N
  BY CycleAssumption, FS_Interval DEF Intermediates
<1>2. IsFiniteSet(vs) /\ Cardinality(vs) \in Nat
  BY <1>1, FS_Subset, FS_CardinalityType
<1>3. Cardinality(vs) = N
  BY <1>2, CycleAssumption DEF AllVoted
<1> QED BY <1>1, <1>3, FS_Subset

\* Votes are counted once each, and the commit follows them.
LEMMA VotesKeep ==
    ASSUME TypeInv, Fit, NEW n \in Intermediates,
           VoteOnKeys(n) \/ VotesConsistencyChecking \/ VotesOrTimeout(n) \/ Recover(n)
    PROVE  Fit'
<1>0. /\ Coordinator \in Nodes /\ n \in Nodes /\ n # Coordinator
      /\ \A k \in Intermediates : k \in Nodes /\ k # Coordinator
      /\ stage \in [Nodes -> Stages] /\ held \in [Nodes -> Reservation] /\ moved \in [Nodes -> Reservation]
      /\ voted \subseteq Intermediates /\ votes \subseteq Intermediates
      /\ MessagesFit /\ NodesFit /\ CoordinatorFits
  BY NodeFacts DEF TypeInv, StageOK, ReservationOK, RestOK, Fit
<1>1. UNCHANGED <<flow, approved, ids, receipt, taken>>
  BY DEF VoteOnKeys, VotesConsistencyChecking, VotesOrTimeout, Recover, KeepCycle, final
<1>2. CASE VoteOnKeys(n)
  <2>1. /\ stage[n] = "VotesChecking" /\ voted' = voted \cup {n}
        /\ UNCHANGED <<stage, held, moved, votes>> /\ \A m \in net' : m \in net \/ m = Vote(n)
    BY <1>2 DEF VoteOnKeys, Receive
  <2>2. MessagesFit'
    BY <1>0, <1>1, <2>1 DEF MessagesFit, MessageFits, Vote, Message
  <2>3. NodesFit'
    BY <1>0, <1>1, <2>1 DEF NodesFit, Committed, Whole
  <2>4. CoordinatorFits'
    BY <1>0, <1>1, <2>1 DEF CoordinatorFits, Committed
  <2> QED BY <2>2, <2>3, <2>4 DEF Fit
<1>3. CASE VotesConsistencyChecking
  <2>1. PICK m \in net : m.type = "Vote" /\ votes' = votes \cup {m.from} /\ net' = net \ {m}
    BY <1>3 DEF VotesConsistencyChecking, To, Receive
  <2>2. /\ stage[Coordinator] = "VotesChecking" /\ voted' = voted
        /\ IF AllVoted(votes') THEN Commit(Coordinator) ELSE UNCHANGED <<stage, held, moved>>
    BY <1>3 DEF VotesConsistencyChecking
  <2>3. MessagesFit' /\ votes' \subseteq voted
    BY <1>0, <1>1, <2>1, <2>2 DEF MessagesFit, MessageFits, CoordinatorFits
  <2>4. CASE ~AllVoted(votes')
    BY <1>0, <1>1, <2>2, <2>3, <2>4 DEF Fit, NodesFit, CoordinatorFits, Committed, Whole
  <2>5. CASE AllVoted(votes')
    <3>1. voted = Intermediates
      BY <1>0, <2>3, <2>5, AllVotes
    <3>2. /\ \A k \in Nodes \ {Coordinator} : UNCHANGED <<stage[k], held[k], moved[k]>>
          /\ stage'[Coordinator] = "Committed" /\ moved'[Coordinator] = held[Coordinator]
      BY <1>0, <2>2, <2>5 DEF Commit, RollBack, Goto
    <3>3. NodesFit'
      BY <1>0, <1>1, <2>2, <3>2 DEF NodesFit, Committed, Whole
    <3>4. CoordinatorFits'
      BY <1>0, <1>1, <2>2, <2>3, <3>1, <3>2 DEF CoordinatorFits, Committed
    <3> QED BY <2>3, <3>3, <3>4 DEF Fit
  <2> QED BY <2>4, <2>5
<1>4. CASE VotesOrTimeout(n)
  <2>1. /\ stage[n] = "VotesChecking" /\ n \in voted /\ stage'[n] = "Recovery"
        /\ \A k \in Nodes \ {n} : UNCHANGED stage[k]
        /\ UNCHANGED <<held, net, votes, voted, moved>>
    BY <1>0, <1>4 DEF VotesOrTimeout, Goto
  <2>2. MessagesFit'
    BY <1>0, <1>1, <2>1 DEF MessagesFit, MessageFits
  <2>3. NodesFit'
    BY <1>0, <1>1, <2>1 DEF NodesFit, Committed, Whole
  <2>4. CoordinatorFits'
    BY <1>0, <1>1, <2>1 DEF CoordinatorFits, Committed
  <2> QED BY <2>2, <2>3, <2>4 DEF Fit
<1>5. CASE Recover(n)
  <2>1. /\ stage[n] = "Recovery" /\ Committed(Coordinator) /\ stage'[n] = "Committed" /\ moved'[n] = held[n]
        /\ \A k \in Nodes \ {n} : UNCHANGED <<stage[k], held[k], moved[k]>>
        /\ UNCHANGED <<net, votes, voted>>
    BY <1>0, <1>5 DEF Recover, Commit, RollBack, Goto, Committed
  <2>2. MessagesFit'
    BY <1>0, <1>1, <2>1 DEF MessagesFit, MessageFits
  <2>3. NodesFit'
    BY <1>0, <1>1, <2>1 DEF NodesFit, Committed, Whole
  <2>4. CoordinatorFits'
    BY <1>0, <1>1, <2>1 DEF CoordinatorFits, Committed
  <2> QED BY <2>2, <2>3, <2>4 DEF Fit
<1> QED BY <1>2, <1>3, <1>4, <1>5

\* Every step keeps the agreement.
LEMMA FitStep == ASSUME TypeInv, Fit, [Next]_vars PROVE Fit'
<1>1. CASE UNCHANGED vars
  BY <1>1 DEF vars, reservation, initiator, final, Fit, MessagesFit, MessageFits, NodesFit, CoordinatorFits,
     Committed, Whole
<1>2. CASE Coordinate
  <2>1. PICK n \in Intermediates : TRUE
    BY NodeFacts
  <2> QED BY <1>2, <2>1, BuildingBuilds, BuildsKeep, LateTimeoutAside, AsideKeeps, ConfirmationsKeep, VotesKeep, NodeFacts
          DEF Coordinate
<1>3. ASSUME NEW n \in Intermediates, TakePart(n) PROVE Fit'
  BY <1>3, NodeFacts, ReservesAside, EndsAside, AsideKeeps, FinalPathKeeps, KeyHashKeeps, VotesKeep DEF TakePart
<1>4. ASSUME NEW n \in Nodes, PreviousNeighborRequest(n) \/ PreviousNeighborRequestAgain(n) PROVE Fit'
  BY <1>4, NodeFacts, ReservesAside, AsideKeeps, BuildingBuilds, BuildsKeep
<1>5. ASSUME NEW n \in Nodes, Challenge(n) \/ RollbackByOtherTransaction(n) PROVE Fit'
  BY <1>5, EndsAside, AsideKeeps
<1> QED BY <1>1, <1>2, <1>3, <1>4, <1>5 DEF Next

\* The agreement holds together with the types.
LEMMA FitInductive == Spec => [](TypeInv /\ Fit)
<1>1. Init => Fit
  BY NodeFacts DEF Init, Fit, MessagesFit, NodesFit, CoordinatorFits, Committed
<1> QED BY <1>1, FitStep, TypeInductive, PTL DEF Spec

\* The nodes of a cycle that have committed agree on what went over the lines between them.
THEOREM HopsAgreed == Spec => []HopsAgree
<1>1. TypeInv /\ Fit => HopsAgree
  <2> SUFFICES ASSUME TypeInv, Fit, NEW n \in Intermediates, Committed(n)
               PROVE  /\ moved[n].in = moved[n].out /\ moved[n].in # 0
                      /\ Committed(NextNode(n)) => moved[NextNode(n)].in = moved[n].out
    BY DEF HopsAgree
  <2>1. moved[n] = Whole /\ flow # 0
    BY DEF Fit, NodesFit, Committed
  <2>2. NextNode(n) = Coordinator \/ NextNode(n) \in Intermediates
    BY NodeFacts
  <2> QED BY <2>1, <2>2 DEF Whole, Fit, NodesFit, CoordinatorFits
<1> QED BY <1>1, FitInductive, PTL

\* No node commits a cycle before the initiator has, and then every node has voted for it and
\* has committed or still holds it, unless another cycle took its reservations.
THEOREM DecidedOnce == Spec => []OneDecision
<1>1. TypeInv /\ Fit => OneDecision
  <2> SUFFICES ASSUME TypeInv, Fit PROVE OneDecision
    OBVIOUS
  <2>1. \A n \in Intermediates : Committed(n) => Committed(Coordinator) /\ n \in voted
    BY DEF Fit, NodesFit, Committed
  <2>2. ASSUME Committed(Coordinator), NEW n \in Intermediates
        PROVE  n \in taken \/ Committed(n) \/ (n \in voted /\ held[n].in # 0 /\ held[n].out # 0)
    <3>1. n \in voted
      BY <2>2 DEF Fit, CoordinatorFits
    <3>2. CASE stage[n] \in {"VotesChecking", "Recovery"}
      BY <3>1, <3>2 DEF Fit, NodesFit, Whole
    <3> QED BY <3>1, <3>2 DEF Fit, NodesFit, Committed
  <2> QED BY <2>1, <2>2 DEF OneDecision
<1> QED BY <1>1, FitInductive, PTL

=============================================================================
