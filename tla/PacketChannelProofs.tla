------------------------ MODULE PacketChannelProofs -------------------------
(***************************************************************************)
(* Theorems about PacketChannel, for every set of messages, whatever their *)
(* length and sender, and every packet size: what is passed on was sent,   *)
(* and what has arrived is passed on.                                      *)
(***************************************************************************)
EXTENDS PacketChannel, FiniteSetTheorems, WellFoundedInduction, TLAPS

-----------------------------------------------------------------------------
(* Cutting a message.                                                        *)

\* A set of natural numbers has a smallest element.
LEMMA NatMin ==
    ASSUME NEW T \in SUBSET Nat, T # {}
    PROVE  \E x \in T : \A y \in T : x <= y
<1> DEFINE R == OpToRel(<, Nat)
<1>1. IsWellFoundedOn(R, Nat)
  BY NatLessThanWellFounded
<1>2. \A x, y \in Nat : y < x => <<y, x>> \in R
  BY DEF OpToRel
<1> HIDE DEF R
<1>3. PICK x \in T : \A y \in T : ~(<<y, x>> \in R)
  BY <1>1, WFMin
<1>4. ASSUME NEW y \in T PROVE x <= y
  <2>1. ~(y < x)
    BY <1>2, <1>3
  <2> QED BY <2>1
<1> QED BY <1>4

\* A bounded one has a largest, which the join of a channel runs up to.
LEMMA BoundedMax ==
    ASSUME NEW B \in Nat, NEW T \in SUBSET (0..B), T # {}
    PROVE  \E x \in T : \A y \in T : y <= x
<1> DEFINE D == {B - x : x \in T}
<1>0. D \in SUBSET Nat /\ D # {}
  <2>1. \A x \in T : B - x \in Nat
    OBVIOUS
  <2> QED BY <2>1
<1>1. PICK d \in D : \A e \in D : d <= e
  BY <1>0, NatMin
<1>2. PICK x \in T : d = B - x
  OBVIOUS
<1>3. ASSUME NEW y \in T PROVE y <= x
  <2>1. B - x <= B - y
    BY <1>1, <1>2
  <2> QED BY <2>1
<1> QED BY <1>3

\* The packet with part i of message m on channel c.
PacketOf(m, c, i) ==
    [from |-> SenderOf[m], channel |-> c, total |-> PacketsCount(m), index |-> i,
     size |-> PacketSize(m, i), body |-> Fragment(m, i)]

\* The count is a byte, also where the message is too large for it.
LEMMA CountType ==
    ASSUME NEW m \in Messages
    PROVE  PacketsCount(m) \in 0..MaxPackets
<1>1. Content(m) \in Nat /\ MaxSize \in Nat \ {0} /\ MaxPackets \in Nat
  BY PacketAssumption DEF Content
<1>2. Content(m) \div MaxSize \in Int
  BY <1>1
<1>3. (Content(m) \div MaxSize + IF Content(m) % MaxSize # 0 THEN 1 ELSE 0) \in Int
  BY <1>2
<1> QED BY <1>1, <1>3 DEF PacketsCount

\* A message that is sent is cut into as many packets as a byte can count, and no packet is empty.
Sendable(m) == Bytes[m] <= MaxMessageSize
LEMMA SentCount ==
    ASSUME NEW m \in Messages, Sendable(m)
    PROVE  /\ PacketsCount(m) \in 1..MaxPackets
           /\ \A i \in 0..PacketsCount(m) - 1 : PacketSize(m, i) >= HeaderSize + 1
<1> DEFINE a == Content(m)
           q == (a \div MaxSize) + IF a % MaxSize # 0 THEN 1 ELSE 0
<1>1. /\ a \in Nat \ {0} /\ {MaxSize, HeaderSize, CRCSize, MaxPackets} \subseteq Nat \ {0}
      /\ HeaderSize + CRCSize < MaxSize /\ CRCSize <= HeaderSize
  BY PacketAssumption DEF Content
<1>2. q \in Nat /\ (q - 1) * MaxSize < a /\ a <= q * MaxSize
  BY <1>1
<1>3. a <= MaxPackets * MaxSize
  <2>1. a <= MaxPackets * (MaxSize - HeaderSize) + HeaderSize
    BY <1>1, PacketAssumption DEF Sendable, MaxMessageSize, Content
  <2>2. MaxPackets * (MaxSize - HeaderSize) = MaxPackets * MaxSize - MaxPackets * HeaderSize
    BY <1>1
  <2>3. MaxPackets * HeaderSize >= HeaderSize
    BY <1>1
  <2>4. MaxPackets * MaxSize \in Int /\ MaxPackets * HeaderSize \in Int
    BY <1>1
  <2> HIDE DEF a
  <2> QED BY <1>1, <2>1, <2>2, <2>3, <2>4
<1> HIDE DEF q
<1>4. q \in 1..MaxPackets
  <2>1. q > 0
    BY <1>1, <1>2
  <2>2. ASSUME q > MaxPackets PROVE FALSE
    <3>1. (q - 1) * MaxSize >= MaxPackets * MaxSize
      BY <1>1, <1>2, <2>2
    <3>2. (q - 1) * MaxSize \in Int /\ MaxPackets * MaxSize \in Int /\ a \in Int
      BY <1>1, <1>2
    <3> HIDE DEF a
    <3> QED BY <1>2, <1>3, <3>1, <3>2
  <2> QED BY <1>1, <1>2, <2>1, <2>2
<1>5. PacketsCount(m) = q
  BY <1>1, <1>4 DEF PacketsCount, q
<1>6. ASSUME NEW i \in 0..q - 1 PROVE PacketSize(m, i) >= HeaderSize + 1
  <2>1. CASE i < q - 1
    BY <1>1, <1>5, <2>1 DEF PacketSize
  <2>2. CASE i = q - 1
    <3>1. (q - 1) * (MaxSize - HeaderSize) <= (q - 1) * MaxSize
      <4>1. (q - 1) * (MaxSize - HeaderSize) = (q - 1) * MaxSize - (q - 1) * HeaderSize
        BY <1>1, <1>4
      <4>2. (q - 1) * HeaderSize >= 0 /\ (q - 1) * HeaderSize \in Int /\ (q - 1) * MaxSize \in Int
        BY <1>1, <1>4
      <4> QED BY <4>1, <4>2
    <3>2. (q - 1) * (MaxSize - HeaderSize) \in Int /\ (q - 1) * MaxSize \in Int
      BY <1>1, <1>2
    <3>3. PacketSize(m, i) = a - (q - 1) * (MaxSize - HeaderSize) + HeaderSize
      BY <1>5, <2>2 DEF PacketSize
    <3> HIDE DEF a
    <3> QED BY <1>1, <1>2, <3>1, <3>2, <3>3
  <2> QED BY <1>4, <2>1, <2>2
<1> QED BY <1>4, <1>5, <1>6

\* The packets of TypeOK are the parts of the messages.
LEMMA PacketForm ==
    \A p : p \in Packet <=>
        \E m \in Messages, c \in 0..ChannelIndexes - 1 : \E i \in 0..PacketsCount(m) - 1 : p = PacketOf(m, c, i)
<1>1. ASSUME NEW m \in Messages, NEW c \in 0..ChannelIndexes - 1
      PROVE  ToSet(Packets(m, c)) = {PacketOf(m, c, i) : i \in 0..PacketsCount(m) - 1}
  <2>1. PacketsCount(m) \in Nat
    BY CountType, PacketAssumption
  <2>2. Packets(m, c) = [i \in 1..PacketsCount(m) |-> PacketOf(m, c, i - 1)]
    BY DEF Packets, PacketOf
  <2>3. ToSet(Packets(m, c)) = {PacketOf(m, c, i - 1) : i \in 1..PacketsCount(m)}
    BY <2>2 DEF ToSet
  <2>4. \A i \in 0..PacketsCount(m) - 1 : i + 1 \in 1..PacketsCount(m) /\ (i + 1) - 1 = i
    BY <2>1
  <2>5. \A i \in 1..PacketsCount(m) : i - 1 \in 0..PacketsCount(m) - 1
    BY <2>1
  <2> QED BY <2>3, <2>4, <2>5
<1> QED BY <1>1 DEF Packet

\* Messages are cut into packets, and the packets are those of TypeOK.
LEMMA PacketsType ==
    ASSUME NEW m \in Messages, NEW c \in 0..ChannelIndexes - 1
    PROVE  /\ Packets(m, c) \in Seq(Packet) /\ Len(Packets(m, c)) = PacketsCount(m)
           /\ \A i \in 0..PacketsCount(m) - 1 : Packets(m, c)[i + 1] = PacketOf(m, c, i)
<1>1. PacketsCount(m) \in Nat
  BY CountType, PacketAssumption
<1>2. \A i \in 1..PacketsCount(m) : PacketOf(m, c, i - 1) \in Packet
  <2>1. \A i \in 1..PacketsCount(m) : i - 1 \in 0..PacketsCount(m) - 1
    BY <1>1
  <2> QED BY <2>1, PacketForm
<1>3. \A i \in 1..PacketsCount(m) : Packets(m, c)[i] = PacketOf(m, c, i - 1)
  BY DEF Packets, PacketOf
<1>4. Packets(m, c) = [i \in 1..PacketsCount(m) |-> PacketOf(m, c, i - 1)]
  BY DEF Packets, PacketOf
<1>5. DOMAIN Packets(m, c) = 1..PacketsCount(m)
  BY <1>4
<1>6. Packets(m, c) \in Seq(Packet)
  <2>1. Packets(m, c) \in [1..PacketsCount(m) -> Packet]
    BY <1>2, <1>4
  <2> QED BY <1>1, <2>1
<1> QED BY <1>1, <1>3, <1>5, <1>6

-----------------------------------------------------------------------------
(* Type correctness. *)

\* A slot holds the part of a message that belongs there, or nothing.
SlotsOK(s) ==
    /\ DOMAIN s \subseteq 0..MaxPackets
    /\ \A i \in DOMAIN s :
          s[i] = Empty \/ \E m \in Messages : i \in 0..PacketsCount(m) - 1 /\ s[i] = Fragment(m, i)
ChannelsOK ==
    \A c \in DOMAIN channels : channels[c].expected \in 1..MaxPackets /\ SlotsOK(channels[c].slots)
ReceivedOK == received \subseteq SUBSET UNION {Fragments(m) : m \in Messages}
Send == [message : Messages, channel : 0..ChannelIndexes - 1]
SendsOK == sends \in Seq(Send) /\ hurt \subseteq DOMAIN sends
SenderOK ==
    /\ next \in [Senders -> 0..ChannelIndexes - 1]
    /\ queue \in [Senders -> Seq(Packet)]
TypeInv == SenderOK /\ net \subseteq Packet /\ ChannelsOK /\ ReceivedOK /\ SendsOK

\* The inductive form implies the type invariant.
LEMMA TypeParts == TypeInv => TypeOK
<1> SUFFICES ASSUME TypeInv PROVE TypeOK
  OBVIOUS
<1>1. \A s \in Senders : ToSet(queue[s]) \subseteq Packet
  BY DEF TypeInv, SenderOK, ToSet
<1>2. ASSUME NEW c \in DOMAIN channels, NEW i \in DOMAIN channels[c].slots, channels[c].slots[i] # Empty
      PROVE  \E p \in Packet : p.body = channels[c].slots[i] /\ p.index = i
  <2>1. PICK m \in Messages : i \in 0..PacketsCount(m) - 1 /\ channels[c].slots[i] = Fragment(m, i)
    BY <1>2 DEF TypeInv, ChannelsOK, SlotsOK
  <2>2. 0 \in 0..ChannelIndexes - 1
    BY PacketAssumption
  <2>3. PacketOf(m, 0, i) \in Packet
    BY <2>1, <2>2, PacketForm
  <2> QED BY <2>1, <2>3 DEF PacketOf
<1>3. \A k \in DOMAIN sends : sends[k] \in Send
  BY DEF TypeInv, SendsOK
<1> QED BY <1>1, <1>2, <1>3 DEF TypeInv, SenderOK, ChannelsOK, ReceivedOK, SendsOK, Send, TypeOK

\* What p adds to a channel fits the channel.
LEMMA WithPacketType ==
    ASSUME ChannelsOK, NEW c, NEW p \in Packet
    PROVE  LET ch == WithPacket(Channel(c), p)
           IN  /\ ch = [expected |-> p.total, slots |-> ch.slots]
               /\ SlotsOK(ch.slots) /\ p.index \in DOMAIN ch.slots /\ ch.slots[p.index] = p.body
               /\ DOMAIN ch.slots = DOMAIN Channel(c).slots \cup {p.index}
               /\ \A i \in DOMAIN Channel(c).slots : i # p.index => ch.slots[i] = Channel(c).slots[i]
               /\ p.total # 0 => p.total \in 1..MaxPackets
<1> DEFINE ch == WithPacket(Channel(c), p)
<1>0. PICK m \in Messages, d \in 0..ChannelIndexes - 1 : \E i \in 0..PacketsCount(m) - 1 : p = PacketOf(m, d, i)
  BY PacketForm
<1>1. PICK i \in 0..PacketsCount(m) - 1 : p = PacketOf(m, d, i)
  BY <1>0
<1>2. PacketsCount(m) \in 0..MaxPackets /\ p.index = i /\ p.body = Fragment(m, i) /\ p.total = PacketsCount(m)
  BY <1>1, CountType DEF PacketOf
<1>3. SlotsOK(Channel(c).slots)
  BY DEF ChannelsOK, Channel, NoChannel, SlotsOK
<1>4. /\ DOMAIN ch.slots = DOMAIN Channel(c).slots \cup {p.index}
      /\ ch.slots[p.index] = p.body
      /\ \A k \in DOMAIN Channel(c).slots : k # p.index => ch.slots[k] = Channel(c).slots[k]
      /\ ch = [expected |-> p.total, slots |-> ch.slots]
  BY DEF WithPacket
<1>5. i \in 0..MaxPackets
  BY <1>2, PacketAssumption
<1>6. SlotsOK(ch.slots)
  <2> HIDE DEF ch
  <2> QED BY <1>2, <1>3, <1>4, <1>5 DEF SlotsOK
<1> HIDE DEF ch
<1>7. p.total # 0 => p.total \in 1..MaxPackets
  BY <1>2, PacketAssumption
<1> QED BY <1>4, <1>6, <1>7 DEF ch

\* The join of a channel fills the slots up to the last one that is there.
LEMMA JoinedType ==
    ASSUME NEW e, NEW s, SlotsOK(s), DOMAIN s # {}
    PROVE  \E top \in DOMAIN s :
              /\ \A k \in DOMAIN s : k <= top
              /\ Joined([expected |-> e, slots |-> s]) =
                    [expected |-> e, slots |-> [i \in 0..top |-> IF i \in DOMAIN s THEN s[i] ELSE Empty]]
              /\ SlotsOK([i \in 0..top |-> IF i \in DOMAIN s THEN s[i] ELSE Empty])
<1> DEFINE top == CHOOSE j \in DOMAIN s : \A k \in DOMAIN s : k <= j
<1>1. top \in DOMAIN s /\ \A k \in DOMAIN s : k <= top
  <2>1. DOMAIN s \in SUBSET (0..MaxPackets) /\ MaxPackets \in Nat
    BY PacketAssumption DEF SlotsOK
  <2>2. \E j \in DOMAIN s : \A k \in DOMAIN s : k <= j
    BY <2>1, BoundedMax
  <2> QED BY <2>2
<1>2. Joined([expected |-> e, slots |-> s]) =
         [expected |-> e, slots |-> [i \in 0..top |-> IF i \in DOMAIN s THEN s[i] ELSE Empty]]
  <2> DEFINE ch == [expected |-> e, slots |-> s]
             J(x) == [i \in 0..(CHOOSE j \in DOMAIN x : \A k \in DOMAIN x : k <= j) |->
                         IF i \in DOMAIN x THEN x[i] ELSE Empty]
  <2>1. ch.slots = s /\ \A x : [ch EXCEPT !.slots = x] = [expected |-> e, slots |-> x]
    OBVIOUS
  <2>2. Joined(ch) = [ch EXCEPT !.slots = J(ch.slots)]
    BY Zenon DEF Joined
  <2>a. J(s) = [i \in 0..top |-> IF i \in DOMAIN s THEN s[i] ELSE Empty]
    BY Zenon DEF top
  <2> HIDE DEF J
  <2>3. Joined(ch) = [ch EXCEPT !.slots = [i \in 0..top |-> IF i \in DOMAIN s THEN s[i] ELSE Empty]]
    <3>1. J(ch.slots) = J(s)
      BY <2>1
    <3> HIDE DEF ch
    <3> QED BY <2>2, <2>a, <3>1, Zenon
  <2> HIDE DEF ch, top
  <2>4. Joined(ch) = [expected |-> e, slots |-> [i \in 0..top |-> IF i \in DOMAIN s THEN s[i] ELSE Empty]]
    BY <2>1, <2>3
  <2> QED BY <2>4 DEF ch
<1> HIDE DEF top
<1>3. 0..top \subseteq 0..MaxPackets
  BY <1>1, PacketAssumption DEF SlotsOK
<1>4. SlotsOK([i \in 0..top |-> IF i \in DOMAIN s THEN s[i] ELSE Empty])
  BY <1>3 DEF SlotsOK
<1> QED BY <1>1, <1>2, <1>4

\* What the receiver does with a packet: it ignores it, keeps it in its channel, with the
\* channel joined or not, or passes the message on.
Stored(p) == WithPacket(Channel(ChannelOf(p)), p)
Ignores(p) == ~ValidPacket(p) /\ UNCHANGED <<channels, received>>
Stores(p, x) ==
    /\ UNCHANGED received
    /\ channels' = [d \in DOMAIN channels \cup {ChannelOf(p)} |-> IF d = ChannelOf(p) THEN x ELSE channels[d]]
Keeps(p) == ValidPacket(p) /\ ~CanCollect(Stored(p)) /\ Stores(p, Stored(p))
Joins(p) ==
    ValidPacket(p) /\ CanCollect(Stored(p)) /\ ~CRCFits(Joined(Stored(p))) /\ Stores(p, Joined(Stored(p)))
Collects(p) ==
    /\ ValidPacket(p) /\ CRCFits(Joined(Stored(p)))
    /\ received' = received \cup {Data(Joined(Stored(p)))}
    /\ channels' = [d \in DOMAIN channels \ {ChannelOf(p)} |-> channels[d]]
\* An arrival does one of these.
LEMMA ArriveCases ==
    ASSUME NEW p, Arrive(p)
    PROVE  /\ net' \in {net, net \ {p}} /\ UNCHANGED <<next, queue, sends, hurt>>
           /\ Ignores(p) \/ Keeps(p) \/ Joins(p) \/ Collects(p)
BY DEF Arrive, Ignores, Keeps, Joins, Collects, Stores, Stored

\* What a valid packet leaves in its channel.
LEMMA StoredType ==
    ASSUME ChannelsOK, NEW p \in Packet, ValidPacket(p), NEW x \in {Stored(p), Joined(Stored(p))}
    PROVE  x.expected \in 1..MaxPackets /\ SlotsOK(x.slots)
<1> DEFINE ch == Stored(p)
<1>1. /\ ch = [expected |-> p.total, slots |-> ch.slots] /\ SlotsOK(ch.slots) /\ DOMAIN ch.slots # {}
      /\ p.total \in 1..MaxPackets
  BY WithPacketType DEF Stored, ValidPacket
<1> HIDE DEF ch
<1>2. CASE x = ch
  <2>1. ch.expected = p.total
    BY <1>1
  <2> QED BY <1>1, <1>2, <2>1
<1>3. CASE x = Joined(ch)
  <2>1. PICK top \in DOMAIN ch.slots :
           /\ Joined(ch) = [expected |-> p.total, slots |-> [i \in 0..top |-> IF i \in DOMAIN ch.slots THEN ch.slots[i] ELSE Empty]]
           /\ SlotsOK([i \in 0..top |-> IF i \in DOMAIN ch.slots THEN ch.slots[i] ELSE Empty])
    BY <1>1, JoinedType
  <2> QED BY <1>1, <1>3, <2>1
<1> QED BY <1>2, <1>3 DEF ch

\* A packet that is kept leaves every channel well formed.
LEMMA StoresType ==
    ASSUME ChannelsOK, NEW p \in Packet, ValidPacket(p), NEW x \in {Stored(p), Joined(Stored(p))}, Stores(p, x)
    PROVE  ChannelsOK'
<1>1. x.expected \in 1..MaxPackets /\ SlotsOK(x.slots)
  BY StoredType
<1>2. \A c \in DOMAIN channels' : channels'[c] = x \/ (c \in DOMAIN channels /\ channels'[c] = channels[c])
  BY DEF Stores
<1> QED BY <1>1, <1>2 DEF ChannelsOK, SlotsOK

\* An arrival keeps the types.
LEMMA ArriveType ==
    ASSUME TypeInv, NEW p \in net, Arrive(p)
    PROVE  TypeInv'
<1>1. p \in Packet /\ ChannelsOK /\ ReceivedOK
  BY DEF TypeInv
<1>2. SenderOK' /\ SendsOK' /\ net' \subseteq Packet
  BY ArriveCases DEF TypeInv, SenderOK, SendsOK
<1>3. ChannelsOK' /\ ReceivedOK'
  <2>1. CASE Ignores(p)
    BY <1>1, <2>1 DEF Ignores, ChannelsOK, ReceivedOK, SlotsOK
  <2>2. CASE Keeps(p) \/ Joins(p)
    BY <1>1, <2>2, StoresType DEF Keeps, Joins, Stores, ReceivedOK
  <2>3. CASE Collects(p)
    <3>1. PICK m \in Messages : received' = received \cup {Fragments(m)}
      BY <2>3 DEF Collects, CRCFits
    <3>2. Fragments(m) \in SUBSET UNION {Fragments(k) : k \in Messages}
      OBVIOUS
    <3>3. ReceivedOK'
      BY <1>1, <3>1, <3>2 DEF ReceivedOK
    <3>4. ChannelsOK'
      BY <1>1, <2>3 DEF Collects, ChannelsOK, SlotsOK
    <3> QED BY <3>3, <3>4
  <2> QED BY <2>1, <2>2, <2>3, ArriveCases
<1> QED BY <1>2, <1>3 DEF TypeInv

\* A new message keeps the types.
LEMMA SendType ==
    ASSUME TypeInv, NEW m \in Messages, SendMessage(m)
    PROVE  TypeInv'
<1>0. SenderOK /\ SendsOK /\ SenderOf[m] \in Senders /\ ChannelIndexes \in Nat \ {0}
  BY PacketAssumption DEF TypeInv
<1>1. next[SenderOf[m]] \in 0..ChannelIndexes - 1 /\ queue[SenderOf[m]] \in Seq(Packet)
  BY <1>0 DEF SenderOK
<1>2. (next[SenderOf[m]] + 1) % ChannelIndexes \in 0..ChannelIndexes - 1
  BY <1>0, <1>1
<1>3. queue[SenderOf[m]] \o Packets(m, next[SenderOf[m]]) \in Seq(Packet)
  BY <1>1, PacketsType
<1>4. SenderOK'
  BY <1>0, <1>2, <1>3 DEF SenderOK, SendMessage
<1>5. SendsOK'
  <2>1. [message |-> m, channel |-> next[SenderOf[m]]] \in Send
    BY <1>1 DEF Send
  <2> QED BY <1>0, <2>1 DEF SendsOK, SendMessage
<1> QED BY <1>4, <1>5 DEF TypeInv, SendMessage, ChannelsOK, ReceivedOK, SlotsOK

\* What else a sender does keeps the types.
LEMMA SenderType ==
    ASSUME TypeInv, NEW s \in Senders,
           SendPacket(s) \/ PacketFails(s) \/ NoEndpoint(s) \/ HandlerOutdated(s) \/ SenderRestarts(s)
    PROVE  TypeInv'
<1>0. SenderOK /\ SendsOK /\ 0 \in 0..ChannelIndexes - 1 /\ queue[s] \in Seq(Packet)
  BY PacketAssumption DEF TypeInv, SenderOK
<1>1. queue[s] # <<>> => Head(queue[s]) \in Packet /\ Tail(queue[s]) \in Seq(Packet)
  BY <1>0
<1>2. SenderOK'
  <2>1. next' \in {next, [next EXCEPT ![s] = 0]}
    BY DEF SendPacket, PacketFails, NoEndpoint, HandlerOutdated, SenderRestarts
  <2>2. queue' \in {queue, [queue EXCEPT ![s] = <<>>]} \/ (queue[s] # <<>> /\ queue' = [queue EXCEPT ![s] = Tail(queue[s])])
    BY DEF SendPacket, PacketFails, NoEndpoint, HandlerOutdated, SenderRestarts
  <2>3. <<>> \in Seq(Packet)
    OBVIOUS
  <2> QED BY <1>0, <1>1, <2>1, <2>2, <2>3 DEF SenderOK
<1>3. SendsOK'
  <2>1. sends' = sends /\ \E P : hurt' \in {hurt, hurt \cup Hurt(P)}
    BY DEF SendPacket, PacketFails, NoEndpoint, HandlerOutdated, SenderRestarts
  <2> QED BY <1>0, <2>1 DEF SendsOK, Hurt
<1>4. net' \subseteq Packet
  BY <1>1 DEF TypeInv, SendPacket, PacketFails, NoEndpoint, HandlerOutdated, SenderRestarts
<1>5. UNCHANGED <<channels, received>>
  BY DEF SendPacket, PacketFails, NoEndpoint, HandlerOutdated, SenderRestarts
<1> QED BY <1>2, <1>3, <1>4, <1>5 DEF TypeInv, ChannelsOK, ReceivedOK, SlotsOK

\* Every step keeps the types.
LEMMA NextType == ASSUME TypeInv, [Next]_vars PROVE TypeInv'
<1>1. CASE UNCHANGED vars
  BY <1>1 DEF vars, TypeInv, SenderOK, ChannelsOK, ReceivedOK, SendsOK, SlotsOK
<1>2. ASSUME NEW p \in net, Lose(p) PROVE TypeInv'
  BY <1>2 DEF Lose, Hurt, TypeInv, SenderOK, ChannelsOK, ReceivedOK, SendsOK, SlotsOK
<1>3. ASSUME NEW gone, Clean(gone) PROVE TypeInv'
  BY <1>3 DEF Clean, TypeInv, SenderOK, ChannelsOK, ReceivedOK, SendsOK, SlotsOK
<1> QED BY <1>1, <1>2, <1>3, SendType, SenderType, ArriveType DEF Next

\* The inductive form of the types holds.
LEMMA TypeInductive == Spec => []TypeInv
<1>1. Init => TypeInv
  <2> SUFFICES ASSUME Init PROVE TypeInv
    OBVIOUS
  <2>1. 0 \in 0..ChannelIndexes - 1
    BY PacketAssumption
  <2>2. DOMAIN channels = {}
    BY DEF Init
  <2> QED BY <2>1, <2>2 DEF Init, TypeInv, SenderOK, ChannelsOK, ReceivedOK, SendsOK
<1> QED BY <1>1, NextType, PTL DEF Spec

\* Packets, channels and what is passed on keep the types the code gives them.
THEOREM TypeCorrect == Spec => []TypeOK
BY TypeInductive, TypeParts, PTL

-----------------------------------------------------------------------------
(* What is passed on was sent.                                               *)

\* The channel a message is sent on, as the receiver sees it.
KeyOf(k) == <<Key(SenderOf[sends[k].message]), sends[k].channel>>

\* Packets and the slots of channels come from messages that were sent.
IsOf(p, history) == \E k \in DOMAIN history : p.body[1] = history[k].message /\ p.channel = history[k].channel
FromSend(p) == IsOf(p, sends)
QueuesFit == \A s \in Senders : \A j \in DOMAIN queue[s] : FromSend(queue[s][j])
NetFits == \A p \in net : FromSend(p)
ChannelFits(c) ==
    /\ \E k \in DOMAIN sends : KeyOf(k) = c
    /\ \A i \in DOMAIN channels[c].slots :
          channels[c].slots[i] # Empty =>
              \E k \in DOMAIN sends : KeyOf(k) = c /\ channels[c].slots[i][1] = sends[k].message
ChannelsFit == \A c \in DOMAIN channels : ChannelFits(c)
SendsFit == \A k \in DOMAIN sends : Sendable(sends[k].message)
Origins == QueuesFit /\ NetFits /\ ChannelsFit /\ SendsFit

SafetyInv == Origins /\ CollectedWereSent /\ NoWholeMessageWaits

\* The history of what was sent only grows.
LEMMA SendsGrow ==
    ASSUME TypeInv, [Next]_vars
    PROVE  /\ DOMAIN sends \subseteq DOMAIN sends' /\ \A k \in DOMAIN sends : sends'[k] = sends[k] /\ KeyOf(k)' = KeyOf(k)
           /\ \A p : IsOf(p, sends) => IsOf(p, sends')
<1>1. DOMAIN sends \subseteq DOMAIN sends' /\ \A k \in DOMAIN sends : sends'[k] = sends[k]
  <2>1. CASE UNCHANGED sends
    BY <2>1
  <2>2. CASE \E m \in Messages : SendMessage(m)
    <3>1. PICK e : sends' = Append(sends, e)
      BY <2>2 DEF SendMessage
    <3>2. sends \in Seq(Send)
      BY DEF TypeInv, SendsOK
    <3>3. Len(Append(sends, e)) = Len(sends) + 1 /\ \A k \in 1..Len(sends) : Append(sends, e)[k] = sends[k]
      BY <3>2
    <3>4. DOMAIN Append(sends, e) = 1..Len(sends) + 1 /\ DOMAIN sends = 1..Len(sends)
      BY <3>2
    <3> QED BY <3>1, <3>2, <3>3, <3>4
  <2> QED BY <2>1, <2>2 DEF Next, vars, SendPacket, PacketFails, NoEndpoint, HandlerOutdated, SenderRestarts,
                            Arrive, Lose, Clean
<1> QED BY <1>1 DEF IsOf, KeyOf

\* A packet of a message comes from the node that sends it.
LEMMA PacketFacts ==
    ASSUME NEW p \in Packet
    PROVE  /\ p.body[1] \in Messages /\ p.index \in 0..PacketsCount(p.body[1]) - 1
           /\ p.body = Fragment(p.body[1], p.index) /\ p.body # Empty
           /\ p = PacketOf(p.body[1], p.channel, p.index)
           /\ p.total = PacketsCount(p.body[1]) /\ p.from = SenderOf[p.body[1]] /\ p.from \in Senders
           /\ ChannelOf(p) = <<Key(SenderOf[p.body[1]]), p.channel>>
           /\ p.size = PacketSize(p.body[1], p.index)
<1>0. PICK m \in Messages, d \in 0..ChannelIndexes - 1 : \E i \in 0..PacketsCount(m) - 1 : p = PacketOf(m, d, i)
  BY PacketForm
<1>1. PICK i \in 0..PacketsCount(m) - 1 : p = PacketOf(m, d, i)
  BY <1>0
<1>2. p.body = <<m, i>> /\ p.index = i /\ p.channel = d /\ p.total = PacketsCount(m) /\ p.from = SenderOf[m]
      /\ p.size = PacketSize(m, i)
  BY <1>1 DEF PacketOf, Fragment
<1>3. p.body # Empty
  <2>1. Len(<<m, i>>) = 2 /\ Len(<<>>) = 0
    OBVIOUS
  <2> QED BY <1>2, <2>1 DEF Empty
<1>4. SenderOf[m] \in Senders
  BY PacketAssumption
<1>5. p.body[1] = m
  BY <1>2
<1> QED BY <1>1, <1>2, <1>3, <1>4, <1>5 DEF ChannelOf, Fragment

\* The data of a joined channel are what the packets have brought.
LEMMA JoinedData ==
    ASSUME ChannelsOK, NEW p \in Packet
    PROVE  /\ p.body \in Data(Joined(Stored(p)))
           /\ Data(Joined(Stored(p))) = Data(Stored(p))
<1> DEFINE ch == Stored(p)
<1>1. /\ ch = [expected |-> p.total, slots |-> ch.slots] /\ SlotsOK(ch.slots)
      /\ p.index \in DOMAIN ch.slots /\ ch.slots[p.index] = p.body /\ DOMAIN ch.slots # {}
  BY WithPacketType DEF Stored
<1> HIDE DEF ch
<1>2. PICK top \in DOMAIN ch.slots :
         /\ \A k \in DOMAIN ch.slots : k <= top
         /\ Joined([expected |-> p.total, slots |-> ch.slots]) =
               [expected |-> p.total, slots |-> [i \in 0..top |-> IF i \in DOMAIN ch.slots THEN ch.slots[i] ELSE Empty]]
  BY <1>1, JoinedType
<1>3. \A k \in DOMAIN ch.slots : k \in 0..top
  BY <1>1, <1>2, PacketAssumption DEF SlotsOK
<1>4. Joined(ch).slots = [i \in 0..top |-> IF i \in DOMAIN ch.slots THEN ch.slots[i] ELSE Empty]
  <2>1. Joined(ch) = Joined([expected |-> p.total, slots |-> ch.slots])
    BY <1>1
  <2> DEFINE f == [i \in 0..top |-> IF i \in DOMAIN ch.slots THEN ch.slots[i] ELSE Empty]
  <2>2. Joined(ch) = [expected |-> p.total, slots |-> f]
    BY <1>2, <2>1
  <2> HIDE DEF f
  <2>3. Joined(ch).slots = f
    BY <2>2
  <2> QED BY <2>3 DEF f
<1>5. Data(Joined(ch)) = {Joined(ch).slots[i] : i \in 0..top} \ {Empty}
  BY <1>4 DEF Data
<1>6. Data(Joined(ch)) = Data(ch)
  BY <1>3, <1>4, <1>5 DEF Data
<1>7. p.body \in Data(ch)
  BY <1>1, PacketFacts DEF Data
<1> QED BY <1>6, <1>7 DEF ch

\* The elements of a queue that grew or lost its front.
LEMMA QueueEdits ==
    ASSUME NEW q \in Seq(Packet), NEW r \in Seq(Packet)
    PROVE  /\ \A j \in DOMAIN (q \o r) :
                 (j \in DOMAIN q /\ (q \o r)[j] = q[j]) \/ (j - Len(q) \in DOMAIN r /\ (q \o r)[j] = r[j - Len(q)])
           /\ \A j \in DOMAIN q : j \in DOMAIN (q \o r) /\ (q \o r)[j] = q[j]
           /\ \A j \in DOMAIN r : j + Len(q) \in DOMAIN (q \o r) /\ (q \o r)[j + Len(q)] = r[j]
           /\ q # <<>> => /\ 1 \in DOMAIN q /\ q[1] = Head(q) /\ Head(q) \in Packet
                          /\ \A j \in DOMAIN Tail(q) : j + 1 \in DOMAIN q /\ Tail(q)[j] = q[j + 1]
                          /\ \A j \in DOMAIN q \ {1} : j - 1 \in DOMAIN Tail(q) /\ Tail(q)[j - 1] = q[j]
<1>1. DOMAIN q = 1..Len(q) /\ DOMAIN r = 1..Len(r) /\ Len(q) \in Nat /\ Len(r) \in Nat
  OBVIOUS
<1>2. DOMAIN (q \o r) = 1..Len(q) + Len(r)
  BY <1>1
<1>3. \A j \in 1..Len(q) + Len(r) : (q \o r)[j] = IF j <= Len(q) THEN q[j] ELSE r[j - Len(q)]
  BY <1>1
<1>4. ASSUME q # <<>>
      PROVE  /\ 1 \in DOMAIN q /\ q[1] = Head(q) /\ Head(q) \in Packet
             /\ \A j \in DOMAIN Tail(q) : j + 1 \in DOMAIN q /\ Tail(q)[j] = q[j + 1]
             /\ \A j \in DOMAIN q \ {1} : j - 1 \in DOMAIN Tail(q) /\ Tail(q)[j - 1] = q[j]
  <2>1. Len(Tail(q)) = Len(q) - 1 /\ Len(q) >= 1 /\ DOMAIN Tail(q) = 1..Len(q) - 1
    BY <1>4
  <2>2. \A j \in 1..Len(q) - 1 : Tail(q)[j] = q[j + 1]
    BY <1>4
  <2>3. 1 \in DOMAIN q /\ q[1] = Head(q) /\ Head(q) \in Packet
    BY <1>1, <1>4, <2>1
  <2>4. \A j \in DOMAIN q \ {1} : j - 1 \in 1..Len(q) - 1 /\ (j - 1) + 1 = j
    BY <1>1
  <2>5. \A j \in 1..Len(q) - 1 : j + 1 \in DOMAIN q
    BY <1>1
  <2> QED BY <2>1, <2>2, <2>3, <2>4, <2>5
<1> QED BY <1>1, <1>2, <1>3, <1>4

\* Channels that are left as they are still hold what was sent.
LEMMA ChannelsLeft ==
    ASSUME TypeInv, [Next]_vars, ChannelsFit, NEW c \in DOMAIN channels \cap DOMAIN channels', channels'[c] = channels[c]
    PROVE  ChannelFits(c)'
<1>1. ChannelFits(c)
  BY DEF ChannelsFit
<1>2. DOMAIN sends \subseteq DOMAIN sends' /\ \A k \in DOMAIN sends : sends'[k] = sends[k] /\ KeyOf(k)' = KeyOf(k)
  BY SendsGrow
<1> QED BY <1>1, <1>2 DEF ChannelFits

\* A packet that is kept leaves what was sent in its channel.
LEMMA StoresOrigin ==
    ASSUME TypeInv, [Next]_vars, Origins, NEW p \in net, ValidPacket(p), UNCHANGED sends,
           NEW x \in {Stored(p), Joined(Stored(p))}, Stores(p, x)
    PROVE  ChannelsFit'
<1> DEFINE c == ChannelOf(p)
<1>1. p \in Packet /\ ChannelsOK
  BY DEF TypeInv
<1>2. PICK k \in DOMAIN sends : p.body[1] = sends[k].message /\ p.channel = sends[k].channel
  BY DEF Origins, NetFits, FromSend, IsOf
<1>3. KeyOf(k) = c
  BY <1>1, <1>2, PacketFacts DEF KeyOf
<1>4. ASSUME NEW i \in DOMAIN Stored(p).slots, Stored(p).slots[i] # Empty
      PROVE  \E j \in DOMAIN sends : KeyOf(j) = c /\ Stored(p).slots[i][1] = sends[j].message
  <2>1. CASE i = p.index
    <3>1. Stored(p).slots[i] = p.body
      BY <1>1, <2>1, WithPacketType DEF Stored
    <3> QED BY <1>2, <1>3, <3>1
  <2>2. CASE i # p.index
    <3>1. i \in DOMAIN Channel(c).slots /\ Stored(p).slots[i] = Channel(c).slots[i]
      BY <1>1, <2>2, WithPacketType DEF Stored
    <3>2. c \in DOMAIN channels /\ Channel(c) = channels[c]
      BY <3>1 DEF Channel, NoChannel
    <3> QED BY <1>4, <3>1, <3>2 DEF Origins, ChannelsFit, ChannelFits
  <2> QED BY <2>1, <2>2
<1>5. \A i \in DOMAIN x.slots : x.slots[i] # Empty => x.slots[i] \in Data(x)
  BY DEF Data
<1>6. Data(x) = Data(Stored(p))
  BY <1>1, JoinedData
<1>7. \A i \in DOMAIN x.slots : x.slots[i] # Empty =>
         \E j \in DOMAIN sends : KeyOf(j) = c /\ x.slots[i][1] = sends[j].message
  BY <1>4, <1>5, <1>6 DEF Data
<1>8. ChannelFits(c)'
  <2>1. channels'[c] = x /\ KeyOf(k)' = KeyOf(k) /\ \A j \in DOMAIN sends : KeyOf(j)' = KeyOf(j)
    BY SendsGrow DEF Stores
  <2>2. /\ \E j \in DOMAIN sends : KeyOf(j)' = c
        /\ \A i \in DOMAIN x.slots : x.slots[i] # Empty =>
              \E j \in DOMAIN sends : KeyOf(j)' = c /\ x.slots[i][1] = sends[j].message
    BY <1>3, <1>7, <2>1
  <2> HIDE DEF c
  <2> QED BY <2>1, <2>2 DEF ChannelFits
<1>9. \A d \in DOMAIN channels' : d = c \/ (d \in DOMAIN channels /\ channels'[d] = channels[d])
  BY DEF Stores
<1> QED BY <1>8, <1>9, ChannelsLeft DEF ChannelsFit, Origins

\* Every step keeps the origin of packets and slots.
LEMMA OriginsStep == ASSUME TypeInv, Origins, [Next]_vars PROVE Origins'
<1>0. /\ \A p : IsOf(p, sends) => IsOf(p, sends')
      /\ SenderOK /\ net \subseteq Packet /\ ChannelsOK /\ QueuesFit /\ NetFits /\ ChannelsFit /\ SendsFit
  BY SendsGrow DEF TypeInv, Origins
<1>1. ASSUME NEW m \in Messages, SendMessage(m) PROVE Origins'
  <2>0. PICK s, c : s = SenderOf[m] /\ c = next[s]
    OBVIOUS
  <2>1. s \in Senders /\ c \in 0..ChannelIndexes - 1 /\ queue[s] \in Seq(Packet)
    BY <1>0, <2>0, PacketAssumption DEF SenderOK
  <2>2. sends' = Append(sends, [message |-> m, channel |-> c]) /\ sends \in Seq(Send)
    BY <1>1, <2>0 DEF SendMessage, TypeInv, SendsOK
  <2>3. /\ DOMAIN sends' = DOMAIN sends \cup {Len(sends) + 1}
        /\ sends'[Len(sends) + 1] = [message |-> m, channel |-> c]
        /\ \A k \in DOMAIN sends : sends'[k] = sends[k]
    BY <2>2
  <2>4. \A i \in 0..PacketsCount(m) - 1 : IsOf(PacketOf(m, c, i), sends')
    <3>1. \A i : PacketOf(m, c, i).body[1] = m /\ PacketOf(m, c, i).channel = c
      BY DEF PacketOf, Fragment
    <3> QED BY <2>3, <3>1 DEF IsOf
  <2>5. QueuesFit'
    <3>1. /\ Packets(m, c) \in Seq(Packet) /\ Len(Packets(m, c)) = PacketsCount(m)
          /\ \A i \in 0..PacketsCount(m) - 1 : Packets(m, c)[i + 1] = PacketOf(m, c, i)
      BY <2>1, PacketsType
    <3>2. \A j \in DOMAIN Packets(m, c) : IsOf(Packets(m, c)[j], sends')
      <4>1. ASSUME NEW j \in DOMAIN Packets(m, c) PROVE IsOf(Packets(m, c)[j], sends')
        <5>1. j - 1 \in 0..PacketsCount(m) - 1 /\ (j - 1) + 1 = j
          BY <3>1
        <5> QED BY <2>4, <3>1, <5>1
      <4> QED BY <4>1
    <3>3. queue' = [queue EXCEPT ![s] = queue[s] \o Packets(m, c)] /\ s \in DOMAIN queue
      BY <1>0, <1>1, <2>0, <2>1 DEF SendMessage, SenderOK
    <3>4. \A j \in DOMAIN queue'[s] : IsOf(queue'[s][j], sends')
      <4>1. queue'[s] = queue[s] \o Packets(m, c)
        BY <3>3
      <4>2. \A j \in DOMAIN queue[s] : IsOf(queue[s][j], sends')
        BY <1>0, <2>1 DEF QueuesFit, FromSend
      <4>3. \A j \in DOMAIN (queue[s] \o Packets(m, c)) :
              \/ j \in DOMAIN queue[s] /\ (queue[s] \o Packets(m, c))[j] = queue[s][j]
              \/ /\ j - Len(queue[s]) \in DOMAIN Packets(m, c)
                 /\ (queue[s] \o Packets(m, c))[j] = Packets(m, c)[j - Len(queue[s])]
        BY <2>1, <3>1, QueueEdits
      <4> QED BY <3>2, <4>1, <4>2, <4>3
    <3>5. \A t \in Senders \ {s} : queue'[t] = queue[t]
      BY <1>0, <3>3 DEF SenderOK
    <3> QED BY <1>0, <3>4, <3>5 DEF QueuesFit, FromSend
  <2>6. NetFits'
    BY <1>0, <1>1 DEF SendMessage, NetFits, FromSend
  <2>7. ChannelsFit'
    <3>1. UNCHANGED channels
      BY <1>1 DEF SendMessage
    <3> QED BY <1>0, <3>1, ChannelsLeft DEF ChannelsFit
  <2>8. SendsFit'
    BY <1>0, <1>1, <2>3 DEF SendMessage, SendsFit, Sendable
  <2> QED BY <2>5, <2>6, <2>7, <2>8 DEF Origins
<1>2. ASSUME NEW s \in Senders,
             SendPacket(s) \/ PacketFails(s) \/ NoEndpoint(s) \/ HandlerOutdated(s) \/ SenderRestarts(s)
      PROVE  Origins'
  <2>1. queue[s] \in Seq(Packet) /\ <<>> \in Seq(Packet)
    BY <1>0 DEF SenderOK
  <2>2. queue' \in {queue, [queue EXCEPT ![s] = <<>>]} \/ (queue[s] # <<>> /\ queue' = [queue EXCEPT ![s] = Tail(queue[s])])
    BY <1>2 DEF SendPacket, PacketFails, NoEndpoint, HandlerOutdated, SenderRestarts
  <2>5. UNCHANGED <<channels, sends>>
    BY <1>2 DEF SendPacket, PacketFails, NoEndpoint, HandlerOutdated, SenderRestarts
  <2>3. QueuesFit'
    <3>1. \A t \in Senders \ {s} : queue'[t] = queue[t]
      BY <1>0, <2>2 DEF SenderOK
    <3>2. queue'[s] \in {queue[s], <<>>} \/ (queue[s] # <<>> /\ queue'[s] = Tail(queue[s]))
      BY <1>0, <2>2 DEF SenderOK
    <3>3. \A j \in DOMAIN queue'[s] : \E i \in DOMAIN queue[s] : queue'[s][j] = queue[s][i]
      <4>1. queue[s] # <<>> => \A j \in DOMAIN Tail(queue[s]) :
               j + 1 \in DOMAIN queue[s] /\ Tail(queue[s])[j] = queue[s][j + 1]
        BY <2>1, QueueEdits
      <4>2. CASE queue'[s] = queue[s]
        BY <4>2
      <4>3. CASE queue'[s] = <<>>
        <5>1. \A j : j \notin DOMAIN <<>>
          OBVIOUS
        <5> QED BY <4>3, <5>1
      <4>4. CASE queue[s] # <<>> /\ queue'[s] = Tail(queue[s])
        BY <4>1, <4>4
      <4> QED BY <3>2, <4>2, <4>3, <4>4
    <3> QED BY <1>0, <2>5, <3>1, <3>3 DEF QueuesFit, FromSend
  <2>4. NetFits'
    <3>1. net' = net \/ (queue[s] # <<>> /\ net' = net \cup {Head(queue[s])})
      BY <1>2 DEF SendPacket, PacketFails, NoEndpoint, HandlerOutdated, SenderRestarts
    <3>2. queue[s] # <<>> => FromSend(Head(queue[s]))
      BY <1>0, <2>1, QueueEdits DEF QueuesFit, FromSend
    <3> QED BY <1>0, <2>5, <3>1, <3>2 DEF NetFits, FromSend
  <2> QED BY <1>0, <2>3, <2>4, <2>5, ChannelsLeft DEF Origins, ChannelsFit, SendsFit
<1>3. ASSUME NEW p \in net, Arrive(p) PROVE Origins'
  <2>1. net' \subseteq net /\ UNCHANGED <<queue, sends>>
    BY <1>3, ArriveCases
  <2>2. ChannelsFit'
    <3>1. CASE Ignores(p)
      BY <1>0, <3>1, ChannelsLeft DEF Ignores, ChannelsFit
    <3>2. CASE Keeps(p) \/ Joins(p)
      BY <2>1, <3>2, StoresOrigin DEF Keeps, Joins
    <3>3. CASE Collects(p)
      <4>1. \A c \in DOMAIN channels' : c \in DOMAIN channels /\ channels'[c] = channels[c]
        BY <3>3 DEF Collects
      <4> QED BY <1>0, <4>1, ChannelsLeft DEF ChannelsFit
    <3> QED BY <1>3, <3>1, <3>2, <3>3, ArriveCases
  <2> QED BY <1>0, <2>1, <2>2 DEF Origins, QueuesFit, NetFits, SendsFit, FromSend
<1>4. ASSUME NEW p \in net, Lose(p) PROVE Origins'
  <2>1. net' \subseteq net /\ UNCHANGED <<queue, sends, channels>>
    BY <1>4 DEF Lose
  <2> QED BY <1>0, <2>1, ChannelsLeft DEF Origins, QueuesFit, NetFits, SendsFit, FromSend, ChannelsFit
<1>5. ASSUME NEW gone, Clean(gone) PROVE Origins'
  <2>1. UNCHANGED <<queue, sends, net>> /\ \A c \in DOMAIN channels' : c \in DOMAIN channels /\ channels'[c] = channels[c]
    BY <1>5 DEF Clean
  <2> QED BY <1>0, <2>1, ChannelsLeft DEF Origins, QueuesFit, NetFits, SendsFit, FromSend, ChannelsFit
<1>6. CASE UNCHANGED vars
  <2>1. UNCHANGED <<queue, sends, net, channels>>
    BY <1>6 DEF vars
  <2> QED BY <1>0, <2>1, ChannelsLeft DEF Origins, QueuesFit, NetFits, SendsFit, FromSend, ChannelsFit
<1> QED BY <1>1, <1>2, <1>3, <1>4, <1>5, <1>6 DEF Next

\* Every step passes on only what was sent.
LEMMA CollectedStep ==
    ASSUME TypeInv, Origins, CollectedWereSent, [Next]_vars
    PROVE  CollectedWereSent'
<1>0. DOMAIN sends \subseteq DOMAIN sends' /\ \A k \in DOMAIN sends : sends'[k] = sends[k]
  BY SendsGrow
<1>1. ASSUME NEW p \in net, Collects(p) PROVE CollectedWereSent'
  <2>1. p \in Packet /\ ChannelsOK
    BY DEF TypeInv
  <2>2. PICK m \in Messages : Data(Joined(Stored(p))) = Fragments(m)
    BY <1>1 DEF Collects, CRCFits
  <2>3. PICK k \in DOMAIN sends : p.body[1] = sends[k].message
    BY DEF Origins, NetFits, FromSend, IsOf
  <2>4. p.body \in Fragments(m)
    BY <2>1, <2>2, JoinedData
  <2>5. p.body[1] = m
    BY <2>4 DEF Fragments, Fragment
  <2>6. Fragments(m) = Fragments(sends'[k].message)
    BY <1>0, <2>3, <2>5
  <2>7. \A d \in received' : d \in received \/ d = Fragments(m)
    BY <1>1, <2>2 DEF Collects
  <2> QED BY <1>0, <2>6, <2>7 DEF CollectedWereSent
<1>2. CASE UNCHANGED received
  BY <1>0, <1>2 DEF CollectedWereSent
<1>3. UNCHANGED received \/ \E p \in net : Collects(p)
  BY ArriveCases DEF Next, vars, SendMessage, SendPacket, PacketFails, NoEndpoint, HandlerOutdated, SenderRestarts,
                     Lose, Clean, Ignores, Keeps, Joins, Stores
<1> QED BY <1>1, <1>2, <1>3

\* The parts of a message are as many as its packets, and none is empty.
LEMMA FragmentFacts ==
    ASSUME NEW m \in Messages
    PROVE  /\ Empty \notin Fragments(m)
           /\ \A k, i : Fragment(k, i) \in Fragments(m) <=> k = m /\ i \in 0..PacketsCount(m) - 1
           /\ IsFiniteSet(0..PacketsCount(m) - 1) /\ Cardinality(0..PacketsCount(m) - 1) = PacketsCount(m)
<1>1. PacketsCount(m) \in Nat
  BY CountType, PacketAssumption
<1>2. \A i : Len(<<m, i>>) = 2 /\ Len(<<>>) = 0
  OBVIOUS
<1>3. Empty \notin Fragments(m)
  BY <1>2 DEF Fragments, Fragment, Empty
<1>4. \A k, i : Fragment(k, i) \in Fragments(m) <=> k = m /\ i \in 0..PacketsCount(m) - 1
  BY DEF Fragments, Fragment
<1>5. IsFiniteSet(0..PacketsCount(m) - 1) /\ Cardinality(0..PacketsCount(m) - 1) = PacketsCount(m)
  <2>1. PacketsCount(m) - 1 \in Int /\ (PacketsCount(m) - 1) - 0 + 1 = PacketsCount(m)
    BY <1>1
  <2> QED BY <1>1, <2>1, FS_Interval
<1> QED BY <1>3, <1>4, <1>5

\* Slots with exactly the parts of a message are as many as its packets.
LEMMA WholeSlots ==
    ASSUME NEW s, SlotsOK(s), NEW m \in Messages, {s[i] : i \in DOMAIN s} = Fragments(m)
    PROVE  DOMAIN s = 0..PacketsCount(m) - 1 /\ Cardinality(DOMAIN s) = PacketsCount(m)
<1>1. \A i \in DOMAIN s : s[i] = Fragment(m, i) /\ i \in 0..PacketsCount(m) - 1
  <2> SUFFICES ASSUME NEW i \in DOMAIN s PROVE s[i] = Fragment(m, i) /\ i \in 0..PacketsCount(m) - 1
    OBVIOUS
  <2>1. s[i] \in Fragments(m)
    OBVIOUS
  <2>2. PICK k \in Messages : s[i] = Fragment(k, i)
    BY <2>1, FragmentFacts DEF SlotsOK
  <2> QED BY <2>1, <2>2, FragmentFacts
<1>2. ASSUME NEW i \in 0..PacketsCount(m) - 1 PROVE i \in DOMAIN s
  <2>1. Fragment(m, i) \in Fragments(m)
    BY FragmentFacts
  <2>2. PICK j \in DOMAIN s : s[j] = Fragment(m, i)
    BY <2>1
  <2>3. Fragment(m, j) = Fragment(m, i)
    BY <1>1, <2>2
  <2>4. j = i
    BY <2>3 DEF Fragment
  <2> QED BY <2>4
<1>3. DOMAIN s = 0..PacketsCount(m) - 1
  BY <1>1, <1>2
<1> QED BY <1>3, FragmentFacts

\* No step leaves exactly the packets of one message in a channel.
LEMMA WholeStep ==
    ASSUME TypeInv, NoWholeMessageWaits, [Next]_vars
    PROVE  NoWholeMessageWaits'
<1>1. ASSUME NEW p \in net, Keeps(p), NEW m \in Messages,
             {Stored(p).slots[i] : i \in DOMAIN Stored(p).slots} = Fragments(m)
      PROVE  FALSE
  <2>1. p \in Packet /\ ChannelsOK
    BY DEF TypeInv
  <2>2. p.body \in Fragments(m)
    <3>1. p.body \in Data(Stored(p))
      BY <2>1, JoinedData
    <3> QED BY <1>1, <3>1 DEF Data
  <2>3. SlotsOK(Stored(p).slots) /\ Stored(p).expected = p.total
    <3>1. Stored(p) = [expected |-> p.total, slots |-> Stored(p).slots] /\ SlotsOK(Stored(p).slots)
      BY <2>1, WithPacketType DEF Stored
    <3>2. Stored(p).expected = p.total
      BY <3>1
    <3> QED BY <3>1, <3>2
  <2>4. Cardinality(DOMAIN Stored(p).slots) = PacketsCount(m)
    BY <1>1, <2>3, WholeSlots
  <2>5. p.total = PacketsCount(m)
    <3>1. p.body = Fragment(p.body[1], p.index) /\ p.total = PacketsCount(p.body[1])
      BY <2>1, PacketFacts
    <3>2. p.body[1] = m
      BY <2>2, <3>1, FragmentFacts
    <3> QED BY <3>1, <3>2
  <2> QED BY <1>1, <2>3, <2>4, <2>5 DEF Keeps, CanCollect
<1>2. ASSUME NEW p \in net, Keeps(p) PROVE NoWholeMessageWaits'
  <2>1. Stores(p, Stored(p))
    BY <1>2 DEF Keeps
  <2>2. \A m \in Messages : {Stored(p).slots[i] : i \in DOMAIN Stored(p).slots} # Fragments(m)
    BY <1>1, <1>2
  <2>3. \A c \in DOMAIN channels' : channels'[c] = Stored(p) \/ (c \in DOMAIN channels /\ channels'[c] = channels[c])
    BY <2>1 DEF Stores
  <2> QED BY <2>2, <2>3 DEF NoWholeMessageWaits
<1>3. ASSUME NEW p \in net, Joins(p) PROVE NoWholeMessageWaits'
  <2>1. Stores(p, Joined(Stored(p)))
    BY <1>3 DEF Joins
  <2>2. \A m \in Messages : {Joined(Stored(p)).slots[i] : i \in DOMAIN Joined(Stored(p)).slots} # Fragments(m)
    <3> SUFFICES ASSUME NEW m \in Messages, {Joined(Stored(p)).slots[i] : i \in DOMAIN Joined(Stored(p)).slots} = Fragments(m)
                 PROVE  FALSE
      OBVIOUS
    <3>1. Data(Joined(Stored(p))) = Fragments(m)
      BY FragmentFacts DEF Data
    <3> QED BY <1>3, <3>1 DEF Joins, CRCFits
  <2>3. \A c \in DOMAIN channels' : channels'[c] = Joined(Stored(p)) \/ (c \in DOMAIN channels /\ channels'[c] = channels[c])
    BY <2>1 DEF Stores
  <2> QED BY <2>2, <2>3 DEF NoWholeMessageWaits
<1>4. CASE \A c \in DOMAIN channels' : c \in DOMAIN channels /\ channels'[c] = channels[c]
  BY <1>4 DEF NoWholeMessageWaits
<1>5. \/ \A c \in DOMAIN channels' : c \in DOMAIN channels /\ channels'[c] = channels[c]
      \/ \E p \in net : Keeps(p) \/ Joins(p)
  <2>1. ASSUME NEW p \in net, Arrive(p), Ignores(p) \/ Collects(p)
        PROVE  \A c \in DOMAIN channels' : c \in DOMAIN channels /\ channels'[c] = channels[c]
    BY <2>1 DEF Ignores, Collects
  <2>2. UNCHANGED channels \/ (\E p \in net : Arrive(p)) \/ \E gone : Clean(gone)
    BY DEF Next, vars, SendMessage, SendPacket, PacketFails, NoEndpoint, HandlerOutdated, SenderRestarts, Lose
  <2> QED BY <2>1, <2>2, ArriveCases DEF Clean
<1> QED BY <1>2, <1>3, <1>4, <1>5

\* The origins and what follows from them hold.
LEMMA SafetyInductive == Spec => [](TypeInv /\ SafetyInv)
<1>1. Init => SafetyInv
  <2> SUFFICES ASSUME Init PROVE SafetyInv
    OBVIOUS
  <2>1. DOMAIN sends = {} /\ DOMAIN channels = {} /\ \A s \in Senders : DOMAIN queue[s] = {}
    BY DEF Init
  <2> QED BY <2>1 DEF Init, SafetyInv, Origins, QueuesFit, NetFits, ChannelsFit, SendsFit, CollectedWereSent,
                      NoWholeMessageWaits
<1>2. TypeInv /\ SafetyInv /\ [Next]_vars => SafetyInv'
  BY OriginsStep, CollectedStep, WholeStep DEF SafetyInv
<1> QED BY <1>1, <1>2, TypeInductive, PTL DEF Spec

\* What is passed on was sent, whole, whatever messages and senders share a channel
\* (IncomingChannel::tryCollectMessage).
THEOREM CollectedIsSent == Spec => []CollectedWereSent
BY SafetyInductive, PTL DEF SafetyInv

\* A channel never keeps exactly the packets of one message (reservePacketsSlots, addPacket).
THEOREM WholeIsPassedOn == Spec => []NoWholeMessageWaits
BY SafetyInductive, PTL DEF SafetyInv

-----------------------------------------------------------------------------
(* What has arrived is passed on.                                            *)

\* A message is pending while it has its channel for itself, has lost nothing and was not passed on.
Pending(k) ==
    /\ Fragments(sends[k].message) \notin received /\ k \notin hurt
    /\ Sharing(k) = {} /\ Fits(sends[k].message)
\* Part i of it is in a queue, in transit or in its channel.
InQueue(k, i) ==
    LET s == SenderOf[sends[k].message]
    IN  \E j \in DOMAIN queue[s] : queue[s][j] = PacketOf(sends[k].message, sends[k].channel, i)
InTransit(k, i) == PacketOf(sends[k].message, sends[k].channel, i) \in net
InChannel(k, i) ==
    /\ KeyOf(k) \in DOMAIN channels
    /\ i \in DOMAIN channels[KeyOf(k)].slots
    /\ channels[KeyOf(k)].slots[i] = Fragment(sends[k].message, i)
PendingOnItsWay ==
    \A k \in DOMAIN sends : Pending(k) =>
        \A i \in 0..PacketsCount(sends[k].message) - 1 : InQueue(k, i) \/ InTransit(k, i) \/ InChannel(k, i)
\* A channel that only one message has used has no empty slots.
NoGaps ==
    \A k \in DOMAIN sends : Sharing(k) = {} /\ KeyOf(k) \in DOMAIN channels =>
        \A i \in DOMAIN channels[KeyOf(k)].slots : channels[KeyOf(k)].slots[i] # Empty
ArrivedInv == PendingOnItsWay /\ NoGaps

\* A packet on a channel of one message belongs to that message.
LEMMA OwnPackets ==
    ASSUME TypeInv, NEW k \in DOMAIN sends, Sharing(k) = {}, NEW p \in Packet, FromSend(p), ChannelOf(p) = KeyOf(k)
    PROVE  /\ p.body[1] = sends[k].message /\ p = PacketOf(sends[k].message, sends[k].channel, p.index)
           /\ p.index \in 0..PacketsCount(sends[k].message) - 1 /\ p.body = Fragment(sends[k].message, p.index)
           /\ p.total = PacketsCount(sends[k].message)
<1>1. PICK j \in DOMAIN sends : p.body[1] = sends[j].message /\ p.channel = sends[j].channel
  BY DEF FromSend, IsOf
<1>2. KeyOf(j) = KeyOf(k)
  BY <1>1, PacketFacts DEF KeyOf
<1>3. j = k
  BY <1>2 DEF Sharing, KeyOf
<1> QED BY <1>1, <1>3, PacketFacts

\* So do the slots of its channel.
LEMMA OwnSlots ==
    ASSUME TypeInv, Origins, NEW k \in DOMAIN sends, Sharing(k) = {}, KeyOf(k) \in DOMAIN channels,
           NEW i \in DOMAIN channels[KeyOf(k)].slots, channels[KeyOf(k)].slots[i] # Empty
    PROVE  /\ channels[KeyOf(k)].slots[i] = Fragment(sends[k].message, i)
           /\ i \in 0..PacketsCount(sends[k].message) - 1
<1>1. PICK j \in DOMAIN sends : KeyOf(j) = KeyOf(k) /\ channels[KeyOf(k)].slots[i][1] = sends[j].message
  BY DEF Origins, ChannelsFit, ChannelFits
<1>2. j = k
  BY <1>1 DEF Sharing, KeyOf
<1>3. PICK m \in Messages : i \in 0..PacketsCount(m) - 1 /\ channels[KeyOf(k)].slots[i] = Fragment(m, i)
  BY DEF TypeInv, ChannelsOK, SlotsOK
<1>4. m = sends[k].message
  BY <1>1, <1>2, <1>3 DEF Fragment
<1> QED BY <1>3, <1>4

\* With a packet of its own, the channel of one message has no gaps; it is never joined in vain.
LEMMA OwnStored ==
    ASSUME TypeInv, Origins, NoGaps, NEW k \in DOMAIN sends, Sharing(k) = {},
           NEW p \in net, ChannelOf(p) = KeyOf(k)
    PROVE  /\ \A i \in DOMAIN Stored(p).slots :
                 /\ Stored(p).slots[i] = Fragment(sends[k].message, i) /\ Stored(p).slots[i] # Empty
                 /\ i \in 0..PacketsCount(sends[k].message) - 1
           /\ ~Joins(p)
<1> DEFINE m == sends[k].message
           ch == Stored(p)
<1>0. p \in Packet /\ ChannelsOK /\ FromSend(p) /\ m \in Messages
  <2>1. sends[k] \in Send
    BY DEF TypeInv, SendsOK
  <2> QED BY <2>1 DEF TypeInv, Origins, NetFits, Send
<1>1. /\ ch = [expected |-> p.total, slots |-> ch.slots] /\ SlotsOK(ch.slots) /\ p.index \in DOMAIN ch.slots
      /\ ch.slots[p.index] = p.body
      /\ DOMAIN ch.slots = DOMAIN Channel(KeyOf(k)).slots \cup {p.index}
      /\ \A i \in DOMAIN Channel(KeyOf(k)).slots : i # p.index => ch.slots[i] = Channel(KeyOf(k)).slots[i]
  BY <1>0, WithPacketType DEF Stored
<1>2. ASSUME NEW i \in DOMAIN ch.slots
      PROVE  ch.slots[i] = Fragment(m, i) /\ ch.slots[i] # Empty /\ i \in 0..PacketsCount(m) - 1
  <2>1. CASE i = p.index
    BY <1>0, <1>1, <2>1, OwnPackets, PacketFacts
  <2>2. CASE i # p.index
    <3>1. i \in DOMAIN Channel(KeyOf(k)).slots /\ ch.slots[i] = Channel(KeyOf(k)).slots[i]
      BY <1>1, <2>2
    <3>2. KeyOf(k) \in DOMAIN channels /\ Channel(KeyOf(k)) = channels[KeyOf(k)]
      BY <3>1 DEF Channel, NoChannel
    <3>3. channels[KeyOf(k)].slots[i] # Empty
      BY <3>1, <3>2 DEF NoGaps
    <3> QED BY <3>1, <3>2, <3>3, OwnSlots
  <2> QED BY <2>1, <2>2
<1>3. ASSUME CanCollect(ch), ~CRCFits(Joined(ch)) PROVE FALSE
  <2>1. Cardinality(DOMAIN ch.slots) = PacketsCount(m)
    <3>1. ch.expected = p.total
      BY <1>1
    <3>2. p.total = PacketsCount(m)
      BY <1>0, OwnPackets
    <3> QED BY <1>3, <3>1, <3>2 DEF CanCollect
  <2>2. DOMAIN ch.slots \in SUBSET (0..PacketsCount(m) - 1)
    BY <1>2
  <2> HIDE DEF ch, m
  <2>3. DOMAIN ch.slots = 0..PacketsCount(m) - 1
    <3>1. IsFiniteSet(0..PacketsCount(m) - 1) /\ Cardinality(0..PacketsCount(m) - 1) = PacketsCount(m)
      BY <1>0, FragmentFacts
    <3> QED BY <2>1, <2>2, <3>1, FS_Subset
  <2>4. Data(ch) = Fragments(m)
    BY <1>2, <2>3 DEF Data, Fragments
  <2>5. Data(Joined(ch)) = Fragments(m)
    BY <1>0, <2>4, JoinedData DEF ch
  <2> QED BY <1>0, <1>3, <2>5 DEF CRCFits
<1> QED BY <1>2, <1>3 DEF Joins

\* What an arrival leaves in a channel.
LEMMA ArriveElsewhere ==
    ASSUME NEW p, Arrive(p), NEW c, c # ChannelOf(p)
    PROVE  /\ c \in DOMAIN channels <=> c \in DOMAIN channels'
           /\ c \in DOMAIN channels => channels'[c] = channels[c]
<1>1. CASE Ignores(p)
  BY <1>1 DEF Ignores
<1>2. CASE Keeps(p) \/ Joins(p)
  BY <1>2 DEF Keeps, Joins, Stores
<1>3. CASE Collects(p)
  BY <1>3 DEF Collects
<1> QED BY <1>1, <1>2, <1>3, ArriveCases

\* Every step keeps the channel of one message free of empty slots.
LEMMA NoGapsStep ==
    ASSUME TypeInv, Origins, NoGaps, [Next]_vars
    PROVE  NoGaps'
<1>0. /\ DOMAIN sends \subseteq DOMAIN sends'
      /\ \A k \in DOMAIN sends : sends'[k] = sends[k] /\ KeyOf(k)' = KeyOf(k)
      /\ \A k \in DOMAIN sends : Sharing(k)' = {} => Sharing(k) = {}
  <2>1. /\ DOMAIN sends \subseteq DOMAIN sends'
        /\ \A k \in DOMAIN sends : sends'[k] = sends[k] /\ KeyOf(k)' = KeyOf(k)
    BY SendsGrow
  <2> QED BY <2>1 DEF Sharing
<1>1. \/ \E p \in net : Arrive(p)
      \/ \A c \in DOMAIN channels' : c \in DOMAIN channels /\ channels'[c] = channels[c]
  BY DEF Next, vars, SendMessage, SendPacket, PacketFails, NoEndpoint, HandlerOutdated, SenderRestarts, Lose, Clean
<1>2. SUFFICES ASSUME NEW k \in DOMAIN sends', Sharing(k)' = {}, KeyOf(k)' \in DOMAIN channels',
                      NEW i \in DOMAIN channels'[KeyOf(k)'].slots
               PROVE  channels'[KeyOf(k)'].slots[i] # Empty
  BY DEF NoGaps
<1>3. CASE KeyOf(k)' \in DOMAIN channels /\ channels'[KeyOf(k)'] = channels[KeyOf(k)']
  <2>1. PICK j \in DOMAIN sends : KeyOf(j) = KeyOf(k)'
    BY <1>3 DEF Origins, ChannelsFit, ChannelFits
  <2>2. j \in DOMAIN sends' /\ KeyOf(j)' = KeyOf(k)'
    BY <1>0, <2>1
  <2>3. j = k
    BY <1>2, <2>2 DEF Sharing, KeyOf
  <2> QED BY <1>0, <1>2, <1>3, <2>1, <2>3 DEF NoGaps
<1>4. ASSUME NEW p \in net, Arrive(p), KeyOf(k)' = ChannelOf(p) PROVE channels'[KeyOf(k)'].slots[i] # Empty
  <2>1. UNCHANGED sends
    BY <1>4, ArriveCases
  <2>2. k \in DOMAIN sends /\ KeyOf(k) = ChannelOf(p) /\ Sharing(k) = {}
    BY <1>0, <1>2, <1>4, <2>1
  <2>3. CASE Ignores(p)
    BY <1>3, <1>2, <2>3 DEF Ignores
  <2>4. CASE Keeps(p)
    <3>1. channels'[KeyOf(k)'] = Stored(p)
      BY <1>4, <2>4 DEF Keeps, Stores
    <3> QED BY <1>2, <2>2, <3>1, OwnStored
  <2>5. ~Joins(p)
    BY <2>2, OwnStored
  <2>6. CASE Collects(p)
    BY <1>2, <1>4, <2>6 DEF Collects
  <2> QED BY <1>4, <2>3, <2>4, <2>5, <2>6, ArriveCases
<1>5. ASSUME NEW p \in net, Arrive(p), KeyOf(k)' # ChannelOf(p) PROVE channels'[KeyOf(k)'].slots[i] # Empty
  BY <1>2, <1>3, <1>5, ArriveElsewhere
<1> QED BY <1>1, <1>2, <1>3, <1>4, <1>5

\* What is passed on or hurt stays so: a message that is pending was pending before.
LEMMA PendingBefore ==
    ASSUME TypeInv, [Next]_vars, NEW k \in DOMAIN sends, Pending(k)'
    PROVE  /\ Pending(k) /\ sends'[k] = sends[k] /\ KeyOf(k)' = KeyOf(k)
           /\ Fragments(sends[k].message) \notin received' /\ k \notin hurt'
<1>1. /\ DOMAIN sends \subseteq DOMAIN sends'
      /\ \A j \in DOMAIN sends : sends'[j] = sends[j] /\ KeyOf(j)' = KeyOf(j)
  BY SendsGrow
<1>2. received \subseteq received' /\ hurt \subseteq hurt'
  <2>1. ASSUME NEW p, Arrive(p) PROVE received \subseteq received' /\ hurt \subseteq hurt'
    BY <2>1, ArriveCases DEF Ignores, Keeps, Joins, Stores, Collects
  <2> QED BY <2>1 DEF Next, vars, SendMessage, SendPacket, PacketFails, NoEndpoint, HandlerOutdated, SenderRestarts,
                      Lose, Clean
<1>3. Sharing(k)' = {} => Sharing(k) = {}
  BY <1>1 DEF Sharing
<1> QED BY <1>1, <1>2, <1>3 DEF Pending

\* The packets of a message are told apart by their part.
LEMMA PartOf ==
    ASSUME TypeInv, NEW k \in DOMAIN sends, NEW i
    PROVE  LET P == PacketOf(sends[k].message, sends[k].channel, i)
           IN  /\ P.body[1] = sends[k].message /\ P.channel = sends[k].channel /\ P.index = i
               /\ P.body = Fragment(sends[k].message, i) /\ ChannelOf(P) = KeyOf(k)
BY DEF PacketOf, Fragment, ChannelOf, KeyOf

\* A new message has all its packets in the queue.
LEMMA SendPends ==
    ASSUME TypeInv, PendingOnItsWay, NEW m \in Messages, SendMessage(m)
    PROVE  PendingOnItsWay'
<1>0. PICK s, c : s = SenderOf[m] /\ c = next[s]
  OBVIOUS
<1>1. /\ s \in Senders /\ c \in 0..ChannelIndexes - 1
      /\ queue \in [Senders -> Seq(Packet)] /\ queue[s] \in Seq(Packet) /\ sends \in Seq(Send)
  BY <1>0, PacketAssumption DEF TypeInv, SenderOK, SendsOK
<1>2. sends' = Append(sends, [message |-> m, channel |-> c])
  BY <1>0 DEF SendMessage
<1>3. /\ DOMAIN sends' = DOMAIN sends \cup {Len(sends) + 1}
      /\ sends'[Len(sends) + 1] = [message |-> m, channel |-> c]
  BY <1>1, <1>2
<1>4. /\ queue'[s] = queue[s] \o Packets(m, c)
      /\ \A t \in Senders \ {s} : queue'[t] = queue[t]
  BY <1>0, <1>1 DEF SendMessage
<1>5. /\ Packets(m, c) \in Seq(Packet) /\ Len(Packets(m, c)) = PacketsCount(m)
      /\ \A i \in 0..PacketsCount(m) - 1 : Packets(m, c)[i + 1] = PacketOf(m, c, i)
  BY <1>1, PacketsType
<1>6. SUFFICES ASSUME NEW k \in DOMAIN sends', Pending(k)', NEW i \in 0..PacketsCount(sends'[k].message) - 1
               PROVE  InQueue(k, i)' \/ InTransit(k, i)' \/ InChannel(k, i)'
  BY DEF PendingOnItsWay
<1>7. CASE k = Len(sends) + 1
  <2>1. sends'[k] = [message |-> m, channel |-> c] /\ i \in 0..PacketsCount(m) - 1
    BY <1>3, <1>6, <1>7
  <2>2. i + 1 \in DOMAIN Packets(m, c)
    BY <1>5, <2>1
  <2>3. i + 1 + Len(queue[s]) \in DOMAIN queue'[s] /\ queue'[s][i + 1 + Len(queue[s])] = PacketOf(m, c, i)
    <3> DEFINE r == Packets(m, c)
    <3>1. \A j \in DOMAIN r : j + Len(queue[s]) \in DOMAIN (queue[s] \o r) /\ (queue[s] \o r)[j + Len(queue[s])] = r[j]
      BY <1>1, <1>5, QueueEdits
    <3> HIDE DEF r
    <3>2. i + 1 + Len(queue[s]) \in DOMAIN (queue[s] \o r) /\ (queue[s] \o r)[i + 1 + Len(queue[s])] = r[i + 1]
      BY <2>2, <3>1 DEF r
    <3> QED BY <1>4, <1>5, <2>1, <3>2 DEF r
  <2>4. sends'[k].message = m /\ sends'[k].channel = c
    BY <2>1
  <2>5. InQueue(k, i)'
    BY <1>0, <2>3, <2>4 DEF InQueue
  <2> QED BY <2>5
<1>8. CASE k \in DOMAIN sends
  <2>1. [Next]_vars
    BY DEF Next
  <2>2. Pending(k) /\ sends'[k] = sends[k] /\ KeyOf(k)' = KeyOf(k)
    BY <1>6, <1>8, <2>1, PendingBefore
  <2>3. InQueue(k, i) \/ InTransit(k, i) \/ InChannel(k, i)
    BY <1>6, <1>8, <2>2 DEF PendingOnItsWay
  <2>4. CASE InQueue(k, i)
    <3>1. \A t \in Senders : \A j \in DOMAIN queue[t] : j \in DOMAIN queue'[t] /\ queue'[t][j] = queue[t][j]
      <4>1. \A j \in DOMAIN queue[s] : j \in DOMAIN (queue[s] \o Packets(m, c)) /\ (queue[s] \o Packets(m, c))[j] = queue[s][j]
        BY <1>1, <1>5, QueueEdits
      <4>2. \A j \in DOMAIN queue[s] : j \in DOMAIN queue'[s] /\ queue'[s][j] = queue[s][j]
        BY <1>4, <4>1
      <4> QED BY <1>4, <4>2
    <3>2. SenderOf[sends[k].message] \in Senders
      <4>1. sends[k] \in Send
        BY <1>1, <1>8
      <4> QED BY <4>1, PacketAssumption DEF Send
    <3> QED BY <2>2, <2>4, <3>1, <3>2 DEF InQueue
  <2>5. CASE InTransit(k, i) \/ InChannel(k, i)
    BY <2>2, <2>5 DEF InTransit, InChannel, SendMessage
  <2> QED BY <2>3, <2>4, <2>5
<1> QED BY <1>3, <1>6, <1>7, <1>8

\* A packet leaves its queue for the network, or hurts its message.
LEMMA SenderPends ==
    ASSUME TypeInv, PendingOnItsWay, NEW s \in Senders,
           SendPacket(s) \/ PacketFails(s) \/ NoEndpoint(s) \/ HandlerOutdated(s) \/ SenderRestarts(s)
    PROVE  PendingOnItsWay'
<1>0. /\ [Next]_vars /\ UNCHANGED <<sends, channels>> /\ net \subseteq net'
      /\ queue \in [Senders -> Seq(Packet)] /\ queue[s] \in Seq(Packet)
  <2>1. [Next]_vars
    BY DEF Next
  <2> QED BY <2>1 DEF SendPacket, PacketFails, NoEndpoint, HandlerOutdated, SenderRestarts, TypeInv, SenderOK
<1>1. SUFFICES ASSUME NEW k \in DOMAIN sends, Pending(k)', NEW i \in 0..PacketsCount(sends[k].message) - 1
               PROVE  InQueue(k, i)' \/ InTransit(k, i)' \/ InChannel(k, i)'
  BY <1>0 DEF PendingOnItsWay
<1>2. /\ Pending(k) /\ sends'[k] = sends[k] /\ KeyOf(k)' = KeyOf(k) /\ k \notin hurt'
      /\ InQueue(k, i) \/ InTransit(k, i) \/ InChannel(k, i)
  <2>1. Pending(k) /\ sends'[k] = sends[k] /\ KeyOf(k)' = KeyOf(k) /\ k \notin hurt'
    BY <1>0, <1>1, PendingBefore
  <2> QED BY <1>1, <2>1 DEF PendingOnItsWay
<1>3. CASE InTransit(k, i) \/ InChannel(k, i)
  BY <1>0, <1>2, <1>3 DEF InTransit, InChannel
<1>4. CASE InQueue(k, i)
  <2> DEFINE P == PacketOf(sends[k].message, sends[k].channel, i)
  <2>1. PICK t, j : t = SenderOf[sends[k].message] /\ j \in DOMAIN queue[t] /\ queue[t][j] = P
    BY <1>4 DEF InQueue
  <2>2. \A Q : P \in Q => k \in Hurt(Q)
    BY <1>1, PartOf DEF Hurt, TypeInv
  <2>3. t = s => P \in ToSet(queue[s])
    BY <2>1 DEF ToSet
  <2> HIDE DEF P
  <2>4. CASE queue'[t] = queue[t]
    BY <1>0, <2>1, <2>4 DEF InQueue, P
  <2>5. CASE queue'[t] # queue[t]
    <3>1. t = s
      <4>1. \E q : queue' \in {queue, [queue EXCEPT ![s] = q]}
        BY DEF SendPacket, PacketFails, NoEndpoint, HandlerOutdated, SenderRestarts
      <4>2. SenderOf[sends[k].message] \in Senders
        <5>1. sends[k] \in Send
          BY DEF TypeInv, SendsOK
        <5> QED BY <5>1, PacketAssumption DEF Send
      <4> QED BY <1>0, <2>1, <2>5, <4>1, <4>2
    <3>2. ~NoEndpoint(s) /\ ~SenderRestarts(s)
      BY <1>2, <2>2, <2>3, <3>1 DEF NoEndpoint, SenderRestarts
    <3>3. /\ queue[s] # <<>> /\ queue'[s] = Tail(queue[s])
          /\ \/ Head(queue[s]) \in net'
             \/ Hurt({Head(queue[s])}) \subseteq hurt'
      BY <1>0, <2>5, <3>1, <3>2 DEF SendPacket, PacketFails, HandlerOutdated
    <3>4. queue[s][1] = Head(queue[s]) /\ \A l \in DOMAIN queue[s] \ {1} : l - 1 \in DOMAIN Tail(queue[s]) /\ Tail(queue[s])[l - 1] = queue[s][l]
      BY <1>0, <3>3, QueueEdits
    <3>5. CASE j = 1
      <4>1. Head(queue[s]) = P
        BY <2>1, <3>1, <3>4, <3>5
      <4>2. P \in net'
        BY <1>2, <2>2, <3>3, <4>1
      <4> QED BY <1>0, <4>2 DEF InTransit, P
    <3>6. CASE j # 1
      <4>1. j - 1 \in DOMAIN queue'[s] /\ queue'[s][j - 1] = P
        BY <2>1, <3>1, <3>3, <3>4, <3>6
      <4> QED BY <1>0, <2>1, <3>1, <4>1 DEF InQueue, P
    <3> QED BY <3>5, <3>6
  <2> QED BY <2>4, <2>5
<1> QED BY <1>2, <1>3, <1>4

\* A packet that arrives goes into the channel of its message, or completes it.
LEMMA ArrivePends ==
    ASSUME TypeInv, Origins, NoGaps, PendingOnItsWay, NEW p \in net, Arrive(p)
    PROVE  PendingOnItsWay'
<1>0. /\ [Next]_vars /\ UNCHANGED <<sends, queue>> /\ net' \in {net, net \ {p}}
      /\ p \in Packet /\ ChannelsOK /\ FromSend(p)
  <2>1. [Next]_vars
    BY DEF Next
  <2> QED BY <2>1, ArriveCases DEF TypeInv, Origins, NetFits
<1>1. SUFFICES ASSUME NEW k \in DOMAIN sends, Pending(k)', NEW i \in 0..PacketsCount(sends[k].message) - 1
               PROVE  InQueue(k, i)' \/ InTransit(k, i)' \/ InChannel(k, i)'
  BY <1>0 DEF PendingOnItsWay
<1>2. /\ Pending(k) /\ sends'[k] = sends[k] /\ KeyOf(k)' = KeyOf(k)
      /\ Fragments(sends[k].message) \notin received'
      /\ InQueue(k, i) \/ InTransit(k, i) \/ InChannel(k, i)
  <2>1. Pending(k) /\ sends'[k] = sends[k] /\ KeyOf(k)' = KeyOf(k) /\ Fragments(sends[k].message) \notin received'
    BY <1>0, <1>1, PendingBefore
  <2> QED BY <1>1, <2>1 DEF PendingOnItsWay
<1>3. CASE InQueue(k, i)
  BY <1>0, <1>2, <1>3 DEF InQueue
<1>4. CASE ChannelOf(p) # KeyOf(k)
  <2>1. InTransit(k, i) => InTransit(k, i)'
    <3>1. PacketOf(sends[k].message, sends[k].channel, i) # p
      BY <1>4, PartOf
    <3> QED BY <1>0, <1>2, <3>1 DEF InTransit
  <2>2. InChannel(k, i) => InChannel(k, i)'
    BY <1>2, <1>4, ArriveElsewhere DEF InChannel
  <2> QED BY <1>2, <1>3, <2>1, <2>2
<1>5. CASE ChannelOf(p) = KeyOf(k)
  <2> DEFINE m == sends[k].message
  <2>1. /\ m \in Messages /\ Sharing(k) = {} /\ Fits(m) /\ Sendable(m)
    <3>1. sends[k] \in Send
      BY DEF TypeInv, SendsOK
    <3> QED BY <1>2, <3>1 DEF Send, Pending, Origins, SendsFit
  <2>2. /\ p.body[1] = m /\ p = PacketOf(m, sends[k].channel, p.index) /\ p.index \in 0..PacketsCount(m) - 1
        /\ p.body = Fragment(m, p.index) /\ p.total = PacketsCount(m)
    BY <1>0, <1>5, <2>1, OwnPackets
  <2>3. ValidPacket(p)
    <3>1. PacketsCount(m) \in 1..MaxPackets /\ PacketSize(m, p.index) >= HeaderSize + 1
      BY <2>1, <2>2, SentCount
    <3>2. PacketSize(m, p.index) <= MaxSize
      BY <2>1, <2>2 DEF Fits
    <3>3. p.size = PacketSize(m, p.index)
      BY <1>0, <2>2, PacketFacts
    <3>4. PacketSize(m, p.index) \in Int
      BY <2>1, CountType, PacketAssumption DEF PacketSize, Content
    <3> HIDE DEF m
    <3>5. p.size \in HeaderSize + 1..MaxSize
      BY <3>1, <3>2, <3>3, <3>4, PacketAssumption
    <3>6. p.total # 0 /\ p.index <= p.total
      BY <2>2, <3>1, PacketAssumption
    <3> QED BY <3>5, <3>6 DEF ValidPacket
  <2>4. ~Joins(p)
    BY <1>5, <2>1, OwnStored DEF ArrivedInv
  <2>5. ASSUME Collects(p) PROVE FALSE
    <3>1. PICK l \in Messages : Data(Joined(Stored(p))) = Fragments(l)
      BY <2>5 DEF Collects, CRCFits
    <3>2. p.body \in Fragments(l)
      BY <1>0, <3>1, JoinedData
    <3>3. l = m
      BY <2>2, <3>2, FragmentFacts
    <3> QED BY <1>2, <2>5, <3>1, <3>3 DEF Collects
  <2>6. Keeps(p)
    BY <2>3, <2>4, <2>5, ArriveCases DEF Ignores
  <2>7. KeyOf(k)' \in DOMAIN channels' /\ channels'[KeyOf(k)'] = Stored(p)
    BY <1>2, <1>5, <2>6 DEF Keeps, Stores
  <2>8. /\ p.index \in DOMAIN Stored(p).slots /\ Stored(p).slots[p.index] = p.body
        /\ DOMAIN Stored(p).slots = DOMAIN Channel(KeyOf(k)).slots \cup {p.index}
        /\ \A l \in DOMAIN Channel(KeyOf(k)).slots :
              l # p.index => Stored(p).slots[l] = Channel(KeyOf(k)).slots[l]
    BY <1>0, <1>5, WithPacketType DEF Stored
  <2>9. CASE InChannel(k, i) \/ i = p.index
    <3>1. i \in DOMAIN Stored(p).slots /\ Stored(p).slots[i] = Fragment(m, i)
      BY <2>2, <2>8, <2>9 DEF InChannel, Channel
    <3> QED BY <1>2, <2>7, <3>1 DEF InChannel
  <2>10. CASE InTransit(k, i) /\ i # p.index
    <3>1. PacketOf(m, sends[k].channel, i) # p
      BY <2>10, PartOf
    <3> QED BY <1>0, <1>2, <2>10, <3>1 DEF InTransit
  <2> QED BY <1>2, <1>3, <2>9, <2>10
<1> QED BY <1>4, <1>5

\* A packet that is lost and a channel that is dropped hurt their message.
LEMMA HurtPends ==
    ASSUME TypeInv, PendingOnItsWay, (\E p \in net : Lose(p)) \/ (\E gone \in SUBSET DOMAIN channels : gone # {} /\ Clean(gone))
    PROVE  PendingOnItsWay'
<1>0. [Next]_vars /\ UNCHANGED <<sends, queue>>
  <2>1. [Next]_vars
    BY DEF Next
  <2> QED BY <2>1 DEF Lose, Clean
<1>1. SUFFICES ASSUME NEW k \in DOMAIN sends, Pending(k)', NEW i \in 0..PacketsCount(sends[k].message) - 1
               PROVE  InQueue(k, i)' \/ InTransit(k, i)' \/ InChannel(k, i)'
  BY <1>0 DEF PendingOnItsWay
<1>2. /\ Pending(k) /\ sends'[k] = sends[k] /\ KeyOf(k)' = KeyOf(k) /\ k \notin hurt'
      /\ InQueue(k, i) \/ InTransit(k, i) \/ InChannel(k, i)
  <2>1. Pending(k) /\ sends'[k] = sends[k] /\ KeyOf(k)' = KeyOf(k) /\ k \notin hurt'
    BY <1>0, <1>1, PendingBefore
  <2> QED BY <1>1, <2>1 DEF PendingOnItsWay
<1>3. InQueue(k, i) => InQueue(k, i)'
  BY <1>0, <1>2 DEF InQueue
<1>4. ASSUME NEW p \in net, Lose(p) PROVE InTransit(k, i) \/ InChannel(k, i) => InTransit(k, i)' \/ InChannel(k, i)'
  <2>1. PacketOf(sends[k].message, sends[k].channel, i) # p
    <3>1. k \notin Hurt({p})
      BY <1>2, <1>4 DEF Lose
    <3> QED BY <3>1, PartOf DEF Hurt
  <2> QED BY <1>2, <1>4, <2>1 DEF Lose, InTransit, InChannel
<1>5. ASSUME NEW gone, Clean(gone) PROVE InTransit(k, i) \/ InChannel(k, i) => InTransit(k, i)' \/ InChannel(k, i)'
  <2>1. KeyOf(k) \notin gone
    BY <1>2, <1>5 DEF Clean, KeyOf
  <2> QED BY <1>2, <1>5, <2>1 DEF Clean, InTransit, InChannel
<1> QED BY <1>2, <1>3, <1>4, <1>5

\* Every step keeps the packets of a pending message on their way.
LEMMA PendingStep ==
    ASSUME TypeInv, Origins, ArrivedInv, [Next]_vars
    PROVE  PendingOnItsWay'
<1>1. CASE UNCHANGED vars
  BY <1>1 DEF vars, ArrivedInv, PendingOnItsWay, Pending, Sharing, Fits, InQueue, InTransit, InChannel, KeyOf
<1> QED BY <1>1, SendPends, SenderPends, ArrivePends, HurtPends DEF Next, ArrivedInv

\* All of it is an invariant.
LEMMA ArrivedInductive == Spec => [](TypeInv /\ SafetyInv /\ ArrivedInv)
<1>1. Init => ArrivedInv
  <2> SUFFICES ASSUME Init PROVE ArrivedInv
    OBVIOUS
  <2>1. DOMAIN sends = {}
    BY DEF Init
  <2> QED BY <2>1 DEF ArrivedInv, PendingOnItsWay, NoGaps
<1>2. TypeInv /\ SafetyInv /\ ArrivedInv /\ [Next]_vars => ArrivedInv'
  BY PendingStep, NoGapsStep DEF SafetyInv, ArrivedInv
<1> QED BY <1>1, <1>2, SafetyInductive, PTL DEF Spec

\* When the network is quiet, every message that had its channel for itself and whose
\* packets have all arrived has been passed on, in whatever order and number they came
\* (IncomingChannel::addPacket, tryCollectMessage).
THEOREM ArrivedCollected == Spec => []ArrivedIsCollected
<1>1. TypeInv /\ SafetyInv /\ ArrivedInv => ArrivedIsCollected
  <2> SUFFICES ASSUME TypeInv, SafetyInv, ArrivedInv, Settled, NEW k \in DOMAIN sends, Pending(k)
               PROVE  FALSE
    BY DEF ArrivedIsCollected, Pending
  <2> DEFINE m == sends[k].message
             s == channels[KeyOf(k)].slots
  <2>1. m \in Messages /\ SenderOf[m] \in Senders /\ Sendable(m) /\ Sharing(k) = {}
    <3>1. sends[k] \in Send
      BY DEF TypeInv, SendsOK
    <3> QED BY <3>1, PacketAssumption DEF Send, Pending, SafetyInv, Origins, SendsFit
  <2>2. ASSUME NEW i \in 0..PacketsCount(m) - 1 PROVE InChannel(k, i)
    <3>1. ~InTransit(k, i)
      BY DEF Settled, InTransit
    <3>2. ~InQueue(k, i)
      <4>1. queue[SenderOf[m]] = <<>> /\ DOMAIN <<>> = {}
        BY <2>1 DEF Settled
      <4> QED BY <4>1 DEF InQueue
    <3> QED BY <3>1, <3>2 DEF ArrivedInv, PendingOnItsWay
  <2>3. KeyOf(k) \in DOMAIN channels
    <3>1. 0 \in 0..PacketsCount(m) - 1
      BY <2>1, SentCount, PacketAssumption
    <3> QED BY <2>2, <3>1 DEF InChannel
  <2>4. \A i \in DOMAIN s : s[i] = Fragment(m, i) /\ i \in 0..PacketsCount(m) - 1
    BY <2>1, <2>3, OwnSlots DEF ArrivedInv, NoGaps, SafetyInv
  <2>5. \A i \in 0..PacketsCount(m) - 1 : i \in DOMAIN s /\ s[i] = Fragment(m, i)
    BY <2>2 DEF InChannel
  <2>6. {s[i] : i \in DOMAIN s} = Fragments(m)
    <3> HIDE DEF s, m
    <3> QED BY <2>4, <2>5 DEF Fragments
  <2> QED BY <2>1, <2>3, <2>6 DEF SafetyInv, NoWholeMessageWaits
<1> QED BY <1>1, ArrivedInductive, PTL

=============================================================================
