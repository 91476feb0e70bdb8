---------------------------- MODULE PacketChannel ----------------------------
(***************************************************************************)
(* Messages between nodes as UDP packets. The sender cuts a message into   *)
(* packets of one channel; the receiver joins the packets of a channel and *)
(* checks the CRC of the whole. Packets are lost, reordered and repeated,  *)
(* nodes restart, and two senders may look like one to the receiver.       *)
(***************************************************************************)
EXTENDS Integers, Sequences, FiniteSets, SequencesExt

CONSTANTS
    Messages,       \* what is to be sent, with
    SenderOf,       \*   the node that sends it
    Bytes,          \*   and its length
    Senders,        \* nodes, with
    Address, Port,  \*   their IPv4 address and port, as numbers
    MaxSize,        \* Packet::kMaxSize
    HeaderSize,     \* PacketHeader::kSize
    CRCSize,        \* Packet::kCRCChecksumBytesCount
    MaxPackets,     \* the largest PacketIndex, 255
    ChannelIndexes, \* how many channel indexes there are, 2^32
    MaxSends        \* bound on the messages sent in a run

ASSUME PacketAssumption ==
    /\ SenderOf \in [Messages -> Senders]
    /\ Bytes \in [Messages -> Nat \ {0}]
    /\ Address \in [Senders -> Nat] /\ Port \in [Senders -> Nat]
    /\ {MaxSize, HeaderSize, CRCSize, MaxPackets} \subseteq Nat \ {0}
    /\ HeaderSize + CRCSize < MaxSize /\ CRCSize <= HeaderSize
    /\ ChannelIndexes \in Nat \ {0} /\ MaxSends \in Nat

VARIABLES
    next,       \* mNextAvailableChannelIndex of each sender
    queue,      \* mPacketsQueue of each sender
    net,        \* packets in transit
    channels,   \* mChannels of the receiver, over all its IncomingRemoteNodes
    received,   \* what signalMessageParsed has passed on, as sets of fragments
    sends,      \* history: every message sent and its channel
    hurt        \* history: sends that lost a packet
vars == <<next, queue, net, channels, received, sends, hurt>>

(* Cutting a message. *)
Content(m) == Bytes[m] + CRCSize
PacketsCount(m) == (Content(m) \div MaxSize + IF Content(m) % MaxSize # 0 THEN 1 ELSE 0)
                   % (MaxPackets + 1)
MaxMessageSize == MaxPackets * (MaxSize - HeaderSize)
PacketSize(m, i) ==
    IF i < PacketsCount(m) - 1 THEN MaxSize
    ELSE Content(m) - (PacketsCount(m) - 1) * (MaxSize - HeaderSize) + HeaderSize
Fragment(m, i) == <<m, i>>
Fragments(m) == {Fragment(m, i) : i \in 0..PacketsCount(m) - 1}
Packets(m, c) ==
    [i \in 1..PacketsCount(m) |->
        [from |-> SenderOf[m], channel |-> c, total |-> PacketsCount(m), index |-> i - 1,
         size |-> PacketSize(m, i - 1), body |-> Fragment(m, i - 1)]]

(* The receiver's view of a packet. Endpoints are told apart by a sum. *)
Key(s) == Address[s] + Port[s]
ChannelOf(p) == <<Key(p.from), p.channel>>
MutantValidPacket(p) == p.size \in HeaderSize + 1..MaxSize - 1 /\ p.total # 0 /\ p.index <= p.total
ValidPacket(p) == p.size \in HeaderSize + 1..MaxSize /\ p.total # 0 /\ p.index <= p.total

Empty == <<>>
NoChannel == [expected |-> 0, slots |-> <<>>]
Channel(c) == IF c \in DOMAIN channels THEN channels[c] ELSE NoChannel
MutantWithPacket(ch, p) ==
    [expected |-> IF ch.expected = 0 THEN p.total ELSE ch.expected,
     slots |-> [i \in DOMAIN ch.slots \cup {p.index} |->
                    IF i = p.index THEN p.body ELSE ch.slots[i]]]
MutantSlot(ch, p) ==
    [expected |-> p.total,
     slots |-> [i \in DOMAIN ch.slots \cup {p.index + 1} |->
                    IF i = p.index + 1 THEN p.body ELSE ch.slots[i]]]
WithPacket(ch, p) ==
    [expected |-> p.total,
     slots |-> [i \in DOMAIN ch.slots \cup {p.index} |->
                    IF i = p.index THEN p.body ELSE ch.slots[i]]]
CanCollect(ch) == Cardinality(DOMAIN ch.slots) = ch.expected
\* Joining the slots by mPackets[index] inserts an empty one for each index that is missing.
Joined(ch) ==
    [ch EXCEPT !.slots = [i \in 0..(CHOOSE j \in DOMAIN @ : \A k \in DOMAIN @ : k <= j) |->
                              IF i \in DOMAIN @ THEN @[i] ELSE Empty]]
Data(ch) == {ch.slots[i] : i \in DOMAIN ch.slots} \ {Empty}
MutantCRCFits(ch) == Data(ch) # {}
\* The checksum at the end fits the rest, which is one message.
CRCFits(ch) == \E m \in Messages : Data(ch) = Fragments(m)

(* OutgoingRemoteNode::sendMessage. *)
SendMessage(m) ==
    LET s == SenderOf[m] IN
    /\ Len(sends) < MaxSends
    /\ Bytes[m] <= MaxMessageSize
    /\ queue' = [queue EXCEPT ![s] = @ \o Packets(m, next[s])]
    /\ next' = [next EXCEPT ![s] = (@ + 1) % ChannelIndexes]
    /\ sends' = Append(sends, [message |-> m, channel |-> next[s]])
    /\ UNCHANGED <<net, channels, received, hurt>>

(* The front of the queue is sent; a failure drops it. *)
SendPacket(s) ==
    /\ queue[s] # <<>>
    /\ net' = net \cup {Head(queue[s])}
    /\ queue' = [queue EXCEPT ![s] = Tail(@)]
    /\ UNCHANGED <<next, channels, received, sends, hurt>>

Hurt(P) == {k \in DOMAIN sends :
              \E p \in P : p.channel = sends[k].channel /\ p.body[1] = sends[k].message}

PacketFails(s) ==
    /\ queue[s] # <<>>
    /\ hurt' = hurt \cup Hurt({Head(queue[s])})
    /\ queue' = [queue EXCEPT ![s] = Tail(@)]
    /\ UNCHANGED <<next, net, channels, received, sends>>

(* The address book does not know the contractor: the queue is cleared. *)
NoEndpoint(s) ==
    /\ queue[s] # <<>>
    /\ hurt' = hurt \cup Hurt(ToSet(queue[s]))
    /\ queue' = [queue EXCEPT ![s] = <<>>]
    /\ UNCHANGED <<next, net, channels, received, sends>>

Lose(p) ==
    /\ net' = net \ {p}
    /\ hurt' = hurt \cup Hurt({p})
    /\ UNCHANGED <<next, queue, channels, received, sends>>

(* handleReceivedInfo with the bytes of p; a repeated packet stays in transit. *)
Arrive(p) ==
    LET c == ChannelOf(p)
        ch == WithPacket(Channel(c), p)
        joined == Joined(ch)
        Store(x) == [d \in DOMAIN channels \cup {c} |-> IF d = c THEN x ELSE channels[d]]
    IN
    /\ net' \in {net, net \ {p}}
    /\ IF ~ValidPacket(p) THEN UNCHANGED <<channels, received>>
       ELSE IF ~CanCollect(ch) THEN channels' = Store(ch) /\ UNCHANGED received
       ELSE IF ~CRCFits(joined) THEN channels' = Store(joined) /\ UNCHANGED received
       ELSE /\ received' = received \cup {Data(joined)}
            /\ channels' = [d \in DOMAIN channels \ {c} |-> channels[d]]
    /\ UNCHANGED <<next, queue, sends, hurt>>

(* Every 30 s the channels idle for 5 s and the endpoints idle for 10 s are dropped. *)
Clean(gone) ==
    /\ channels' = [c \in DOMAIN channels \ gone |-> channels[c]]
    /\ hurt' = hurt \cup {k \in DOMAIN sends : <<Key(SenderOf[sends[k].message]), sends[k].channel>> \in gone}
    /\ UNCHANGED <<next, queue, net, received, sends>>

\* Nothing that s has sent is on its way or waits in a channel.
Quiet(s) ==
    /\ queue[s] = <<>>
    /\ \A p \in net : p.from # s
    /\ \A c \in DOMAIN channels : \A i \in DOMAIN channels[c].slots :
          channels[c].slots[i] # Empty => SenderOf[channels[c].slots[i][1]] # s

(* removeOutdatedHandlers: idle for 15 minutes, longer than packets and channels live. *)
HandlerOutdated(s) ==
    /\ next[s] # 0
    /\ Quiet(s)
    /\ next' = [next EXCEPT ![s] = 0]
    /\ UNCHANGED <<queue, net, channels, received, sends, hurt>>

SenderRestarts(s) ==
    /\ next[s] # 0
    /\ next' = [next EXCEPT ![s] = 0]
    /\ queue' = [queue EXCEPT ![s] = <<>>]
    /\ hurt' = hurt \cup Hurt(ToSet(queue[s]))
    /\ UNCHANGED <<net, channels, received, sends>>

Init ==
    /\ next = [s \in Senders |-> 0]
    /\ queue = [s \in Senders |-> <<>>]
    /\ net = {} /\ channels = <<>> /\ received = {} /\ sends = <<>> /\ hurt = {}

Next ==
    \/ \E m \in Messages : SendMessage(m)
    \/ \E s \in Senders : \/ SendPacket(s) \/ PacketFails(s) \/ NoEndpoint(s)
                          \/ HandlerOutdated(s) \/ SenderRestarts(s)
    \/ \E p \in net : Arrive(p) \/ Lose(p)
    \/ \E gone \in SUBSET DOMAIN channels : gone # {} /\ Clean(gone)
Spec == Init /\ [][Next]_vars
-----------------------------------------------------------------------------
Packet == UNION {ToSet(Packets(m, c)) : m \in Messages, c \in 0..ChannelIndexes - 1}

(* Types. *)
TypeOK ==
    /\ next \in [Senders -> 0..ChannelIndexes - 1]
    /\ \A s \in Senders : ToSet(queue[s]) \subseteq Packet
    /\ net \subseteq Packet
    /\ \A c \in DOMAIN channels :
          /\ channels[c].expected \in 1..MaxPackets
          /\ \A i \in DOMAIN channels[c].slots :
                channels[c].slots[i] = Empty \/ \E p \in Packet : p.body = channels[c].slots[i] /\ p.index = i
    /\ received \subseteq SUBSET UNION {Fragments(m) : m \in Messages}
    /\ \A k \in DOMAIN sends : sends[k] \in [message : Messages, channel : 0..ChannelIndexes - 1]
    /\ hurt \subseteq DOMAIN sends

(* What is passed on was sent, whole, even when packets of several messages
   and of several senders meet in one channel (IncomingChannel::tryCollectMessage). *)
CollectedWereSent == \A d \in received : \E k \in DOMAIN sends : d = Fragments(sends[k].message)

(* A channel never keeps exactly the packets of one message, whatever other
   messages it served before: what keeps a whole message from being passed on
   are slots that another message or a join left (reservePacketsSlots, addPacket). *)
NoWholeMessageWaits ==
    \A c \in DOMAIN channels : \A m \in Messages :
        {channels[c].slots[i] : i \in DOMAIN channels[c].slots} # Fragments(m)

Sharing(k) == {j \in DOMAIN sends \ {k} :
                 /\ sends[j].channel = sends[k].channel
                 /\ Key(SenderOf[sends[j].message]) = Key(SenderOf[sends[k].message])}
Fits(m) == \A i \in 0..PacketsCount(m) - 1 : PacketSize(m, i) <= MaxSize
Settled == net = {} /\ \A s \in Senders : queue[s] = <<>>

(* When the network is quiet, every message has been passed on that had its
   channel for itself and whose packets have all arrived, in whatever order
   and number. *)
ArrivedIsCollected ==
    Settled => \A k \in DOMAIN sends :
        Fragments(sends[k].message) \in received \/ k \in hurt \/ Sharing(k) # {} \/ ~Fits(sends[k].message)
=============================================================================
