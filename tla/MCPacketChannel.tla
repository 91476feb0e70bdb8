--------------------------- MODULE MCPacketChannel ---------------------------
(* Two senders whose address and port have the same sum. *)
EXTENDS PacketChannel
CONSTANTS s1, s2, short, medium, long
MCSenderOf == [m \in Messages |-> IF m = long THEN s2 ELSE s1]
MCBytes == [m \in Messages |-> CASE m = short -> 100 [] m = medium -> 600 [] OTHER -> 1200]
MCAddress == [s \in Senders |-> IF s = s1 THEN 1 ELSE 2]
MCPort == [s \in Senders |-> IF s = s1 THEN 2001 ELSE 2000]
=============================================================================
