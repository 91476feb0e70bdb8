\* Messages of one, two and three packets.
SPECIFICATION Spec
CONSTANTS
    s1 = s1
    s2 = s2
    short = short
    medium = medium
    long = long
    Messages = {short, medium, long}
    Senders = {s1, s2}
    SenderOf <- MCSenderOf
    Bytes <- MCBytes
    Address <- MCAddress
    Port <- MCPort
    MaxSize = 508
    HeaderSize = 8
    CRCSize = 4
    MaxPackets = 255
    ChannelIndexes = 2
    MaxSends = 2
CHECK_DEADLOCK FALSE
INVARIANTS TypeOK CollectedWereSent NoWholeMessageWaits ArrivedIsCollected
