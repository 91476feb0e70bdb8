SPECIFICATION FairSpec
CONSTANTS
    c = c
    a = a
    b = b
    r = r
    Coordinator = c
    Receiver = r
    Intermediates <- MCIntermediates
    Paths <- MCPaths
    OtherPaths <- MCOtherPaths
    Command = 2
    MaxRebuilds = 1
    kMaxReceiverInaccessible = 2
    Crashing = {a, r}
    LateMessages = FALSE
CHECK_DEADLOCK FALSE
INVARIANTS TypeOK FinalAmountsAgree
PROPERTY PaymentSettles
