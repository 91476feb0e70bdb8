\* A cycle of three nodes, amounts that shrink on the way, one reservation taken away.
SPECIFICATION Spec
CONSTANTS
    N = 2
    MaxAmount = 2
    MaxChallenges = 2
CHECK_DEADLOCK FALSE
INVARIANTS TypeOK HopsAgree OneDecision
PROPERTY ReservationsReturned
