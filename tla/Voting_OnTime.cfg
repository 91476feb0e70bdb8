\* Answers in time, crashes of the coordinator and of the intermediate node, exceptions on the receiver.
SPECIFICATION Spec
CONSTANTS
    c = c
    i = i
    r = r
    Nobody = Nobody
    Coordinator = c
    Receiver = r
    Participants <- MCParticipants
    NextHop <- MCNextHop
    Crashing = {c, i}
    Throwing = {r}
    LateAnswers = FALSE
    MaxAsks = 1
CHECK_DEADLOCK FALSE
INVARIANTS TypeOK VoteIsLogged CommitFollowsCoordinator NoSplitDecision ReservedWhileOpen CommitSurvivesRestart
PROPERTY ImplementsAtomicPayment
