\* A voted node restarts and its recovery commits.
SPECIFICATION Spec
CONSTANTS
    c = c
    i = i
    r = r
    Nobody = Nobody
    Coordinator = c
    Receiver = r
    Participants <- MCParticipants
    NextHop <- MCNextHop
    Crashing = {i}
    Throwing = {}
    LateAnswers = FALSE
    MaxAsks = 1
CHECK_DEADLOCK FALSE
INVARIANT AppliedOnce
