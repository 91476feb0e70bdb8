\* Lost messages, crashes of the receiver, exceptions on the coordinator, under fairness.
SPECIFICATION FairSpec
CONSTANTS
    c = c
    i = i
    r = r
    Nobody = Nobody
    Coordinator = c
    Receiver = r
    Participants <- MCParticipants
    NextHop <- MCNextHop
    Crashing = {r}
    Throwing = {c}
    LateAnswers = FALSE
    MaxAsks = 1
CHECK_DEADLOCK FALSE
PROPERTIES CommitReachesEveryone NobodyHangsBeforeVote
