\* Two initiators over four cycles that are found again and again, two of
\* them waiting at a time; one report of each kind, one conflict of each initiator.
SPECIFICATION SpecCycles
CONSTANTS
    i1 = i1
    i2 = i2
    c1 = c1
    c2 = c2
    c3 = c3
    c4 = c4
    l = l
    o = o
    Transactions = {i1, i2}
    StepTwo = {}
    Payers = {}
    MaxDelay = 1
    MaxPieces = 0
    MaxLag = 4
    Cycles = {c1, c2, c3, c4}
    LengthOf <- MCLengthOf
    Lines = {l}
    OffNodes = {o}
    Through <- MCThrough
    MaxWaiting = 2
    MaxReports = 1
    MaxConflicts = 1
INVARIANTS CyclesTypeOK OneAtATime
PROPERTY FoundIsTried
CHECK_DEADLOCK FALSE
