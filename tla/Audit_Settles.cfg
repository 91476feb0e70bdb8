SPECIFICATION FairSpec
CONSTANTS
    a = a
    b = b
    t1 = t1
    t2 = t2
    t3 = t3
    Nodes = {a, b}
    Changes = {t1, t2, t3}
    Owner <- MCOneOwner
    Amount <- MCAmount
    FirstLimit = 1
    MaxResolvers = 1
    MaxCrashes <- MCNoCrash
    Impatient = {b}
    Delaying = {b}
CHECK_DEADLOCK FALSE
INVARIANT UsableIsAudited
PROPERTY ChangeIsAudited
