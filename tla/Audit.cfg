SPECIFICATION Spec
CONSTANTS
    a = a
    b = b
    t1 = t1
    t2 = t2
    t3 = t3
    Nodes = {a, b}
    Changes = {t1, t2}
    Owner <- MCOwner
    Amount <- MCAmount
    FirstLimit = 1
    MaxResolvers = 1
    MaxCrashes <- MCOneCrashes
    Impatient = {a, b}
    Delaying = {b}
CHECK_DEADLOCK FALSE
INVARIANTS TypeOK AuditsMatch
PROPERTY ImplementsChain
