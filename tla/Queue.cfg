\* Crashes, losses and replaced messages over two queues.
SPECIFICATION FairSpec
CONSTANTS
    a = a
    b = b
    t1 = t1
    t2 = t2
    t3 = t3
    Contractors = {a, b}
    Transactions = {t1, t2, t3}
    To <- Contractor
    Types = {"SetIncoming", "Audit"}
    BackoffLimit = 2
    LoadDelay = 2
    MaxPosts = 3
    MaxCrashes = 1
CHECK_DEADLOCK FALSE
INVARIANTS TypeOK StoredIsQueued ResendIsScheduled
PROPERTIES ImplementsOutbox Delivered
