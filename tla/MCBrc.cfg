CONSTANTS
    t1 = t1
    t2 = t2
    t3 = t3
    Threads = {t1, t2, t3}
    None = None
    MaxRefs = 3
SPECIFICATION FairSpec
INVARIANTS
    CountsAddUp
    QueueWillBeServed
PROPERTIES
    DeadIsUntouched
    GarbageIsReclaimed
