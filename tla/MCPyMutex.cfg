CONSTANTS
    t1 = t1
    t2 = t2
    t3 = t3
    m1 = m1
    m2 = m2
    b1 = b1
    Threads = {t1, t2, t3}
    Addrs = {m1, m2}
    Buckets = {b1}
    BucketOf <- MCBucketOf
    NoThread = NoThread
    MAX_SPIN_COUNT = 1
    Modes <- MCModes
SPECIFICATION FairSpec
INVARIANTS
    PostedWaiterIsThere
    MutualExclusion
    NoLostWakeup
PROPERTIES
    HandOffIsTaken
    ImplementsLock
    FairHandOff
