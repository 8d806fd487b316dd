CONSTANTS
    t1 = t1
    t2 = t2
    t3 = t3
    b1 = b1
    ready = ready
    exiting = exiting
    once = once
    Threads = {t1, t2, t3}
    Runner = t1
    Addrs = {ready, exiting, once}
    Events = {ready, exiting}
    Ready = ready
    Exiting = exiting
    Once = once
    Buckets = {b1}
    BucketOf <- MCBucketOf
    NoThread = NoThread
SPECIFICATION FairSpec
INVARIANTS
    SleepersAreAnnounced
    HandleOutlivesUse
    OneFunctionAtATime
PROPERTIES
    ImplementsLife
    JoinsReturn
CHECK_DEADLOCK FALSE
