CONSTANTS
    t1 = t1
    t2 = t2
    t3 = t3
    m1 = m1
    b1 = b1
    Threads = {t1, t2, t3}
    Addrs = {m1}
    Buckets = {b1}
    BucketOf <- MCBucketOf
    NoThread = NoThread
SPECIFICATION FairSpec
INVARIANTS
    ReadersXorWriter
    NobodyIsForgotten
PROPERTIES
    WritersFirst
    WritersGetIn
