CONSTANTS
    t1 = t1
    t2 = t2
    x1 = x1
    x2 = x2
    Threads = {t1, t2}
    Values = {x1, x2}
    None = None
    MaxDepth = 2
SPECIFICATION Spec
PROPERTIES
    CachedForAllAccesses
