CONSTANTS
    t1 = t1
    t2 = t2
    u1 = u1
    i1 = i1
    i2 = i2
    Threads = {t1, t2, u1}
    Interps = {i1, i2}
    InterpOf <- MCInterpOf
    Global = Global
    None = None
SPECIFICATION FairSpec
INVARIANTS
    StoppedMeansSuspended
    CountdownIsExact
    PausesExclude
    NobodyIsLeftSuspended
PROPERTIES
    WorldStops
