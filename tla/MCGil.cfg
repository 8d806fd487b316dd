CONSTANTS
    t1 = t1
    t2 = t2
    t3 = t3
    Threads = {t1, t2, t3}
    None = None
SPECIFICATION GilFairSpec
INVARIANTS
    HolderIsKnown
    SwitchIsStillToCome
    DaemonsDoNotRun
    TurnsAreTaken
PROPERTIES
    NoMonopoly
CHECK_DEADLOCK FALSE
