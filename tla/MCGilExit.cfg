CONSTANTS
    t1 = t1
    t2 = t2
    t3 = t3
    Threads = {t1, t2, t3}
    None = None
SPECIFICATION GilFairSpec
PROPERTIES
    SwitchWaitEnds
CHECK_DEADLOCK FALSE
