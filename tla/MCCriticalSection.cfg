CONSTANTS
    t1 = t1
    t2 = t2
    t3 = t3
    Threads = {t1, t2}
    Mutexes = {1, 2, 3}
    NoThread = NoThread
    MaxNesting = 2
SPECIFICATION FairSpec
INVARIANTS
    RunsOnlyInActiveSection
    OwnsWhatSectionsName
    HoldAndWaitIsOrdered
PROPERTIES
    EverySectionIsEntered
