CONSTANTS
    t1 = t1
    t2 = t2
    t3 = t3
    b1 = b1
    b2 = b2
    b3 = b3
    Threads = {t1, t2}
    Blocks = {b1, b2, b3}
    None = None
    MinArraySize = 1
    MaxSeq = 7
SYMMETRY Symmetry
SPECIFICATION Spec
INVARIANTS
    NoUseAfterFree
    BorrowersHoldBackGoals
PROPERTIES
    GoalsStayReached
