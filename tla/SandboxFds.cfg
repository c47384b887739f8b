\* Two threads and a forked process over one sandbox
SPECIFICATION Spec
CONSTANTS
    p1 = p1
    p2 = p2
    t1 = t1
    t2 = t2
    t3 = t3
    f = f
    Threads = {t1, t2, t3}
    Of <- ThreeThreads
    Main = t1
    Used <- Apart
    Paths = {f}
    Stored = {f}
    Uses <- Mixed
    Budget <- MixedBudget
    Minima = {5}
    Spare <- Far
    ForkGap = FALSE
CHECK_DEADLOCK FALSE
INVARIANTS
    TableIsPosix
    LowestFirst
    
