\* Four requests at a time, seven kinds of lock
SPECIFICATION FairSpec
CONSTANTS
    c1 = c1
    c2 = c2
    c3 = c3
    c4 = c4
    Client <- Clients
    Lock <- Locks
    Wild <- Wildcard
    NoLock = NoLock
INVARIANTS
    TypeOK
    Exclusion
    WaitsForAReason
    DrainIsTheLoop
PROPERTIES
    NoOvertaking
    NoStarvation
    ImplementsLock
