\* Two clients of an NFS server: repeats, broken connections, a restart
SPECIFICATION FairSpec
CONSTANTS
    MaxIno = 7
    MaxLinks = 2
    Name = {a, b}
    a = a
    b = b
    c1 = c1
    c2 = c2
    Client = {c1, c2}
    Port = {1, 2}
    Uses <- Mixed
    Modes <- Protected
    NameOrder <- Order
    Given = 2
    PageSize = 1
    MaxFaults = 1
CHECK_DEADLOCK FALSE
INVARIANTS
    AtMostOnce
    ListsOnce
PROPERTY
    EveryCallAnswered
