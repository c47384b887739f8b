\* One mount, no Worker operations
SPECIFICATION Spec
CONSTANTS
    MaxIno = 4
    MaxLinks = 3
    MaxOpen = 2
    n1 = n1
    n2 = n2
    m1 = m1
    m2 = m2
    Name <- Names2
    Session <- OneMount
    Workload <- GuestOnly
    IntoFiles = FALSE
SYMMETRY Symmetry
CHECK_DEADLOCK FALSE
INVARIANTS
    NamesCounted
    OpenFilesKept
