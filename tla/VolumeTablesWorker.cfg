\* Every Worker operation, five inodes, two names per directory
SPECIFICATION WorkerSpec
CONSTANTS
    MaxIno = 5
    MaxLinks = 5
    n1 = n1
    n2 = n2
    Name <- Names2
    Session <- NoSessions
    Workload <- AllWork
    IntoFiles = FALSE
SYMMETRY Symmetry
CHECK_DEADLOCK FALSE
INVARIANTS
    
    LinksAreNames
