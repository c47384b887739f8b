\* Two mounts hold files open while the Worker unlinks and replaces them
SPECIFICATION FairSpec
CONSTANTS
    MaxIno = 2
    MaxLinks = 2
    MaxOpen = 2
    n1 = n1
    n2 = n2
    m1 = m1
    m2 = m2
    Name <- Names2
    Session <- TwoMounts
    Workload <- Leases
    IntoFiles = FALSE
CHECK_DEADLOCK FALSE
INVARIANTS
    HandlesAreLeased
    UnnamedIsReapable
PROPERTIES
    LeasesRetain
    Reclaimed
