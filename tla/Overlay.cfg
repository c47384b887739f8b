\* OverlayFS over a small base
SPECIFICATION Spec
CONSTANTS
    a = a
    b = b
    Name = {a, b}
    BaseDir <- MCBaseDir
    BaseFile <- MCBaseFile
    Workloads <- Steady
    MaxOps = 4
CHECK_DEADLOCK FALSE
INVARIANTS
    
    KnownRight
    ListsAll
