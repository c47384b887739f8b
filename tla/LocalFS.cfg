\* The path API and the trait over one database, operations cut short
SPECIFICATION Spec
CONSTANTS
    MaxIno = 3
    MaxLinks = 2
    Name = {n1, n2}
    Interruptible = {"mkdir", "remove"}
    IntoFiles = FALSE
    MaxCount = 4
    RenameOntoSelf = FALSE
CHECK_DEADLOCK FALSE
INVARIANTS
    CacheCoherent
    
