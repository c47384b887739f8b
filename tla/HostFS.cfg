\* A directory of the host, its cache of inodes, and others who change it
SPECIFICATION Spec
CONSTANTS
    Name = {a, b}
    MaxFile = 4
    MaxIno = 4
    MaxLookups = 3
    MaxChanges = 2
    Races = FALSE
CHECK_DEADLOCK FALSE
INVARIANTS
    
    ServesTheFile
