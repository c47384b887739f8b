\* Two processes, the notify thread, the poller and a Worker that writes
SPECIFICATION FairSpec
CONSTANTS
    MaxIno = 2
    MaxLinks = 2
    Name = {n1, n2}
    Proc = {p1, p2}
    Calls = {"lookup", "mkdir", "create", "unlink", "rmdir", "rename", "open", "write"}
    Polling = TRUE
    Batch = 1
    MaxRows = 2
    MaxCalls = 3
CHECK_DEADLOCK FALSE
INVARIANTS
    KernelCatchesUp
    HandlesMatch
PROPERTY Served
