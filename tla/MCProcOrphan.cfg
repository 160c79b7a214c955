CONSTANTS
    c1 = c1 c2 = c2 l1 = l1 NIL = NIL
    Cpu <- OneCpu SleepLock <- OneLock
    NPROC = 3 NPID = 4 MaxForks = 3
SPECIFICATION Spec
CHECK_DEADLOCK FALSE
INVARIANT WaitReturnsOwnChild
