CONSTANTS
    c1 = c1 c2 = c2 l1 = l1 NIL = NIL
    Cpu <- TwoCpus SleepLock <- OneLock
    NPROC = 3 NPID = 3 MaxForks = 4
SPECIFICATION FairSpec
CHECK_DEADLOCK FALSE
INVARIANTS RunsOnItsOwnStack SleepersWillBeWoken NoZombieMissed
PROPERTIES RunnableRuns WaitReturns
