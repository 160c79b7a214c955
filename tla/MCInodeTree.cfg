CONSTANTS
    t1 = t1 t2 = t2 c1 = c1 c2 = c2 o1 = o1 o2 = o2 o3 = o3
    root = root None = None
    Object <- Objects
    NINODES = 3
    Thread <- Threads
    Cpu <- Cpus
    CreateTypes <- Dirs
    MaySleep = TRUE
SYMMETRY Symmetry
SPECIFICATION Spec
INVARIANTS OneObjectPerInode LockOwned RefsCounted FreedWithLastUse EntryWritten
