SPECIFICATION Spec
CONSTANTS
    p1 = p1
    p2 = p2
    i1 = i1
    i2 = i2
    Proc <- TwoProcs
    init = p1
    NFILE = 2
    NOFILE = 2
    Inode <- Inodes
    Dir <- RootOnly
    root = i1
    OpenAs <- ReadRootWriteFile
    ChunkMax = 1
    CountMax = 2
    SizeMax = 2
    None = None
INVARIANTS
    RefsExact
    InodeRefsExact
    TransferAtOffset
    NeverPanics
CHECK_DEADLOCK FALSE
