CONSTANTS
    t1 = t1 t2 = t2 t3 = t3
    b1 = b1 b2 = b2 b3 = b3 d0 = d0 d1 = d1
    HEAD = HEAD NIL = NIL
    Thread <- Threads BlockNo <- Blocks Data <- Contents Written <- NewContents
    MaxOps = 1 MaxGlitch = 1
SPECIFICATION FairSpec
CHECK_DEADLOCK FALSE
INVARIANTS StartsAtRest NobodyForgotten TransferDone
PROPERTY TransfersEnd
