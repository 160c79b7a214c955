CONSTANTS
    c1 = c1 c2 = c2 c3 = c3
    b1 = b1 b2 = b2 b3 = b3
    s1 = s1 s2 = s2 s3 = s3 s4 = s4
    d0 = d0 d1 = d1
    Slot <- FourSlots
    Data <- TwoData
    Claim <- ThreeClaims
    BlockNo <- ThreeBlocks
    Threshold = 2
    MaxPinned = 1
    Stored <- OneBlock
SPECIFICATION Spec
INVARIANT HeldSlotKept
