CONSTANTS
    t1 = t1 t2 = t2
    Thread <- Threads
    num_groups = 2
    blocks_per_group = 4
    num_log_blocks = 3
    GINODES = 1
    INODE_PER_BLOCK = 2
    NINBLOCKS_PER_GROUP = 2
    MaxIndirect = 4
    Word = 5
SYMMETRY ThreadSymmetry
SPECIFICATION Spec
INVARIANTS TypeOK BlocksPartitioned UsedBlockExact FreeFindsBitSet
