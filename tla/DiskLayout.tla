----------------------------- MODULE DiskLayout -----------------------------
(***************************************************************************)
(* Where things live on the disk: the super block that user/mkfs/main.c    *)
(* writes, and the arithmetic with which fs/inode.c and fs/cache.c find    *)
(* inodes, bitmaps and data blocks in the block groups.                    *)
(*                                                                         *)
(*   [ MBR | super block | log blocks | group | group | ... ]              *)
(*   group = [ inode blocks | bitmap block | data blocks ]                 *)
(***************************************************************************)
EXTENDS Integers

CONSTANTS
    num_groups,         \* NGROUPS
    blocks_per_group,   \* BPG of mkfs
    num_log_blocks,     \* the log header and the log blocks
    GINODES,            \* inodes per group: num_inodes / num_groups
    INODE_PER_BLOCK     \* inode entries per block

\* The fields of the super block, as mkfs computes them.  The number of
\* bitmap blocks per group is one: a group has fewer blocks than a block
\* has bits.
log_start == 2
bg_start == 2 + num_log_blocks
num_inodeblocks_per_group == (GINODES \div INODE_PER_BLOCK) + 1
num_bitmap_per_group == 1
bitmap_start_per_group == num_inodeblocks_per_group
data_start_per_group == num_inodeblocks_per_group + num_bitmap_per_group
num_datablocks_per_group ==
    blocks_per_group - num_inodeblocks_per_group - num_bitmap_per_group

ASSUME LayoutAssumption ==
    /\ num_groups \in Nat \ {0} /\ blocks_per_group \in Nat \ {0}
    /\ num_log_blocks \in Nat \ {0}
    /\ GINODES \in Nat \ {0} /\ INODE_PER_BLOCK \in Nat \ {0}
    /\ data_start_per_group < blocks_per_group

Group == 0 .. (num_groups - 1)
Offset == 0 .. (blocks_per_group - 1)
DataOffset == data_start_per_group .. (blocks_per_group - 1)
InodeNo == 1 .. (num_groups * GINODES)

\* Variants that forget where the groups start.
group_of_raw(b) == b \div blocks_per_group
offset_of_raw(b) == b % blocks_per_group

\* Block `off' of group h, as cache_alloc and cache_allocg number it, and
\* the group and the offset that cache_free computes back from it.
block_no(h, off) == bg_start + h * blocks_per_group + off
group_of(b) == (b - bg_start) \div blocks_per_group
offset_of(b) == (b - bg_start) % blocks_per_group

\* The bitmap block of group h.
bitmap_block(h) == bg_start + h * blocks_per_group + bitmap_start_per_group

\* The blocks of the log: header at log_start, the logged blocks behind it.
\* log_size is what init_bcache grants (num_log_blocks - 1 of them).
log_block(i) == log_start + 1 + i
log_size == num_log_blocks - 1

\* The group, the block and the slot in that block of an inode.
inode_group(ino) == (ino - 1) \div GINODES
to_block_no(ino) ==
    bg_start + blocks_per_group * ((ino - 1) \div GINODES)
             + (((ino - 1) % GINODES) \div INODE_PER_BLOCK)
get_entry(ino) == ino % INODE_PER_BLOCK
=============================================================================
