----------------------------- MODULE BlockAlloc -----------------------------
(***************************************************************************)
(* The allocation of data blocks in block groups: cache_alloc,             *)
(* cache_allocg and cache_free of fs/cache.c, the placement policy of      *)
(* inode_map in fs/inode.c that calls them, and the counters used_block    *)
(* that init_filesystem recounts at boot.                                  *)
(*                                                                         *)
(* Threads run inode_map on inodes of their own (the caller holds the lock *)
(* of the inode) or free a block of one.  A step is what a thread does     *)
(* between two points where others can run: a bitmap is read and changed   *)
(* under the lock of its block; used_block is a plain variable, and its    *)
(* increments and decrements are a load and a store, between which threads *)
(* on other CPUs run.                                                      *)
(***************************************************************************)
EXTENDS DiskLayout, FiniteSets, FiniteSetsExt

CONSTANTS
    Thread,
    NINBLOCKS_PER_GROUP,    \* indirect blocks of a file that go to one group
    MaxIndirect,            \* indirect blocks of a file
    Word                    \* used_block is counted modulo Word (2^32)

ASSUME AllocAssumption ==
    /\ Word \in Nat /\ Word > blocks_per_group
    /\ NINBLOCKS_PER_GROUP \in Nat \ {0}
    /\ MaxIndirect \in Nat

Block == {block_no(h, off) : h \in Group, off \in Offset}
DataBlock == {block_no(h, off) : h \in Group, off \in DataOffset}

VARIABLES
    bits,       \* the blocks whose bit is set in the bitmap of their group
    used_block, \* used_block[h]: data blocks in use in group h
    mapped,     \* the blocks recorded in an inode or in an indirect block
    pc, gno, blk, \* per thread: where it is, its group and its block
    tmp,        \* per thread: the value of used_block that it has loaded
    direct,     \* per thread: maps a direct block or the indirect block
    durable,    \* bits and mapped as the last group commit wrote them
    panicked,   \* PANIC: the kernel has stopped
    raced       \* history: two updates of one counter overlapped since boot

perThread == <<pc, gno, blk, tmp, direct>>
vars == <<bits, used_block, mapped, perThread, durable, panicked, raced>>

NoBlock == 0

TypeOK ==
    /\ bits \subseteq Block
    /\ used_block \in [Group -> 0 .. (Word - 1)]
    /\ mapped \subseteq DataBlock
    /\ pc \in [Thread -> {"idle", "search", "allocg", "alloc", "zero", "inc", "store", "free", "dec"}]
    /\ gno \in [Thread -> Group]
    /\ blk \in [Thread -> DataBlock \union {NoBlock}]
    /\ tmp \in [Thread -> 0 .. (Word - 1)]
    /\ direct \in [Thread -> BOOLEAN]
    /\ durable \in [bits : SUBSET Block, mapped : SUBSET DataBlock]
    /\ panicked \in BOOLEAN /\ raced \in BOOLEAN

\* The data blocks of group h in a bitmap: what init_filesystem counts.
Counted(h, b) == Cardinality({off \in DataOffset : block_no(h, off) \in b})

\* mkfs has set the bits of the inode and bitmap blocks.
MetaBits == Block \ DataBlock

Init ==
    /\ bits = MetaBits
    /\ used_block = [h \in Group |-> Counted(h, MetaBits)]
    /\ mapped = {}
    /\ pc = [t \in Thread |-> "idle"]
    /\ gno = [t \in Thread |-> 0]
    /\ blk = [t \in Thread |-> NoBlock]
    /\ tmp = [t \in Thread |-> 0]
    /\ direct = [t \in Thread |-> FALSE]
    /\ durable = [bits |-> MetaBits, mapped |-> {}]
    /\ panicked = FALSE /\ raced = FALSE

Runs(t) == ~panicked

Goto(t, label) == pc' = [pc EXCEPT ![t] = label]

\* The thread returns from inode_map or from cache_free, and its locals are
\* gone.  When it was the last one, its operation ends the group and end_op
\* commits all of them.
Return(t) ==
    /\ Goto(t, "idle")
    /\ gno' = [gno EXCEPT ![t] = 0]
    /\ blk' = [blk EXCEPT ![t] = NoBlock]
    /\ tmp' = [tmp EXCEPT ![t] = 0]
    /\ direct' = [direct EXCEPT ![t] = FALSE]
    /\ durable' = IF \A u \in Thread \ {t} : pc[u] = "idle"
                  THEN [bits |-> bits', mapped |-> mapped']
                  ELSE durable

\* The block of the bitmap is locked while its holder is inside cache_free.
BitmapFree(h) == \A u \in Thread : ~(pc[u] = "dec" /\ gno[u] = h)

Full(h) == used_block[h] = num_datablocks_per_group

-----------------------------------------------------------------------------
(* inode_map *)

\* A direct block, or the indirect block itself: first the group of the inode.
map_direct(t, ino) ==
    /\ Runs(t) /\ pc[t] = "idle"
    /\ Goto(t, "allocg")
    /\ gno' = [gno EXCEPT ![t] = inode_group(ino)]
    /\ direct' = [direct EXCEPT ![t] = TRUE]
    /\ UNCHANGED <<bits, used_block, mapped, blk, tmp, durable, panicked, raced>>

\* A block behind the indirect block: start at the group for its index.
map_indirect(t, index) ==
    /\ Runs(t) /\ pc[t] = "idle"
    /\ Goto(t, "search")
    /\ gno' = [gno EXCEPT ![t] = ((index \div NINBLOCKS_PER_GROUP) + 1) % num_groups]
    /\ direct' = [direct EXCEPT ![t] = FALSE]
    /\ UNCHANGED <<bits, used_block, mapped, blk, tmp, durable, panicked, raced>>

\* The order in which the loop tries groups from s: every other group up to
\* the last, then all of them from group 0, then the same again without end.
TriedBefore(s, h1, h2) ==
    LET First(h) == h >= s /\ (h - s) % 2 = 0
    IN  \/ First(h1) /\ ~First(h2)
        \/ First(h1) /\ First(h2) /\ h1 < h2
        \/ ~First(h1) /\ ~First(h2) /\ h1 < h2

\* The group search of the code: it stops at the first group whose counter
\* is below the limit.  While every counter is at the limit it goes round
\* and round: tgno is set back to 0 before the test that would leave the loop.
search(t) ==
    /\ Runs(t) /\ pc[t] = "search"
    /\ \E h \in Group :
          /\ ~Full(h)
          /\ \A h2 \in Group \ {h} : ~Full(h2) => TriedBefore(gno[t], h, h2)
          /\ gno' = [gno EXCEPT ![t] = h]
    /\ Goto(t, "allocg")
    /\ UNCHANGED <<bits, used_block, mapped, blk, tmp, direct, durable, panicked, raced>>

-----------------------------------------------------------------------------
(* cache_allocg and cache_alloc *)

FreeOffsets(h) == {off \in Offset : block_no(h, off) \notin bits}

\* A variant that does not set the bit.
TakeUnmarked(t, h) ==
    LET b == block_no(h, Min(FreeOffsets(h)))
    IN  /\ bits' = bits
        /\ blk' = [blk EXCEPT ![t] = b]
        /\ gno' = [gno EXCEPT ![t] = h]
        /\ Goto(t, "zero")

\* Take the first free block of the group, under the lock of its bitmap.
TakeBlock(t, h) ==
    LET b == block_no(h, Min(FreeOffsets(h)))
    IN  /\ bits' = bits \union {b}
        /\ blk' = [blk EXCEPT ![t] = b]
        /\ gno' = [gno EXCEPT ![t] = h]
        /\ Goto(t, "zero")

\* cache_allocg: a block of group gno, or 0, which inode_map returns to its
\* caller for a block behind the indirect block.
cache_allocg(t) ==
    /\ Runs(t) /\ pc[t] = "allocg" /\ BitmapFree(gno[t])
    /\ UNCHANGED mapped
    /\ IF FreeOffsets(gno[t]) # {}
       THEN /\ TakeBlock(t, gno[t])
            /\ UNCHANGED <<tmp, direct, durable>>
       ELSE IF direct[t]
            THEN /\ Goto(t, "alloc")
                 /\ gno' = [gno EXCEPT ![t] = 0]
                 /\ UNCHANGED <<bits, blk, tmp, direct, durable>>
            ELSE UNCHANGED bits /\ Return(t)
    /\ UNCHANGED <<used_block, panicked, raced>>

\* One group of the scan of cache_alloc; behind the last one it panics.
cache_alloc(t) ==
    /\ Runs(t) /\ pc[t] = "alloc" /\ BitmapFree(gno[t])
    /\ IF FreeOffsets(gno[t]) # {}
       THEN TakeBlock(t, gno[t]) /\ UNCHANGED panicked
       ELSE /\ UNCHANGED <<bits, blk, pc>>
            /\ IF gno[t] + 1 < num_groups
               THEN gno' = [gno EXCEPT ![t] = gno[t] + 1] /\ UNCHANGED panicked
               ELSE panicked' = TRUE /\ UNCHANGED gno
    /\ UNCHANGED <<used_block, mapped, tmp, direct, durable, raced>>

\* The data block is read and cleared; its acquisition may sleep.
zero_block(t) ==
    /\ Runs(t) /\ pc[t] = "zero"
    /\ Goto(t, "inc")
    /\ UNCHANGED <<bits, used_block, mapped, gno, blk, tmp, direct, durable, panicked, raced>>

\* Threads between the load and the store of the counter of group h.
Updating(h) == {t \in Thread : pc[t] \in {"store", "dec"} /\ gno[t] = h}

\* used_block[h]++, without a lock, and back in inode_map the address of the
\* block is stored in the inode or in the indirect block.
inc_load(t) ==
    /\ Runs(t) /\ pc[t] = "inc"
    /\ tmp' = [tmp EXCEPT ![t] = used_block[gno[t]]]
    /\ raced' = (raced \/ Updating(gno[t]) # {})
    /\ Goto(t, "store")
    /\ UNCHANGED <<bits, used_block, mapped, gno, blk, direct, durable, panicked>>

inc_store(t) ==
    /\ Runs(t) /\ pc[t] = "store"
    /\ used_block' = [used_block EXCEPT ![gno[t]] = (tmp[t] + 1) % Word]
    /\ mapped' = mapped \union {blk[t]}
    /\ UNCHANGED <<bits, panicked, raced>>
    /\ Return(t)

-----------------------------------------------------------------------------
(* cache_free *)

\* inode_clear drops a block of an inode that it holds.
free_begin(t, b) ==
    /\ Runs(t) /\ pc[t] = "idle" /\ b \in mapped
    /\ mapped' = mapped \ {b}
    /\ blk' = [blk EXCEPT ![t] = b]
    /\ gno' = [gno EXCEPT ![t] = group_of(b)]
    /\ Goto(t, "free")
    /\ UNCHANGED <<bits, used_block, tmp, direct, durable, panicked, raced>>

\* Lock the bitmap, check the bit and load the counter.
free_load(t) ==
    /\ Runs(t) /\ pc[t] = "free" /\ BitmapFree(gno[t])
    /\ IF block_no(gno[t], offset_of(blk[t])) \in bits
       THEN /\ tmp' = [tmp EXCEPT ![t] = used_block[gno[t]]]
            /\ raced' = (raced \/ Updating(gno[t]) # {})
            /\ Goto(t, "dec")
            /\ UNCHANGED panicked
       ELSE panicked' = TRUE /\ UNCHANGED <<tmp, raced, pc>>
    /\ UNCHANGED <<bits, used_block, mapped, gno, blk, direct, durable>>

\* used_block[h]--, and the bitmap is unlocked.
free_store(t) ==
    /\ Runs(t) /\ pc[t] = "dec"
    /\ bits' = bits \ {block_no(gno[t], offset_of(blk[t]))}
    /\ used_block' = [used_block EXCEPT ![gno[t]] = (tmp[t] - 1) % Word]
    /\ UNCHANGED <<mapped, panicked, raced>>
    /\ Return(t)

-----------------------------------------------------------------------------
\* A variant whose boot does not count the blocks in use.
reboot_uncounted ==
    /\ bits' = durable.bits
    /\ mapped' = durable.mapped
    /\ used_block' = [h \in Group |-> 0]
    /\ pc' = [t \in Thread |-> "idle"]
    /\ gno' = [t \in Thread |-> 0]
    /\ blk' = [t \in Thread |-> NoBlock]
    /\ tmp' = [t \in Thread |-> 0]
    /\ direct' = [t \in Thread |-> FALSE]
    /\ panicked' = FALSE /\ raced' = FALSE
    /\ UNCHANGED durable

\* Power loss and boot: the log brings back the last commit, and
\* init_filesystem counts the data blocks of every group.
reboot ==
    /\ bits' = durable.bits
    /\ mapped' = durable.mapped
    /\ used_block' = [h \in Group |-> Counted(h, durable.bits)]
    /\ pc' = [t \in Thread |-> "idle"]
    /\ gno' = [t \in Thread |-> 0]
    /\ blk' = [t \in Thread |-> NoBlock]
    /\ tmp' = [t \in Thread |-> 0]
    /\ direct' = [t \in Thread |-> FALSE]
    /\ panicked' = FALSE /\ raced' = FALSE
    /\ UNCHANGED durable

Step(t) ==
    \/ search(t) \/ cache_allocg(t) \/ cache_alloc(t) \/ zero_block(t)
    \/ inc_load(t) \/ inc_store(t) \/ free_load(t) \/ free_store(t)

Next ==
    \/ \E t \in Thread :
          \/ Step(t)
          \/ \E ino \in InodeNo : map_direct(t, ino)
          \/ \E index \in 0 .. (MaxIndirect - 1) : map_indirect(t, index)
          \/ \E b \in mapped : free_begin(t, b)
    \/ reboot

Spec == Init /\ [][Next]_vars

-----------------------------------------------------------------------------
(* Properties *)

\* The data blocks that threads hold between the bitmap and the inode.
InFlight == {t \in Thread : blk[t] # NoBlock}

\* No data block is lost and none is handed out twice: the set bits are the
\* metadata of the groups, the blocks of the inodes and the blocks that
\* threads are about to record or to free, and these do not overlap; the
\* last commit has no block in between.  (cache_alloc, cache_allocg,
\* cache_free, and the log across a crash)
BlocksPartitioned ==
    /\ bits = MetaBits \union mapped \union {blk[t] : t \in InFlight}
    /\ \A t \in InFlight : blk[t] \in DataBlock \ mapped
    /\ \A t, u \in InFlight : t # u => blk[t] # blk[u]
    /\ durable.bits = MetaBits \union durable.mapped

\* The assertion of cache_free never fails: the only panic is the one of
\* cache_alloc on a full disk.
FreeFindsBitSet == panicked => \E t \in Thread : pc[t] = "alloc"

\* used_block[h] is the number of data blocks in use in group h, but for the
\* blocks whose threads have not come to the increment yet (inode_map and
\* inode_alloc_group choose groups by it): unless two updates of one counter
\* have overlapped, since the increments run outside of every lock.
UsedBlockExact ==
    ~raced => \A h \in Group :
        used_block[h] + Cardinality({t \in Thread : gno[t] = h /\ pc[t] \in {"zero", "inc", "store"}})
            = Counted(h, bits)
=============================================================================
