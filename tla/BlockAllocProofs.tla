-------------------------- MODULE BlockAllocProofs --------------------------
(***************************************************************************)
(* Theorems about the layout of the disk (module DiskLayout) and about the *)
(* allocation of data blocks (module BlockAlloc), for every number of      *)
(* threads and CPUs and every geometry of the disk.                        *)
(*                                                                         *)
(* The layout arithmetic is one to one: no two inodes share an entry, no   *)
(* two (group, offset) pairs share a block, and the areas of the disk do   *)
(* not overlap.  On it rest the theorems about allocation: no block is     *)
(* lost or handed out twice, and no assertion of cache_free fails.         *)
(***************************************************************************)
EXTENDS BlockAlloc, FiniteSetTheorems, WellFoundedInduction, TLAPS

-----------------------------------------------------------------------------
(* The layout *)


\* Division with remainder is unique.
LEMMA DivUnique ==
    ASSUME NEW n \in Nat \ {0}, NEW q \in Int, NEW r \in 0 .. (n - 1)
    PROVE  /\ (n * q + r) \div n = q
           /\ (n * q + r) % n = r
  OBVIOUS

\* What \div and % return.
LEMMA DivMod ==
    ASSUME NEW n \in Nat \ {0}, NEW a \in Int
    PROVE  /\ a \div n \in Int
           /\ a % n \in 0 .. (n - 1)
           /\ a = n * (a \div n) + (a % n)
  OBVIOUS

\* Multiplication by a positive number keeps the order.
LEMMA TimesMonotone ==
    ASSUME NEW n \in Nat \ {0}, NEW a \in Int, NEW b \in Int, a <= b
    PROVE  n * a \in Int /\ n * b \in Int /\ n * a <= n * b
  OBVIOUS

\* The quotient of a smaller number is not larger.
LEMMA DivMonotone ==
    ASSUME NEW n \in Nat \ {0}, NEW a \in Nat, NEW b \in Nat, a <= b
    PROVE  a \div n \in Nat /\ a \div n <= b \div n
  OBVIOUS

\* The super block describes at least one inode block, and data blocks
\* behind the metadata of every group.
LEMMA LayoutTypes ==
    /\ num_inodeblocks_per_group \in Nat \ {0}
    /\ bitmap_start_per_group \in Offset
    /\ data_start_per_group \in Offset
    /\ num_datablocks_per_group \in Nat \ {0}
    /\ bg_start \in Nat
  <1>1. GINODES \div INODE_PER_BLOCK \in Nat
    BY LayoutAssumption, DivMonotone
  <1> QED
    BY <1>1, LayoutAssumption
    DEF num_inodeblocks_per_group, bitmap_start_per_group, data_start_per_group,
        num_bitmap_per_group, num_datablocks_per_group, bg_start, Offset

\* cache_free finds back the group and the offset from which cache_alloc
\* made the block number: it clears the bit that cache_alloc has set.
THEOREM BlockNoRoundTrip ==
    ASSUME NEW h \in Group, NEW off \in Offset
    PROVE  group_of(block_no(h, off)) = h /\ offset_of(block_no(h, off)) = off
  <1>1. block_no(h, off) - bg_start = blocks_per_group * h + off
    BY LayoutAssumption, LayoutTypes DEF block_no, Group, Offset
  <1> QED
    BY <1>1, LayoutAssumption, DivUnique DEF group_of, offset_of, Group, Offset

\* Two (group, offset) pairs never have the same block number.
THEOREM BlockNoInjective ==
    ASSUME NEW h \in Group, NEW off \in Offset, NEW h2 \in Group, NEW off2 \in Offset,
           block_no(h, off) = block_no(h2, off2)
    PROVE  h = h2 /\ off = off2
  BY BlockNoRoundTrip, Zenon

\* An inode lives in an inode block of its group: to_block_no never returns
\* a bitmap block, a data block or a block of another group.
THEOREM InodeBlockInGroup ==
    ASSUME NEW ino \in InodeNo
    PROVE  /\ inode_group(ino) \in Group
           /\ \E k \in 0 .. (num_inodeblocks_per_group - 1) :
                 /\ k = ((ino - 1) % GINODES) \div INODE_PER_BLOCK
                 /\ to_block_no(ino) = block_no(inode_group(ino), k)
  <1> DEFINE g == (ino - 1) \div GINODES
             r == (ino - 1) % GINODES
             k == r \div INODE_PER_BLOCK
  <1>1. g \in Int /\ r \in 0 .. (GINODES - 1) /\ ino - 1 = GINODES * g + r
    BY LayoutAssumption, DivMod DEF InodeNo
  <1>2. g \in 0 .. (num_groups - 1)
    <2>1. ino - 1 >= 0 /\ ino - 1 < GINODES * num_groups
      BY LayoutAssumption DEF InodeNo
    <2>2. g >= 0
      <3>1. SUFFICES ASSUME g <= -1 PROVE FALSE
        BY <1>1
      <3>2. GINODES * g <= -GINODES
        <4> HIDE DEF g
        <4> QED BY <1>1, <3>1, LayoutAssumption, TimesMonotone
      <3> QED BY <1>1, <2>1, <3>2, LayoutAssumption
    <2>3. g < num_groups
      <3>1. SUFFICES ASSUME g >= num_groups PROVE FALSE
        BY <1>1, LayoutAssumption
      <3>2. GINODES * g >= GINODES * num_groups
        <4> HIDE DEF g
        <4> QED BY <1>1, <3>1, LayoutAssumption, TimesMonotone
      <3> QED BY <1>1, <2>1, <3>2, LayoutAssumption
    <2> QED BY <1>1, <2>2, <2>3, LayoutAssumption
  <1>3. k \in 0 .. (num_inodeblocks_per_group - 1)
    <2>1. k \in Nat /\ k <= GINODES \div INODE_PER_BLOCK
      BY <1>1, DivMonotone, LayoutAssumption
    <2>2. GINODES \div INODE_PER_BLOCK \in Nat
      BY DivMonotone, LayoutAssumption
    <2> QED BY <2>1, <2>2 DEF num_inodeblocks_per_group
  <1>4. to_block_no(ino) = block_no(g, k)
    <2> HIDE DEF g, k
    <2>1. blocks_per_group * g = g * blocks_per_group
      BY <1>2, LayoutAssumption
    <2> QED BY <2>1, LayoutTypes, Zenon DEF to_block_no, block_no, g, k, r
  <1> QED BY <1>2, <1>3, <1>4, Zenon DEF inode_group, Group

\* No two inodes share an entry of an inode block, although get_entry takes
\* the inode number itself modulo INODE_PER_BLOCK and to_block_no counts from
\* the first inode of the group.
THEOREM InodeEntriesDistinct ==
    ASSUME NEW ino \in InodeNo, NEW ino2 \in InodeNo,
           to_block_no(ino) = to_block_no(ino2),
           get_entry(ino) = get_entry(ino2)
    PROVE  ino = ino2
  <1> DEFINE K == INODE_PER_BLOCK
  <1>0. K \in Nat \ {0} /\ GINODES \in Nat \ {0} /\ ino \in Int /\ ino2 \in Int
        /\ ino - 1 \in Int /\ ino2 - 1 \in Int
    BY LayoutAssumption DEF InodeNo
  <1> HIDE DEF K
  <1>1. PICK k \in 0 .. (num_inodeblocks_per_group - 1) :
            /\ k = ((ino - 1) % GINODES) \div K
            /\ to_block_no(ino) = block_no(inode_group(ino), k)
    BY InodeBlockInGroup, Zenon DEF K
  <1>2. PICK k2 \in 0 .. (num_inodeblocks_per_group - 1) :
            /\ k2 = ((ino2 - 1) % GINODES) \div K
            /\ to_block_no(ino2) = block_no(inode_group(ino2), k2)
    BY InodeBlockInGroup, Zenon DEF K
  <1>3. k \in Offset /\ k2 \in Offset
    BY <1>1, <1>2, LayoutTypes, LayoutAssumption DEF Offset, bitmap_start_per_group
  <1>4. inode_group(ino) = inode_group(ino2) /\ k = k2
    <2>1. inode_group(ino) \in Group /\ inode_group(ino2) \in Group
      BY InodeBlockInGroup, Zenon
    <2>2. block_no(inode_group(ino), k) = block_no(inode_group(ino2), k2)
      BY <1>1, <1>2, ZenonT(40)
    <2> QED BY <1>3, <2>1, <2>2, BlockNoInjective
  <1>5. PICK g \in Int, r \in 0 .. (GINODES - 1) :
            g = inode_group(ino) /\ r = (ino - 1) % GINODES /\ ino - 1 = GINODES * g + r
    BY <1>0, DivMod, ZenonT(40) DEF inode_group
  <1>6. PICK r2 \in 0 .. (GINODES - 1) :
            r2 = (ino2 - 1) % GINODES /\ ino2 - 1 = GINODES * g + r2
    <2>1. (ino2 - 1) \div GINODES = g
      BY <1>4, <1>5, Zenon DEF inode_group
    <2>2. /\ (ino2 - 1) % GINODES \in 0 .. (GINODES - 1)
          /\ ino2 - 1 = GINODES * ((ino2 - 1) \div GINODES) + ((ino2 - 1) % GINODES)
      BY <1>0, DivMod, Zenon
    <2> QED BY <2>1, <2>2, Zenon
  <1>7. PICK s \in 0 .. (K - 1) : r = K * k + s
    <2>1. r \in Int /\ k = r \div K
      BY <1>0, <1>1, <1>5
    <2> QED BY <1>0, <2>1, DivMod, Zenon
  <1>8. PICK s2 \in 0 .. (K - 1) : r2 = K * k + s2
    <2>1. r2 \in Int /\ k = r2 \div K
      BY <1>0, <1>2, <1>4, <1>6
    <2> QED BY <1>0, <2>1, DivMod, Zenon
  <1>9. ino - ino2 = s - s2
    <2>1. K * k \in Int /\ GINODES * g \in Int
      BY <1>0, <1>3, LayoutAssumption DEF Offset
    <2> QED BY <2>1, <1>0, <1>5, <1>6, <1>7, <1>8
  <1>10. PICK q \in Int, q2 \in Int, e \in 0 .. (K - 1) : ino = K * q + e /\ ino2 = K * q2 + e
    <2>1. /\ ino \div K \in Int /\ ino % K \in 0 .. (K - 1) /\ ino = K * (ino \div K) + (ino % K)
          /\ ino2 \div K \in Int /\ ino2 = K * (ino2 \div K) + (ino2 % K)
      BY <1>0, DivMod, Zenon
    <2>2. ino % K = ino2 % K
      BY Zenon DEF get_entry, K
    <2> QED BY <2>1, <2>2, Zenon
  <1>11. K * (q - q2) = s - s2
    <2>1. K * (q - q2) = K * q - K * q2
      BY <1>0
    <2> QED BY <1>0, <2>1, <1>9, <1>10
  <1>12. q = q2
    <2>1. CASE q - q2 >= 1
      <3>1. K * (q - q2) >= K
        BY <2>1, <1>0
      <3> QED BY <3>1, <1>0, <1>11
    <2>2. CASE q - q2 <= -1
      <3>1. K * (q - q2) <= -K
        BY <2>2, <1>0
      <3> QED BY <3>1, <1>0, <1>11
    <2> QED BY <2>1, <2>2
  <1> QED BY <1>10, <1>12, Zenon

\* The log ends where the groups begin: the last block that init_bcache
\* counts into log_size is in front of the first inode block.
THEOREM LogBeforeGroups ==
    ASSUME NEW i \in 0 .. (log_size - 1), NEW h \in Group, NEW off \in Offset
    PROVE  log_start < log_block(i) /\ log_block(i) < block_no(h, off)
  <1>1. h * blocks_per_group \in Nat
    BY LayoutAssumption DEF Group
  <1> QED
    BY <1>1, LayoutAssumption
    DEF log_size, log_start, log_block, block_no, bg_start, Offset

-----------------------------------------------------------------------------
(* The invariant *)

Holding == {"zero", "inc", "store", "free", "dec"}

\* The inductive invariant.  A thread holds a block exactly between the
\* bitmap and the inode, and gno is then the group of that block.
AInv ==
    /\ TypeOK
    /\ \A t \in Thread : pc[t] \in Holding <=> blk[t] # NoBlock
    /\ \A t \in Thread : blk[t] # NoBlock => gno[t] = group_of(blk[t])
    /\ BlocksPartitioned
    /\ FreeFindsBitSet

-----------------------------------------------------------------------------
(* Facts about blocks and counters *)

\* A nonempty set of offsets has a least element, and Min returns it.
LEMMA MinInSet ==
    ASSUME NEW S, S \subseteq Nat, S # {}
    PROVE  Min(S) \in S
  <1> DEFINE Less == {ss \in Nat \X Nat : ss[1] < ss[2]}
  <1>1. IsWellFoundedOn(Less, Nat)
    BY NatLessThanWellFounded, Zenon DEF OpToRel
  <1> HIDE DEF Less
  <1>2. PICK x \in S : \A y \in S : ~(<<y, x>> \in Less)
    BY <1>1, WFMin, ZenonT(40)
  <1>3. \A y \in S : x <= y
    <2>1. SUFFICES ASSUME NEW y \in S, y < x PROVE FALSE
      OBVIOUS
    <2>2. <<y, x>> \in Nat \X Nat /\ <<y, x>>[1] < <<y, x>>[2]
      BY <2>1, Zenon
    <2>3. <<y, x>> \in Less
      BY <2>2, Zenon DEF Less
    <2> QED BY <1>2, <2>3, Zenon
  <1> QED BY <1>3, Zenon DEF Min

\* Block numbers are positive, so 0 is no block.
LEMMA ZeroIsNoBlock == NoBlock \notin Block
  <1>1. SUFFICES ASSUME NEW h \in Group, NEW off \in Offset PROVE block_no(h, off) # 0
    BY DEF Block, NoBlock
  <1>2. h * blocks_per_group \in Nat
    BY LayoutAssumption DEF Group
  <1> QED BY <1>2, LayoutAssumption DEF block_no, bg_start, Offset

\* Data blocks are blocks.
LEMMA DataInBlock == DataBlock \subseteq Block
  <1>1. DataOffset \subseteq Offset
    BY LayoutTypes DEF DataOffset, Offset
  <1> QED BY <1>1 DEF DataBlock, Block

\* The group and the offset of a block give the block back.
LEMMA BlockParts ==
    ASSUME NEW b \in Block
    PROVE  /\ group_of(b) \in Group
           /\ block_no(group_of(b), offset_of(b)) = b
  BY BlockNoRoundTrip DEF Block

\* The blocks in use in a group fit in used_block.
LEMMA CountedRange ==
    ASSUME NEW h \in Group, NEW b
    PROVE  Counted(h, b) \in 0 .. (Word - 1)
  <1> DEFINE S == {off \in DataOffset : block_no(h, off) \in b}
  <1>0. data_start_per_group \in Int /\ blocks_per_group - 1 \in Int
    BY LayoutTypes, LayoutAssumption DEF Offset
  <1>1. IsFiniteSet(DataOffset) /\ Cardinality(DataOffset) <= blocks_per_group
    BY <1>0, FS_Interval, LayoutTypes, LayoutAssumption DEF DataOffset, Offset
  <1>2. Cardinality(S) \in Nat /\ Cardinality(S) <= Cardinality(DataOffset)
    BY <1>1, FS_Subset, FS_CardinalityType, Zenon
  <1>3. Cardinality(DataOffset) \in Nat
    BY <1>1, FS_CardinalityType, Zenon
  <1> QED BY <1>1, <1>2, <1>3, AllocAssumption, LayoutAssumption DEF Counted

-----------------------------------------------------------------------------
(* The invariant holds initially and every step keeps it *)

\* After mkfs only the metadata of the groups is in use.
LEMMA InitAInv ==
    ASSUME Init
    PROVE  AInv
  <1>1. TypeOK
    <2>1. used_block \in [Group -> 0 .. (Word - 1)]
      BY CountedRange, Zenon DEF Init
    <2>2. 0 \in Group /\ 0 \in 0 .. (Word - 1)
      BY LayoutAssumption, AllocAssumption DEF Group
    <2>3. MetaBits \subseteq Block
      BY Zenon DEF MetaBits
    <2> QED BY <2>1, <2>2, <2>3, Zenon DEF Init, TypeOK
  <1>2. \A t \in Thread : pc[t] = "idle" /\ blk[t] = NoBlock
    BY Zenon DEF Init
  <1>3. BlocksPartitioned
    BY <1>2, Zenon DEF Init, BlocksPartitioned, InFlight
  <1> QED BY <1>1, <1>2, <1>3, Zenon DEF AInv, Holding, FreeFindsBitSet, Init

\* A step of inode_map or of the counter, which leaves the bitmaps and the
\* blocks alone, keeps the blocks partitioned.
LEMMA QuietPartition ==
    ASSUME AInv, UNCHANGED <<bits, mapped, blk, durable>>
    PROVE  BlocksPartitioned'
  BY Zenon DEF AInv, BlocksPartitioned, InFlight

\* The steps of inode_map that pick a group.
LEMMA MapStep ==
    ASSUME AInv, NEW t \in Thread,
           \/ \E ino \in InodeNo : map_direct(t, ino)
           \/ \E index \in 0 .. (MaxIndirect - 1) : map_indirect(t, index)
           \/ search(t)
    PROVE  AInv'
  <1>1. PICK g \in Group : gno' = [gno EXCEPT ![t] = g]
    <2>1. CASE \E ino \in InodeNo : map_direct(t, ino)
      BY <2>1, InodeBlockInGroup, ZenonT(40) DEF map_direct
    <2>2. CASE \E index \in 0 .. (MaxIndirect - 1) : map_indirect(t, index)
      <3>1. PICK index \in 0 .. (MaxIndirect - 1) : map_indirect(t, index)
        BY <2>2, Zenon
      <3>2. PICK x \in Int : x = (index \div NINBLOCKS_PER_GROUP) + 1
        <4>1. index \div NINBLOCKS_PER_GROUP \in Int
          BY DivMod, AllocAssumption
        <4> QED BY <4>1
      <3>3. x % num_groups \in Group
        BY DivMod, LayoutAssumption, Zenon DEF Group
      <3> QED BY <3>1, <3>2, <3>3, Zenon DEF map_indirect
    <2>3. CASE search(t)
      BY <2>3, ZenonT(40) DEF search
    <2> QED BY <2>1, <2>2, <2>3, Zenon
  <1>2. /\ UNCHANGED <<bits, used_block, mapped, blk, tmp, durable, panicked, raced>>
        /\ pc[t] \in {"idle", "search"}
        /\ ~panicked
        /\ pc' = [pc EXCEPT ![t] = "allocg"] \/ pc' = [pc EXCEPT ![t] = "search"]
        /\ direct' \in [Thread -> BOOLEAN]
    BY ZenonT(40) DEF AInv, TypeOK, map_direct, map_indirect, search, Runs, Goto
  <1>3. TypeOK'
    BY <1>1, <1>2, ZenonT(40) DEF AInv, TypeOK
  <1>4. blk[t] = NoBlock
    BY <1>2, Zenon DEF AInv, Holding
  <1>5. \A u \in Thread : /\ pc'[u] \in Holding <=> blk'[u] # NoBlock
                          /\ blk'[u] # NoBlock => gno'[u] = group_of(blk'[u])
    BY <1>1, <1>2, <1>4, Zenon DEF AInv, TypeOK, Holding
  <1> QED BY <1>2, <1>3, <1>5, QuietPartition, Zenon DEF AInv, FreeFindsBitSet

\* The load of used_block, and the clearing of the new block.
LEMMA LoadStep ==
    ASSUME AInv, NEW t \in Thread, zero_block(t) \/ inc_load(t)
    PROVE  AInv'
  <1>1. /\ UNCHANGED <<bits, used_block, mapped, gno, blk, direct, durable, panicked>>
        /\ raced' \in BOOLEAN
        /\ pc[t] \in Holding
        /\ ~panicked
        /\ pc' = [pc EXCEPT ![t] = "inc"] \/ pc' = [pc EXCEPT ![t] = "store"]
        /\ tmp' \in [Thread -> 0 .. (Word - 1)]
    BY ZenonT(40) DEF AInv, TypeOK, zero_block, inc_load, Runs, Goto, Holding
  <1>2. TypeOK'
    BY <1>1, Zenon DEF AInv, TypeOK
  <1>3. \A u \in Thread : /\ pc'[u] \in Holding <=> blk'[u] # NoBlock
                          /\ blk'[u] # NoBlock => gno'[u] = group_of(blk'[u])
    BY <1>1, Zenon DEF AInv, TypeOK, Holding
  <1> QED BY <1>1, <1>2, <1>3, QuietPartition, Zenon DEF AInv, FreeFindsBitSet

\* A free block of a bitmap is a data block that no inode and no thread has.
LEMMA FreeIsNobodys ==
    ASSUME AInv, NEW h \in Group, FreeOffsets(h) # {}
    PROVE  LET b == block_no(h, Min(FreeOffsets(h)))
           IN  /\ b \in DataBlock /\ b \notin bits /\ group_of(b) = h
               /\ b \notin mapped
               /\ \A u \in InFlight : blk[u] # b
  <1>1. FreeOffsets(h) \subseteq Nat
    BY DEF FreeOffsets, Offset
  <1>2. PICK off \in Offset : off = Min(FreeOffsets(h)) /\ block_no(h, off) \notin bits
    BY <1>1, MinInSet, Zenon DEF FreeOffsets
  <1>3. block_no(h, off) \in Block
    BY DEF Block
  <1>4. block_no(h, off) \in DataBlock
    BY <1>2, <1>3, Zenon DEF AInv, BlocksPartitioned, MetaBits
  <1> QED BY <1>2, <1>4, BlockNoRoundTrip, Zenon DEF AInv, BlocksPartitioned

\* Taking a block out of the bitmap of group h.
LEMMA TakeStep ==
    ASSUME AInv, NEW t \in Thread, NEW h \in Group, FreeOffsets(h) # {},
           ~panicked, pc[t] \in {"allocg", "alloc"}, TakeBlock(t, h),
           UNCHANGED <<used_block, mapped, tmp, direct, durable, panicked, raced>>
    PROVE  AInv'
  <1>1. PICK b \in DataBlock :
            /\ b = block_no(h, Min(FreeOffsets(h)))
            /\ group_of(b) = h
            /\ b \notin bits /\ b \notin mapped
            /\ \A u \in InFlight : blk[u] # b
    BY FreeIsNobodys, Zenon
  <1>2. /\ bits' = bits \union {b}
        /\ blk' = [blk EXCEPT ![t] = b]
        /\ gno' = [gno EXCEPT ![t] = h]
        /\ pc' = [pc EXCEPT ![t] = "zero"]
    BY <1>1, Zenon DEF TakeBlock, Goto
  <1>3. b # NoBlock /\ b \in Block
    BY ZeroIsNoBlock, DataInBlock, Zenon
  <1>4. TypeOK'
    BY <1>2, <1>3, Zenon DEF AInv, TypeOK
  <1>5. blk[t] = NoBlock
    BY Zenon DEF AInv, Holding
  <1>6. \A u \in Thread : /\ pc'[u] \in Holding <=> blk'[u] # NoBlock
                          /\ blk'[u] # NoBlock => gno'[u] = group_of(blk'[u])
    BY <1>1, <1>2, <1>3, Zenon DEF AInv, TypeOK, Holding
  <1>7. /\ InFlight' = InFlight \union {t} /\ t \notin InFlight
        /\ blk'[t] = b
        /\ \A u \in InFlight : blk'[u] = blk[u]
    BY <1>2, <1>3, <1>5, Zenon DEF AInv, TypeOK, InFlight
  <1>8. BlocksPartitioned'
    BY <1>1, <1>2, <1>7 DEF AInv, BlocksPartitioned
  <1> QED BY <1>4, <1>6, <1>8, Zenon DEF AInv, FreeFindsBitSet

\* cache_allocg, with its two ways to fail.
LEMMA AllocgStep ==
    ASSUME AInv, NEW t \in Thread, cache_allocg(t)
    PROVE  AInv'
  <1>1. gno[t] \in Group /\ ~panicked /\ pc[t] = "allocg"
    BY Zenon DEF AInv, TypeOK, cache_allocg, Runs
  <1>2. CASE FreeOffsets(gno[t]) # {}
    BY <1>1, <1>2, TakeStep, Zenon DEF cache_allocg
  <1>3. CASE FreeOffsets(gno[t]) = {}
    <2>0. blk[t] = NoBlock
      BY <1>1, Zenon DEF AInv, Holding
    <2>1. /\ UNCHANGED <<bits, used_block, mapped, panicked>>
          /\ gno' = [gno EXCEPT ![t] = 0]
          /\ pc' = [pc EXCEPT ![t] = "alloc"] \/ pc' = [pc EXCEPT ![t] = "idle"]
          /\ tmp' = tmp \/ tmp' = [tmp EXCEPT ![t] = 0]
          /\ direct' = direct \/ direct' = [direct EXCEPT ![t] = FALSE]
          /\ raced' \in BOOLEAN
      BY <1>3, Zenon DEF AInv, TypeOK, cache_allocg, Return, Goto
    <2>2. blk' = blk
      BY <1>3, <2>0, Zenon DEF AInv, TypeOK, cache_allocg, Return
    <2>3. 0 \in Group /\ 0 \in 0 .. (Word - 1)
      BY LayoutAssumption, AllocAssumption DEF Group
    <2>4. \A u \in Thread : /\ pc'[u] \in Holding <=> blk'[u] # NoBlock
                            /\ blk'[u] # NoBlock => gno'[u] = group_of(blk'[u])
      BY <2>0, <2>1, <2>2, Zenon DEF AInv, TypeOK, Holding
    <2>5. durable' = durable
             \/ (durable' = [bits |-> bits, mapped |-> mapped] /\ \A u \in Thread : blk[u] = NoBlock)
      <3>1. CASE direct[t]
        BY <1>3, <3>1, Zenon DEF cache_allocg
      <3>2. CASE ~direct[t]
        <4>1. durable' = durable \/ (durable' = [bits |-> bits, mapped |-> mapped]
                                      /\ \A u \in Thread \ {t} : pc[u] = "idle")
          BY <1>3, <2>1, <3>2, Zenon DEF cache_allocg, Return
        <4> QED BY <4>1, <2>0, Zenon DEF AInv, Holding
      <3> QED BY <3>1, <3>2, Zenon
    <2>6. TypeOK'
      <3>1. durable' \in [bits : SUBSET Block, mapped : SUBSET DataBlock]
        BY <2>5 DEF AInv, TypeOK
      <3>2. pc' \in [Thread -> {"idle", "search", "allocg", "alloc", "zero", "inc", "store", "free", "dec"}]
        BY <2>1, Zenon DEF AInv, TypeOK
      <3>3. gno' \in [Thread -> Group] /\ tmp' \in [Thread -> 0 .. (Word - 1)]
        BY <2>1, <2>3 DEF AInv, TypeOK
      <3>4. direct' \in [Thread -> BOOLEAN]
        BY <2>1, ZenonT(40) DEF AInv, TypeOK
      <3> QED BY <2>1, <2>2, <3>1, <3>2, <3>3, <3>4, Zenon DEF AInv, TypeOK
    <2>7. BlocksPartitioned'
      <3>1. durable'.bits = MetaBits \union durable'.mapped
        BY <2>5 DEF AInv, BlocksPartitioned, InFlight
      <3> QED BY <2>1, <2>2, <3>1 DEF AInv, BlocksPartitioned, InFlight
    <2> QED BY <1>1, <2>1, <2>4, <2>6, <2>7, Zenon DEF AInv, FreeFindsBitSet
  <1> QED BY <1>2, <1>3, Zenon

\* One group of the scan of cache_alloc.
LEMMA AllocStep ==
    ASSUME AInv, NEW t \in Thread, cache_alloc(t)
    PROVE  AInv'
  <1>1. gno[t] \in Group /\ ~panicked /\ pc[t] = "alloc"
    BY Zenon DEF AInv, TypeOK, cache_alloc, Runs
  <1>2. CASE FreeOffsets(gno[t]) # {}
    BY <1>1, <1>2, TakeStep, Zenon DEF cache_alloc
  <1>3. CASE FreeOffsets(gno[t]) = {}
    <2>1. /\ UNCHANGED <<bits, blk, pc, used_block, mapped, tmp, direct, durable, raced>>
          /\ panicked' \in BOOLEAN
          /\ gno' = gno \/ (gno[t] + 1 < num_groups /\ gno' = [gno EXCEPT ![t] = gno[t] + 1])
      BY <1>3, ZenonT(40) DEF AInv, TypeOK, cache_alloc
    <2>2. TypeOK'
      <3>1. gno[t] + 1 < num_groups => gno[t] + 1 \in Group
        BY <1>1, LayoutAssumption DEF Group
      <3> QED BY <2>1, <3>1 DEF AInv, TypeOK
    <2>3. blk[t] = NoBlock
      BY <1>1, Zenon DEF AInv, Holding
    <2>4. \A u \in Thread : /\ pc'[u] \in Holding <=> blk'[u] # NoBlock
                            /\ blk'[u] # NoBlock => gno'[u] = group_of(blk'[u])
      BY <2>1, <2>3, Zenon DEF AInv, TypeOK, Holding
    <2> QED BY <1>1, <2>1, <2>2, <2>4, QuietPartition, Zenon DEF AInv, FreeFindsBitSet
  <1> QED BY <1>2, <1>3, Zenon

\* The last steps of a thread that gives up its block: the block goes to an
\* inode (keeps its bit) or loses its bit.
LEMMA ReturnStep ==
    ASSUME AInv, NEW t \in Thread, ~panicked, UNCHANGED <<panicked, raced>>,
           Return(t), blk[t] # NoBlock,
           used_block' \in [Group -> 0 .. (Word - 1)],
           \/ bits' = bits /\ mapped' = mapped \union {blk[t]}
           \/ bits' = bits \ {blk[t]} /\ mapped' = mapped
    PROVE  AInv'
  <1>1. /\ pc' = [pc EXCEPT ![t] = "idle"] /\ gno' = [gno EXCEPT ![t] = 0]
        /\ blk' = [blk EXCEPT ![t] = NoBlock] /\ tmp' = [tmp EXCEPT ![t] = 0]
        /\ direct' = [direct EXCEPT ![t] = FALSE]
    BY Zenon DEF Return, Goto
  <1>2. 0 \in Group /\ 0 \in 0 .. (Word - 1)
    BY LayoutAssumption, AllocAssumption DEF Group
  <1>3. PICK b \in DataBlock : b = blk[t] /\ b \notin mapped /\ b \in Block
    BY DataInBlock, Zenon DEF AInv, BlocksPartitioned, InFlight
  <1>4. /\ t \in InFlight /\ InFlight' = InFlight \ {t}
        /\ \A u \in InFlight \ {t} : blk'[u] = blk[u] /\ blk[u] # b
    BY <1>1, <1>3, ZenonT(40) DEF AInv, TypeOK, BlocksPartitioned, InFlight
  <1>5. /\ bits' = MetaBits \union mapped' \union {blk'[u] : u \in InFlight'}
        /\ \A u \in InFlight' : blk'[u] \in DataBlock \ mapped'
        /\ \A u, v \in InFlight' : u # v => blk'[u] # blk'[v]
    <2>1. b \notin MetaBits
      BY <1>3, Zenon DEF MetaBits
    <2> QED BY <1>3, <1>4, <2>1 DEF AInv, BlocksPartitioned
  <1>6. durable' = durable
           \/ (durable' = [bits |-> bits', mapped |-> mapped'] /\ InFlight' = {})
    <2>1. durable' = durable \/ (durable' = [bits |-> bits', mapped |-> mapped']
                                  /\ \A u \in Thread \ {t} : pc[u] = "idle")
      BY Zenon DEF Return
    <2> QED BY <1>4, <2>1, Zenon DEF AInv, Holding, InFlight
  <1>7. bits' \subseteq Block /\ mapped' \subseteq DataBlock
    BY <1>3, Zenon DEF AInv, TypeOK
  <1>8. TypeOK'
    <2>1. durable' \in [bits : SUBSET Block, mapped : SUBSET DataBlock]
      BY <1>6, <1>7 DEF AInv, TypeOK
    <2> QED BY <1>1, <1>2, <1>7, <2>1, Zenon DEF AInv, TypeOK
  <1>9. durable'.bits = MetaBits \union durable'.mapped
    BY <1>5, <1>6 DEF AInv, BlocksPartitioned
  <1>10. \A u \in Thread : /\ pc'[u] \in Holding <=> blk'[u] # NoBlock
                           /\ blk'[u] # NoBlock => gno'[u] = group_of(blk'[u])
    BY <1>1, Zenon DEF AInv, TypeOK, Holding
  <1> QED BY <1>5, <1>8, <1>9, <1>10, Zenon DEF AInv, BlocksPartitioned, FreeFindsBitSet

\* The counter keeps its type when it wraps around.
LEMMA CounterType ==
    ASSUME AInv, NEW t \in Thread, NEW d \in {1, -1}
    PROVE  [used_block EXCEPT ![gno[t]] = (tmp[t] + d) % Word] \in [Group -> 0 .. (Word - 1)]
  <1>1. tmp[t] + d \in Int /\ Word \in Nat \ {0}
    BY AllocAssumption, LayoutAssumption DEF AInv, TypeOK
  <1>2. (tmp[t] + d) % Word \in 0 .. (Word - 1)
    BY <1>1, DivMod, Zenon
  <1> QED BY <1>2, Zenon DEF AInv, TypeOK

\* A new block is counted and recorded.
LEMMA IncStoreStep ==
    ASSUME AInv, NEW t \in Thread, inc_store(t)
    PROVE  AInv'
  <1>1. /\ blk[t] # NoBlock /\ ~panicked /\ UNCHANGED <<bits, panicked, raced>>
        /\ mapped' = mapped \union {blk[t]} /\ Return(t)
    BY Zenon DEF AInv, Holding, inc_store, Runs
  <1>2. used_block' \in [Group -> 0 .. (Word - 1)]
    BY CounterType, Zenon DEF inc_store
  <1> QED BY <1>1, <1>2, ReturnStep, Zenon

\* inode_clear takes a block out of an inode.
LEMMA FreeBeginStep ==
    ASSUME AInv, NEW t \in Thread, NEW b \in mapped, free_begin(t, b)
    PROVE  AInv'
  <1>1. /\ ~panicked /\ pc[t] = "idle"
        /\ mapped' = mapped \ {b} /\ blk' = [blk EXCEPT ![t] = b]
        /\ gno' = [gno EXCEPT ![t] = group_of(b)] /\ pc' = [pc EXCEPT ![t] = "free"]
        /\ UNCHANGED <<bits, used_block, tmp, direct, durable, panicked, raced>>
    BY Zenon DEF free_begin, Runs, Goto
  <1>2. b \in DataBlock /\ b \in Block /\ b # NoBlock /\ group_of(b) \in Group
    BY DataInBlock, ZeroIsNoBlock, BlockParts, Zenon DEF AInv, TypeOK
  <1>3. TypeOK'
    BY <1>1, <1>2, Zenon DEF AInv, TypeOK
  <1>4. blk[t] = NoBlock
    BY <1>1, Zenon DEF AInv, Holding
  <1>5. \A u \in Thread : /\ pc'[u] \in Holding <=> blk'[u] # NoBlock
                          /\ blk'[u] # NoBlock => gno'[u] = group_of(blk'[u])
    BY <1>1, <1>2, Zenon DEF AInv, TypeOK, Holding
  <1>6. /\ InFlight' = InFlight \union {t} /\ t \notin InFlight
        /\ blk'[t] = b
        /\ \A u \in InFlight : blk'[u] = blk[u] /\ blk[u] # b
    BY <1>1, <1>2, <1>4, ZenonT(40) DEF AInv, TypeOK, InFlight, BlocksPartitioned
  <1>7. BlocksPartitioned'
    BY <1>1, <1>2, <1>6 DEF AInv, BlocksPartitioned
  <1> QED BY <1>1, <1>3, <1>5, <1>7, Zenon DEF AInv, FreeFindsBitSet

\* The block that a thread is about to free has its bit set, and cache_free
\* computes the position of that bit.
LEMMA FreedBit ==
    ASSUME AInv, NEW t \in Thread, pc[t] \in {"free", "dec"}
    PROVE  /\ blk[t] # NoBlock /\ blk[t] \in bits
           /\ block_no(gno[t], offset_of(blk[t])) = blk[t]
  <1>1. blk[t] # NoBlock /\ gno[t] = group_of(blk[t])
    BY Zenon DEF AInv, Holding
  <1>2. blk[t] \in bits /\ blk[t] \in Block
    BY <1>1, Zenon DEF AInv, TypeOK, BlocksPartitioned, InFlight
  <1> QED BY <1>1, <1>2, BlockParts, Zenon

\* cache_free up to the load of the counter: its assertion holds.
LEMMA FreeLoadStep ==
    ASSUME AInv, NEW t \in Thread, free_load(t)
    PROVE  AInv'
  <1>1. pc[t] = "free" /\ ~panicked
    BY Zenon DEF free_load, Runs
  <1>2. /\ tmp' = [tmp EXCEPT ![t] = used_block[gno[t]]]
        /\ pc' = [pc EXCEPT ![t] = "dec"]
        /\ UNCHANGED <<panicked, bits, used_block, mapped, gno, blk, direct, durable>>
        /\ raced' \in BOOLEAN
    BY <1>1, FreedBit, ZenonT(40) DEF AInv, TypeOK, free_load, Goto
  <1>3. TypeOK'
    BY <1>2, Zenon DEF AInv, TypeOK
  <1>4. \A u \in Thread : /\ pc'[u] \in Holding <=> blk'[u] # NoBlock
                          /\ blk'[u] # NoBlock => gno'[u] = group_of(blk'[u])
    BY <1>1, <1>2, Zenon DEF AInv, TypeOK, Holding
  <1> QED BY <1>1, <1>2, <1>3, <1>4, QuietPartition, Zenon DEF AInv, FreeFindsBitSet

\* cache_free clears the bit and counts down.
LEMMA FreeStoreStep ==
    ASSUME AInv, NEW t \in Thread, free_store(t)
    PROVE  AInv'
  <1>1. pc[t] = "dec" /\ ~panicked /\ UNCHANGED <<mapped, panicked, raced>> /\ Return(t)
    BY Zenon DEF free_store, Runs
  <1>2. blk[t] # NoBlock /\ bits' = bits \ {blk[t]}
    BY <1>1, FreedBit, Zenon DEF free_store
  <1>3. used_block' \in [Group -> 0 .. (Word - 1)]
    <2>1. tmp[t] - 1 = tmp[t] + (-1)
      BY Zenon DEF AInv, TypeOK
    <2>2. used_block' = [used_block EXCEPT ![gno[t]] = (tmp[t] + (-1)) % Word]
      BY <2>1, ZenonT(40) DEF free_store
    <2>3. -1 \in {1, -1}
      BY Zenon
    <2> QED BY <2>2, <2>3, CounterType, Zenon
  <1> QED BY <1>1, <1>2, <1>3, ReturnStep, Zenon

\* A crash, and the boot after it.
LEMMA RebootStep ==
    ASSUME AInv, reboot
    PROVE  AInv'
  <1>1. used_block' \in [Group -> 0 .. (Word - 1)]
    BY CountedRange, Zenon DEF reboot
  <1>2. 0 \in Group /\ 0 \in 0 .. (Word - 1)
    BY LayoutAssumption, AllocAssumption DEF Group
  <1>3. TypeOK'
    BY <1>1, <1>2, ZenonT(40) DEF AInv, TypeOK, reboot
  <1>4. \A t \in Thread : pc'[t] = "idle" /\ blk'[t] = NoBlock
    BY Zenon DEF reboot
  <1>5. InFlight' = {}
    BY <1>4, Zenon DEF InFlight
  <1>6. BlocksPartitioned'
    BY <1>5, Zenon DEF AInv, BlocksPartitioned, reboot
  <1> QED BY <1>3, <1>4, <1>6, Zenon DEF AInv, Holding, FreeFindsBitSet, reboot

\* Every step keeps the invariant.
LEMMA NextAInv ==
    ASSUME AInv, [Next]_vars
    PROVE  AInv'
  <1>1. CASE UNCHANGED vars
    BY <1>1 DEF AInv, TypeOK, BlocksPartitioned, FreeFindsBitSet, InFlight, vars, perThread
  <1>2. CASE reboot
    BY <1>2, RebootStep, Zenon
  <1>3. ASSUME NEW t \in Thread, Step(t) PROVE AInv'
    BY Zenon, <1>3, MapStep, LoadStep, AllocgStep, AllocStep, IncStoreStep, FreeLoadStep, FreeStoreStep
    DEF Step
  <1>4. ASSUME NEW t \in Thread, NEW ino \in InodeNo, map_direct(t, ino) PROVE AInv'
    BY <1>4, MapStep, Zenon
  <1>5. ASSUME NEW t \in Thread, NEW index \in 0 .. (MaxIndirect - 1), map_indirect(t, index)
        PROVE AInv'
    BY <1>5, MapStep, Zenon
  <1>6. ASSUME NEW t \in Thread, NEW b \in mapped, free_begin(t, b) PROVE AInv'
    BY <1>6, FreeBeginStep, Zenon
  <1> QED BY <1>1, <1>2, <1>3, <1>4, <1>5, <1>6, Zenon DEF Next

-----------------------------------------------------------------------------
(* The counters *)

\* Threads whose new block the counter of group h does not include yet.
Pending(h) == {t \in Thread : gno[t] = h /\ pc[t] \in {"zero", "inc", "store"}}

\* While no two updates of a counter overlap, it is exact but for the pending
\* blocks, and who is between load and store has the value it will change.
Exact ==
    /\ \A h \in Group : used_block[h] + Cardinality(Pending(h)) = Counted(h, bits)
    /\ \A t \in Thread : pc[t] \in {"store", "dec"} => tmp[t] = used_block[gno[t]]
    /\ \A t, u \in Thread :
          pc[t] \in {"store", "dec"} /\ pc[u] \in {"store", "dec"} /\ gno[t] = gno[u] => t = u

RInv == ~raced => Exact

\* The data blocks of a group whose bits are set.
UsedOffsets(h, b) == {off \in DataOffset : block_no(h, off) \in b}

\* They are finitely many, and Counted counts them.
LEMMA UsedFinite ==
    ASSUME NEW h \in Group, NEW b
    PROVE  /\ IsFiniteSet(UsedOffsets(h, b))
           /\ Counted(h, b) = Cardinality(UsedOffsets(h, b))
           /\ Counted(h, b) \in Nat /\ Counted(h, b) < Word
  <1>0. data_start_per_group \in Int /\ blocks_per_group - 1 \in Int
    BY LayoutTypes, LayoutAssumption DEF Offset
  <1>1. IsFiniteSet(DataOffset)
    BY <1>0, FS_Interval, Zenon DEF DataOffset
  <1>2. IsFiniteSet(UsedOffsets(h, b))
    <2>1. UsedOffsets(h, b) \subseteq DataOffset
      BY Zenon DEF UsedOffsets
    <2> QED BY <1>1, <2>1, FS_Subset, Zenon
  <1>3. Counted(h, b) = Cardinality(UsedOffsets(h, b))
    BY Zenon DEF Counted, UsedOffsets
  <1>4. Counted(h, b) \in Nat /\ Counted(h, b) < Word
    BY CountedRange, AllocAssumption
  <1> QED BY <1>2, <1>3, <1>4, Zenon

\* A data block has a group and a data offset.
LEMMA DataParts ==
    ASSUME NEW b \in DataBlock
    PROVE  /\ group_of(b) \in Group /\ offset_of(b) \in DataOffset
           /\ block_no(group_of(b), offset_of(b)) = b
  <1>1. DataOffset \subseteq Offset
    BY LayoutTypes DEF DataOffset, Offset
  <1>2. PICK h \in Group, off \in DataOffset : b = block_no(h, off)
    BY DEF DataBlock
  <1> QED BY <1>1, <1>2, BlockNoRoundTrip, Zenon

\* A new bit is counted in its group and nowhere else.
LEMMA CountAdd ==
    ASSUME NEW b \in DataBlock, NEW B, b \notin B, NEW h \in Group
    PROVE  Counted(h, B \union {b}) = IF h = group_of(b) THEN Counted(h, B) + 1 ELSE Counted(h, B)
  <1> DEFINE off == offset_of(b)
  <1>1. group_of(b) \in Group /\ off \in DataOffset /\ block_no(group_of(b), off) = b
    BY DataParts, Zenon
  <1>2. \A o \in DataOffset : block_no(h, o) = b => h = group_of(b) /\ o = off
    <2>1. DataOffset \subseteq Offset
      BY LayoutTypes DEF DataOffset, Offset
    <2> QED BY <2>1, BlockNoRoundTrip, Zenon
  <1> HIDE DEF off
  <1>3. CASE h = group_of(b)
    <2>1. UsedOffsets(h, B \union {b}) = UsedOffsets(h, B) \union {off} /\ off \notin UsedOffsets(h, B)
      BY <1>1, <1>2, <1>3, Zenon DEF UsedOffsets
    <2>2. Cardinality(UsedOffsets(h, B) \union {off}) = Cardinality(UsedOffsets(h, B)) + 1
      BY <2>1, UsedFinite, FS_AddElement, Zenon
    <2> QED BY <1>3, <2>1, <2>2, UsedFinite, Zenon
  <1>4. CASE h # group_of(b)
    <2>1. UsedOffsets(h, B \union {b}) = UsedOffsets(h, B)
      BY <1>2, <1>4, Zenon DEF UsedOffsets
    <2> QED BY <1>4, <2>1, UsedFinite, Zenon
  <1> QED BY <1>3, <1>4, Zenon

\* Threads that hold a block of a group hold different set bits of it, so there
\* are at most as many of them as bits.
LEMMA HoldersCounted ==
    ASSUME AInv, NEW h \in Group, NEW P,
           P \subseteq {t \in Thread : blk[t] # NoBlock /\ gno[t] = h}
    PROVE  IsFiniteSet(P) /\ Cardinality(P) \in Nat /\ Cardinality(P) <= Counted(h, bits)
  <1> DEFINE f == [t \in P |-> offset_of(blk[t])]
  <1>1. ASSUME NEW t \in P
        PROVE  /\ t \in InFlight /\ blk[t] \in DataBlock /\ blk[t] \in bits
               /\ group_of(blk[t]) = h /\ block_no(h, offset_of(blk[t])) = blk[t]
               /\ offset_of(blk[t]) \in UsedOffsets(h, bits)
    <2>1. t \in InFlight /\ gno[t] = h /\ group_of(blk[t]) = h
      BY Zenon DEF InFlight, AInv
    <2>2. blk[t] \in DataBlock /\ blk[t] \in bits
      BY <2>1, Zenon DEF AInv, BlocksPartitioned
    <2> QED BY <2>1, <2>2, DataParts, Zenon DEF UsedOffsets
  <1>2. f \in [P -> UsedOffsets(h, bits)]
    BY <1>1, Zenon
  <1>3. ASSUME NEW t \in P, NEW u \in P, f[t] = f[u] PROVE t = u
    <2>1. blk[t] = blk[u]
      BY <1>1, <1>3, Zenon
    <2> QED BY <1>1, <2>1, Zenon DEF AInv, BlocksPartitioned
  <1> HIDE DEF f
  <1>4. f \in Injection(P, UsedOffsets(h, bits))
    BY <1>2, <1>3, Zenon DEF Injection, IsInjective
  <1>6. IsFiniteSet(UsedOffsets(h, bits)) /\ Counted(h, bits) = Cardinality(UsedOffsets(h, bits))
    BY UsedFinite, Zenon
  <1>7. IsFiniteSet(P) /\ Cardinality(P) <= Cardinality(UsedOffsets(h, bits))
    BY <1>4, <1>6, FS_Injection, Zenon
  <1> QED BY <1>6, <1>7, FS_CardinalityType, Zenon

\* The pending threads hold a block of their group, so the counter is at most
\* what the bitmap says, and less where somebody frees a block.
LEMMA PendingCounted ==
    ASSUME AInv, NEW h \in Group
    PROVE  /\ IsFiniteSet(Pending(h)) /\ Cardinality(Pending(h)) \in Nat
           /\ Cardinality(Pending(h)) <= Counted(h, bits)
           /\ \A t \in Thread : pc[t] = "dec" /\ gno[t] = h
                  => Cardinality(Pending(h)) + 1 <= Counted(h, bits)
  <1>1. Pending(h) \subseteq {t \in Thread : blk[t] # NoBlock /\ gno[t] = h}
    BY Zenon DEF Pending, AInv, Holding
  <1>2. /\ IsFiniteSet(Pending(h)) /\ Cardinality(Pending(h)) \in Nat
        /\ Cardinality(Pending(h)) <= Counted(h, bits)
    BY <1>1, HoldersCounted, Zenon
  <1>3. ASSUME NEW t \in Thread, pc[t] = "dec", gno[t] = h
        PROVE  Cardinality(Pending(h)) + 1 <= Counted(h, bits)
    <2>1. Pending(h) \union {t} \subseteq {u \in Thread : blk[u] # NoBlock /\ gno[u] = h}
      BY <1>1, <1>3, Zenon DEF AInv, Holding
    <2>2. Cardinality(Pending(h) \union {t}) <= Counted(h, bits)
      BY <2>1, HoldersCounted, Zenon
    <2>3. t \notin Pending(h)
      BY <1>3, Zenon DEF Pending
    <2>4. Cardinality(Pending(h) \union {t}) = Cardinality(Pending(h)) + 1
      BY <1>2, <2>3, FS_AddElement, Zenon
    <2> QED BY <2>2, <2>4, Zenon
  <1> QED BY <1>2, <1>3, Zenon

\* A step that changes no bit, no counter and no thread that is on its way from
\* the bitmap to the counter or from its load to its store keeps them exact.
LEMMA QuietCounters ==
    ASSUME Exact, UNCHANGED <<bits, used_block>>,
           \A h \in Group : Pending(h)' = Pending(h),
           \A t \in Thread : pc'[t] \in {"store", "dec"}
               => /\ gno'[t] = gno[t] /\ tmp'[t] = used_block[gno[t]]
                  /\ pc[t] \in {"store", "dec"} \/ Updating(gno[t]) = {},
           \A t, u \in Thread :
               (/\ pc'[t] \in {"store", "dec"} /\ pc'[u] \in {"store", "dec"}
                /\ ~(pc[t] \in {"store", "dec"}) /\ ~(pc[u] \in {"store", "dec"})) => t = u
    PROVE  Exact'
  <1>1. \A h \in Group : used_block'[h] + Cardinality(Pending(h))' = Counted(h, bits)'
    BY DEF Exact, Counted
  <1>2. \A t \in Thread : pc'[t] \in {"store", "dec"} => tmp'[t] = used_block'[gno'[t]]
    BY Zenon
  <1>3. \A t, u \in Thread :
            pc'[t] \in {"store", "dec"} /\ pc'[u] \in {"store", "dec"} /\ gno'[t] = gno'[u] => t = u
    BY DEF Exact, Updating
  <1> QED BY <1>1, <1>2, <1>3, Zenon DEF Exact

\* inode_map's choice of a group, and the failures of cache_allocg and
\* cache_alloc, move threads that have no block.
LEMMA MoveExact ==
    ASSUME AInv, Exact, NEW t \in Thread, UNCHANGED <<bits, used_block>>,
           pc[t] \notin {"zero", "inc", "store", "dec"},
           pc'[t] \notin {"zero", "inc", "store", "dec"},
           \A u \in Thread : u # t => pc'[u] = pc[u] /\ gno'[u] = gno[u] /\ tmp'[u] = tmp[u]
    PROVE  Exact'
  <1>1. \A h \in Group : Pending(h)' = Pending(h)
    BY Zenon DEF Pending
  <1> QED BY <1>1, QuietCounters, Zenon DEF Exact

\* The load of a counter while nobody else is updating it.
LEMMA LoadExact ==
    ASSUME AInv, Exact, NEW t \in Thread, UNCHANGED <<bits, used_block, gno>>,
           \/ pc[t] = "inc" /\ pc' = [pc EXCEPT ![t] = "store"]
           \/ pc[t] = "free" /\ pc' = [pc EXCEPT ![t] = "dec"],
           tmp' = [tmp EXCEPT ![t] = used_block[gno[t]]],
           Updating(gno[t]) = {}
    PROVE  Exact'
  <1>1. /\ \A u \in Thread : u # t => pc'[u] = pc[u] /\ tmp'[u] = tmp[u]
        /\ tmp'[t] = used_block[gno[t]]
        /\ \/ pc[t] = "inc" /\ pc'[t] = "store"
           \/ pc[t] = "free" /\ pc'[t] = "dec"
    BY Zenon DEF AInv, TypeOK
  <1>2. \A h \in Group : Pending(h)' = Pending(h)
    BY <1>1, Zenon DEF Pending
  <1> QED BY <1>1, <1>2, QuietCounters, ZenonT(40) DEF Exact

\* Taking a block: one more bit and one more pending thread in its group.
LEMMA TakeExact ==
    ASSUME AInv, Exact, NEW t \in Thread, NEW h \in Group, FreeOffsets(h) # {},
           pc[t] \in {"allocg", "alloc"}, TakeBlock(t, h), UNCHANGED <<used_block, tmp>>
    PROVE  Exact'
  <1>1. PICK b \in DataBlock : /\ b = block_no(h, Min(FreeOffsets(h)))
                               /\ group_of(b) = h /\ b \notin bits
    BY FreeIsNobodys, Zenon
  <1>2. bits' = bits \union {b} /\ gno' = [gno EXCEPT ![t] = h] /\ pc' = [pc EXCEPT ![t] = "zero"]
    BY <1>1, Zenon DEF TakeBlock, Goto
  <1>3. /\ \A u \in Thread : u # t => pc'[u] = pc[u] /\ gno'[u] = gno[u]
        /\ pc'[t] = "zero" /\ gno'[t] = h
    BY <1>2, Zenon DEF AInv, TypeOK
  <1>4. ASSUME NEW g \in Group
        PROVE  used_block'[g] + Cardinality(Pending(g))' = Counted(g, bits)'
    <2>1. /\ IsFiniteSet(Pending(g)) /\ Cardinality(Pending(g)) \in Nat
          /\ Counted(g, bits) \in Nat /\ used_block[g] \in Nat
          /\ used_block[g] + Cardinality(Pending(g)) = Counted(g, bits)
      BY PendingCounted, UsedFinite DEF Exact, AInv, TypeOK
    <2>2. Counted(g, bits') = IF g = group_of(b) THEN Counted(g, bits) + 1 ELSE Counted(g, bits)
      BY <1>1, <1>2, CountAdd
    <2>3. Counted(g, bits)' = Counted(g, bits')
      BY Zenon DEF Counted
    <2>4. CASE g = h
      <3>1. Pending(g)' = Pending(g) \union {t} /\ t \notin Pending(g)
        BY <1>3, <2>4, Zenon DEF Pending
      <3>2. Cardinality(Pending(g) \union {t}) = Cardinality(Pending(g)) + 1
        BY <2>1, <3>1, FS_AddElement, Zenon
      <3>3. Cardinality(Pending(g))' = Cardinality(Pending(g)) + 1
        BY <3>1, <3>2, Zenon
      <3> QED BY <1>1, <2>1, <2>2, <2>3, <2>4, <3>3
    <2>5. CASE g # h
      <3>1. Pending(g)' = Pending(g)
        BY <1>3, <2>5, Zenon DEF Pending
      <3> QED BY <1>1, <2>1, <2>2, <2>3, <2>5, <3>1, Zenon
    <2> QED BY <2>4, <2>5, Zenon
  <1>5. /\ \A u \in Thread : pc'[u] \in {"store", "dec"} => tmp'[u] = used_block'[gno'[u]]
        /\ \A u, v \in Thread :
            pc'[u] \in {"store", "dec"} /\ pc'[v] \in {"store", "dec"} /\ gno'[u] = gno'[v] => u = v
    BY <1>3 DEF Exact
  <1> QED BY <1>4, <1>5, Zenon DEF Exact

\* The store of a counter by the only thread that is updating it, which leaves:
\* counter and pending threads, or counter and bits, change by one.
LEMMA StoreExact ==
    ASSUME AInv, Exact, NEW t \in Thread, NEW x \in Nat,
           pc[t] \in {"store", "dec"}, pc'[t] = "idle",
           used_block' = [used_block EXCEPT ![gno[t]] = x],
           \A u \in Thread : u # t => pc'[u] = pc[u] /\ gno'[u] = gno[u] /\ tmp'[u] = tmp[u],
           \A h \in Group : h # gno[t] => Counted(h, bits') = Counted(h, bits),
           x + Cardinality(Pending(gno[t]) \ {t}) = Counted(gno[t], bits')
    PROVE  Exact'
  <1>1. ASSUME NEW g \in Group
        PROVE  used_block'[g] + Cardinality(Pending(g)') = Counted(g, bits')
    <2>1. CASE g = gno[t]
      <3>1. Pending(g)' = Pending(g) \ {t}
        BY <2>1, Zenon DEF Pending
      <3>2. used_block'[g] = x
        BY <2>1, Zenon DEF AInv, TypeOK
      <3>3. Cardinality(Pending(g)') = Cardinality(Pending(g) \ {t})
        BY <3>1, Zenon
      <3> QED BY <2>1, <3>2, <3>3, Zenon
    <2>2. CASE g # gno[t]
      <3>1. Pending(g)' = Pending(g)
        BY <2>2, Zenon DEF Pending
      <3>2. used_block'[g] = used_block[g]
        BY <2>2, Zenon DEF AInv, TypeOK
      <3> QED BY <2>2, <3>1, <3>2, Zenon DEF Exact
    <2> QED BY <2>1, <2>2, Zenon
  <1>2. ASSUME NEW u \in Thread, pc'[u] \in {"store", "dec"}
        PROVE  tmp'[u] = used_block'[gno'[u]]
    <2>1. u # t /\ gno[u] # gno[t] /\ tmp[u] = used_block[gno[u]]
      BY <1>2, Zenon DEF Exact
    <2> QED BY <2>1, Zenon DEF AInv, TypeOK
  <1>3. ASSUME NEW u \in Thread, NEW v \in Thread, gno'[u] = gno'[v],
               pc'[u] \in {"store", "dec"}, pc'[v] \in {"store", "dec"}
        PROVE  u = v
    <2>1. u # t /\ v # t
      BY <1>3, Zenon
    <2>2. gno[u] = gno[v] /\ pc[u] \in {"store", "dec"} /\ pc[v] \in {"store", "dec"}
      BY <1>3, <2>1, Zenon
    <2> QED BY <2>2, Zenon DEF Exact
  <1>4. \A g \in Group : used_block'[g] + Cardinality(Pending(g)') = Counted(g, bits')
    BY <1>1, Zenon
  <1>5. \A u \in Thread : pc'[u] \in {"store", "dec"} => tmp'[u] = used_block'[gno'[u]]
    BY <1>2, Zenon
  <1>6. \A u, v \in Thread :
            pc'[u] \in {"store", "dec"} /\ pc'[v] \in {"store", "dec"} /\ gno'[u] = gno'[v] => u = v
    BY <1>3, Zenon
  <1> QED BY <1>4, <1>5, <1>6, Zenon DEF Exact

\* cache_allocg and cache_alloc.
LEMMA AllocExact ==
    ASSUME AInv, Exact, NEW t \in Thread, cache_allocg(t) \/ cache_alloc(t)
    PROVE  Exact'
  <1>1. gno[t] \in Group /\ pc[t] \in {"allocg", "alloc"} /\ used_block' = used_block
    BY Zenon DEF AInv, TypeOK, cache_allocg, cache_alloc
  <1>2. CASE FreeOffsets(gno[t]) # {}
    <2>1. TakeBlock(t, gno[t]) /\ tmp' = tmp
      BY <1>2, Zenon DEF cache_allocg, cache_alloc
    <2> QED BY <1>1, <1>2, <2>1, TakeExact, Zenon
  <1>3. CASE FreeOffsets(gno[t]) = {}
    <2>1. /\ bits' = bits
          /\ pc' = pc \/ pc' = [pc EXCEPT ![t] = "alloc"] \/ pc' = [pc EXCEPT ![t] = "idle"]
          /\ gno' = gno \/ gno' = [gno EXCEPT ![t] = 0] \/ gno' = [gno EXCEPT ![t] = gno[t] + 1]
          /\ tmp' = tmp \/ tmp' = [tmp EXCEPT ![t] = 0]
      BY <1>3, Zenon DEF cache_allocg, cache_alloc, Return, Goto
    <2>2. \A u \in Thread : u # t => pc'[u] = pc[u] /\ gno'[u] = gno[u] /\ tmp'[u] = tmp[u]
      BY <2>1, Zenon DEF AInv, TypeOK
    <2>3. pc[t] \notin {"zero", "inc", "store", "dec"} /\ pc'[t] \notin {"zero", "inc", "store", "dec"}
      BY <1>1, <2>1, Zenon DEF AInv, TypeOK
    <2> QED BY <1>1, <2>1, <2>2, <2>3, MoveExact, Zenon
  <1> QED BY <1>2, <1>3, Zenon

\* The increment: the counter was below the number of bits, so it does not wrap.
LEMMA IncExact ==
    ASSUME AInv, Exact, NEW t \in Thread, inc_store(t)
    PROVE  Exact'
  <1> DEFINE h == gno[t]
  <1>1. /\ pc[t] = "store" /\ bits' = bits /\ h \in Group
        /\ used_block' = [used_block EXCEPT ![h] = (tmp[t] + 1) % Word]
        /\ pc' = [pc EXCEPT ![t] = "idle"] /\ gno' = [gno EXCEPT ![t] = 0]
        /\ tmp' = [tmp EXCEPT ![t] = 0]
    BY Zenon DEF inc_store, Return, Goto, AInv, TypeOK
  <1>2. /\ pc'[t] = "idle"
        /\ \A u \in Thread : u # t => pc'[u] = pc[u] /\ gno'[u] = gno[u] /\ tmp'[u] = tmp[u]
    BY <1>1, Zenon DEF AInv, TypeOK
  <1>3. tmp[t] = used_block[h] /\ used_block[h] \in Nat
    BY <1>1 DEF Exact, AInv, TypeOK
  <1>4. t \in Pending(h)
    BY <1>1, Zenon DEF Pending
  <1>5. /\ IsFiniteSet(Pending(h)) /\ Cardinality(Pending(h)) \in Nat
        /\ used_block[h] + Cardinality(Pending(h)) = Counted(h, bits)
        /\ Counted(h, bits) \in Nat /\ Counted(h, bits) < Word
    BY <1>1, PendingCounted, UsedFinite, Zenon DEF Exact
  <1>6. IsFiniteSet(Pending(h) \ {t}) /\ Cardinality(Pending(h) \ {t}) = Cardinality(Pending(h)) - 1
    BY <1>4, <1>5, FS_RemoveElement, Zenon
  <1>7. Cardinality(Pending(h) \ {t}) \in Nat
    BY <1>6, FS_CardinalityType, Zenon
  <1>8. Word \in Nat
    BY AllocAssumption, Zenon
  <1>9. \A g \in Group : Counted(g, bits') = Counted(g, bits)
    BY <1>1, Zenon
  <1> DEFINE x == used_block[h] + 1
             c == Cardinality(Pending(h) \ {t})
  <1> HIDE DEF h
  <1>10. x \in Nat /\ x < Word /\ x + c = Counted(h, bits)
    BY <1>3, <1>5, <1>6, <1>7, <1>8
  <1>11. x % Word = x
    <2> HIDE DEF x
    <2> QED BY <1>8, <1>10
  <1>12. used_block' = [used_block EXCEPT ![h] = x]
    BY <1>1, <1>3, <1>11, Zenon
  <1>13. x + c = Counted(h, bits')
    BY <1>1, <1>9, <1>10, Zenon
  <1> HIDE DEF x
  <1> QED BY <1>1, <1>2, <1>9, <1>10, <1>12, <1>13, StoreExact, Zenon DEF h

\* The decrement: the block that is freed is counted, so it does not wrap.
LEMMA DecExact ==
    ASSUME AInv, Exact, NEW t \in Thread, free_store(t)
    PROVE  Exact'
  <1> DEFINE h == gno[t]
             B == bits \ {blk[t]}
  <1>1. /\ pc[t] = "dec" /\ h \in Group
        /\ used_block' = [used_block EXCEPT ![h] = (tmp[t] - 1) % Word]
        /\ pc' = [pc EXCEPT ![t] = "idle"] /\ gno' = [gno EXCEPT ![t] = 0]
        /\ tmp' = [tmp EXCEPT ![t] = 0]
    BY Zenon DEF free_store, Return, Goto, AInv, TypeOK
  <1>2. /\ pc'[t] = "idle"
        /\ \A u \in Thread : u # t => pc'[u] = pc[u] /\ gno'[u] = gno[u] /\ tmp'[u] = tmp[u]
    BY <1>1, Zenon DEF AInv, TypeOK
  <1>3. tmp[t] = used_block[h] /\ used_block[h] \in Nat
    BY <1>1 DEF Exact, AInv, TypeOK
  <1>4. Pending(h) \ {t} = Pending(h)
    BY <1>1, Zenon DEF Pending
  <1>5. blk[t] # NoBlock /\ blk[t] \in bits /\ bits' = B
    BY <1>1, FreedBit, Zenon DEF free_store
  <1>6. blk[t] \in DataBlock /\ group_of(blk[t]) = h
    BY <1>5, Zenon DEF AInv, TypeOK
  <1>7. blk[t] \notin B /\ B \union {blk[t]} = bits
    BY <1>5, Zenon
  <1>8. \A g \in Group : Counted(g, bits') = Counted(g, B)
    BY <1>5, Zenon
  <1> HIDE DEF B
  <1>9. \A g \in Group :
            Counted(g, bits) = IF g = h THEN Counted(g, B) + 1 ELSE Counted(g, B)
    <2> SUFFICES ASSUME NEW g \in Group
                 PROVE  Counted(g, bits) = IF g = h THEN Counted(g, B) + 1 ELSE Counted(g, B)
      BY Zenon
    <2>1. Counted(g, B \union {blk[t]})
             = IF g = group_of(blk[t]) THEN Counted(g, B) + 1 ELSE Counted(g, B)
      BY <1>6, <1>7, CountAdd, Zenon
    <2> QED BY <1>6, <1>7, <2>1, Zenon
  <1>10. /\ Cardinality(Pending(h)) \in Nat /\ Cardinality(Pending(h)) + 1 <= Counted(h, bits)
         /\ used_block[h] + Cardinality(Pending(h)) = Counted(h, bits)
         /\ Counted(h, bits) \in Nat /\ Counted(h, bits) < Word /\ Counted(h, B) \in Nat
    BY <1>1, PendingCounted, UsedFinite, Zenon DEF Exact
  <1>11. Word \in Nat
    BY AllocAssumption, Zenon
  <1> DEFINE x == used_block[h] - 1
             c == Cardinality(Pending(h) \ {t})
  <1>12. c = Cardinality(Pending(h))
    BY <1>4, Zenon
  <1>13. \A g \in Group : g # h => Counted(g, bits') = Counted(g, bits)
    BY <1>8, <1>9, Zenon
  <1>14. Counted(h, bits') = Counted(h, bits) - 1
    <2>1. Counted(h, bits') = Counted(h, B) /\ Counted(h, bits) = Counted(h, B) + 1
      BY <1>1, <1>8, <1>9, Zenon
    <2> QED BY <1>10, <2>1
  <1> HIDE DEF h, c
  <1>15. x \in Nat /\ x < Word /\ x + c = Counted(h, bits) - 1
    BY <1>3, <1>10, <1>11, <1>12
  <1>16. x % Word = x
    <2> HIDE DEF x
    <2> QED BY <1>11, <1>15
  <1>17. used_block' = [used_block EXCEPT ![h] = x]
    BY <1>1, <1>3, <1>16, Zenon
  <1>18. x + c = Counted(h, bits')
    BY <1>14, <1>15, Zenon
  <1> HIDE DEF x
  <1> QED BY <1>1, <1>2, <1>13, <1>15, <1>17, <1>18, StoreExact, Zenon DEF h, c

\* The boot counts.
LEMMA RebootExact ==
    ASSUME AInv, reboot
    PROVE  Exact'
  <1>1. \A t \in Thread : pc'[t] = "idle"
    BY Zenon DEF reboot
  <1>2. ASSUME NEW h \in Group
        PROVE  used_block'[h] + Cardinality(Pending(h)') = Counted(h, bits')
    <2>1. Cardinality(Pending(h)') = 0
      <3>1. Pending(h)' = {}
        BY <1>1, Zenon DEF Pending
      <3> QED BY <3>1, FS_EmptySet, Zenon
    <2>2. used_block'[h] = Counted(h, bits')
      BY Zenon DEF reboot
    <2>3. Counted(h, bits') \in Nat
      BY UsedFinite, Zenon
    <2> QED BY <2>1, <2>2, <2>3
  <1>3. \A t \in Thread : ~(pc'[t] \in {"store", "dec"})
    BY <1>1, Zenon
  <1> QED BY <1>2, <1>3, Zenon DEF Exact

\* mkfs has counted.
LEMMA InitExact ==
    ASSUME Init
    PROVE  RInv
  <1>1. \A t \in Thread : pc[t] = "idle"
    BY Zenon DEF Init
  <1>2. ASSUME NEW h \in Group
        PROVE  used_block[h] + Cardinality(Pending(h)) = Counted(h, bits)
    <2>1. Cardinality(Pending(h)) = 0
      <3>1. Pending(h) = {}
        BY <1>1, Zenon DEF Pending
      <3> QED BY <3>1, FS_EmptySet, Zenon
    <2>2. used_block[h] = Counted(h, bits)
      BY Zenon DEF Init
    <2>3. Counted(h, bits) \in Nat
      BY UsedFinite, Zenon
    <2> QED BY <2>1, <2>2, <2>3
  <1>3. \A t \in Thread : ~(pc[t] \in {"store", "dec"})
    BY <1>1, Zenon
  <1> QED BY <1>2, <1>3, Zenon DEF RInv, Exact

\* Every step keeps the counters exact unless two updates overlap.
LEMMA NextExact ==
    ASSUME AInv, RInv, [Next]_vars
    PROVE  RInv'
  <1> SUFFICES ASSUME ~raced' PROVE Exact'
    BY Zenon DEF RInv
  <1>1. CASE reboot
    BY <1>1, RebootExact, Zenon
  <1>2. CASE UNCHANGED vars
    <2>1. Exact
      BY <1>2, Zenon DEF RInv, vars
    <2> QED BY <1>2, <2>1, ZenonT(40) DEF Exact, Pending, Counted, vars, perThread
  <1>3. ASSUME NEW t \in Thread,
               \/ Step(t)
               \/ \E ino \in InodeNo : map_direct(t, ino)
               \/ \E index \in 0 .. (MaxIndirect - 1) : map_indirect(t, index)
               \/ \E b \in mapped : free_begin(t, b)
        PROVE  Exact'
    <2>1. ~raced
      BY <1>3, Zenon DEF Step, search, cache_allocg, cache_alloc, zero_block, inc_load, inc_store,
                         free_load, free_store, map_direct, map_indirect, free_begin
    <2>2. Exact
      BY <2>1, Zenon DEF RInv
    <2>3. CASE cache_allocg(t) \/ cache_alloc(t)
      BY <2>2, <2>3, AllocExact, Zenon
    <2>4. CASE inc_store(t)
      BY <2>2, <2>4, IncExact, Zenon
    <2>5. CASE free_store(t)
      BY <2>2, <2>5, DecExact, Zenon
    <2>6. CASE inc_load(t)
      <3>1. Updating(gno[t]) = {}
        BY <2>6, Zenon DEF inc_load
      <3> QED BY <2>2, <2>6, <3>1, LoadExact, Zenon DEF inc_load, Goto
    <2>7. CASE free_load(t)
      <3>1. block_no(gno[t], offset_of(blk[t])) \in bits
        BY <2>7, FreedBit, Zenon DEF free_load
      <3>2. Updating(gno[t]) = {}
        BY <2>7, <3>1, Zenon DEF free_load
      <3> QED BY <2>2, <2>7, <3>1, <3>2, LoadExact, Zenon DEF free_load, Goto
    <2>8. CASE zero_block(t)
      <3>1. pc[t] = "zero" /\ pc' = [pc EXCEPT ![t] = "inc"] /\ UNCHANGED <<bits, used_block, gno, tmp>>
        BY <2>8, Zenon DEF zero_block, Goto
      <3>2. pc'[t] = "inc" /\ \A u \in Thread : u # t => pc'[u] = pc[u]
        BY <3>1, Zenon DEF AInv, TypeOK
      <3>3. \A h \in Group : Pending(h)' = Pending(h)
        BY <3>1, <3>2, Zenon DEF Pending
      <3> QED BY <2>2, <3>1, <3>2, <3>3, QuietCounters, Zenon DEF Exact
    <2>9. CASE \/ search(t)
               \/ \E ino \in InodeNo : map_direct(t, ino)
               \/ \E index \in 0 .. (MaxIndirect - 1) : map_indirect(t, index)
               \/ \E b \in mapped : free_begin(t, b)
      <3>1. PICK l \in {"allocg", "search", "free"} : pc' = [pc EXCEPT ![t] = l]
        BY <2>9, Zenon DEF search, map_direct, map_indirect, free_begin, Goto
      <3>2. PICK g : gno' = [gno EXCEPT ![t] = g]
        BY <2>9, Zenon DEF search, map_direct, map_indirect, free_begin
      <3>3. pc[t] \in {"search", "idle"} /\ UNCHANGED <<bits, used_block, tmp>>
        BY <2>9, Zenon DEF search, map_direct, map_indirect, free_begin
      <3>4. \A u \in Thread : u # t => pc'[u] = pc[u] /\ gno'[u] = gno[u] /\ tmp'[u] = tmp[u]
        BY <3>1, <3>2, <3>3, Zenon DEF AInv, TypeOK
      <3>5. pc[t] \notin {"zero", "inc", "store", "dec"} /\ pc'[t] \notin {"zero", "inc", "store", "dec"}
        BY <3>1, <3>3, Zenon DEF AInv, TypeOK
      <3> QED BY <2>2, <3>3, <3>4, <3>5, MoveExact, Zenon
    <2> QED BY <1>3, <2>3, <2>4, <2>5, <2>6, <2>7, <2>8, <2>9, Zenon DEF Step
  <1> QED BY <1>1, <1>2, <1>3, Zenon DEF Next

-----------------------------------------------------------------------------
(* Theorems *)

\* The invariant holds throughout every execution of the allocator.
THEOREM AllocInvariant == Spec => []AInv
  BY InitAInv, NextAInv, PTL DEF Spec

\* Types, for every geometry of the disk: group numbers stay in range, and
\* what cache_allocg and cache_alloc return is a data block.
THEOREM AllocTypes == Spec => []TypeOK
  <1>1. AInv => TypeOK
    BY Zenon DEF AInv
  <1> QED BY <1>1, AllocInvariant, PTL

\* No data block is lost, and none is handed out twice by cache_alloc and
\* cache_allocg, on any number of CPUs and across crashes.
THEOREM NoBlockLostOrShared == Spec => []BlocksPartitioned
  <1>1. AInv => BlocksPartitioned
    BY Zenon DEF AInv
  <1> QED BY <1>1, AllocInvariant, PTL

\* The assertion in cache_free that the bit is set never fails.
THEOREM FreeNeverFails == Spec => []FreeFindsBitSet
  <1>1. AInv => FreeFindsBitSet
    BY Zenon DEF AInv
  <1> QED BY <1>1, AllocInvariant, PTL

\* used_block of a group is the number of its data blocks in use, but for blocks
\* on their way from the bitmap to the increment, as long as no two updates of
\* one counter have overlapped; in particular it never wraps around.
THEOREM CountersExact == Spec => []UsedBlockExact
  <1>1. AInv /\ RInv => UsedBlockExact
    BY Zenon DEF RInv, Exact, UsedBlockExact, Pending
  <1>2. Spec => []RInv
    BY InitExact, NextExact, AllocInvariant, PTL DEF Spec
  <1> QED BY <1>1, <1>2, AllocInvariant, PTL
=============================================================================
