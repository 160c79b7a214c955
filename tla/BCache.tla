------------------------------- MODULE BCache -------------------------------
(***************************************************************************)
(* The block cache of fs/cache.c: which slot holds which block, and who    *)
(* may evict it.                                                           *)
(*                                                                         *)
(* The cache is a list of slots in least-recently-used order, protected by *)
(* the spinlock `lock'.  Each slot carries the flags `acquired' and        *)
(* `pinned' that keep it from being evicted, a sleeping lock, and `valid'  *)
(* and `data', which the sleeping lock protects.  One action below is one  *)
(* stretch of code between two points where another thread may run: the    *)
(* critical section of a spinlock, the acquisition of a sleeping lock, or  *)
(* a device transfer.                                                      *)
(*                                                                         *)
(* The actors are claims.  A claim is one call of cache_acquire with the   *)
(* use of the block up to the end of its cache_release.  A thread may have *)
(* several at a time: inode_map holds an indirect block while allocg       *)
(* acquires a bitmap block, and replay and checkpoint hold two blocks.     *)
(* Claims take their steps independently of each other, so every nesting   *)
(* of calls is covered; which claims belong to one thread is left open.    *)
(*                                                                         *)
(* The write-ahead log is reduced to what the cache sees of it: whoever    *)
(* changed a block pins it (cache_sync), and a later holder writes it home *)
(* and unpins it (replay).  Module BlockLog models the log itself.         *)
(***************************************************************************)
EXTENDS Naturals, FiniteSets, SequencesExt

CONSTANTS
    Claim,          \* claims: uses of a block from cache_acquire to cache_release
    BlockNo,        \* block numbers
    Slot,           \* Block structs the arena can hand out
    Data,           \* contents of a block
    Threshold,      \* EVICTION_THRESHOLD
    MaxPinned,      \* bound: pinned slots the log makes room for
    Stored          \* bound: the blocks that are changed

ASSUME CacheAssumption ==
    /\ Threshold \in Nat /\ MaxPinned \in Nat
    /\ Stored \subseteq BlockNo /\ BlockNo # {} /\ Data # {} /\ Slot # {}

VARIABLES
    lru,            \* the list behind `head', most recently used slot first
    block_no,       \* block_no[s]: the block slot s is meant to hold
    acquired,       \* slots whose flag `acquired' is set
    pinned,         \* slots whose flag `pinned' is set
    valid,          \* slots whose content was loaded
    locked,         \* slots whose sleeping lock is held
    data,           \* data[s]
    disk,           \* disk[b]: the content of block b on the device
    pc,             \* where each claim is
    want,           \* want[c]: the block claim c is for
    slot,           \* slot[c]: the slot cache_acquire chose for c
    content,        \* history: content[b] is what was last stored in block b
    flagLost,       \* history: cache_release cleared the flag of another claim
    peak            \* history: the largest number of blocks needed at once so far

listVars == <<lru, block_no, acquired, pinned>>
slotVars == <<valid, locked, data>>
vars == <<listVars, slotVars, disk, pc, want, slot, content, flagLost, peak>>

InList == ToSet(lru)

\* pc values: "idle"; "lock" waits for the sleeping lock of slot[c]; "read" has
\* to load the slot; "hold" owns the block; "dirty" changed it and has not yet
\* called cache_sync; "drop" is between the two halves of cache_release.
PC == {"idle", "lock", "read", "hold", "dirty", "drop"}

TypeOK ==
    /\ lru \in Seq(Slot) /\ IsInjective(lru)
    /\ block_no \in [Slot -> BlockNo]
    /\ acquired \subseteq InList /\ pinned \subseteq InList
    /\ valid \subseteq InList /\ locked \subseteq InList
    /\ data \in [Slot -> Data] /\ disk \in [BlockNo -> Data]
    /\ pc \in [Claim -> PC]
    /\ want \in [Claim -> BlockNo] /\ slot \in [Claim -> Slot]
    /\ content \in [BlockNo -> Data] /\ flagLost \in BOOLEAN /\ peak \in Nat

\* The unread values of want and slot outside of acquire ... release, and of
\* the fields of unused slots.
AnyBlock == CHOOSE b \in BlockNo : TRUE
AnySlot == CHOOSE s \in Slot : TRUE
AnyData == CHOOSE d \in Data : TRUE

\* init_bcache leaves an empty list and an empty arena.
Init ==
    /\ lru = <<>>
    /\ block_no = [s \in Slot |-> AnyBlock]
    /\ acquired = {} /\ pinned = {} /\ valid = {} /\ locked = {}
    /\ disk = [b \in BlockNo |-> AnyData]
    /\ content = disk /\ flagLost = FALSE /\ peak = 0
    /\ data = [s \in Slot |-> AnyData]
    /\ pc = [c \in Claim |-> "idle"]
    /\ want = [c \in Claim |-> AnyBlock]
    /\ slot = [c \in Claim |-> AnySlot]

-----------------------------------------------------------------------------
(* The search of cache_acquire *)

\* The test below without the flag that protects acquired blocks.
EvictableIfUnpinned == {s \in InList : s \notin pinned}

\* The test below without the flag that protects pinned blocks.
EvictableIfReleased == {s \in InList : s \notin acquired}

\* Slots the search may leave as the one to evict.
Evictable == {s \in InList : s \notin acquired /\ s \notin pinned}

\* The scan runs from the most to the least recently used slot and overwrites
\* its candidate, so the candidate it ends with is the last one of the list.
Victim == SelectLastInSeq(lru, LAMBDA s : s \in Evictable)

\* A search that compares a slot with the wanted block only when the slot is
\* not in use, as if the two tests of the loop came in the other order.
HitsIfFree(b) == {s \in Evictable : block_no[s] = b}

Hits(b) == {s \in InList : block_no[s] = b}

\* detach_from_list, then merge_list(&head, &slot->node).
MoveToFront(s) == lru' = <<s>> \o RemoveFirst(lru, s)

Chosen(c, s) ==
    /\ acquired' = acquired \union {s}
    /\ MoveToFront(s)
    /\ slot' = [slot EXCEPT ![c] = s]

\* The block is cached.
Hit(c, b) ==
    \E s \in Hits(b) :
        /\ Chosen(c, s)
        /\ UNCHANGED <<block_no, pinned, valid, data>>

\* The cache is large enough to evict, and the scan found a candidate.
Evict(c, b) ==
    /\ Hits(b) = {} /\ Victim # 0 /\ Len(lru) >= Threshold
    /\ Chosen(c, lru[Victim])
    /\ block_no' = [block_no EXCEPT ![lru[Victim]] = b]
    /\ valid' = valid \ {lru[Victim]}
    /\ UNCHANGED <<pinned, data>>

\* Growing whenever the block is not cached, whatever the threshold.
GrowAlways(c, b) ==
    /\ Hits(b) = {}
    /\ Slot \ InList # {}
    /\ LET s == CHOOSE x \in Slot \ InList : TRUE IN
         /\ Chosen(c, s)
         /\ block_no' = [block_no EXCEPT ![s] = b]
         /\ data' = [data EXCEPT ![s] = AnyData]
    /\ UNCHANGED <<pinned, valid>>

\* alloc_object and init_block.  The arena hands out the free structs in order
\* of their index, which the choice below stands for.
Grow(c, b) ==
    /\ Hits(b) = {} /\ (Victim = 0 \/ Len(lru) < Threshold)
    /\ Slot \ InList # {}
    /\ LET s == CHOOSE x \in Slot \ InList : TRUE IN
         /\ Chosen(c, s)
         /\ block_no' = [block_no EXCEPT ![s] = b]
         /\ data' = [data EXCEPT ![s] = AnyData]
    /\ UNCHANGED <<pinned, valid>>

-----------------------------------------------------------------------------
(* The actions *)

Goto(c, l) == pc' = [pc EXCEPT ![c] = l]

\* Slots that cannot be given to another block: a claim is on them, or the log
\* has not written them home yet.
Needed == {slot[c] : c \in {d \in Claim : pc[d] # "idle"}} \union pinned

\* cache_acquire up to the release of the cache's spinlock.
cache_acquire(c, b) ==
    /\ pc[c] = "idle"
    /\ Hit(c, b) \/ Evict(c, b) \/ Grow(c, b)
    /\ want' = [want EXCEPT ![c] = b]
    /\ Goto(c, "lock")
    /\ peak' = IF Cardinality(Needed') > peak THEN Cardinality(Needed') ELSE peak
    /\ UNCHANGED <<locked, disk, content, flagLost>>

\* acquire_sleeplock(&slot->lock) returns, and `valid' is tested.
acquire_sleeplock(c) ==
    /\ pc[c] = "lock"
    /\ slot[c] \notin locked
    /\ locked' = locked \union {slot[c]}
    /\ Goto(c, IF slot[c] \in valid THEN "hold" ELSE "read")
    /\ UNCHANGED <<listVars, valid, data, disk, want, slot, content, flagLost, peak>>

\* device_read(slot) reads the block the slot is labelled with.
device_read(c) ==
    /\ pc[c] = "read"
    /\ data' = [data EXCEPT ![slot[c]] = disk[block_no[slot[c]]]]
    /\ valid' = valid \union {slot[c]}
    /\ Goto(c, "hold")
    /\ UNCHANGED <<listVars, locked, disk, want, slot, content, flagLost, peak>>

\* Slots that are about to be pinned.
Unsynced == {slot[u] : u \in {v \in Claim : pc[v] = "dirty"}}

\* The holder of a block stores new data in it, inside an operation for which
\* the log reserved room.
store(c, d) ==
    /\ pc[c] = "hold" /\ want[c] \in Stored
    /\ Cardinality(pinned \union Unsynced \union {slot[c]}) <= MaxPinned
    /\ data' = [data EXCEPT ![slot[c]] = d]
    /\ content' = [content EXCEPT ![want[c]] = d]
    /\ Goto(c, "dirty")
    /\ UNCHANGED <<listVars, valid, locked, disk, want, slot, flagLost, peak>>

\* cache_sync pins the block.
cache_sync(c) ==
    /\ pc[c] = "dirty"
    /\ pinned' = pinned \union {slot[c]}
    /\ Goto(c, "hold")
    /\ UNCHANGED <<lru, block_no, acquired, slotVars, disk, want, slot, content, flagLost, peak>>

\* replay, holding a block whose update is in the log: device_write, unpin.
replay(c) ==
    /\ pc[c] = "hold"
    /\ slot[c] \in pinned
    /\ disk' = [disk EXCEPT ![block_no[slot[c]]] = data[slot[c]]]
    /\ pinned' = pinned \ {slot[c]}
    /\ UNCHANGED <<lru, block_no, acquired, slotVars, pc, want, slot, content, flagLost, peak>>

\* The first half of cache_release.
release_sleeplock(c) ==
    /\ pc[c] = "hold"
    /\ locked' = locked \ {slot[c]}
    /\ Goto(c, "drop")
    /\ UNCHANGED <<listVars, valid, data, disk, want, slot, content, flagLost, peak>>

\* The claim has got its slot from cache_acquire and has not begun to release it.
Using(c) == pc[c] \in {"lock", "read", "hold", "dirty"}

\* The second half of cache_release.  It does not look whether another claim
\* has chosen the slot since, and set the flag for itself.
cache_release(c) ==
    /\ pc[c] = "drop"
    /\ acquired' = acquired \ {slot[c]}
    /\ flagLost' = (flagLost \/ \E u \in Claim : Using(u) /\ slot[u] = slot[c])
    /\ want' = [want EXCEPT ![c] = AnyBlock] /\ slot' = [slot EXCEPT ![c] = AnySlot]
    /\ Goto(c, "idle")
    /\ UNCHANGED <<lru, block_no, pinned, slotVars, disk, content, peak>>

Next ==
    \E c \in Claim :
        \/ \E b \in BlockNo : cache_acquire(c, b)
        \/ acquire_sleeplock(c)
        \/ device_read(c)
        \/ \E d \in Data : store(c, d)
        \/ cache_sync(c)
        \/ replay(c)
        \/ release_sleeplock(c)
        \/ cache_release(c)

Spec == Init /\ [][Next]_vars

-----------------------------------------------------------------------------
(* Properties *)

Owns(c) == pc[c] \in {"read", "hold", "dirty"}

\* Whoever got a slot from cache_acquire(b) finds block b in it until it releases
\* it: nobody evicts the slot between the release of the cache's spinlock and the
\* end of the use of the block (cache.c:142-143).
HeldSlotKept ==
    \A c \in Claim : Using(c) => slot[c] \in InList /\ block_no[slot[c]] = want[c]

\* The same as long as no cache_release has cleared the flag of a claim that
\* was waiting for the slot: the flags protect every other interleaving.
FlagKeepsSlot == ~flagLost => HeldSlotKept

\* Whoever holds a block sees what was last stored in it, through any number
\* of evictions, reloads and write-backs in between (cache.c cache_acquire,
\* device_read, cache_sync, replay), under the same condition.
ReadsLastStore ==
    ~flagLost => \A c \in Claim :
        pc[c] \in {"hold", "dirty"} => data[slot[c]] = content[want[c]]

\* The list never holds two slots for one block, so there is never a second
\* copy of a block that could miss an update (the search of cache_acquire), nor
\* two holders of one slot (the sleeping lock of the block, cache.h:22).
OneSlotPerBlock ==
    /\ TypeOK
    /\ \A c, u \in Claim : Owns(c) /\ Owns(u) /\ slot[c] = slot[u] => c = u
    /\ \A i, j \in DOMAIN lru : block_no[lru[i]] = block_no[lru[j]] => i = j

\* The cache stays small (cache.h:11-12): however many blocks are held at once, by
\* one thread or by several, the list is never longer than EVICTION_THRESHOLD or
\* than the largest number of blocks that were claimed or pinned at the same
\* time.  Blocks that were released and written home are used again first.
CacheBounded == Len(lru) <= Threshold \/ Len(lru) <= peak
=============================================================================
