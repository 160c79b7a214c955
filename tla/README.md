# FTOS-FFS in TLA+

FTOS-FFS is a small AArch64 kernel (Raspberry Pi 3, several CPUs) whose file system places inodes
and data blocks in FFS-style block groups. This project models the parts of it where a mistake is
hard to see and hard to test: the write-ahead log, the block cache, block allocation, inodes and
open files, processes and sleeping locks, the SD card queue, the console and the object arenas.
TLC checks each model on a small instance; TLAPS proves the central results for every value of the
constants.

Source paths below are relative to `src/FTOS-FFS/src/`. `PROJECT.json` maps every definition to the
lines it models.

## The system and its parts

A user process enters the kernel through a trap. Interrupts are off in the kernel, so a CPU leaves a
stretch of kernel code only where the code sleeps or spins; other CPUs run all the time.

* **System calls on files** (`core/sysfile.c`, `fs/file.c`) work on descriptors, which name entries of
  a table of open files, which name inodes.
* **Inodes** (`fs/inode.c`) are cached objects with a reference count and a lock. `inode_map` gets data
  blocks from the **allocator** (`cache_alloc`, `cache_allocg`, `cache_free`), preferring the group of
  the inode.
* All of them read and write blocks through the **block cache** (`fs/cache.c`), inside *atomic
  operations* (`begin_op` ... `end_op`) that the **log** makes durable as a whole.
* The cache reads and writes the **SD card** through a request queue (`driver/sd.c`), whose interrupt
  handler wakes the sleeping thread.
* Threads sleep and wake through the **process table** (`core/proc.c`, `core/sched.c`) and
  **sleeping locks** (`core/sleeplock.c`).
* Cache slots and inode objects come from **arenas** (`core/arena.c`), which keep their pages in
  circular **lists** (`common/list.c`).
* The **console** (`core/console.c`) is a device file with its own buffer and locks.

## Modules

One action is one stretch of code between two points where another CPU, an interrupt or a power
failure can come in. Actions have the names of the functions they model; a suffix names the part
(`end_op_sleep`, `wait_reap`). Control states are in a variable `pc` (`place` in `Console`).

| module | models | state | actions |
|---|---|---|---|
| `AtomicDisk` | what `fs/cache.h` promises of operations | content seen, content that survives, phase of each operation | `Begin` `Write` `End` `Persist` `Return` `Crash` |
| `BlockLog` | `fs/cache.c`: the log | header, timestamps, `log_size`, `log_used`, `op_count`, the cache, the disk with its log and header | `begin_op_*`, `cache_sync`, `end_op*`, `commit`, `checkpoint_*`, `replay_*`, `init_bcache`, `cache_load`, `cache_evict`, `Crash` |
| `BCache` | `fs/cache.c`: slots, LRU list, eviction | list of slots, `acquired`, `pinned`, `valid`, data, sleeping lock of each slot | `cache_acquire`, `acquire_sleeplock`, `device_read`, `store`, `cache_sync`, `replay`, `release_sleeplock`, `cache_release` |
| `DiskLayout` | `user/mkfs/main.c`, address arithmetic of `fs/inode.c`, `fs/cache.c` | none (operators) | |
| `BlockAlloc` | allocator, group choice of `inode_map`, `used_block` | bitmaps, blocks of inodes, counters, last commit | `map_direct`, `map_indirect`, `search`, `cache_alloc`, `cache_allocg`, `zero_block`, `inc_*`, `free_*`, `reboot` with its recount |
| `InodeTree` | `fs/inode.c`, create/open/unlink/close of `core/sysfile.c` | objects, counts, locks with their CPU, entries, disk | create, open, unlink and close step by step (`lock_dp`, `lookup_*`, `link`, `put_*`), `sleep`, `resume` on any CPU, panics |
| `FileTable` | `fs/file.c`, descriptors in `core/sysfile.c`, `core/proc.c` | file table, descriptors, working directories | `open`, `dup`, `close`, `chdir`, `read`, `write`, `fork`, `exit` step by step |
| `Proc` | `core/proc.c`, `core/sched.c`, `core/sleeplock.c`, pid limit of `core/container.c` | process table, `ptable.lock`, what each CPU executes, sleeping locks | `sched_*`, `swtch`, `fork`, `fork_finish`, `fork_fail`, `exit`, `wait_*`, `yield`, `sleep`, `sleep_io`, `acquire_*`, `release_*` |
| `SdQueue` | `sdrw`, `sd_start`, `sd_intr` of `driver/sd.c`, `driver/buf.h` | linked queue, buffers, command and interrupt of the controller, card | `sdrw`, `buflist_push`, `sdrw_*`, `sd_intr`; `emmc_done`, `emmc_glitch` (external) |
| `CList` | `common/list.c` | none (operators on links) | |
| `Arena` | `core/arena.c`, the free list of `core/physical_memory.c` | pages, links, bitmaps, counters | `alloc_object`, `free_object`, `clear_arena`; `kalloc`, `kfree` of others |
| `LineInput` | what reading the console promises | queue of bytes, line being edited | `Type` `Erase` `Kill` `Begin` `Take` `AtEof` `Return` |
| `Console` | `core/console.c` | ring buffer with `r`, `w`, `e`, both locks | `console_intr`, `console_read`, `console_write` between two lock operations (`read_char`, `read_sleep`, `unlock`, `relock`) |

`MC*` modules and `.cfg` files give the constants small values. Proofs are in
`BlockLogProofs`, `BCacheProofs`, `BlockAllocProofs`, `InodeTreeProofs`, `FileTableProofs`, `ProcProofs`,
`ArenaProofs` (for `Arena` and `CList`) and `DeviceProofs` (for `Console` and `SdQueue`; because it extends
both, the names of `Console` have a prefix, as in `ConsoleSpec`). Definitions such as `exit_silently` or `sleep_early_release` are variants of an
action with a plausible mistake in it. No specification uses them; each is there to show that a
property would notice.

### How the models meet

The components are separate modules, each with the others reduced to what it sees of them.

* `BlockLog` takes acquire, modify, sync and release of one block as one step, because the block's
  sleeping lock is held throughout, and evicts any block that is neither pinned nor in use. `BCache`
  has the slots, flags and locks that this rests on, and shows where it fails (see *Findings*).
* A thread may acquire a block while it has others (`inode_map`, `replay`). `BCache` therefore has no
  threads but *claims*: one call of `cache_acquire` with the use of the block up to the end of its
  `cache_release`. Any number of them can belong to one thread. What a thread does between its claims,
  and so a deadlock of two threads that acquire two blocks in opposite order, is not in the model.
* `BCache` and `Proc` share the sleeping lock: in `BCache` it is a holder, in `Proc` it is the code of
  `core/sleeplock.c` on top of `sleep` and `wakeup`.
* `BlockAlloc` keeps the last commit as a copy of bitmaps and inodes and returns to it in a crash; that
  this is what a crash does is `ImplementsAtomicOps`.
* `FileTable` sees an inode as a size and a count; `InodeTree` has its object, lock and entry.

## Runs

All runs pass except `bcache_release_race` and `proc_orphan`, each of which shows a violation.

| run | instance | what it checks |
|---|---|---|
| `log_atomic` | 2 threads, 2 blocks, 2 values, 2 blocks per operation, log of 4 | `ImplementsAtomicOps`: the log implements `AtomicDisk`. `CommitFits`, `LogReserved`: reservations and give-backs never overcommit the header. `CheckpointExclusive`: the checkpointer is alone. `DirtyIsPinned`: eviction drops no update |
| `log_liveness` | 3 threads, log of 2, 1 block per operation | `CallsReturn`: `begin_op` gets in and `end_op` returns |
| `bcache` | 3 claims, 3 blocks, 4 slots, threshold 2 | `OneSlotPerBlock`, `CacheBounded`; `FlagKeepsSlot`, `ReadsLastStore` while no flag was lost |
| `bcache_release_race` | 3 claims, 3 blocks | violation of `HeldSlotKept` |
| `alloc` | 2 threads, 2 groups of 4 blocks | `BlocksPartitioned`, `FreeFindsBitSet`; `UsedBlockExact` while no two updates overlapped |
| `inode` | 2 processes, 2 CPUs, root and 2 more inodes | `OneObjectPerInode`, `LockOwned`, `RefsCounted`, `FreedWithLastUse`, `EntryWritten` |
| `file` | 2 processes, 2 files, 2 descriptors each, 2 inodes | `RefsExact`, `InodeRefsExact`, `TransferAtOffset`, `NeverPanics` |
| `proc` | 2 CPUs, 3 processes, 3 pids, 1 lock, 4 forks | `RunsOnItsOwnStack`, `SleepersWillBeWoken`, `NoZombieMissed`; `RunnableRuns`: no runnable process starves; `WaitReturns`: a `wait` with a child to collect comes back |
| `proc_orphan` | 1 CPU, 3 processes, 4 pids, 3 forks | violation of `WaitReturnsOwnChild` |
| `sd` | 3 threads, 3 blocks, 1 spurious interrupt | `StartsAtRest`, `NobodyForgotten`, `TransferDone`, `TransfersEnd` |
| `arena` | 3 pages of 2 objects | `GrowsOnlyWhenFull`, `PagesPartitioned`, `CountsExact` |
| `console` | 2 processes, buffer of 3, 5 characters | `FullIsReadable`, `WriteReturns`, `ReadReturns`, `ImplementsLineInput` |

Each component's type invariant `TypeOK` (`ConsoleTypeOK`) is checked too; where it is not listed on its
own it is a conjunct of one of the run's invariants. Deadlock is checked in `log_atomic`, `bcache`,
`alloc` and `inode`. In the other runs the system may stop: calls, forks or characters are bounded, or everything
waits for input.

### Bounds, and why they are enough

* `log_atomic`: `LogSize` 4 with `OpMax` 2 lets two operations run at once and makes the third wait;
  two blocks are enough for absorption (the same block twice), for a partial checkpoint and for a
  replay cut in half. `MaxTs` 3 bounds the operations that are committed, enough for an operation after
  a checkpoint and one after a crash.
* `log_liveness`: with room for two of three operations both sleep channels are used.
* `bcache`: eviction starts at two slots and three blocks compete for them, so slots are evicted and
  reloaded, and the list grows past the threshold when three blocks are claimed or pinned at once. The
  fourth slot is there for a list that would grow without need. One block changes its content.
* `alloc`: each group has two data blocks, so a group fills while another thread looks at it, the search
  moves on and the disk becomes full. Counters wrap at `Word` 5, one more than a group has blocks.
* `inode`: two inodes beside the root, so that a number is freed and used again; two CPUs, so that a
  process wakes on the other one.
* `file`: both tables run out in the middle of `open`; a shared file after `fork` needs two processes.
* `proc`: two successful forks beside the first process reach the limit `NPID` of 3, a third leaves the
  container locked and a fourth stops. With three entries a grandchild outlives its parent and the
  parent's entry is used again, and a fork can find the table full.
* `proc_orphan`: with four pids for three forks no pid is used twice, so that a pid names one process.
* `sd`: three requests, so that the queue has a middle; one interrupt of the wrong kind at any point.
* `console`: a buffer of three with five characters wraps round and fills; reads of 0 and of 2.
* `arena`: three pages give a list with a middle page that becomes full and gets room again.

Symmetry is used only in runs without temporal properties, over threads, CPUs or blocks that the
model treats alike.

### Fairness, and why the code justifies it

* **Log**: weak fairness of each thread inside the log code and of `end_op`, without power failures. A
  runnable thread runs (`RunnableRuns`), and every system call that begins an operation ends it. No
  call of `begin_op` is assumed.
* **Scheduler**: for each CPU, strong fairness of the kernel code it executes (`KernelStep`) and of the
  clock interrupt that yields. A CPU in the kernel is at one point of it until it takes its next step, so
  this is fairness of each step; strong, because spinlocks are free again and again but not all the time.
  A process in user mode has to do nothing but be interrupted, and the owner of a sleeping lock releases
  it. Nobody has to fork, exit or call `wait`.
* **SD card**: weak fairness of threads, of the end of a command and of the handler while an interrupt is
  pending.
* **Console**: weak fairness of kernel steps and strong fairness for taking `conslock` and the inode
  lock. Nobody has to type or to call `read`.

### Findings

`cache_release` (`fs/cache.c:159-164`) gives up the sleeping lock of a block and then clears
`acquired`. A thread that has chosen the slot in between and set the flag, as the comment at
`fs/cache.c:142` asks, loses it; a third thread can then evict the slot. `bcache_release_race` shows
this with three claims. `FlagKeepsSlot` and `ReadsLastStore` show that nothing else goes wrong: both
hold in every execution in which no flag was lost.

`exit` (`core/proc.c:133-141`) does not pass its children on: `// p->parent = initproc;` is commented out.
An orphan keeps pointing at the entry of its dead parent. Once `wait` has freed that entry and `fork` has
given it to a new process, the new process's `wait` returns the orphan, although the comment at
`core/proc.c:311` says "Wait for a child process to exit and return its pid". `proc_orphan` shows this: the
first process forks a second, which forks a third and exits; the first collects it and forks again; the
third exits; the new process calls `wait` and gets the pid of a process that it has not forked.

## What is proved

All theorems hold for every value of the constants that satisfies the named `ASSUME`s: finite and
nonempty sets, positive sizes, and null pointers that differ from what they are compared with. TLC
evaluates these assumptions on every run.

Three of the modules count: outstanding operations, references, descriptors. The lemmas about the steps
assume there what they use of the sizes of finite sets (`Counting` in `BlockLogProofs` and
`FileTableProofs`, `Tally` in `InodeTreeProofs`). `CountingHolds` and `TallyHolds` prove it before the
theorems, which therefore rest on nothing but the named assumptions.

**The log** (`BlockLogProofs`). `Invariance` is the inductive invariant
`IInv`, of which `TypeOK`, `CommitFits`, `CheckpointExclusive`, `LogReserved` and `DirtyIsPinned` are
consequences. None of these is inductive by itself. That the header never overflows, for instance,
needs that `log_used` counts the recorded blocks and `OpMax` for each outstanding operation
(`SpaceInv`), that `op_count` is the number of outstanding operations (`CountInv`), that no block is
recorded twice (`DistinctInv`), and that during a checkpoint nobody else is in the log (`CkptInv`).
That eviction is harmless needs the connection between cache, log and disk at each stage of a
checkpoint (`CleanInv`, `PinnedInv`, `CkptLogInv`, `ReplayInv`). Each action has a lemma, with one step
per conjunct it can disturb.

**The log implements atomic operations** (`BlockLogProofs`). `Refinement` maps the cache to `mem`, what
a boot would recover to `stable`, and `pc` and the timestamps to `phase`. The write of the header is
the step at which all closed operations become durable (`Persist`); `begin_op_enter`, `cache_sync`,
`end_op`, the two ways `end_op` returns, and `Crash` are the other visible steps. All others leave the
mapping alone. That is the hard part: writing log blocks and home blocks, or clearing the header, does
not change what recovery would give.

**The block cache** (`BCacheProofs`). `CacheInvariant` is the invariant `BInv`. Whether or not a flag was
lost, a claim between acquire and release has a slot of the list, which it has locked while it owns
the block (`SlotInv`, `OwnerInv`), no block has two slots (`LabelInv`), and every flag is set for a claim
that has not released its slot (`FlagInv`). From these follow `OneSlotPerBlockHolds` and
`CacheBoundedHolds`: past the threshold the list grows only when every slot is flagged or pinned, hence
claimed or pinned, so that it is then no longer than the largest number of blocks ever claimed or pinned
at one time (the history variable `peak`). There is no bound on the claims of a thread in this: the code
has none. `FlagKeepsSlotHolds` and `ReadsLastStoreHolds`
need more, and only until a flag is lost: who uses a slot has its flag set and finds the block it asked
for (`UseInv`), a loaded slot holds what was last stored, and a block whose disk copy is old is in a
slot that is going to be written (`DataInv`). Of the list the proofs use only its set of slots and its
length; lemmas on `RemoveFirst` and `Victim` say what a move to the front and an eviction do to both.

**Allocation and layout** (`BlockAllocProofs`). The arithmetic of the layout: a block number and its
group and offset determine each other (`BlockNoRoundTrip`), inodes lie in the inode blocks of their
group and no two share an entry, and the log ends before the first group. From it the invariant
`AllocInvariant`, and with it `NoBlockLostOrShared` and `FreeNeverFails`. The invariant adds that a
thread has a block exactly while it is between the bitmap and the inode, and that it remembers the
block's own group. `CountersExact` is about `used_block`: until two updates of one counter overlap, the
counter and the blocks on their way to the increment add up to the blocks in use (`RInv`, which adds to
`UsedBlockExact` what a thread in the middle of an update has read). It needs `AllocInvariant`, because a
count is exact only if no block is handed out twice, and the recount of `reboot` for crashes.

**Inodes** (`InodeTreeProofs`). `InodeInvariant` is the invariant `IInv`; `OneObjectPerInodeHolds`,
`LockOwnedHolds`, `RefsCountedHolds`, `FreedWithLastUseHolds` and `EntryWrittenHolds` follow from it. It has
two parts. `Base` also holds once a check has failed and the kernel has stopped: locks have the owner that
the places of the processes say (`LockInv`), each process has the references of its place (`ThreadInv`),
counts are the number of references (`CountInv`), an inode has at most one object in use (`InoInv`), the
entry in memory is the one on disk even while it is locked (`EntryInv`), and the root has a link for every
directory in it (`RootInv`). `Core` holds up to a failed check. It says which inodes are allocated: one
with a name, or one that somebody uses (`NameInv`, `AllocInv`). That `inode_put` frees only what nobody uses
is the hard part, because it tests the count and the links and then gives up the lock of the inode cache.
It needs that the last user of an inode without links stays the only one (`SoleAt`): nobody can find the
inode by name, and nobody else has it open. Once freed, its number can be allocated again before the
object is gone; then the new user has found the dead object and stands in front of its lock, where it
stops the kernel (`DeadAt`). The steps that only move a process on share one lemma (`StillStep`); so do
those that get an object, change an entry and drop a reference. The assumptions are that processes and
objects are finitely many, that there are at least as many objects as inodes, because `inode_get` asserts
that `alloc_object` succeeds (`fs/inode.c:207-208`), and that inode 2 exists, which has the first name.

**Open files** (`FileTableProofs`). `FileInvariant` is the invariant `FInv`; `RefsExactHolds`,
`InodeRefsExactHolds`, `TransferAtOffsetHolds` and `NeverPanicsHolds` follow from it. The counts alone are
not inductive: `fileclose` may free a slot only because nobody else uses it, and `open` may fill one only
because nobody has found it. `FInv` therefore adds what a process has in hand at each place and what is
left of it once it has exited (`PlaceInv`), that whoever uses a file has a descriptor for it, and two
between the halves of `dup` (`UseInv`), that the slot `open` fills is nobody else's (`OpenInv`), that every
other slot in use is complete (`SlotInv`), that the child `fork` fills is its own (`ForkInv`), and who has
the lock of an inode (`LockInv`). The counts are cardinalities of sets of descriptors and processes; each
step changes them by one element (`OneChange`), so that one lemma (`RefStep`, `InodeStep`) reduces them to
an equation about the descriptor and the process that moved. For every other conjunct a frame lemma says
when a step of one process leaves it alone for all others.

**Processes** (`ProcProofs`). `ProcInvariant` says who holds `ptable.lock`: a CPU that scans the table or
leaves a stack, and a process that was just switched to (`CpuInv`). Whoever else gets the lock
therefore finds every process entirely on a CPU or entirely off. From it follow `StacksAreOwned`,
`NoLostWakeup`, `ParentIsWoken` and `SleepLocksExclude`. `SleepLockInv` connects the field of a sleeping
lock with its owner and its spinlock with the thread about to sleep; `ForkInv` says that a process in `fork`
has an entry of its own, which it may therefore give back when there is no memory.

**The SD card** (`DeviceProofs`). `SdInvariant` is the invariant `SInv`; `StartsAtRestHolds`,
`NobodyForgottenHolds` and `TransferDoneHolds` follow from it. Always, following the links ends at the null
pointer (`Acyclic`), an interrupt belongs to a command, and two transfers are of different blocks (the
caller holds the block's lock). Until somebody touches the queue between another thread's look at it and
that thread's critical section, the queue is a chain of exactly the threads that wait (`Chain`, `QueueInv`),
at most one thread is in that window and what it has seen is still so (`WindowInv`, `PushInv`, `LockInv`),
the controller works for the front on what its buffer says (`BusyInv`, `CmdInv`), and an effect on the card
is there before its interrupt (`WroteInv`, `DoneInv`). `TransferDone` needs the last two: with an interrupt
of the wrong kind the handler starts the same buffer again. `Queued` is the least set that is closed under
the links; appending at the end and taking the front off change it by one thread, which a lemma on each
shows without induction. The assumptions are that the null pointer is no thread, list head or command.

**The console** (`DeviceProofs`). `ConsoleRefines`: the ring buffer with its wrapping indexes implements
`LineInput`, from an invariant that adds to the types that the line has no end of line in it, that a
full buffer has been made readable, and what each call in progress has got so far. `BufferNeverStuck`
is a consequence.

**Lists and arenas** (`ArenaProofs`). `merge_list` and `detach_from_list` keep all rings intact, with any
aliasing of their arguments; merging joins exactly two rings; moving a page to the front links it where
it should be. On these rests the invariant `AInv` of the arena. The rings of *all* pages are not
invariant, because `clear_arena` leaves the links of the pages it frees as they are; so `ListInv` speaks
of one list only: its links agree and do not leave it, and no smaller set with the head in it is closed
(`IsListOf`). `OrderInv` says that behind a full page there are only full pages, up to the head, and
`FailInv` what the failed assertion implies. From them `GrowsOnlyWhenFull` follows: when the head is full,
the full pages are closed under `next`, and since `next` is injective on a finite set they are closed
under `prev` too, hence all (`WholeList`). `PagesPartitioned` and `CountsExact` are conjuncts of `AInv`. The
assumptions are that there are finitely many pages, NULL is none of them, and a page has room for at
least one object.

### Only model-checked

Liveness (`CallsReturn`, `RunnableRuns`, `WaitReturns`, `TransfersEnd`, `WriteReturns`, `ReadReturns`): the prover does
not handle fairness. Every safety property of a passing run is proved.

## What the code does that the properties allow for

Some properties have a condition, and some hazards no property, because of what the code does. Each
was met while translating it.

* `driver/sd.c:656`: `sdrw` looks at the queue and appends to it before it takes `sdlock`. On several CPUs
  two threads can both find it empty and both start the controller, or the handler can take the entry
  in between. The properties of `SdQueue` hold up to the first such overlap (`overlapped`).
* `fs/cache.c:433`, and the decrement in `cache_free`: `used_block` changes outside of the block's lock.
  Two updates on two CPUs can lose one; `UsedBlockExact` holds until then (`raced`). It is counted again
  at boot.
* `core/container.c:97-100`: at the pid limit `alloc_resource` returns with the container's lock held; the
  next fork cannot go on. The model halts there too.
* `fs/inode.c:174-180`: the lock of an inode is a spinlock that remembers a CPU, and its holder may sleep
  and wake on another one, where the check of the holder fails. In the model, as in the kernel, everything halts there (`failed`).
* `fs/inode.c:258-279`: `inode_put` gives up the lock of the inode cache while it frees an inode, so the
  object can be found in that window. `EntryWritten` excepts the object of a freed inode; the other
  properties of `InodeTree` hold in spite of it.
* `core/sysfile.c:342-344`: creating a directory raises the parent's link count, but `inodes.sync` is called
  without writing. `EntryWritten` leaves that count out.
* `core/sysfile.c:238`: removing a name that does not exist passes 0 to `inodes.get`, whose assertion
  fails, in the model too.
* `fs/inode.c:347`: `allocg` may return 0 when the group has filled up meanwhile, and `inode_map` records
  block 0. `BlocksPartitioned` is not affected: 0 is no data block.
* `fs/inode.c:334-345`: the search for a group starts again from 0 before the test that would end it, so it
  does not end on a full disk.
* `fs/inode.c:107-119`: after the loop `i == NGROUPS` always holds, so `inode_alloc_group` gives up for every
  directory and `create` falls back to the search from the start, whichever group is emptiest.
  `InodeTree` takes the first free inode.
* `fs/inode.c:553-559` and `579-584`: path lookup begins and ends an operation on a context its caller may
  have open.
* `fs/file.c:124`: the size of a write's chunks does not follow from `OP_MAX_NUM_BLOCKS`, the limit that
  `fs/cache.c:196` asserts.
* `fs/cache.c:303`: the log is checkpointed only when no operation is outstanding. `CallsReturn` is checked
  for a bounded number of operations, all of which end. In a stream where the next one always begins
  before the last ends, and which keeps to blocks already recorded, the log never fills and a thread
  in `end_op` is never woken.
* `core/virtual_memory.c:203-211`: when growing a process fails half way, the last mapped page is not
  given back.

## Simplifications

* `cache_sync` without a context (`fs/cache.c:205-206`), a direct write that only the tests use, is not in
  `BlockLog` or `BCache`.
* `BlockAlloc.search` reads the counters of all groups in one step; `fs/inode.c:334-345` reads them one by
  one. No property depends on which of the groups with room is chosen.
* `InodeTree.put_lock` takes the lock of an inode without the load and the check of the type in
  `inode_lock`: every caller of `inodes.put` in the model has locked, and so loaded, the object before.
  All names are in the root, so that a directory to be removed is empty; the refusals for `.`, `..` and
  directories with entries, after which the call gives back what it took, are left out.
* `FileTable.chdir_put` and `exit_file` take the drop of a reference and the assignment after it, to a field
  of the calling process that no other reads, as one step. Writes end at `SizeMax`.
* In `Proc` a failing `fork` is either out of entries or pids, which stops the kernel, or out of memory for
  the address space (`fork_fail`), which gives the entry back.

## Not modelled

* **Virtual memory and exec**: page tables that one process walks alone, and an ELF loader.
* **Traps, system call dispatch, interrupt controller, clock, mailbox, assembly**: tables and registers.
  That interrupts are off in the kernel and that the clock yields are assumptions of the models.
* **Spinlocks and `rc`**: they are the granularity of the actions.
* **SD card initialisation**, formatting, strings, bitmap helpers: sequential, no shared state. A bitmap is
  a set of bits.
* **File contents, paths of several names, nested containers** (only a test creates these).
* **mkfs beyond the layout, the shell and the other user programs**: sequential programs.
* **`src/FTOS-FFS/libc`**: a vendored copy of musl, which is most of the lines under `src/`.
* **`src/FTOS`**: the kernel before block groups; FTOS-FFS has its code with changes.

Because of the last two, the modelled lines are a small share of the tree. Of the kernel's own shared
state, the page tables and the parts above are what is left out.
