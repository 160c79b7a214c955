------------------------------ MODULE BlockLog ------------------------------
(***************************************************************************)
(* The write-ahead log of the block cache, src/FTOS-FFS/src/fs/cache.c:    *)
(* begin_op, sync, end_op, commit, checkpoint, replay and init_bcache.     *)
(*                                                                         *)
(* Steps.  A critical section under the cache lock is one action, except   *)
(* that commit() appends one header entry per action while the lock stays  *)
(* taken.  Every device write is an action of its own, so a power failure  *)
(* (Crash) falls between any two of them.  sleep() and wakeup() are the    *)
(* control states "sleep_log" and "sleep_ts".                              *)
(*                                                                         *)
(* Abstractions.  A thread's acquire; modify; sync; release of one block   *)
(* is one action: the block's sleep lock is held from the first to the     *)
(* last (module BCache examines that lock).  Cached copies of the log      *)
(* blocks always equal their disk copies and are left out.  Eviction       *)
(* follows the rule the cache states: never a pinned or an acquired block. *)
(***************************************************************************)
EXTENDS Integers, Sequences, FiniteSets

CONSTANTS Proc,       \* threads that run atomic operations
          Block,      \* block numbers outside the log
          Value,      \* block contents
          NotCached,  \* marks a block that has no valid cache entry
          OpMax,      \* OP_MAX_NUM_BLOCKS
          LogSize,    \* MIN(num_log_blocks - 1, LOG_MAX_SIZE)
          MaxTs       \* bound on the timestamps begin_op hands out between boots

ASSUME ProcAssumption == Proc # {} /\ IsFiniteSet(Proc)
ASSUME ValueAssumption == NotCached \notin Value
ASSUME SizeAssumption == OpMax \in Nat \ {0} /\ LogSize \in Nat \ {0}
ASSUME BoundAssumption == MaxTs \in Nat

VARIABLES
  \* memory, protected by the cache lock
  header,              \* header.block_no[0 .. num_blocks - 1]
  last_allocated_ts,
  last_persisted_ts,
  log_size,
  log_used,
  op_count,
  cache,               \* valid cached content of each block, or NotCached
  pinned,              \* blocks whose cache entry is pinned
  lockHolder,          \* threads inside commit(), which keep the cache lock
  up,                  \* has init_bcache returned?
  \* per thread
  pc,                  \* control state
  ts,                  \* OpContext: the timestamp,
  block_no,            \* and the recorded block numbers
  idx,                 \* the loop counter of commit, checkpoint or replay
  absorbed,            \* commit's local
  log_size_copy,       \* end_op's local
  \* disk
  disk,                \* blocks at their home locations
  logDisk,             \* blocks log_start .. log_start + LogSize - 1
  hdrDisk              \* the log header block

logVars   == <<header, last_allocated_ts, last_persisted_ts, log_size, log_used, op_count>>
cacheVars == <<cache, pinned>>
localVars == <<ts, block_no, idx, absorbed, log_size_copy>>
diskVars  == <<disk, logDisk, hdrDisk>>
vars == <<logVars, cacheVars, lockHolder, up, pc, localVars, diskVars>>

Elems(s) == {s[i] : i \in 1..Len(s)}
\* A fresh or dead OpContext.
ResetCtx(p) == ts' = [ts EXCEPT ![p] = 0] /\ block_no' = [block_no EXCEPT ![p] = <<>>]
Goto(p, to) == pc' = [pc EXCEPT ![p] = to]
LockFree == lockHolder = {}

\* Variant for sensitivity analysis: the call to wakeup() is missing.
NoWakeup(p, next, from, to) == Goto(p, next)

\* wakeup(chan): every thread asleep in state `from' runs on from state `to'.
Wakeup(p, next, from, to) ==
  pc' = [q \in Proc |-> IF q = p THEN next
                        ELSE IF pc[q] = from THEN to ELSE pc[q]]
-----------------------------------------------------------------------------
(* Boot: init_bcache resets the memory state, reads the header, replays.   *)

Init ==
  /\ header = <<>> /\ last_allocated_ts = 0 /\ last_persisted_ts = 0
  /\ log_size = LogSize /\ log_used = 0 /\ op_count = 0
  /\ cache = [b \in Block |-> NotCached] /\ pinned = {}
  /\ lockHolder = {} /\ up = FALSE
  /\ \E p \in Proc : pc = [q \in Proc |-> IF q = p THEN "read_header" ELSE "idle"]
  /\ ts = [p \in Proc |-> 0] /\ block_no = [p \in Proc |-> <<>>]
  /\ idx = [p \in Proc |-> 0] /\ absorbed = [p \in Proc |-> 0]
  /\ log_size_copy = [p \in Proc |-> 0]
  /\ disk \in [Block -> Value]
  /\ \E v \in Value : logDisk = [i \in 1..LogSize |-> v]
  /\ hdrDisk = <<>>

init_bcache(p) ==
  /\ pc[p] = "read_header"
  /\ header' = hdrDisk
  /\ idx' = [idx EXCEPT ![p] = 0]
  /\ Goto(p, "replay")
  /\ UNCHANGED <<last_allocated_ts, last_persisted_ts, log_size, log_used, op_count,
                 cacheVars, lockHolder, up, ts, block_no, absorbed, log_size_copy, diskVars>>

\* Power failure: memory is lost, the disk keeps what was written, and one
\* thread (the first to reach forkret) runs init_bcache again.
Crash ==
  /\ header' = <<>> /\ last_allocated_ts' = 0 /\ last_persisted_ts' = 0
  /\ log_size' = LogSize /\ log_used' = 0 /\ op_count' = 0
  /\ cache' = [b \in Block |-> NotCached] /\ pinned' = {}
  /\ lockHolder' = {} /\ up' = FALSE
  /\ \E p \in Proc : pc' = [q \in Proc |-> IF q = p THEN "read_header" ELSE "idle"]
  /\ ts' = [p \in Proc |-> 0] /\ block_no' = [p \in Proc |-> <<>>]
  /\ idx' = [p \in Proc |-> 0] /\ absorbed' = [p \in Proc |-> 0]
  /\ log_size_copy' = [p \in Proc |-> 0]
  /\ UNCHANGED diskVars
-----------------------------------------------------------------------------
(* Reading and eviction, the two effects of cache_acquire on the cache.    *)

cache_load(b) ==
  /\ up /\ LockFree /\ cache[b] = NotCached
  /\ cache' = [cache EXCEPT ![b] = disk[b]]
  /\ UNCHANGED <<logVars, pinned, lockHolder, up, pc, localVars, diskVars>>

\* Variant: eviction forgets about pinned blocks.
EvictableAlways(b) == cache[b] # NotCached

Evictable(b) == cache[b] # NotCached /\ b \notin pinned

cache_evict(b) ==
  /\ LockFree /\ Evictable(b)
  /\ cache' = [cache EXCEPT ![b] = NotCached]
  /\ UNCHANGED <<logVars, pinned, lockHolder, up, pc, localVars, diskVars>>
-----------------------------------------------------------------------------
(* Atomic operations.                                                      *)

\* The call of begin_op, before the cache lock is taken.
begin_op(p) ==
  /\ up /\ pc[p] = "idle"
  /\ last_allocated_ts + Cardinality({q \in Proc : pc[q] \in {"begin", "sleep_log"}}) < MaxTs
  /\ Goto(p, "begin")
  /\ ResetCtx(p)
  /\ UNCHANGED <<logVars, cacheVars, lockHolder, up, idx, absorbed, log_size_copy, diskVars>>

begin_op_sleep(p) ==
  /\ pc[p] = "begin" /\ LockFree
  /\ log_used + OpMax > log_size
  /\ Goto(p, "sleep_log")
  /\ UNCHANGED <<logVars, cacheVars, lockHolder, up, localVars, diskVars>>

begin_op_enter(p) ==
  /\ pc[p] = "begin" /\ LockFree
  /\ log_used + OpMax <= log_size
  /\ log_used' = log_used + OpMax
  /\ last_allocated_ts' = last_allocated_ts + 1
  /\ ts' = [ts EXCEPT ![p] = last_allocated_ts + 1]
  /\ op_count' = op_count + 1
  /\ Goto(p, "run")
  /\ UNCHANGED <<header, last_persisted_ts, log_size, cacheVars, lockHolder, up,
                 block_no, idx, absorbed, log_size_copy, diskVars>>

\* acquire(b); write v; sync(ctx, b); release(b).
cache_sync(p, b, v) ==
  /\ pc[p] = "run" /\ LockFree
  /\ \/ /\ b \in Elems(block_no[p])
        /\ UNCHANGED block_no
     \/ /\ b \notin Elems(block_no[p])
        /\ Len(block_no[p]) < OpMax
        /\ block_no' = [block_no EXCEPT ![p] = Append(@, b)]
  /\ cache' = [cache EXCEPT ![b] = v]
  /\ pinned' = pinned \union {b}
  /\ UNCHANGED <<logVars, lockHolder, up, pc, ts, idx, absorbed, log_size_copy, diskVars>>

end_op(p) ==
  /\ pc[p] = "run" /\ LockFree
  /\ lockHolder' = {p}
  /\ idx' = [idx EXCEPT ![p] = 0] /\ absorbed' = [absorbed EXCEPT ![p] = 0]
  /\ Goto(p, "commit")
  /\ UNCHANGED <<logVars, cacheVars, up, ts, block_no, log_size_copy, diskVars>>

\* One iteration of commit's loop.  `assert(j < log_size)' is CommitFits.
commit(p) ==
  LET b == block_no[p][idx[p] + 1] IN
  /\ pc[p] = "commit" /\ idx[p] < Len(block_no[p])
  /\ idx' = [idx EXCEPT ![p] = @ + 1]
  /\ \/ /\ b \in Elems(header)
        /\ absorbed' = [absorbed EXCEPT ![p] = @ + 1]
        /\ UNCHANGED header
     \/ /\ b \notin Elems(header)
        /\ header' = Append(header, b)
        /\ UNCHANGED absorbed
  /\ UNCHANGED <<last_allocated_ts, last_persisted_ts, log_size, log_used, op_count,
                 cacheVars, lockHolder, up, pc, ts, block_no, log_size_copy, diskVars>>

\* Variant: the reservation is returned in full.
ReturnAll(p) == OpMax + absorbed[p]

\* Log entries that the operation reserved and does not need.
Returned(p) == (OpMax - Len(block_no[p])) + absorbed[p]

\* Variant: end_op compares the count wrongly, so that any operation is the last.
LastIfAny == op_count > 0

LastOutstanding == op_count - 1 = 0

\* The end of commit (which wakes the sleepers of begin_op) and the rest of
\* end_op's critical section, for an operation that is not the last one.
end_op_wait(p) ==
  /\ pc[p] = "commit" /\ idx[p] = Len(block_no[p])
  /\ ~LastOutstanding
  /\ log_used' = log_used - Returned(p)
  /\ op_count' = op_count - 1
  /\ lockHolder' = {}
  /\ Wakeup(p, "wait_ts", "sleep_log", "begin")
  /\ UNCHANGED <<header, last_allocated_ts, last_persisted_ts, log_size, cacheVars, up,
                 localVars, diskVars>>

\* The same for the last outstanding operation: it closes the log to begin_op
\* and becomes the checkpointer.
end_op_last(p) ==
  /\ pc[p] = "commit" /\ idx[p] = Len(block_no[p])
  /\ LastOutstanding
  /\ log_used' = log_used - Returned(p)
  /\ op_count' = op_count - 1
  /\ log_size_copy' = [log_size_copy EXCEPT ![p] = log_size]
  /\ log_size' = 0
  /\ lockHolder' = {}
  /\ idx' = [idx EXCEPT ![p] = 0]
  /\ Wakeup(p, "ckpt_log", "sleep_log", "begin")
  /\ UNCHANGED <<header, last_allocated_ts, last_persisted_ts, cacheVars, up,
                 ts, block_no, absorbed, diskVars>>

\* The loop `while (ctx->ts > last_persisted_ts) sleep(...)'.
end_op_sleep(p) ==
  /\ pc[p] = "wait_ts" /\ LockFree
  /\ ts[p] > last_persisted_ts
  /\ Goto(p, "sleep_ts")
  /\ UNCHANGED <<logVars, cacheVars, lockHolder, up, localVars, diskVars>>

end_op_return(p) ==
  /\ pc[p] = "wait_ts" /\ LockFree
  /\ ts[p] <= last_persisted_ts
  /\ Goto(p, "idle")
  /\ ResetCtx(p)
  /\ idx' = [idx EXCEPT ![p] = 0] /\ absorbed' = [absorbed EXCEPT ![p] = 0]
  /\ UNCHANGED <<logVars, cacheVars, lockHolder, up, log_size_copy, diskVars>>
-----------------------------------------------------------------------------
(* Checkpointing.                                                          *)

\* Step 1: copy one block of the header to its log slot.
checkpoint_log(p) ==
  LET b == header[idx[p] + 1]
      data == IF cache[b] = NotCached THEN disk[b] ELSE cache[b]
  IN
  /\ pc[p] = "ckpt_log" /\ idx[p] < Len(header)
  /\ cache' = [cache EXCEPT ![b] = data]
  /\ logDisk' = [logDisk EXCEPT ![idx[p] + 1] = data]
  /\ idx' = [idx EXCEPT ![p] = @ + 1]
  /\ UNCHANGED <<logVars, pinned, lockHolder, up, pc, ts, block_no, absorbed, log_size_copy,
                 disk, hdrDisk>>

\* Variant: the header is written while blocks are still missing from the log.
LogAlways(p) == TRUE

LogWritten(p) == idx[p] = Len(header)

\* Step 2: write the header block; from here on the group is persistent.
checkpoint_header(p) ==
  /\ pc[p] = "ckpt_log" /\ LogWritten(p)
  /\ hdrDisk' = header
  /\ idx' = [idx EXCEPT ![p] = 0]
  /\ Goto(p, "replay")
  /\ UNCHANGED <<logVars, cacheVars, lockHolder, up, ts, block_no, absorbed, log_size_copy,
                 disk, logDisk>>

\* Where replay returns to: checkpoint, or the end of init_bcache.
AfterReplay(p) ==
  /\ up' = TRUE
  /\ idx' = [idx EXCEPT ![p] = 0]
  /\ Goto(p, IF up THEN "persisted" ELSE "idle")

replay_none(p) ==
  /\ pc[p] = "replay" /\ header = <<>>
  /\ AfterReplay(p)
  /\ UNCHANGED <<logVars, cacheVars, lockHolder, ts, block_no, absorbed, log_size_copy, diskVars>>

\* Step 3: copy one block from the log home, and un-pin it.
replay_install(p) ==
  LET b == header[idx[p] + 1] IN
  /\ pc[p] = "replay" /\ idx[p] < Len(header)
  /\ cache' = [cache EXCEPT ![b] = logDisk[idx[p] + 1]]
  /\ disk' = [disk EXCEPT ![b] = logDisk[idx[p] + 1]]
  /\ pinned' = pinned \ {b}
  /\ idx' = [idx EXCEPT ![p] = @ + 1]
  /\ UNCHANGED <<logVars, lockHolder, up, pc, ts, block_no, absorbed, log_size_copy,
                 logDisk, hdrDisk>>

\* Step 4: clear the log.
replay_clear(p) ==
  /\ pc[p] = "replay" /\ header # <<>> /\ idx[p] = Len(header)
  /\ header' = <<>> /\ hdrDisk' = <<>>
  /\ AfterReplay(p)
  /\ UNCHANGED <<last_allocated_ts, last_persisted_ts, log_size, log_used, op_count,
                 cacheVars, lockHolder, ts, block_no, absorbed, log_size_copy, disk, logDisk>>

\* Step 5: publish last_persisted_ts under the lock, then wake the waiters.
checkpoint_publish(p) ==
  /\ pc[p] = "persisted" /\ LockFree
  /\ last_persisted_ts' = last_allocated_ts
  /\ Goto(p, "wake_ts")
  /\ UNCHANGED <<header, last_allocated_ts, log_size, log_used, op_count, cacheVars,
                 lockHolder, up, localVars, diskVars>>

checkpoint_wakeup(p) ==
  /\ pc[p] = "wake_ts"
  /\ Wakeup(p, "reopen", "sleep_ts", "wait_ts")
  /\ UNCHANGED <<logVars, cacheVars, lockHolder, up, localVars, diskVars>>

\* Back in end_op: reopen the log, then wake begin_op's sleepers and return.
end_op_reopen(p) ==
  /\ pc[p] = "reopen" /\ LockFree
  /\ log_size' = log_size_copy[p]
  /\ log_used' = 0
  /\ Goto(p, "wake_log")
  /\ UNCHANGED <<header, last_allocated_ts, last_persisted_ts, op_count, cacheVars,
                 lockHolder, up, localVars, diskVars>>

end_op_wakeup(p) ==
  /\ pc[p] = "wake_log"
  /\ Wakeup(p, "idle", "sleep_log", "begin")
  /\ ResetCtx(p)
  /\ absorbed' = [absorbed EXCEPT ![p] = 0]
  /\ log_size_copy' = [log_size_copy EXCEPT ![p] = 0]
  /\ UNCHANGED <<logVars, cacheVars, lockHolder, up, idx, diskVars>>
-----------------------------------------------------------------------------
\* What a thread does inside the log code without the caller's choosing.
LogStep(p) ==
  \/ init_bcache(p)
  \/ begin_op_sleep(p) \/ begin_op_enter(p)
  \/ commit(p) \/ end_op_wait(p) \/ end_op_last(p)
  \/ end_op_sleep(p) \/ end_op_return(p)
  \/ checkpoint_log(p) \/ checkpoint_header(p)
  \/ replay_none(p) \/ replay_install(p) \/ replay_clear(p)
  \/ checkpoint_publish(p) \/ checkpoint_wakeup(p)
  \/ end_op_reopen(p) \/ end_op_wakeup(p)

Step(p) ==
  \/ LogStep(p)
  \/ begin_op(p)
  \/ \E b \in Block, v \in Value : cache_sync(p, b, v)
  \/ end_op(p)

Running == \/ \E p \in Proc : Step(p)
           \/ \E b \in Block : cache_load(b) \/ cache_evict(b)

Next == Running \/ Crash

Spec == Init /\ [][Next]_vars

\* Without power failures, the scheduler runs every runnable thread, and the
\* file system ends each operation that it begins.
FairSpec == /\ Init /\ [][Running]_vars
            /\ \A p \in Proc : WF_vars(LogStep(p)) /\ WF_vars(end_op(p))
-----------------------------------------------------------------------------
(* Properties.                                                             *)

Pc == {"read_header", "idle", "begin", "sleep_log", "run", "commit", "wait_ts", "sleep_ts",
       "ckpt_log", "replay", "persisted", "wake_ts", "reopen", "wake_log"}

\* The control states of the thread for which do_checkpoint is true, while
\* log_size is 0.
Checkpointing == {"ckpt_log", "replay", "persisted", "wake_ts", "reopen"}

\* Threads between the increment and the decrement of op_count.
Outstanding == {p \in Proc : pc[p] \in {"run", "commit"}}

\* Type correctness of the state that fs/cache.c keeps.
TypeOK ==
  /\ header \in Seq(Block) /\ hdrDisk \in Seq(Block)
  /\ last_allocated_ts \in Nat /\ last_persisted_ts \in Nat
  /\ log_size \in Nat /\ log_used \in Nat /\ op_count \in Nat
  /\ cache \in [Block -> Value \union {NotCached}] /\ pinned \in SUBSET Block
  /\ lockHolder \in SUBSET Proc /\ up \in BOOLEAN
  /\ pc \in [Proc -> Pc]
  /\ ts \in [Proc -> Nat] /\ block_no \in [Proc -> Seq(Block)]
  /\ idx \in [Proc -> Nat] /\ absorbed \in [Proc -> Nat]
  /\ log_size_copy \in [Proc -> Nat]
  /\ disk \in [Block -> Value] /\ logDisk \in [1..LogSize -> Value]

\* commit()'s `assert(j < log_size)' never fails, and neither subtraction from
\* the unsigned log_used at its end wraps around (cache.c:224, 237).
CommitFits ==
  \A p \in Proc : pc[p] = "commit" =>
    /\ idx[p] < Len(block_no[p]) =>
         \/ block_no[p][idx[p] + 1] \in Elems(header)
         \/ Len(header) < log_size
    /\ idx[p] = Len(block_no[p]) =>
         Returned(p) <= log_used

\* The comment in end_op (cache.c:318-322): while a thread checkpoints, it is
\* the only one to do so, every other operation waits in end_op, and begin_op
\* is blocked.
CheckpointExclusive ==
  \A p \in Proc : up /\ pc[p] \in Checkpointing =>
    /\ Outstanding = {} /\ log_used + OpMax > log_size
    /\ \A q \in Proc \ {p} : pc[q] \notin Checkpointing

\* The log has room for what the outstanding operations have reserved
\* (cache.c:174-178): begin_op never over-commits the log area.
LogReserved ==
  up /\ LockFree /\ (\A p \in Proc : pc[p] \notin Checkpointing) =>
    /\ log_used = Len(header) + OpMax * op_count
    /\ log_used <= log_size

\* A cached block that differs from its disk copy is pinned and recorded, by
\* an operation or in the header; a pinned block is cached and recorded.  So
\* eviction never loses an update and no block stays pinned for ever.
DirtyIsPinned ==
  up => \A b \in Block :
    /\ cache[b] \notin {NotCached, disk[b]} => b \in pinned
    /\ b \in pinned => /\ cache[b] # NotCached
                       /\ \/ b \in Elems(header)
                          \/ \E p \in Outstanding : b \in Elems(block_no[p])

\* What the disk will hold after recovery: the log wins over the home blocks.
Recovered ==
  [b \in Block |-> IF \E i \in 1..Len(hdrDisk) : hdrDisk[i] = b
                   THEN logDisk[CHOOSE i \in 1..Len(hdrDisk) : hdrDisk[i] = b]
                   ELSE disk[b]]

Visible ==
  IF up THEN [b \in Block |-> IF cache[b] = NotCached THEN disk[b] ELSE cache[b]]
        ELSE Recovered

\* A group of operations is persistent and its timestamp not yet published.
Persisting == \E q \in Proc : pc[q] \in {"replay", "persisted"}

\* Threads in end_op whose operation is persistent.
Durable == {p \in Proc : \/ pc[p] \in {"persisted", "wake_ts", "reopen", "wake_log"}
                         \/ up /\ pc[p] = "replay"
                         \/ /\ pc[p] \in {"wait_ts", "sleep_ts"}
                            /\ ts[p] <= last_persisted_ts \/ Persisting}

Phase(p) ==
  IF pc[p] = "run" THEN "open"
  ELSE IF p \in Durable THEN "durable"
  ELSE IF pc[p] \in {"commit", "ckpt_log", "wait_ts", "sleep_ts"} THEN "closing"
  ELSE "idle"

\* The log implements atomic, durable operations: every atomic operation is on
\* disk as a whole or not at all after any power failure, and end_op returns
\* only when its blocks are persistent (cache.h:53-59, 76-78).
AtomicOps == INSTANCE AtomicDisk
             WITH mem <- Visible, stable <- Recovered,
                  phase <- [p \in Proc |-> Phase(p)]

ImplementsAtomicOps == AtomicOps!Spec

\* Threads that call begin_op get in, and threads that call end_op return: no
\* wakeup is lost and nobody waits for itself.  MaxTs makes the stream of
\* operations end; one that overlaps for ever and never fills the log is never
\* checkpointed, since end_op waits for op_count = 0 (cache.c:303).
CallsReturn ==
  \A p \in Proc : /\ pc[p] = "begin" ~> pc[p] = "run"
                  /\ pc[p] = "commit" ~> pc[p] = "idle"
-----------------------------------------------------------------------------
(* The inductive invariant behind the proofs of module BlockLogProofs.     *)

\* The thread that checkpoints, if there is one.
Checkpointers == {p \in Proc : up /\ pc[p] \in Checkpointing}

\* lockHolder is the thread in commit(), and there is at most one.
LockInv == /\ lockHolder = {p \in Proc : pc[p] = "commit"}
           /\ \A p, q \in lockHolder : p = q

\* Operation contexts: size, loop counters and timestamps.
CtxInv == \A p \in Proc :
  /\ Len(block_no[p]) <= OpMax
  /\ pc[p] \in {"begin", "sleep_log"} => block_no[p] = <<>>
  /\ pc[p] = "commit" => idx[p] <= Len(block_no[p]) /\ absorbed[p] <= idx[p]
  /\ ts[p] <= last_allocated_ts
  /\ pc[p] \in {"run", "commit"} => ts[p] > last_persisted_ts

\* Until init_bcache has returned only the booting thread is active.
BootInv == /\ \A p \in Proc : pc[p] = "read_header" => ~up
           /\ ~up => /\ \A p \in Proc : pc[p] \in {"idle", "read_header", "replay"}
                     /\ \A p, q \in Proc : pc[p] # "idle" /\ pc[q] # "idle" => p = q
                     /\ log_size = LogSize /\ log_used = 0 /\ pinned = {}
                     /\ (\E p \in Proc : pc[p] = "replay") => header = hdrDisk
                     /\ \A p \in Proc : ts[p] = 0

\* At most one checkpointer, alone with the log, which remembers its size.
CkptInv == /\ \A p, q \in Checkpointers : p = q
           /\ \A p \in Checkpointers :
                log_size = 0 /\ Outstanding = {} /\ log_size_copy[p] = LogSize
           /\ \A p \in Proc : pc[p] \in {"persisted", "wake_ts", "reopen"} => header = <<>>

\* op_count counts the threads between begin_op and end_op.
CountInv == op_count = Cardinality(Outstanding)

TsInv == last_persisted_ts <= last_allocated_ts

\* The space the log has, the header uses and the operations reserve.
SpaceInv == up /\ Checkpointers = {} =>
  /\ log_size = LogSize /\ log_used <= LogSize
  /\ LockFree => log_used = Len(header) + OpMax * op_count
  /\ \A p \in lockHolder : log_used = Len(header) - idx[p] + absorbed[p] + OpMax * op_count

\* Header entries fit in the log and are distinct, in memory and on disk.
Distinct(s) == \A i, j \in 1..Len(s) : s[i] = s[j] => i = j

FitInv == /\ Len(header) <= LogSize /\ Len(hdrDisk) <= LogSize
          /\ \A p \in Proc : pc[p] \in {"ckpt_log", "replay"} => idx[p] <= Len(header)

DistinctInv == Distinct(header) /\ Distinct(hdrDisk)

\* A cached copy that is not pinned equals the home block.
CleanInv == \A b \in Block \ pinned : cache[b] \in {NotCached, disk[b]}

\* Pinned blocks are cached, and recorded in the header or in a context.
PinnedInv == \A b \in pinned :
  /\ cache[b] # NotCached
  /\ \/ b \in Elems(header)
     \/ \E p \in Outstanding : b \in Elems(block_no[p])

\* commit has entered the first idx blocks of the context into the header.
CommitInv == \A p \in Proc : pc[p] = "commit" =>
               \A i \in 1..idx[p] : block_no[p][i] \in Elems(header)

RecordedInv == \A p \in Outstanding : Elems(block_no[p]) \subseteq pinned

\* Outside of replay the log on disk is empty and the header's blocks pinned.
EmptyLogInv == up /\ (\A p \in Proc : pc[p] # "replay") =>
                 hdrDisk = <<>> /\ Elems(header) \subseteq pinned

\* Step 1 of checkpoint has copied the first idx blocks to the log.
CkptLogInv == \A p \in Proc : pc[p] = "ckpt_log" =>
                \A i \in 1..idx[p] : logDisk[i] = cache[header[i]]

\* Step 3 has copied the first idx blocks home; the others are still cached.
ReplayInv == \A p \in Proc : pc[p] = "replay" =>
  /\ hdrDisk = header
  /\ \A i \in 1..idx[p] : disk[header[i]] = logDisk[i] /\ header[i] \notin pinned
  /\ up => \A i \in (idx[p] + 1)..Len(header) :
             header[i] \in pinned /\ cache[header[i]] = logDisk[i]

\* The conjunction that every step of the log preserves.
IInv == /\ TypeOK /\ LockInv /\ CtxInv /\ BootInv /\ CkptInv /\ CountInv /\ TsInv
        /\ SpaceInv /\ FitInv /\ DistinctInv /\ CleanInv /\ PinnedInv /\ CommitInv
        /\ RecordedInv /\ EmptyLogInv /\ CkptLogInv /\ ReplayInv
=============================================================================
