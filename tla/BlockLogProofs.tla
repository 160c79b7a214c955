--------------------------- MODULE BlockLogProofs ---------------------------
(***************************************************************************)
(* Theorems about the write-ahead log of fs/cache.c (module BlockLog), for *)
(* every number of threads, blocks, values, log size and OP_MAX_NUM_BLOCKS.*)
(*                                                                         *)
(* The invariant IInv is inductive: it holds initially and each action     *)
(* preserves it.  First come facts about the operators of the model and    *)
(* consequences of IInv, then one lemma per action, with one step per      *)
(* conjunct of IInv that the action can disturb; its last step before QED  *)
(* lists the conjuncts whose variables do not change.                      *)
(*                                                                         *)
(* The second part is about the log as atomic, durable operations (module  *)
(* AtomicDisk).  Of the actions, begin_op_enter, cache_sync, end_op,       *)
(* checkpoint_header, end_op_return, end_op_wakeup and Crash are steps of  *)
(* AtomicDisk.  All others leave what the threads see, what a power        *)
(* failure leaves behind and the phase of every operation as they are.     *)
(*                                                                         *)
(* The theorems come last: the invariant, the safety properties that the   *)
(* runs check, and the refinement.                                         *)
(***************************************************************************)
EXTENDS BlockLog, TLAPS

-----------------------------------------------------------------------------
(* Facts about the operators of the model.                                 *)

\* The elements of a sequence of block numbers are block numbers.
LEMMA ElemsType ==
  ASSUME NEW s \in Seq(Block)
  PROVE  Elems(s) \subseteq Block /\ \A i \in 1..Len(s) : s[i] \in Elems(s)
  BY DEF Elems

\* The empty header or context has no elements and no repetition.
LEMMA EmptySeq == /\ Elems(<<>>) = {} /\ Distinct(<<>>) /\ Len(<<>>) = 0
  BY DEF Elems, Distinct

\* Recording one more block adds exactly that block.
LEMMA ElemsAppend ==
  ASSUME NEW s \in Seq(Block), NEW b \in Block
  PROVE  /\ Append(s, b) \in Seq(Block)
         /\ Len(Append(s, b)) = Len(s) + 1
         /\ \A i \in 1..Len(s) : Append(s, b)[i] = s[i]
         /\ Append(s, b)[Len(s) + 1] = b
         /\ Elems(Append(s, b)) = Elems(s) \union {b}
<1>1. /\ Append(s, b) \in Seq(Block)
      /\ Len(Append(s, b)) = Len(s) + 1
      /\ \A i \in 1..Len(s) : Append(s, b)[i] = s[i]
      /\ Append(s, b)[Len(s) + 1] = b
  OBVIOUS
<1>2. Elems(s) \union {b} \subseteq Elems(Append(s, b))
  BY <1>1 DEF Elems
<1>3. Elems(Append(s, b)) \subseteq Elems(s) \union {b}
  BY <1>1 DEF Elems
<1> QED
  BY <1>1, <1>2, <1>3, Zenon

\* Appending a new block keeps the header free of repetitions.
LEMMA DistinctAppend ==
  ASSUME NEW s \in Seq(Block), NEW b \in Block, Distinct(s), b \notin Elems(s)
  PROVE  Distinct(Append(s, b))
  BY ElemsAppend, ElemsType DEF Distinct

\* The log space that n + 1 operations reserve.
LEMMA Reserve ==
  ASSUME NEW n \in Nat
  PROVE  /\ OpMax * n \in Nat /\ OpMax * (n + 1) = OpMax * n + OpMax
         /\ OpMax * 0 = 0
         /\ n > 0 => OpMax * (n - 1) = OpMax * n - OpMax /\ OpMax * (n - 1) \in Nat
  BY SizeAssumption

\* How the number of outstanding operations follows them.  The lemmas about
\* the steps assume it; CountingHolds proves it.
Counting ==
  \A S \in SUBSET Proc :
    /\ Cardinality(S) \in Nat /\ (Cardinality(S) = 0 <=> S = {})
    /\ \A p \in Proc \ S : Cardinality(S \union {p}) = Cardinality(S) + 1
    /\ \A p \in S : Cardinality(S \ {p}) = Cardinality(S) - 1

\* The number of outstanding operations.
LEMMA OutstandingCount ==
  ASSUME Counting
  PROVE  /\ Outstanding \in SUBSET Proc /\ Cardinality(Outstanding) \in Nat
         /\ Cardinality(Outstanding) = 0 <=> Outstanding = {}
<1>1. Outstanding \in SUBSET Proc
  BY Zenon DEF Outstanding
<1> QED
  BY <1>1, Zenon DEF Counting

\* One operation more.
LEMMA OneMore ==
  ASSUME Counting, NEW p \in Proc \ Outstanding
  PROVE  Cardinality(Outstanding \union {p}) = Cardinality(Outstanding) + 1
  BY OutstandingCount, Zenon DEF Counting

\* One operation less.
LEMMA OneLess ==
  ASSUME Counting, NEW p \in Outstanding
  PROVE  Cardinality(Outstanding \ {p}) = Cardinality(Outstanding) - 1
  BY OutstandingCount, Zenon DEF Counting

\* No operation at all.
LEMMA Nothing ==
  ASSUME Counting, NEW S \in SUBSET Proc
  PROVE  Cardinality(S) = 0 <=> S = {}
  BY Zenon DEF Counting

\* While an operation is outstanding, nobody boots, replays or checkpoints.
LEMMA NoCheckpoint ==
  ASSUME IInv, Counting, NEW p \in Outstanding
  PROVE  /\ up /\ Checkpointers = {} /\ op_count > 0
         /\ \A q \in Proc : pc[q] \notin Checkpointing \union {"read_header"}
<1>1. up
  BY Zenon DEF IInv, BootInv, Outstanding
<1>2. Checkpointers = {}
  BY Zenon DEF IInv, CkptInv
<1>3. op_count > 0
  BY OutstandingCount DEF IInv, CountInv
<1> QED
  BY <1>1, <1>2, <1>3, Zenon DEF IInv, BootInv, Checkpointers

\* While a thread boots or checkpoints, no operation is outstanding.
LEMMA NoOutstanding ==
  ASSUME IInv, Counting, NEW p \in Proc, pc[p] \in Checkpointing \union {"read_header"}
  PROVE  /\ Outstanding = {} /\ op_count = 0 /\ LockFree
         /\ \A q \in Proc : pc[q] \in Checkpointing \union {"read_header"} => q = p
         /\ pc[p] \notin {"read_header", "replay"} => up
         /\ ~up => \A q \in Proc : q # p => pc[q] = "idle"
<1>1. /\ Outstanding = {}
      /\ \A q \in Proc : pc[q] \in Checkpointing \union {"read_header"} => q = p
  <2>1. CASE up
    BY <2>1, Zenon DEF IInv, CkptInv, BootInv, Checkpointers
  <2>2. CASE ~up
    BY <2>2, Zenon DEF IInv, BootInv, Outstanding, Checkpointing
  <2> QED
    BY <2>1, <2>2, Zenon
<1>2. op_count = 0
  BY <1>1, OutstandingCount, Zenon DEF IInv, CountInv
<1>3. LockFree
  BY <1>1, Zenon DEF IInv, LockInv, LockFree, Outstanding
<1> QED
  BY <1>1, <1>2, <1>3, Zenon DEF IInv, BootInv, Checkpointing

\* During step 1 of checkpoint the header's blocks are pinned and cached.
LEMMA HeaderPinned ==
  ASSUME IInv, Counting, NEW p \in Proc, pc[p] = "ckpt_log"
  PROVE  /\ up /\ hdrDisk = <<>>
         /\ \A i \in 1..Len(header) : /\ header[i] \in pinned /\ header[i] \in Block
                                      /\ cache[header[i]] # NotCached
<1>1. up /\ \A q \in Proc : pc[q] # "replay"
  BY NoOutstanding, Zenon DEF Checkpointing
<1>2. hdrDisk = <<>> /\ Elems(header) \subseteq pinned
  BY <1>1, Zenon DEF IInv, EmptyLogInv
<1> QED
  BY <1>1, <1>2, ElemsType, Zenon DEF IInv, TypeOK, PinnedInv

-----------------------------------------------------------------------------
(* Calls, sleeps, wakeups and returns.                                     *)

\* Control states in which a thread holds nothing of the log.
Quiet == {"idle", "begin", "sleep_log", "wait_ts", "sleep_ts", "wake_log"}

\* Control states in which the checkpointer has an empty log.
Written == {"persisted", "wake_ts", "reopen"}

\* A thread may have moved inside one of these sets and nowhere else.
SameRole(q) == \/ pc'[q] = pc[q] /\ idx'[q] = idx[q] /\ block_no'[q] = block_no[q]
                  /\ absorbed'[q] = absorbed[q] /\ log_size_copy'[q] = log_size_copy[q]
               \/ pc[q] \in Quiet /\ pc'[q] \in Quiet
               \/ pc[q] \in Written /\ pc'[q] \in Written /\ log_size_copy'[q] = log_size_copy[q]

\* Calls, sleeps, wakeups and returns disturb only the contexts and the types.
LEMMA QuietStep ==
  ASSUME IInv, up, \A q \in Proc : SameRole(q), TypeOK', CtxInv', TsInv',
         UNCHANGED <<header, log_size, log_used, op_count, cacheVars, lockHolder, up, diskVars>>
  PROVE  IInv'
<1> USE DEF IInv, cacheVars, diskVars
<1>1. /\ Outstanding' = Outstanding /\ Checkpointers' = Checkpointers
      /\ \A q \in Proc : pc'[q] \in Written <=> pc[q] \in Written
      /\ \A q \in Proc : pc[q] \in {"run", "commit", "ckpt_log", "replay", "read_header"} \/
                         pc'[q] \in {"run", "commit", "ckpt_log", "replay", "read_header"} =>
           /\ pc'[q] = pc[q] /\ idx'[q] = idx[q] /\ block_no'[q] = block_no[q]
           /\ absorbed'[q] = absorbed[q]
  BY Zenon DEF SameRole, Quiet, Written, Outstanding, Checkpointers, Checkpointing
<1>2. LockInv'
  BY <1>1, Zenon DEF LockInv
<1>3. BootInv'
  BY <1>1, Zenon DEF BootInv
<1>4. CkptInv'
  <2>1. \A q \in Checkpointers : log_size_copy'[q] = log_size_copy[q]
    BY Zenon DEF SameRole, Checkpointers, Checkpointing, Quiet
  <2> QED
    BY <1>1, <2>1, Zenon DEF CkptInv, Written
<1>5. CountInv' /\ DistinctInv' /\ CleanInv'
  BY <1>1, Zenon DEF CountInv, DistinctInv, CleanInv
<1>6. SpaceInv'
  BY <1>1, Zenon DEF SpaceInv, LockInv, LockFree
<1>7. FitInv'
  BY <1>1, Zenon DEF FitInv
<1>8. PinnedInv' /\ RecordedInv'
  BY <1>1, Zenon DEF PinnedInv, RecordedInv, Outstanding
<1>9. CommitInv' /\ EmptyLogInv' /\ CkptLogInv' /\ ReplayInv'
  BY <1>1 DEF CommitInv, EmptyLogInv, CkptLogInv, ReplayInv
<1> QED
  BY <1>2, <1>3, <1>4, <1>5, <1>6, <1>7, <1>8, <1>9, Zenon

\* A thread calls begin_op with a fresh context.
LEMMA BeginOpStep ==
  ASSUME IInv, NEW p \in Proc, begin_op(p)
  PROVE  IInv'
<1> USE DEF begin_op, Goto, ResetCtx, logVars
<1>1. \A q \in Proc : SameRole(q)
  BY Zenon DEF IInv, TypeOK, SameRole, Quiet
<1>2. TypeOK'
  BY SMTT(30) DEF IInv, TypeOK, Pc, cacheVars, diskVars
<1>3. CtxInv' /\ TsInv'
  BY SizeAssumption, EmptySeq DEF IInv, TypeOK, CtxInv, TsInv
<1> QED
  BY <1>1, <1>2, <1>3, QuietStep, Zenon

\* begin_op finds no room and sleeps.
LEMMA BeginOpSleepStep ==
  ASSUME IInv, NEW p \in Proc, begin_op_sleep(p)
  PROVE  IInv'
<1> USE DEF begin_op_sleep, Goto, logVars, localVars
<1>1. up /\ \A q \in Proc : SameRole(q)
  BY ZenonT(40) DEF IInv, TypeOK, BootInv, SameRole, Quiet
<1>2. TypeOK'
  BY Zenon DEF IInv, TypeOK, Pc, cacheVars, diskVars
<1>3. CtxInv' /\ TsInv'
  BY Zenon DEF IInv, TypeOK, CtxInv, TsInv
<1> QED
  BY <1>1, <1>2, <1>3, QuietStep, Zenon

\* A thread whose operation is not persistent sleeps in end_op.
LEMMA EndOpSleepStep ==
  ASSUME IInv, NEW p \in Proc, end_op_sleep(p)
  PROVE  IInv'
<1> USE DEF end_op_sleep, Goto, logVars, localVars
<1>1. up /\ \A q \in Proc : SameRole(q)
  BY Zenon DEF IInv, TypeOK, BootInv, SameRole, Quiet
<1>2. TypeOK'
  BY Zenon DEF IInv, TypeOK, Pc, cacheVars, diskVars
<1>3. CtxInv' /\ TsInv'
  BY Zenon DEF IInv, TypeOK, CtxInv, TsInv
<1> QED
  BY <1>1, <1>2, <1>3, QuietStep, Zenon

\* end_op returns to a thread whose operation is persistent.
LEMMA EndOpReturnStep ==
  ASSUME IInv, NEW p \in Proc, end_op_return(p)
  PROVE  IInv'
<1> USE DEF end_op_return, Goto, ResetCtx, logVars
<1>1. up /\ \A q \in Proc : SameRole(q)
  BY ZenonT(40) DEF IInv, TypeOK, BootInv, SameRole, Quiet
<1>2. TypeOK'
  BY SMTT(30) DEF IInv, TypeOK, Pc, cacheVars, diskVars
<1>3. CtxInv' /\ TsInv'
  BY SizeAssumption, EmptySeq DEF IInv, TypeOK, CtxInv, TsInv
<1> QED
  BY <1>1, <1>2, <1>3, QuietStep, Zenon

\* Step 5 of checkpoint: last_persisted_ts advances while no operation is
\* outstanding.
LEMMA CheckpointPublishStep ==
  ASSUME IInv, Counting, NEW p \in Proc, checkpoint_publish(p)
  PROVE  IInv'
<1> USE DEF checkpoint_publish, Goto, localVars
<1>1. up /\ \A q \in Proc : SameRole(q)
  BY ZenonT(40) DEF IInv, TypeOK, BootInv, SameRole, Written
<1>2. TypeOK'
  BY Zenon DEF IInv, TypeOK, Pc, cacheVars, diskVars
<1>3. Outstanding = {}
  BY NoOutstanding, Zenon DEF Checkpointing
<1>4. CtxInv' /\ TsInv'
  BY <1>3 DEF IInv, TypeOK, CtxInv, TsInv, Outstanding
<1> QED
  BY <1>1, <1>2, <1>4, QuietStep, Zenon

\* checkpoint wakes the threads that wait in end_op.
LEMMA CheckpointWakeupStep ==
  ASSUME IInv, NEW p \in Proc, checkpoint_wakeup(p)
  PROVE  IInv'
<1> USE DEF checkpoint_wakeup, Wakeup, logVars, localVars
<1>1. up /\ \A q \in Proc : SameRole(q)
  BY Zenon DEF IInv, TypeOK, BootInv, SameRole, Quiet, Written
<1>2. TypeOK'
  BY Zenon DEF IInv, TypeOK, Pc, cacheVars, diskVars
<1>3. CtxInv' /\ TsInv'
  BY Zenon DEF IInv, TypeOK, CtxInv, TsInv
<1> QED
  BY <1>1, <1>2, <1>3, QuietStep, Zenon

\* end_op wakes the threads that wait in begin_op, and returns.
LEMMA EndOpWakeupStep ==
  ASSUME IInv, NEW p \in Proc, end_op_wakeup(p)
  PROVE  IInv'
<1> USE DEF end_op_wakeup, Wakeup, ResetCtx, logVars
<1>1. up /\ \A q \in Proc : SameRole(q)
  BY ZenonT(40) DEF IInv, TypeOK, BootInv, SameRole, Quiet
<1>2. TypeOK'
  BY SMTT(30) DEF IInv, TypeOK, Pc, cacheVars, diskVars
<1>3. pc'[p] = "idle" /\ ts'[p] = 0 /\ block_no'[p] = <<>> /\ Len(block_no'[p]) = 0
  BY EmptySeq, Zenon DEF IInv, TypeOK
<1>4. \A q \in Proc \ {p} :
        /\ ts'[q] = ts[q] /\ block_no'[q] = block_no[q] /\ absorbed'[q] = absorbed[q]
        /\ (pc'[q] = pc[q]) \/ (pc[q] = "sleep_log" /\ pc'[q] = "begin")
  BY Zenon DEF IInv, TypeOK
<1>5. CtxInv' /\ TsInv'
  BY <1>3, <1>4, SizeAssumption DEF IInv, CtxInv, TypeOK, TsInv
<1> QED
  BY <1>1, <1>2, <1>5, QuietStep, Zenon

-----------------------------------------------------------------------------
(* Reads and evictions.                                                    *)

\* cache_acquire reads a block that is not cached.
LEMMA LoadStep ==
  ASSUME IInv, Counting, NEW b \in Block, cache_load(b)
  PROVE  IInv'
<1>t. cache \in [Block -> Value \union {NotCached}]
  BY Zenon DEF IInv, TypeOK
<1> USE <1>t DEF IInv, cache_load, Goto, LockFree, logVars, cacheVars, localVars, diskVars
<1>1. TypeOK'
  BY Zenon DEF Pc, TypeOK
<1>2. CleanInv'
  BY Zenon DEF CleanInv
<1>3. PinnedInv'
  BY ValueAssumption, Zenon DEF PinnedInv, Outstanding, TypeOK
<1>4. CkptLogInv'
  BY HeaderPinned, SMTT(20) DEF CkptLogInv, FitInv, TypeOK
<1>5. ReplayInv'
  BY DEF ReplayInv, PinnedInv, TypeOK
<1>6. /\ LockInv' /\ CtxInv' /\ BootInv' /\ CkptInv' /\ CountInv' /\ TsInv' /\ SpaceInv'
      /\ FitInv' /\ DistinctInv' /\ CommitInv' /\ RecordedInv' /\ EmptyLogInv'
  BY ZenonT(40) DEF LockInv, CtxInv, BootInv, CkptInv, CountInv, TsInv, SpaceInv, FitInv, DistinctInv,
     CommitInv, RecordedInv, EmptyLogInv, Checkpointers, Outstanding
<1> QED
  BY <1>1, <1>2, <1>3, <1>4, <1>5, <1>6, Zenon

\* cache_acquire evicts a block that is not pinned.
LEMMA EvictStep ==
  ASSUME IInv, Counting, NEW b \in Block, cache_evict(b)
  PROVE  IInv'
<1>t. cache \in [Block -> Value \union {NotCached}]
  BY Zenon DEF IInv, TypeOK
<1> USE <1>t DEF IInv, cache_evict, Goto, LockFree, logVars, cacheVars, localVars, diskVars,
        Evictable
<1>1. TypeOK'
  BY Zenon DEF Pc, TypeOK
<1>2. CleanInv'
  BY Zenon DEF CleanInv
<1>3. PinnedInv'
  BY SMTT(30) DEF PinnedInv, Outstanding
<1>4. CkptLogInv'
  BY HeaderPinned, SMTT(20) DEF CkptLogInv, FitInv, TypeOK
<1>5. ReplayInv'
  BY DEF ReplayInv, TypeOK
<1>6. /\ LockInv' /\ CtxInv' /\ BootInv' /\ CkptInv' /\ CountInv' /\ TsInv' /\ SpaceInv'
      /\ FitInv' /\ DistinctInv' /\ CommitInv' /\ RecordedInv' /\ EmptyLogInv'
  BY DEF LockInv, CtxInv, BootInv, CkptInv, CountInv, TsInv, SpaceInv, FitInv, DistinctInv,
     CommitInv, RecordedInv, EmptyLogInv, Checkpointers, Outstanding
<1> QED
  BY <1>1, <1>2, <1>3, <1>4, <1>5, <1>6, Zenon

-----------------------------------------------------------------------------
(* Atomic operations.                                                      *)

\* begin_op reserves OpMax entries; one more operation is outstanding.
LEMMA BeginOpEnterStep ==
  ASSUME IInv, Counting, NEW p \in Proc, begin_op_enter(p)
  PROVE  IInv'
<1>t. ts \in [Proc -> Nat] /\ pc \in [Proc -> Pc]
  BY Zenon DEF IInv, TypeOK
<1>a. p \notin Outstanding /\ Outstanding' = Outstanding \union {p} /\ up
  BY <1>t, Zenon DEF IInv, begin_op_enter, Goto, Outstanding, BootInv
<1>b. block_no[p] = <<>>
  BY Zenon DEF IInv, begin_op_enter, CtxInv
<1>c. Checkpointers' = Checkpointers
  BY DEF begin_op_enter, Goto, Checkpointers, Checkpointing
<1>d. OpMax * op_count' = OpMax * op_count + OpMax
  BY Reserve, Zenon DEF IInv, begin_op_enter, TypeOK
<1>1. TypeOK'
  BY SizeAssumption, SMTT(30) DEF IInv, begin_op_enter, Goto, cacheVars, diskVars, Pc, TypeOK
<1>2. LockInv'
  BY DEF IInv, begin_op_enter, Goto, LockInv
<1>3. CtxInv'
  BY <1>t, SMTT(30) DEF IInv, begin_op_enter, Goto, LockFree, CtxInv, TsInv, TypeOK
<1>4. BootInv'
  BY DEF IInv, begin_op_enter, Goto, BootInv
<1>5. CkptInv'
  BY <1>c, SizeAssumption DEF IInv, begin_op_enter, Goto, CkptInv, TypeOK
<1>6. CountInv'
  BY <1>t, <1>a, OneMore, Zenon DEF IInv, begin_op_enter, CountInv
<1>7. TsInv'
  BY DEF IInv, begin_op_enter, TsInv, TypeOK
<1>8. SpaceInv'
  BY <1>c, SizeAssumption, SMTT(30) DEF IInv, begin_op_enter, Goto, LockFree, logVars, localVars,
     SpaceInv, TypeOK
<1>9. FitInv'
  BY SMTT(30) DEF IInv, begin_op_enter, Goto, diskVars, FitInv
<1>10. PinnedInv'
  BY DEF IInv, begin_op_enter, Goto, cacheVars, PinnedInv, Outstanding
<1>11. CommitInv'
  BY DEF IInv, begin_op_enter, Goto, CommitInv
<1>12. RecordedInv'
  BY <1>a, <1>b, EmptySeq, Zenon DEF IInv, begin_op_enter, cacheVars, RecordedInv
<1>13. EmptyLogInv'
  BY DEF IInv, begin_op_enter, Goto, cacheVars, diskVars, EmptyLogInv
<1>14. CkptLogInv'
  BY SMTT(30) DEF IInv, begin_op_enter, Goto, cacheVars, diskVars, CkptLogInv
<1>15. ReplayInv'
  BY SMTT(30) DEF IInv, begin_op_enter, Goto, cacheVars, diskVars, ReplayInv
<1>16. DistinctInv' /\ CleanInv'
  BY Zenon DEF IInv, begin_op_enter, cacheVars, diskVars, DistinctInv, CleanInv
<1> QED
  BY Zenon, <1>1, <1>2, <1>3, <1>4, <1>5, <1>6, <1>7, <1>8, <1>9, <1>10, <1>11, <1>12, <1>13, <1>14,
     <1>15, <1>16 DEF IInv, begin_op_enter, Goto, LockFree, logVars

\* sync records and pins a block; no checkpoint can be under way.
LEMMA SyncStep ==
  ASSUME IInv, Counting, NEW p \in Proc, NEW b \in Block, NEW v \in Value, cache_sync(p, b, v)
  PROVE  IInv'
<1>t. cache \in [Block -> Value \union {NotCached}] /\ block_no \in [Proc -> Seq(Block)]
  BY Zenon DEF IInv, TypeOK
<1>a. /\ up /\ Checkpointers = {} /\ op_count > 0
      /\ \A q \in Proc : pc[q] \notin Checkpointing \union {"read_header"}
  BY NoCheckpoint, Zenon DEF cache_sync, Outstanding
<1> DEFINE s == block_no[p]
<1>b. /\ s \in Seq(Block) /\ Len(s) <= OpMax /\ Len(s) \in Nat
      /\ Append(s, b) \in Seq(Block) /\ Len(Append(s, b)) = Len(s) + 1
      /\ Elems(Append(s, b)) = Elems(s) \union {b}
  BY <1>t, ElemsAppend, SMTT(30) DEF IInv, CtxInv
<1>c. /\ block_no' \in [Proc -> Seq(Block)]
      /\ Len(block_no'[p]) <= OpMax
      /\ Elems(block_no'[p]) = Elems(block_no[p]) \union {b}
      /\ \A q \in Proc \ {p} : block_no'[q] = block_no[q]
  <2>1. CASE b \in Elems(s) /\ UNCHANGED block_no
    BY <1>t, <1>b, <2>1, Zenon
  <2>2. CASE Len(s) < OpMax /\ block_no' = [block_no EXCEPT ![p] = Append(@, b)]
    BY <1>t, <1>b, <2>2, SizeAssumption, SMTT(30) DEF diskVars
  <2> QED
    BY <2>1, <2>2, Zenon DEF cache_sync
<1>d. p \in Outstanding /\ Outstanding' = Outstanding
  BY Zenon DEF cache_sync, Outstanding
<1>e. \A q \in Proc : Elems(block_no[q]) \subseteq Elems(block_no'[q])
  BY <1>c, Zenon DEF cache_sync
<1>1. TypeOK'
  BY <1>c, Zenon DEF IInv, cache_sync, logVars, diskVars, TypeOK
<1>2. CtxInv'
  BY <1>c, Zenon DEF IInv, cache_sync, logVars, CtxInv
<1>3. BootInv'
  BY <1>a, Zenon DEF cache_sync, BootInv
<1>4. CleanInv'
  BY DEF IInv, cache_sync, diskVars, CleanInv
<1>5. PinnedInv'
  <2> SUFFICES ASSUME NEW c \in pinned'
               PROVE  /\ cache'[c] # NotCached
                      /\ \/ c \in Elems(header)
                         \/ \E q \in Outstanding : c \in Elems(block_no'[q])
    BY <1>d, Zenon DEF cache_sync, logVars, PinnedInv
  <2>1. CASE c = b
    BY <1>t, <1>c, <1>d, <2>1, ValueAssumption, Zenon DEF cache_sync
  <2>2. CASE c # b
    <3>1. /\ cache'[c] # NotCached
          /\ c \in Elems(header) \/ \E q \in Outstanding : c \in Elems(block_no[q])
      BY <2>2, SMTT(30) DEF IInv, cache_sync, PinnedInv
    <3> QED
      BY <1>e, <3>1, Zenon DEF Outstanding
  <2> QED
    BY <2>1, <2>2, Zenon
<1>6. CommitInv'
  BY <1>t, ZenonT(40) DEF IInv, cache_sync, logVars, CommitInv
<1>7. RecordedInv'
  BY <1>c, Zenon DEF IInv, cache_sync, RecordedInv, Outstanding
<1>8. EmptyLogInv'
  BY Zenon DEF IInv, cache_sync, logVars, diskVars, EmptyLogInv
<1>9. CkptLogInv'
  BY <1>a, Zenon DEF cache_sync, CkptLogInv, Checkpointing
<1>10. ReplayInv'
  BY <1>a, ZenonT(40) DEF cache_sync, ReplayInv, Checkpointing
<1>11. LockInv' /\ CkptInv' /\ CountInv' /\ TsInv' /\ SpaceInv' /\ FitInv' /\ DistinctInv'
  BY Zenon DEF IInv, cache_sync, logVars, diskVars, LockInv, CkptInv, CountInv, TsInv, SpaceInv,
     FitInv, DistinctInv, Checkpointers, Outstanding
<1> QED
  BY <1>1, <1>2, <1>3, <1>4, <1>5, <1>6, <1>7, <1>8, <1>9, <1>10, <1>11, Zenon DEF IInv, cacheVars

\* end_op takes the cache lock.
LEMMA EndOpStep ==
  ASSUME IInv, NEW p \in Proc, end_op(p)
  PROVE  IInv'
<1>t. idx \in [Proc -> Nat] /\ absorbed \in [Proc -> Nat] /\ pc \in [Proc -> Pc]
  BY Zenon DEF IInv, TypeOK
<1>1. TypeOK'
  BY Zenon DEF IInv, end_op, Goto, logVars, cacheVars, diskVars, Pc, TypeOK
<1>2. LockInv'
  BY <1>t, Zenon DEF IInv, end_op, Goto, LockFree, LockInv
<1>3. CtxInv'
  BY <1>t DEF IInv, end_op, Goto, logVars, CtxInv
<1>4. BootInv'
  BY DEF IInv, end_op, Goto, BootInv
<1>5. CkptInv'
  BY DEF IInv, end_op, Goto, logVars, CkptInv, Checkpointers, Checkpointing, Outstanding
<1>6. CountInv'
  BY SMTT(30) DEF IInv, end_op, Goto, LockFree, logVars, CountInv, Outstanding
<1>7. SpaceInv'
  BY <1>t, SMTT(30) DEF IInv, end_op, Goto, logVars, SpaceInv, Checkpointers, Checkpointing
<1>8. FitInv'
  BY SMTT(30) DEF IInv, end_op, Goto, logVars, diskVars, FitInv
<1>9. PinnedInv'
  BY SMTT(30) DEF IInv, end_op, Goto, logVars, cacheVars, PinnedInv, Outstanding
<1>10. CommitInv'
  BY <1>t, SMTT(30) DEF IInv, end_op, Goto, logVars, CommitInv
<1>11. RecordedInv'
  BY DEF IInv, end_op, Goto, cacheVars, RecordedInv, Outstanding
<1>12. EmptyLogInv'
  BY DEF IInv, end_op, Goto, logVars, cacheVars, diskVars, EmptyLogInv
<1>13. CkptLogInv'
  BY SMTT(30) DEF IInv, end_op, Goto, logVars, cacheVars, diskVars, CkptLogInv
<1>14. ReplayInv'
  BY SMTT(30) DEF IInv, end_op, Goto, logVars, cacheVars, diskVars, ReplayInv
<1>15. TsInv' /\ DistinctInv' /\ CleanInv'
  BY Zenon DEF IInv, end_op, logVars, cacheVars, diskVars, TsInv, DistinctInv, CleanInv
<1> QED
  BY ZenonT(40), <1>t, <1>1, <1>2, <1>3, <1>4, <1>5, <1>6, <1>7, <1>8, <1>9, <1>10, <1>11, <1>12, <1>13,
     <1>14, <1>15 DEF IInv, LockFree, logVars

\* commit enters one block in the header.  The reservation of the operation
\* guarantees that there is room (step <1>d).
LEMMA CommitStep ==
  ASSUME IInv, Counting, NEW p \in Proc, commit(p)
  PROVE  IInv'
<1>t. idx \in [Proc -> Nat] /\ absorbed \in [Proc -> Nat]
  BY Zenon DEF IInv, TypeOK
<1>a. /\ up /\ Checkpointers = {} /\ op_count > 0
      /\ \A q \in Proc : pc[q] \notin Checkpointing \union {"read_header"}
  BY NoCheckpoint, Zenon DEF commit, Outstanding
<1> DEFINE b == block_no[p][idx[p] + 1]
<1>b. /\ b \in Block /\ lockHolder = {p}
      /\ Append(header, b) \in Seq(Block) /\ Len(Append(header, b)) = Len(header) + 1
      /\ Elems(Append(header, b)) = Elems(header) \union {b}
  BY ElemsAppend, SMTT(30) DEF IInv, commit, logVars, cacheVars, diskVars, LockInv, TypeOK
<1>c. /\ header' \in Seq(Block)
      /\ Elems(header') = Elems(header) \union {b}
      /\ Distinct(header')
  <2>1. CASE b \in Elems(header) /\ UNCHANGED header
    BY <2>1, Zenon DEF IInv, DistinctInv, TypeOK
  <2>2. CASE b \notin Elems(header) /\ header' = Append(header, b)
    BY <1>b, <2>2, DistinctAppend DEF IInv, DistinctInv
  <2> QED
    BY <2>1, <2>2, ZenonT(40) DEF commit
<1>d. Len(header) < LogSize
  <2>1. OpMax * op_count >= OpMax
    BY <1>a, SizeAssumption, SMTT(30) DEF IInv, TypeOK
  <2>2. log_used <= LogSize /\ log_used = Len(header) - idx[p] + absorbed[p] + OpMax * op_count
    BY <1>a, <1>b, Zenon DEF IInv, SpaceInv
  <2>3. idx[p] < OpMax
    BY <1>t, SizeAssumption, SMTT(30) DEF IInv, commit, CtxInv
  <2> DEFINE r == OpMax * op_count
  <2>4. r \in Nat
    BY Reserve, ZenonT(40) DEF IInv, TypeOK
  <2> HIDE DEF r
  <2> QED
    BY <1>t, <2>1, <2>2, <2>3, <2>4, SizeAssumption, SMTT(30) DEF r
<1>e. \/ /\ header' = header
         /\ absorbed'[p] = absorbed[p] + 1
      \/ /\ Len(header') = Len(header) + 1 /\ Len(header') <= LogSize
         /\ absorbed'[p] = absorbed[p]
  BY <1>t, <1>d, SizeAssumption DEF commit
<1>g. /\ log_used = Len(header) - idx[p] + absorbed[p] + OpMax * op_count
      /\ log_used <= LogSize /\ log_size = LogSize
  BY <1>a, <1>b, Zenon DEF IInv, SpaceInv
<1>h. log_used = Len(header') - idx'[p] + absorbed'[p] + OpMax * op_count
  <2>1. /\ Len(header) \in Nat /\ idx[p] \in Nat /\ absorbed[p] \in Nat
        /\ idx'[p] = idx[p] + 1
    BY <1>t, SMTT(30) DEF commit, IInv, TypeOK
  <2>2. Len(header') - idx'[p] + absorbed'[p] = Len(header) - idx[p] + absorbed[p]
    <3>1. CASE Len(header') = Len(header) /\ absorbed'[p] = absorbed[p] + 1
      BY <2>1, <3>1, SMTT(30)
    <3>2. CASE Len(header') = Len(header) + 1 /\ absorbed'[p] = absorbed[p]
      BY SMTT(30), <2>1, <3>2
    <3> QED
      BY <1>e, <3>1, <3>2, Zenon
  <2> QED
    BY <1>g, <2>2, Zenon
<1>f. b \in pinned
  BY ElemsType, SMTT(30) DEF IInv, commit, LockFree, RecordedInv, Outstanding, TypeOK
<1>1. TypeOK'
  <2>1. idx' \in [Proc -> Nat] /\ absorbed' \in [Proc -> Nat]
    BY <1>t, SMTT(30) DEF commit
  <2> QED
    BY <1>c, <2>1, Zenon DEF IInv, commit, cacheVars, diskVars, TypeOK
<1>2. CtxInv'
  <2>1. absorbed'[p] <= idx'[p] /\ idx'[p] <= Len(block_no[p])
    <3>1. absorbed[p] <= idx[p] /\ idx[p] < Len(block_no[p]) /\ idx'[p] = idx[p] + 1
      BY <1>t, Zenon DEF IInv, commit, CtxInv
    <3>2. idx[p] \in Nat /\ absorbed[p] \in Nat /\ Len(block_no[p]) \in Nat
      BY <1>t, SMTT(30) DEF IInv, TypeOK
    <3> QED
      BY SMTT(30), <1>e, <3>1, <3>2
  <2>2. \A q \in Proc : q # p => idx'[q] = idx[q] /\ absorbed'[q] = absorbed[q]
    BY <1>t, Zenon DEF commit
  <2> QED
    BY <2>1, <2>2, Zenon DEF IInv, commit, CtxInv
<1>3. BootInv'
  BY <1>a, ZenonT(40) DEF commit, BootInv
<1>4. CkptInv'
  BY <1>a, Zenon DEF commit, CkptInv, Checkpointers, Checkpointing
<1>5. SpaceInv'
  BY <1>b, <1>g, <1>h, Zenon DEF commit, LockFree, SpaceInv
<1>6. FitInv'
  BY <1>t, <1>e, SMTT(30) DEF IInv, commit, diskVars, FitInv
<1>7. DistinctInv'
  BY <1>c, Zenon DEF IInv, commit, diskVars, DistinctInv
<1>8. PinnedInv'
  BY <1>c, Zenon DEF IInv, commit, cacheVars, PinnedInv, Outstanding
<1>9. CommitInv'
  BY <1>t, <1>b, <1>c, SMTT(30) DEF IInv, commit, Goto, logVars, cacheVars, CommitInv, LockInv
<1>10. EmptyLogInv'
  BY <1>c, <1>f, Zenon DEF IInv, commit, cacheVars, diskVars, EmptyLogInv
<1>11. CkptLogInv'
  BY <1>a, ZenonT(40) DEF commit, CkptLogInv, Checkpointing
<1>12. ReplayInv'
  BY <1>a, Zenon DEF commit, ReplayInv, Checkpointing
<1>13. LockInv' /\ CountInv' /\ TsInv' /\ CleanInv' /\ RecordedInv'
  BY Zenon DEF IInv, commit, cacheVars, diskVars, LockInv, CountInv, TsInv, CleanInv, RecordedInv,
     Outstanding
<1> QED
  BY Zenon, <1>t, <1>1, <1>2, <1>3, <1>4, <1>5, <1>6, <1>7, <1>8, <1>9, <1>10, <1>11, <1>12,
     <1>13 DEF IInv, commit, Goto, LockFree, logVars, cacheVars, localVars, diskVars

\* commit returns the unused reservation (step <1>d), and the thread waits.
LEMMA EndOpWaitStep ==
  ASSUME IInv, Counting, NEW p \in Proc, end_op_wait(p)
  PROVE  IInv'
<1>t. pc \in [Proc -> Pc]
  BY Zenon DEF IInv, TypeOK
<1>a. /\ up /\ Checkpointers = {} /\ op_count > 0
      /\ \A q \in Proc : pc[q] \notin Checkpointing \union {"read_header"}
  BY NoCheckpoint, Zenon DEF end_op_wait, Outstanding
<1>b. p \in Outstanding /\ Outstanding' = Outstanding \ {p}
  BY Zenon DEF end_op_wait, Wakeup, Outstanding
<1>c. lockHolder = {p} /\ \A q \in Proc : pc[q] = "commit" => q = p
  BY Zenon DEF IInv, end_op_wait, LockInv
<1>d. /\ log_used' = Len(header) + OpMax * op_count' /\ log_used' <= LogSize
      /\ log_used' \in Nat /\ op_count' \in Nat
  <2>1. OpMax * op_count' = OpMax * op_count - OpMax /\ OpMax * op_count' \in Nat
    BY <1>a, Reserve, ZenonT(40) DEF IInv, end_op_wait, TypeOK
  <2>2. log_used <= LogSize /\ log_used = Len(header) - idx[p] + absorbed[p] + OpMax * op_count
    BY <1>a, <1>c, Zenon DEF IInv, SpaceInv
  <2>3. Len(block_no[p]) \in Nat /\ Len(block_no[p]) <= OpMax
    BY DEF IInv, CtxInv
  <2>4. /\ log_used' = log_used - ((OpMax - Len(block_no[p])) + absorbed[p])
        /\ idx[p] = Len(block_no[p])
    BY Zenon DEF end_op_wait, Returned
  <2>5. /\ log_used \in Nat /\ Len(header) \in Nat /\ idx[p] \in Nat /\ absorbed[p] \in Nat
        /\ OpMax \in Nat /\ op_count \in Nat
    BY SizeAssumption, SMTT(30) DEF IInv, TypeOK
  <2>6. /\ log_used' = Len(header) + OpMax * op_count' /\ log_used' \in Nat
        /\ log_used' <= LogSize
    <3>1. PICK r \in Nat, r1 \in Nat : r = OpMax * op_count /\ r1 = OpMax * op_count'
      BY <2>1, <2>5, Reserve, Zenon
    <3>2. /\ r \in Nat /\ r1 \in Nat /\ r1 = r - OpMax
          /\ log_used = Len(header) - idx[p] + absorbed[p] + r
      BY <2>1, <2>2, <3>1, Zenon
    <3>3. PICK u \in Nat, h \in Nat, n \in Nat, a \in Nat, m \in Nat :
            u = log_used /\ h = Len(header) /\ n = Len(block_no[p]) /\ a = absorbed[p] /\ m = OpMax
      BY <2>3, <2>5, ZenonT(40)
    <3>4. log_used' = u - ((m - n) + a) /\ u = ((h - n) + a) + r /\ r1 = r - m /\ n <= m
      BY <2>3, <2>4, <3>2, <3>3, Zenon
    <3>5. log_used' = h + r1 /\ log_used' <= u
      BY <3>4
    <3>6. u <= LogSize /\ LogSize \in Nat
      BY <2>2, <3>3, SizeAssumption, Zenon
    <3>7. log_used' \in Nat /\ log_used' <= LogSize
      BY <3>5, <3>6
    <3> QED
      BY <3>1, <3>3, <3>5, <3>7, Zenon
  <2>7. op_count' \in Nat
    BY <1>a, <2>5 DEF end_op_wait
  <2> QED
    BY <2>6, <2>7, Zenon
<1>e. op_count' = Cardinality(Outstanding')
  BY <1>b, OneLess, ZenonT(40) DEF IInv, end_op_wait, CountInv
<1>f. Elems(block_no[p]) \subseteq Elems(header)
  BY Zenon DEF IInv, end_op_wait, cacheVars, diskVars, LastOutstanding, CommitInv, Elems
<1>1. TypeOK'
  BY <1>t, <1>d, Zenon DEF IInv, end_op_wait, Goto, cacheVars, localVars, diskVars, Wakeup, Returned,
     LastOutstanding, Pc, TypeOK
<1>2. LockInv'
  BY <1>c, Zenon DEF end_op_wait, Wakeup, LockInv
<1>3. CtxInv'
  BY Zenon DEF IInv, end_op_wait, localVars, Wakeup, CtxInv
<1>4. BootInv'
  BY <1>a, Zenon DEF end_op_wait, Wakeup, BootInv
<1>5. CkptInv'
  BY Zenon DEF IInv, end_op_wait, Wakeup, CkptInv, Checkpointers, Checkpointing, Outstanding
<1>6. CountInv'
  BY <1>e, Zenon DEF CountInv
<1>7. SpaceInv'
  BY <1>a, <1>d, Zenon DEF IInv, end_op_wait, SpaceInv
<1>8. FitInv'
  BY ZenonT(40) DEF IInv, end_op_wait, localVars, diskVars, Wakeup, FitInv
<1>9. PinnedInv'
  BY <1>b, <1>f, Zenon DEF IInv, end_op_wait, cacheVars, localVars, PinnedInv
<1>10. CommitInv'
  BY <1>c, Zenon DEF end_op_wait, Wakeup, CommitInv
<1>11. RecordedInv'
  BY <1>b, Zenon DEF IInv, end_op_wait, cacheVars, localVars, RecordedInv
<1>12. EmptyLogInv'
  BY ZenonT(40) DEF IInv, end_op_wait, cacheVars, diskVars, Wakeup, EmptyLogInv
<1>13. CkptLogInv'
  BY Zenon DEF IInv, end_op_wait, cacheVars, localVars, diskVars, Wakeup, CkptLogInv
<1>14. ReplayInv'
  BY ZenonT(40) DEF IInv, end_op_wait, cacheVars, localVars, diskVars, Wakeup, ReplayInv
<1>15. TsInv' /\ DistinctInv' /\ CleanInv'
  BY Zenon DEF IInv, end_op_wait, cacheVars, diskVars, TsInv, DistinctInv, CleanInv
<1> QED
  BY ZenonT(40), <1>1, <1>2, <1>3, <1>4, <1>5, <1>6, <1>7, <1>8, <1>9, <1>10, <1>11, <1>12, <1>13, <1>14,
     <1>15 DEF IInv, Goto, logVars, cacheVars, Wakeup

\* The last outstanding operation becomes the only checkpointer.
LEMMA EndOpLastStep ==
  ASSUME IInv, Counting, NEW p \in Proc, end_op_last(p)
  PROVE  IInv'
<1>t. log_size_copy \in [Proc -> Nat] /\ idx \in [Proc -> Nat] /\ pc \in [Proc -> Pc]
  BY Zenon DEF IInv, TypeOK
<1>a. /\ up /\ Checkpointers = {} /\ op_count > 0
      /\ \A q \in Proc : pc[q] \notin Checkpointing \union {"read_header"}
  BY NoCheckpoint, Zenon DEF end_op_last, Outstanding
<1>b. p \in Outstanding /\ Outstanding' = Outstanding \ {p}
  BY Zenon DEF end_op_last, Wakeup, Outstanding
<1>c. lockHolder = {p} /\ \A q \in Proc : pc[q] = "commit" => q = p
  BY Zenon DEF IInv, end_op_last, LockInv
<1>d. /\ log_used' = Len(header) + OpMax * op_count' /\ log_used' <= LogSize
      /\ log_used' \in Nat /\ op_count' \in Nat
  <2>1. OpMax * op_count' = OpMax * op_count - OpMax /\ OpMax * op_count' \in Nat
    BY Reserve, SMTT(30) DEF end_op_last, LastOutstanding
  <2>2. log_used <= LogSize /\ log_used = Len(header) - idx[p] + absorbed[p] + OpMax * op_count
    BY <1>a, <1>c, Zenon DEF IInv, SpaceInv
  <2>3. Len(block_no[p]) \in Nat /\ Len(block_no[p]) <= OpMax
    BY DEF IInv, CtxInv
  <2>4. /\ log_used' = log_used - ((OpMax - Len(block_no[p])) + absorbed[p])
        /\ idx[p] = Len(block_no[p])
    BY Zenon DEF end_op_last, Returned
  <2>5. /\ log_used \in Nat /\ Len(header) \in Nat /\ idx[p] \in Nat /\ absorbed[p] \in Nat
        /\ OpMax \in Nat /\ op_count \in Nat
    BY SizeAssumption DEF IInv, TypeOK
  <2>6. /\ log_used' = Len(header) + OpMax * op_count' /\ log_used' \in Nat
        /\ log_used' <= LogSize
    <3>1. PICK r \in Nat, r1 \in Nat : r = OpMax * op_count /\ r1 = OpMax * op_count'
      BY <2>1, <2>5, Reserve, Zenon
    <3>2. /\ r \in Nat /\ r1 \in Nat /\ r1 = r - OpMax
          /\ log_used = Len(header) - idx[p] + absorbed[p] + r
      BY <2>1, <2>2, <3>1, Zenon
    <3>3. PICK u \in Nat, h \in Nat, n \in Nat, a \in Nat, m \in Nat :
            u = log_used /\ h = Len(header) /\ n = Len(block_no[p]) /\ a = absorbed[p] /\ m = OpMax
      BY <2>3, <2>5, ZenonT(40)
    <3>4. log_used' = u - ((m - n) + a) /\ u = ((h - n) + a) + r /\ r1 = r - m /\ n <= m
      BY <2>3, <2>4, <3>2, <3>3, Zenon
    <3>5. log_used' = h + r1 /\ log_used' <= u
      BY <3>4
    <3> QED
      <4>1. log_used' = Len(header) + OpMax * op_count'
        BY <3>1, <3>3, <3>5, Zenon
      <4>2. log_used' \in Nat
        BY ONLY <3>3, <3>5, r1 \in Nat
      <4>3. log_used' <= LogSize
        BY ONLY <2>2, <2>5, <3>3, <3>5, <4>2, SizeAssumption
      <4> QED
        BY <4>1, <4>2, <4>3, Zenon
  <2>7. op_count' \in Nat
    BY <1>a, <2>5, SMTT(30) DEF end_op_last
  <2> QED
    BY <2>6, <2>7, Zenon
<1>e. op_count' = Cardinality(Outstanding')
  BY <1>b, OneLess, ZenonT(40) DEF IInv, end_op_last, CountInv
<1>f. Elems(block_no[p]) \subseteq Elems(header)
  BY ZenonT(40) DEF IInv, end_op_last, CommitInv, Elems
<1>g. Outstanding' = {}
  <2>1. Outstanding' \in SUBSET Proc
    BY Zenon DEF Outstanding
  <2>2. Cardinality(Outstanding') = 0
    BY <1>e, Zenon DEF end_op_last, LastOutstanding
  <2> QED
    BY <2>1, <2>2, Nothing, Zenon
<1>h. Checkpointers' = {p} /\ log_size = LogSize
  BY <1>a, Zenon DEF IInv, end_op_last, Wakeup, Checkpointers, Checkpointing, SpaceInv
<1>1. TypeOK'
  BY <1>d, Zenon DEF IInv, end_op_last, Goto, cacheVars, diskVars, Wakeup, Pc, TypeOK
<1>2. LockInv'
  BY <1>c, Zenon DEF end_op_last, Wakeup, LockInv
<1>3. CtxInv'
  BY SMTT(20) DEF IInv, end_op_last, Wakeup, CtxInv
<1>4. BootInv'
  BY <1>a, ZenonT(40) DEF end_op_last, Wakeup, BootInv
<1>5. CkptInv'
  BY <1>t, <1>g, <1>h, Zenon DEF IInv, end_op_last, Wakeup, CkptInv
<1>6. CountInv'
  BY <1>e, Zenon DEF CountInv
<1>7. SpaceInv'
  BY <1>h, Zenon DEF SpaceInv
<1>8. FitInv'
  BY <1>t, SMTT(20) DEF IInv, end_op_last, diskVars, Wakeup, FitInv
<1>9. PinnedInv'
  BY <1>b, <1>f, Zenon DEF IInv, end_op_last, cacheVars, PinnedInv
<1>10. CommitInv'
  BY <1>c, ZenonT(40) DEF end_op_last, Wakeup, CommitInv
<1>11. RecordedInv'
  BY <1>g, Zenon DEF RecordedInv
<1>12. EmptyLogInv'
  BY ZenonT(40) DEF IInv, end_op_last, cacheVars, diskVars, Wakeup, Returned, EmptyLogInv
<1>13. CkptLogInv'
  BY <1>t, SMTT(30) DEF IInv, end_op_last, cacheVars, diskVars, Wakeup, CkptLogInv
<1>14. ReplayInv'
  BY SMTT(30) DEF IInv, end_op_last, cacheVars, diskVars, Wakeup, ReplayInv
<1>15. TsInv' /\ DistinctInv' /\ CleanInv'
  BY Zenon DEF IInv, end_op_last, cacheVars, diskVars, TsInv, DistinctInv, CleanInv
<1> QED
  BY Zenon, <1>1, <1>2, <1>3, <1>4, <1>5, <1>6, <1>7, <1>8, <1>9, <1>10, <1>11, <1>12, <1>13, <1>14,
     <1>15 DEF IInv

-----------------------------------------------------------------------------
(* Boot, checkpoint and replay.                                            *)

\* init_bcache reads the header that the disk holds.
LEMMA InitBcacheStep ==
  ASSUME IInv, NEW p \in Proc, init_bcache(p)
  PROVE  IInv'
<1>t. idx \in [Proc -> Nat] /\ pc \in [Proc -> Pc]
  BY Zenon DEF IInv, TypeOK
<1>a. /\ ~up /\ pinned = {} /\ ts[p] = 0
      /\ \A q \in Proc : pc'[q] = IF q = p THEN "replay" ELSE "idle"
  BY <1>t, Zenon DEF IInv, init_bcache, Goto, BootInv
<1>1. TypeOK'
  BY Zenon DEF IInv, init_bcache, Goto, cacheVars, diskVars, Pc, TypeOK
<1>2. LockInv'
  BY DEF IInv, init_bcache, Goto, LockInv
<1>3. CtxInv'
  BY DEF IInv, init_bcache, Goto, CtxInv
<1>4. BootInv'
  BY <1>a, Zenon DEF IInv, init_bcache, cacheVars, diskVars, BootInv
<1>5. CkptInv'
  BY <1>a, Zenon DEF init_bcache, CkptInv, Checkpointers
<1>6. CountInv'
  BY DEF IInv, init_bcache, Goto, cacheVars, CountInv, Outstanding
<1>7. SpaceInv'
  BY <1>a, Zenon DEF init_bcache, SpaceInv
<1>8. FitInv'
  BY <1>t, <1>a DEF IInv, init_bcache, diskVars, FitInv
<1>9. DistinctInv'
  BY Zenon DEF IInv, init_bcache, diskVars, DistinctInv
<1>10. PinnedInv'
  BY <1>a, Zenon DEF init_bcache, cacheVars, PinnedInv
<1>11. CommitInv'
  BY <1>a, Zenon DEF CommitInv
<1>12. RecordedInv'
  BY DEF IInv, init_bcache, Goto, cacheVars, RecordedInv, Outstanding
<1>13. EmptyLogInv'
  BY <1>a, Zenon DEF EmptyLogInv
<1>14. CkptLogInv'
  BY <1>a, Zenon DEF CkptLogInv
<1>15. ReplayInv'
  BY <1>t, <1>a DEF init_bcache, diskVars, ReplayInv
<1>16. TsInv' /\ CleanInv'
  BY Zenon DEF IInv, init_bcache, cacheVars, diskVars, TsInv, CleanInv
<1> QED
  BY ZenonT(40), <1>t, <1>1, <1>2, <1>3, <1>4, <1>5, <1>6, <1>7, <1>8, <1>9, <1>10, <1>11, <1>12, <1>13,
     <1>14, <1>15, <1>16 DEF IInv, init_bcache, logVars, cacheVars

\* Step 1 of checkpoint: the copied block is pinned, hence cached.
LEMMA CheckpointLogStep ==
  ASSUME IInv, Counting, NEW p \in Proc, checkpoint_log(p)
  PROVE  IInv'
<1>t. /\ cache \in [Block -> Value \union {NotCached}] /\ logDisk \in [1..LogSize -> Value]
      /\ idx \in [Proc -> Nat]
  BY Zenon DEF IInv, TypeOK
<1>a. /\ Outstanding = {} /\ op_count = 0
      /\ \A q \in Proc : pc[q] \in Checkpointing \union {"read_header"} => q = p
      /\ pc[p] \notin {"read_header", "replay"} => up
      /\ ~up => \A q \in Proc : q # p => pc[q] = "idle"
  BY NoOutstanding, Zenon DEF checkpoint_log, Checkpointing
<1>b. idx[p] + 1 \in 1..LogSize /\ idx[p] + 1 \in 1..Len(header)
  BY <1>t, SizeAssumption, SMTT(30) DEF IInv, checkpoint_log, FitInv
<1>d. up /\ header[idx[p] + 1] \in Block /\ cache[header[idx[p] + 1]] # NotCached
  BY <1>t, HeaderPinned DEF checkpoint_log
<1>c. cache' = cache
  BY <1>t, <1>d, Zenon DEF checkpoint_log
<1>1. TypeOK'
  BY <1>t, <1>b, <1>c, <1>d, SMTT(30) DEF IInv, checkpoint_log, Goto, LockFree, logVars, cacheVars,
     localVars, TypeOK
<1>2. CtxInv'
  BY DEF IInv, checkpoint_log, logVars, CtxInv
<1>3. SpaceInv'
  BY Zenon DEF checkpoint_log, SpaceInv, Checkpointers, Checkpointing
<1>4. FitInv'
  BY <1>t, SMTT(30) DEF IInv, checkpoint_log, logVars, FitInv
<1>5. CleanInv'
  BY SMTT(30) DEF IInv, checkpoint_log, CleanInv
<1>6. PinnedInv'
  BY SMTT(30) DEF IInv, checkpoint_log, logVars, PinnedInv, Outstanding
<1>7. CommitInv'
  BY SMTT(30) DEF IInv, checkpoint_log, logVars, CommitInv
<1>8. CkptLogInv'
  BY <1>t, <1>b, <1>d, SMTT(30) DEF IInv, checkpoint_log, logVars, CkptLogInv
<1>9. ReplayInv'
  BY <1>a, Zenon DEF checkpoint_log, ReplayInv, Checkpointing
<1>10. /\ LockInv' /\ BootInv' /\ CkptInv' /\ CountInv' /\ TsInv' /\ DistinctInv'
       /\ RecordedInv' /\ EmptyLogInv'
  BY Zenon DEF IInv, checkpoint_log, logVars, LockInv, BootInv, CkptInv, CountInv, TsInv, DistinctInv,
     RecordedInv, EmptyLogInv, Checkpointers, Outstanding
<1> QED
  BY <1>1, <1>2, <1>3, <1>4, <1>5, <1>6, <1>7, <1>8, <1>9, <1>10, Zenon DEF IInv, checkpoint_log

\* Step 2 of checkpoint: the log on disk is complete when its header is written.
LEMMA CheckpointHeaderStep ==
  ASSUME IInv, Counting, NEW p \in Proc, checkpoint_header(p)
  PROVE  IInv'
<1>t. idx \in [Proc -> Nat] /\ pc \in [Proc -> Pc]
  BY Zenon DEF IInv, TypeOK
<1>a. /\ Outstanding = {} /\ op_count = 0
      /\ \A q \in Proc : pc[q] \in Checkpointing \union {"read_header"} => q = p
      /\ pc[p] \notin {"read_header", "replay"} => up
      /\ ~up => \A q \in Proc : q # p => pc[q] = "idle"
  BY NoOutstanding, Zenon DEF checkpoint_header, Checkpointing
<1>1. TypeOK'
  BY Zenon DEF IInv, checkpoint_header, Goto, LockFree, logVars, cacheVars, LogWritten, Pc, TypeOK
<1>2. LockInv'
  BY SMTT(30) DEF IInv, checkpoint_header, Goto, LockInv
<1>3. CtxInv'
  <2>1. \A q \in Proc : pc'[q] \in {"begin", "sleep_log", "run", "commit"} =>
          pc'[q] = pc[q] /\ idx'[q] = idx[q]
    BY <1>t, Zenon DEF checkpoint_header, Goto
  <2>2. /\ block_no' = block_no /\ absorbed' = absorbed /\ ts' = ts
        /\ last_allocated_ts' = last_allocated_ts /\ last_persisted_ts' = last_persisted_ts
    BY Zenon DEF checkpoint_header, logVars
  <2> QED
    BY <2>1, <2>2, Zenon DEF IInv, CtxInv
<1>4. BootInv'
  <2>1. up /\ up' = up /\ \A q \in Proc : pc'[q] = "read_header" => pc[q] = "read_header"
    BY <1>t, <1>a, Zenon DEF checkpoint_header, Goto
  <2> QED
    BY <2>1, Zenon DEF IInv, BootInv
<1>5. CkptInv'
  BY DEF IInv, checkpoint_header, Goto, logVars, CkptInv, Checkpointers, Checkpointing,
     Outstanding
<1>6. CountInv'
  BY DEF IInv, checkpoint_header, Goto, logVars, diskVars, CountInv, Outstanding
<1>7. SpaceInv'
  BY DEF checkpoint_header, Goto, SpaceInv, Checkpointers, Checkpointing
<1>8. FitInv'
  BY DEF IInv, checkpoint_header, Goto, logVars, FitInv
<1>9. DistinctInv'
  BY Zenon DEF IInv, checkpoint_header, logVars, DistinctInv
<1>10. PinnedInv'
  BY DEF IInv, checkpoint_header, Goto, logVars, cacheVars, PinnedInv, Outstanding
<1>11. CommitInv'
  BY DEF IInv, checkpoint_header, Goto, logVars, CommitInv
<1>12. RecordedInv'
  BY DEF IInv, checkpoint_header, Goto, cacheVars, RecordedInv, Outstanding
<1>13. EmptyLogInv'
  BY <1>t, Zenon DEF checkpoint_header, Goto, EmptyLogInv
<1>14. CkptLogInv'
  BY SMTT(30) DEF IInv, checkpoint_header, Goto, logVars, cacheVars, CkptLogInv
<1>15. ReplayInv'
  BY <1>t, HeaderPinned, SMTT(30) DEF IInv, checkpoint_header, Goto, logVars, cacheVars, LogWritten,
     ReplayInv, CkptLogInv
<1>16. TsInv' /\ CleanInv'
  BY Zenon DEF IInv, checkpoint_header, logVars, cacheVars, TsInv, CleanInv
<1> QED
  BY ZenonT(40), <1>t, <1>1, <1>2, <1>3, <1>4, <1>5, <1>6, <1>7, <1>8, <1>9, <1>10, <1>11, <1>12, <1>13,
     <1>14, <1>15, <1>16 DEF IInv

\* replay with an empty header.
LEMMA ReplayNoneStep ==
  ASSUME IInv, Counting, NEW p \in Proc, replay_none(p)
  PROVE  IInv'
<1>t. idx \in [Proc -> Nat] /\ pc \in [Proc -> Pc]
  BY Zenon DEF IInv, TypeOK
<1>a. /\ Outstanding = {} /\ op_count = 0 /\ lockHolder = {}
      /\ \A q \in Proc : pc[q] \in Checkpointing \union {"read_header"} => q = p
      /\ pc[p] \notin {"read_header", "replay"} => up
      /\ ~up => \A q \in Proc : q # p => pc[q] = "idle"
  BY NoOutstanding, Zenon DEF replay_none, LockFree, Checkpointing
<1>b. ~up => Checkpointers' = {} /\ \A q \in Proc : pc'[q] = "idle"
  BY <1>t, <1>a, Zenon DEF replay_none, Goto, AfterReplay, Checkpointers, Checkpointing
<1>c. up => Checkpointers' = Checkpointers /\ Checkpointers = {p}
  BY <1>a DEF replay_none, Goto, AfterReplay, Checkpointers, Checkpointing
<1>d. Outstanding' = {}
  BY <1>a, SMTT(30) DEF replay_none, Goto, AfterReplay, Outstanding
<1>z. /\ ~up => log_size = LogSize /\ log_used = 0 /\ log_used <= LogSize
      /\ Len(header') + OpMax * op_count = 0
  BY <1>a, SizeAssumption, SMTT(30) DEF IInv, replay_none, logVars, BootInv
<1>1. TypeOK'
  BY Zenon DEF IInv, replay_none, Goto, logVars, cacheVars, diskVars, AfterReplay, Pc, TypeOK
<1>2. LockInv'
  BY SMTT(30) DEF IInv, replay_none, Goto, AfterReplay, LockInv
<1>3. CtxInv'
  BY DEF IInv, replay_none, Goto, logVars, AfterReplay, CtxInv
<1>4. BootInv'
  BY SMTT(30) DEF IInv, replay_none, Goto, AfterReplay, BootInv
<1>5. CkptInv'
  BY <1>b, <1>c, <1>d, Zenon DEF IInv, replay_none, logVars, CkptInv
<1>6. CountInv'
  BY <1>a, <1>d, Zenon DEF IInv, replay_none, logVars, CountInv
<1>7. SpaceInv'
  BY <1>a, <1>c, <1>z, Zenon DEF replay_none, LockFree, logVars, SpaceInv
<1>8. FitInv'
  BY DEF IInv, replay_none, Goto, logVars, diskVars, AfterReplay, FitInv
<1>9. PinnedInv'
  BY <1>a, Zenon DEF IInv, replay_none, logVars, cacheVars, PinnedInv
<1>10. CommitInv'
  BY DEF IInv, replay_none, Goto, logVars, AfterReplay, CommitInv
<1>11. RecordedInv'
  BY <1>d, Zenon DEF RecordedInv
<1>12. EmptyLogInv'
  BY EmptySeq, Zenon DEF IInv, replay_none, logVars, diskVars, EmptyLogInv, ReplayInv
<1>13. CkptLogInv'
  BY SMTT(30) DEF IInv, replay_none, Goto, logVars, cacheVars, diskVars, AfterReplay, CkptLogInv
<1>14. ReplayInv'
  BY <1>t, SMTT(30) DEF IInv, replay_none, Goto, logVars, cacheVars, diskVars, AfterReplay, ReplayInv
<1>15. TsInv' /\ DistinctInv' /\ CleanInv'
  BY Zenon DEF IInv, replay_none, logVars, cacheVars, diskVars, TsInv, DistinctInv, CleanInv
<1> QED
  BY Zenon, <1>1, <1>2, <1>3, <1>4, <1>5, <1>6, <1>7, <1>8, <1>9, <1>10, <1>11, <1>12, <1>13, <1>14,
     <1>15 DEF IInv

\* Step 3, in replay: installing one block touches no other, since the header
\* has no repetitions.
LEMMA ReplayInstallStep ==
  ASSUME IInv, Counting, NEW p \in Proc, replay_install(p)
  PROVE  IInv'
<1>t. /\ cache \in [Block -> Value \union {NotCached}] /\ disk \in [Block -> Value]
      /\ idx \in [Proc -> Nat]
  BY Zenon DEF IInv, TypeOK
<1>a. /\ Outstanding = {} /\ op_count = 0
      /\ \A q \in Proc : pc[q] \in Checkpointing \union {"read_header"} => q = p
      /\ pc[p] \notin {"read_header", "replay"} => up
      /\ ~up => \A q \in Proc : q # p => pc[q] = "idle"
  BY NoOutstanding, Zenon DEF replay_install, Checkpointing
<1>b. idx[p] + 1 \in 1..LogSize /\ idx[p] + 1 \in 1..Len(header) /\ header[idx[p] + 1] \in Block
  BY SizeAssumption, SMTT(30) DEF IInv, replay_install, Goto, LockFree, logVars, cacheVars, localVars,
     diskVars, FitInv, TypeOK
<1>c. \A i \in 1..Len(header) :
        header[i] \in Block /\ (i # idx[p] + 1 => header[i] # header[idx[p] + 1])
  BY <1>t, <1>b, SMTT(30) DEF IInv, Goto, cacheVars, DistinctInv, Distinct, TypeOK
<1>1. TypeOK'
  BY <1>b, SMTT(30) DEF IInv, replay_install, Goto, logVars, cacheVars, localVars, TypeOK
<1>2. CtxInv'
  BY SMTT(30) DEF IInv, replay_install, logVars, CtxInv
<1>3. BootInv'
  BY Zenon DEF IInv, replay_install, logVars, BootInv
<1>4. SpaceInv'
  BY Zenon DEF replay_install, SpaceInv, Checkpointers, Checkpointing
<1>5. FitInv'
  BY <1>t, SMTT(30) DEF IInv, replay_install, logVars, FitInv
<1>6. CleanInv'
  BY <1>t, Zenon DEF IInv, replay_install, CleanInv
<1>7. PinnedInv'
  BY SMTT(30) DEF IInv, replay_install, logVars, PinnedInv, Outstanding
<1>8. CommitInv'
  BY DEF IInv, replay_install, logVars, CommitInv
<1>9. RecordedInv'
  BY <1>a, Zenon DEF replay_install, RecordedInv, Outstanding
<1>10. EmptyLogInv'
  BY Zenon DEF replay_install, EmptyLogInv
<1>11. CkptLogInv'
  BY <1>a, Zenon DEF replay_install, CkptLogInv, Checkpointing
<1>12. ReplayInv'
  BY <1>t, <1>a, <1>c, SMTT(30) DEF IInv, replay_install, logVars, ReplayInv, Checkpointing
<1>13. LockInv' /\ CkptInv' /\ CountInv' /\ TsInv' /\ DistinctInv'
  BY Zenon DEF IInv, replay_install, logVars, LockInv, CkptInv, CountInv, TsInv, DistinctInv,
     Checkpointers, Outstanding
<1> QED
  BY ZenonT(40), <1>t, <1>1, <1>2, <1>3, <1>4, <1>5, <1>6, <1>7, <1>8, <1>9, <1>10, <1>11, <1>12,
     <1>13 DEF IInv, replay_install, Goto, LockFree, logVars, cacheVars

\* Step 4, in replay: every block is installed and un-pinned before the log is
\* cleared.
LEMMA ReplayClearStep ==
  ASSUME IInv, Counting, NEW p \in Proc, replay_clear(p)
  PROVE  IInv'
<1>t. idx \in [Proc -> Nat] /\ pc \in [Proc -> Pc]
  BY Zenon DEF IInv, TypeOK
<1>a. /\ Outstanding = {} /\ op_count = 0 /\ lockHolder = {}
      /\ \A q \in Proc : pc[q] \in Checkpointing \union {"read_header"} => q = p
      /\ pc[p] \notin {"read_header", "replay"} => up
      /\ ~up => \A q \in Proc : q # p => pc[q] = "idle"
  BY NoOutstanding, Zenon DEF replay_clear, LockFree, Checkpointing
<1>b. ~up => Checkpointers' = {} /\ \A q \in Proc : pc'[q] = "idle"
  BY <1>t, <1>a, Zenon DEF replay_clear, Goto, AfterReplay, Checkpointers, Checkpointing
<1>c. up => Checkpointers' = Checkpointers /\ Checkpointers = {p}
  BY <1>a DEF replay_clear, Goto, AfterReplay, Checkpointers, Checkpointing
<1>d. Outstanding' = {}
  BY <1>a DEF replay_clear, Goto, AfterReplay, Outstanding
<1>y. ~up => log_size = LogSize /\ log_used = 0 /\ log_used <= LogSize
  BY SizeAssumption, SMTT(30) DEF IInv, BootInv
<1>z. Len(header') + OpMax * op_count = 0
  BY <1>a, Reserve DEF replay_clear
<1>e. pinned = {}
  <2>1. \A i \in 1..Len(header) : header[i] \notin pinned
    BY Zenon DEF IInv, replay_clear, ReplayInv
  <2>2. pinned \subseteq Elems(header)
    BY <1>a, Zenon DEF IInv, PinnedInv
  <2> QED
    BY <2>1, <2>2, Zenon DEF Elems
<1>f. Len(header') = 0 /\ Len(hdrDisk') = 0 /\ Elems(header') = {}
  BY EmptySeq, Zenon DEF replay_clear
<1>1. TypeOK'
  BY <1>t, SMTT(30) DEF IInv, replay_clear, Goto, cacheVars, AfterReplay, Pc, TypeOK
<1>2. LockInv'
  BY SMTT(30) DEF IInv, replay_clear, Goto, AfterReplay, LockInv
<1>3. CtxInv'
  BY SMTT(30) DEF IInv, replay_clear, Goto, AfterReplay, CtxInv
<1>4. BootInv'
  BY SMTT(20) DEF IInv, replay_clear, Goto, AfterReplay, BootInv
<1>5. CkptInv'
  BY <1>b, <1>c, <1>d, Zenon DEF IInv, replay_clear, CkptInv
<1>6. CountInv'
  BY <1>a, <1>d, Zenon DEF IInv, replay_clear, CountInv
<1>7. SpaceInv'
  BY <1>a, <1>c, <1>y, <1>z, Zenon DEF replay_clear, SpaceInv
<1>8. FitInv'
  BY <1>t, <1>a, SizeAssumption DEF replay_clear, Goto, AfterReplay, FitInv, Checkpointing
<1>9. DistinctInv'
  BY EmptySeq, Zenon DEF replay_clear, DistinctInv
<1>10. PinnedInv'
  BY <1>e, Zenon DEF replay_clear, cacheVars, PinnedInv
<1>11. CommitInv'
  BY <1>d, Zenon DEF CommitInv, Outstanding
<1>12. RecordedInv'
  BY <1>d, Zenon DEF RecordedInv
<1>13. EmptyLogInv'
  BY EmptySeq, Zenon DEF replay_clear, EmptyLogInv
<1>14. CkptLogInv'
  BY <1>a DEF replay_clear, Goto, AfterReplay, CkptLogInv, Checkpointing
<1>15. ReplayInv'
  BY <1>t, <1>a, Zenon DEF replay_clear, Goto, AfterReplay, ReplayInv, Checkpointing
<1>16. TsInv' /\ CleanInv'
  BY Zenon DEF IInv, replay_clear, cacheVars, TsInv, CleanInv
<1> QED
  BY Zenon, <1>1, <1>2, <1>3, <1>4, <1>5, <1>6, <1>7, <1>8, <1>9, <1>10, <1>11, <1>12, <1>13, <1>14,
     <1>15, <1>16 DEF IInv, logVars

\* end_op reopens the log, which is empty.
LEMMA EndOpReopenStep ==
  ASSUME IInv, Counting, NEW p \in Proc, end_op_reopen(p)
  PROVE  IInv'
<1>t. pc \in [Proc -> Pc]
  BY Zenon DEF IInv, TypeOK
<1>a. /\ Outstanding = {} /\ op_count = 0 /\ lockHolder = {}
      /\ \A q \in Proc : pc[q] \in Checkpointing \union {"read_header"} => q = p
      /\ pc[p] \notin {"read_header", "replay"} => up
      /\ ~up => \A q \in Proc : q # p => pc[q] = "idle"
  BY NoOutstanding, Zenon DEF end_op_reopen, LockFree, Checkpointing
<1>b. header = <<>> /\ log_size_copy[p] = LogSize /\ Checkpointers = {p}
  BY <1>a, Zenon DEF IInv, end_op_reopen, CkptInv, Checkpointers, Checkpointing
<1>1. TypeOK'
  BY Zenon DEF IInv, end_op_reopen, Goto, cacheVars, localVars, diskVars, Pc, TypeOK
<1>2. LockInv'
  BY SMTT(20) DEF IInv, end_op_reopen, Goto, LockInv
<1>3. CtxInv'
  BY <1>t, ZenonT(40) DEF IInv, end_op_reopen, Goto, localVars, CtxInv
<1>4. BootInv'
  <2>1. up' /\ pc' = [pc EXCEPT ![p] = "wake_log"]
    BY <1>a, Zenon DEF end_op_reopen, Goto
  <2>2. \A q \in Proc : pc'[q] # "read_header"
    BY <1>t, <1>a, <2>1, Zenon
  <2> QED
    BY <2>1, <2>2, Zenon DEF BootInv
<1>5. CkptInv'
  BY <1>t, <1>a, Zenon DEF end_op_reopen, Goto, CkptInv, Checkpointers, Checkpointing
<1>6. CountInv'
  BY DEF IInv, end_op_reopen, Goto, CountInv, Outstanding
<1>7. SpaceInv'
  BY <1>a, <1>b, SizeAssumption, SMTT(30) DEF end_op_reopen, SpaceInv
<1>8. FitInv'
  BY SMTT(30) DEF IInv, end_op_reopen, Goto, localVars, diskVars, FitInv
<1>9. PinnedInv'
  BY SMTT(30) DEF IInv, end_op_reopen, Goto, cacheVars, localVars, PinnedInv, Outstanding
<1>10. CommitInv'
  BY DEF IInv, end_op_reopen, Goto, localVars, CommitInv
<1>11. RecordedInv'
  BY DEF IInv, end_op_reopen, Goto, cacheVars, localVars, RecordedInv, Outstanding
<1>12. EmptyLogInv'
  BY SMTT(30) DEF IInv, end_op_reopen, Goto, cacheVars, diskVars, EmptyLogInv
<1>13. CkptLogInv'
  BY SMTT(30) DEF IInv, end_op_reopen, Goto, cacheVars, localVars, diskVars, CkptLogInv
<1>14. ReplayInv'
  BY SMTT(30) DEF IInv, end_op_reopen, Goto, cacheVars, localVars, diskVars, ReplayInv
<1>15. TsInv' /\ DistinctInv' /\ CleanInv'
  BY Zenon DEF IInv, end_op_reopen, cacheVars, diskVars, TsInv, DistinctInv, CleanInv
<1> QED
  BY Zenon, <1>t, <1>1, <1>2, <1>3, <1>4, <1>5, <1>6, <1>7, <1>8, <1>9, <1>10, <1>11, <1>12, <1>13,
     <1>14, <1>15 DEF IInv, end_op_reopen

\* A power failure at any moment leaves a disk from which init_bcache can boot.
LEMMA CrashStep ==
  ASSUME IInv, Counting, Crash
  PROVE  IInv'
<1>1. PICK p \in Proc : pc' = [q \in Proc |-> IF q = p THEN "read_header" ELSE "idle"]
  BY Zenon DEF Crash
<1>2. Outstanding' = {} /\ Checkpointers' = {} /\ \A q \in Proc : pc'[q] \in {"idle", "read_header"}
  BY Zenon DEF Crash, Outstanding, Checkpointers
<1>3. TypeOK'
  <2>1. pc' \in [Proc -> Pc]
    BY <1>1, Zenon DEF Pc
  <2>2. block_no' \in [Proc -> Seq(Block)]
    BY DEF Crash
  <2> QED
    BY <2>1, <2>2, SizeAssumption, ZenonT(40) DEF IInv, Crash, diskVars, TypeOK
<1>4. LockInv' /\ CtxInv' /\ TsInv'
  BY SizeAssumption DEF Crash, LockInv, CtxInv, TsInv
<1>5. BootInv' /\ CkptInv'
  BY <1>2, Zenon DEF Crash, BootInv, CkptInv
<1>6. CountInv'
  <2>1. Cardinality({}) = 0
    BY Nothing, Zenon
  <2> QED
    BY <1>2, <2>1, Zenon DEF Crash, CountInv
<1>7. SpaceInv' /\ FitInv' /\ DistinctInv'
  BY SizeAssumption, EmptySeq, SMTT(30) DEF IInv, Crash, diskVars, SpaceInv, FitInv, DistinctInv
<1>8. CleanInv' /\ PinnedInv' /\ CommitInv' /\ RecordedInv'
  BY <1>2, Zenon DEF Crash, CleanInv, PinnedInv, CommitInv, RecordedInv
<1>9. EmptyLogInv' /\ CkptLogInv' /\ ReplayInv'
  BY Zenon DEF Crash, EmptyLogInv, CkptLogInv, ReplayInv
<1> QED
  BY <1>3, <1>4, <1>5, <1>6, <1>7, <1>8, <1>9, Zenon DEF IInv

-----------------------------------------------------------------------------
(* The log implements AtomicDisk.                                          *)

\* The phases of all operations.
Phases == [q \in Proc |-> Phase(q)]

-----------------------------------------------------------------------------
(* The refinement mapping.                                                 *)

\* Nothing is visible but the cache and the disk.
LEMMA SameContents ==
  ASSUME UNCHANGED <<cache, disk, logDisk, hdrDisk, up>>
  PROVE  Visible' = Visible /\ Recovered' = Recovered
  BY Zenon DEF Visible, Recovered

\* What the phase of an operation depends on.
LEMMA SamePhase ==
  ASSUME NEW q \in Proc, pc'[q] = pc[q], ts'[q] = ts[q], up' = up,
         last_persisted_ts' = last_persisted_ts, Persisting' <=> Persisting
  PROVE  Phase(q)' = Phase(q)
  BY Zenon DEF Phase, Durable

\* A thread outside of every operation.
LEMMA IdlePhase ==
  ASSUME NEW q \in Proc, pc[q] \in {"idle", "begin", "sleep_log", "read_header"}
  PROVE  Phase(q) = "idle"
  BY Zenon DEF Phase, Durable

\* An empty log on disk: recovery changes nothing.
LEMMA EmptyLog ==
  ASSUME TypeOK, hdrDisk = <<>>
  PROVE  Recovered = disk
  BY EmptySeq DEF Recovered, TypeOK

\* The phase of one thread changes.
LEMMA OnePhase ==
  ASSUME NEW p \in Proc, NEW v, Phase(p)' = v, \A q \in Proc \ {p} : Phase(q)' = Phase(q)
  PROVE  Phases' = [Phases EXCEPT ![p] = v]
  BY ZenonT(40) DEF Phases

\* A step that AtomicDisk does not see.
LEMMA Silent ==
  ASSUME Visible' = Visible, Recovered' = Recovered, \A q \in Proc : Phase(q)' = Phase(q)
  PROVE  UNCHANGED AtomicOps!vars
  BY Zenon DEF AtomicOps!vars

-----------------------------------------------------------------------------
(* Operations.                                                             *)

\* begin_op before it gets in, and the sleeps of begin_op and end_op.
LEMMA WaitingIsSilent ==
  ASSUME IInv, NEW p \in Proc, begin_op(p) \/ begin_op_sleep(p) \/ end_op_sleep(p)
  PROVE  UNCHANGED AtomicOps!vars
<1> USE DEF begin_op, begin_op_sleep, end_op_sleep, Goto, ResetCtx, logVars, cacheVars,
            localVars, diskVars
<1>1. Visible' = Visible /\ Recovered' = Recovered
  BY SameContents, Zenon
<1>2. Persisting' <=> Persisting
  BY ZenonT(40) DEF Persisting, IInv, TypeOK
<1>3. ASSUME NEW q \in Proc \ {p} PROVE Phase(q)' = Phase(q)
  BY <1>2, SamePhase, Zenon DEF IInv, TypeOK
<1>4. Phase(p)' = Phase(p)
  BY <1>2, Zenon DEF Phase, Durable, IInv, TypeOK
<1> QED
  BY <1>1, <1>3, <1>4, Silent, Zenon

\* begin_op gets in: Begin.
LEMMA EnterBegins ==
  ASSUME IInv, NEW p \in Proc, begin_op_enter(p)
  PROVE  AtomicOps!Begin(p)
<1> USE DEF begin_op_enter, Goto, cacheVars, diskVars
<1>1. Visible' = Visible /\ Recovered' = Recovered
  BY SameContents, Zenon
<1>2. Persisting' <=> Persisting
  BY Zenon DEF Persisting, IInv, TypeOK
<1>3. ASSUME NEW q \in Proc \ {p} PROVE Phase(q)' = Phase(q)
  BY <1>2, SamePhase, Zenon DEF IInv, TypeOK
<1>4. Phase(p) = "idle" /\ Phase(p)' = "open"
  BY Zenon DEF Phase, Durable, IInv, TypeOK
<1> QED
  BY <1>1, <1>3, <1>4, OnePhase, Zenon DEF AtomicOps!Begin, Phases

\* sync: Write.
LEMMA SyncWrites ==
  ASSUME IInv, Counting, NEW p \in Proc, NEW b \in Block, NEW v \in Value, cache_sync(p, b, v)
  PROVE  AtomicOps!Write(p, b, v)
<1> USE DEF cache_sync, logVars, diskVars
<1>1. up /\ up'
  BY NoCheckpoint, Zenon DEF Outstanding
<1>2. Visible' = [Visible EXCEPT ![b] = v] /\ Recovered' = Recovered
  BY <1>1, ValueAssumption, ZenonT(40) DEF Visible, Recovered, IInv, TypeOK
<1>3. \A q \in Proc : Phase(q)' = Phase(q)
  BY SamePhase, ZenonT(40) DEF Persisting
<1>4. Phase(p) = "open"
  BY ZenonT(40) DEF Phase
<1> QED
  BY <1>2, <1>3, <1>4, ZenonT(40) DEF AtomicOps!Write

\* The start of end_op: End.
LEMMA EndOpEnds ==
  ASSUME IInv, NEW p \in Proc, end_op(p)
  PROVE  AtomicOps!End(p)
<1> USE DEF end_op, Goto, logVars, cacheVars, diskVars
<1>1. Visible' = Visible /\ Recovered' = Recovered
  BY SameContents, Zenon
<1>2. Persisting' <=> Persisting
  BY Zenon DEF Persisting, IInv, TypeOK
<1>3. ASSUME NEW q \in Proc \ {p} PROVE Phase(q)' = Phase(q)
  BY <1>2, SamePhase, Zenon DEF IInv, TypeOK
<1>4. Phase(p) = "open" /\ Phase(p)' = "closing"
  BY Zenon DEF Phase, Durable, IInv, TypeOK
<1> QED
  BY <1>1, <1>3, <1>4, OnePhase, Zenon DEF AtomicOps!End, Phases

\* commit, and the rest of end_op's critical section: the operation does not
\* become persistent by it, since its timestamp is not.
LEMMA CommitIsSilent ==
  ASSUME IInv, Counting, NEW p \in Proc, commit(p) \/ end_op_wait(p) \/ end_op_last(p)
  PROVE  UNCHANGED AtomicOps!vars
<1>0. /\ pc[p] = "commit" /\ pc'[p] \in {"commit", "wait_ts", "ckpt_log"}
      /\ \A q \in Proc \ {p} : pc'[q] = pc[q] \/ (pc[q] = "sleep_log" /\ pc'[q] = "begin")
      /\ UNCHANGED <<ts, last_persisted_ts, up, cache, disk, logDisk, hdrDisk>>
  <2> USE DEF IInv, TypeOK, cacheVars, localVars, diskVars
  <2>1. CASE commit(p)
    BY <2>1, Zenon DEF commit
  <2>2. CASE end_op_wait(p)
    BY <2>2, Zenon DEF end_op_wait, Wakeup
  <2>3. CASE end_op_last(p)
    BY <2>3, Zenon DEF end_op_last, Wakeup
  <2> QED
    BY <2>1, <2>2, <2>3, ZenonT(40)
<1>1. Visible' = Visible /\ Recovered' = Recovered
  BY <1>0, SameContents, ZenonT(40)
<1>2. p \in Outstanding /\ \A q \in Proc : pc[q] \notin {"replay", "persisted"}
  BY <1>0, NoCheckpoint, ZenonT(40) DEF Outstanding, Checkpointing
<1>3. ~Persisting /\ ~Persisting'
  BY <1>0, <1>2, ZenonT(40) DEF Persisting
<1>4. ASSUME NEW q \in Proc \ {p} PROVE Phase(q)' = Phase(q)
  <2>1. CASE pc'[q] = pc[q]
    BY <1>0, <1>3, <2>1, SamePhase, Zenon
  <2>2. CASE pc'[q] # pc[q]
    BY <1>0, <2>2, Zenon DEF Phase, Durable
  <2> QED
    BY <2>1, <2>2, ZenonT(40)
<1>5. Phase(p)' = Phase(p)
  <2>1. ts[p] > last_persisted_ts /\ ts[p] \in Nat /\ last_persisted_ts \in Nat
    BY <1>0, Zenon DEF IInv, TypeOK, CtxInv
  <2> QED
    BY <1>0, <1>3, <2>1, SMTT(30) DEF Phase, Durable
<1> QED
  BY <1>1, <1>4, <1>5, Silent, Zenon

\* end_op returns, with a persistent operation: Return.
LEMMA EndOpReturns ==
  ASSUME IInv, NEW p \in Proc, end_op_return(p) \/ end_op_wakeup(p)
  PROVE  AtomicOps!Return(p)
<1>0. /\ p \in Durable /\ pc[p] \in {"wait_ts", "wake_log"} /\ pc'[p] = "idle"
      /\ \A q \in Proc \ {p} : /\ pc'[q] = pc[q] \/ (pc[q] = "sleep_log" /\ pc'[q] = "begin")
                               /\ ts'[q] = ts[q]
      /\ UNCHANGED <<last_persisted_ts, up, cache, disk, logDisk, hdrDisk>>
  <2> USE DEF ResetCtx, logVars, cacheVars, diskVars, Durable, IInv, TypeOK
  <2>1. CASE end_op_return(p)
    BY <2>1, Zenon DEF end_op_return, Goto
  <2>2. CASE end_op_wakeup(p)
    BY <2>2, Zenon DEF end_op_wakeup, Wakeup
  <2> QED
    BY <2>1, <2>2, ZenonT(40)
<1>1. Visible' = Visible /\ Recovered' = Recovered
  BY <1>0, SameContents, ZenonT(40)
<1>2. Persisting' <=> Persisting
  BY <1>0, ZenonT(40) DEF Persisting
<1>3. ASSUME NEW q \in Proc \ {p} PROVE Phase(q)' = Phase(q)
  <2>1. CASE pc'[q] = pc[q]
    BY <1>0, <1>2, <2>1, SamePhase, Zenon
  <2>2. CASE pc'[q] # pc[q]
    BY <1>0, <2>2, Zenon DEF Phase, Durable
  <2> QED
    BY <2>1, <2>2, ZenonT(40)
<1>4. Phase(p) = "durable" /\ Phase(p)' = "idle"
  BY <1>0 DEF Phase, Durable
<1> QED
  BY <1>1, <1>3, <1>4, OnePhase, Zenon DEF AtomicOps!Return, Phases

-----------------------------------------------------------------------------
(* The cache.                                                              *)

\* Loading a block, and evicting one that is not pinned.
LEMMA CacheIsSilent ==
  ASSUME IInv, NEW b \in Block, cache_load(b) \/ cache_evict(b)
  PROVE  UNCHANGED AtomicOps!vars
<1>0. /\ UNCHANGED <<last_persisted_ts, up, pc, ts, disk, logDisk, hdrDisk>>
      /\ \/ cache[b] = NotCached /\ cache' = [cache EXCEPT ![b] = disk[b]]
         \/ cache[b] = disk[b] /\ cache' = [cache EXCEPT ![b] = NotCached]
  BY Zenon DEF cache_load, cache_evict, Evictable, logVars, localVars, diskVars, IInv, CleanInv
<1>1. Recovered' = Recovered
  BY <1>0, Zenon DEF Recovered
<1>2. Visible' = Visible
  BY <1>0, <1>1, ValueAssumption, ZenonT(40) DEF Visible, IInv, TypeOK
<1>3. \A q \in Proc : Phase(q)' = Phase(q)
  BY <1>0, SamePhase, Zenon DEF Persisting
<1> QED
  BY <1>1, <1>2, <1>3, Silent, Zenon

-----------------------------------------------------------------------------
(* Checkpoints.                                                            *)

\* Step 1 copies to a log that recovery does not yet look at.
LEMMA LogCopyIsSilent ==
  ASSUME IInv, Counting, NEW p \in Proc, checkpoint_log(p)
  PROVE  UNCHANGED AtomicOps!vars
<1> DEFINE b == header[idx[p] + 1]
<1>0. /\ UNCHANGED <<last_persisted_ts, up, pc, ts, disk, hdrDisk>>
      /\ cache' = [cache EXCEPT ![b] = IF cache[b] = NotCached THEN disk[b] ELSE cache[b]]
  BY Zenon DEF checkpoint_log, logVars
<1>1. hdrDisk = <<>>
  BY HeaderPinned, Zenon DEF checkpoint_log
<1>2. Recovered' = Recovered
  BY <1>0, <1>1, EmptySeq, SMTT(30) DEF Recovered
<1>3. b \in Block
  BY DEF checkpoint_log, IInv, TypeOK
<1> HIDE DEF b
<1>4. Visible' = Visible
  BY <1>0, <1>2, <1>3, ValueAssumption, ZenonT(40) DEF Visible, IInv, TypeOK
<1>5. \A q \in Proc : Phase(q)' = Phase(q)
  BY <1>0, SamePhase, ZenonT(40) DEF Persisting
<1> QED
  BY <1>2, <1>4, <1>5, Silent, Zenon

\* Step 2: Persist.  No operation is open, the log holds the cached content of
\* the blocks of the header, and all other cached blocks equal the disk.
LEMMA HeaderPersists ==
  ASSUME IInv, Counting, NEW p \in Proc, checkpoint_header(p)
  PROVE  AtomicOps!Persist
<1>0. /\ pc[p] = "ckpt_log" /\ pc' = [pc EXCEPT ![p] = "replay"] /\ hdrDisk' = header
      /\ idx[p] = Len(header)
      /\ UNCHANGED <<last_persisted_ts, up, ts, cache, disk, logDisk>>
  BY Zenon DEF checkpoint_header, LogWritten, Goto, logVars, cacheVars
<1>1. up /\ Outstanding = {} /\ \A q \in Proc : pc[q] \in Checkpointing => q = p
  BY <1>0, NoOutstanding, Zenon DEF Checkpointing
<1>2. ASSUME NEW b \in Block PROVE Recovered'[b] = Visible[b]
  <2>1. CASE \E i \in 1..Len(header) : header[i] = b
    <3> DEFINE i == CHOOSE i \in 1..Len(header) : header[i] = b
    <3>1. i \in 1..Len(header) /\ header[i] = b
      BY <2>1, Zenon
    <3>2. Recovered'[b] = logDisk[i]
      BY <1>0, <2>1, Zenon DEF Recovered
    <3>3. logDisk[i] = cache[b]
      BY <1>0, <3>1, Zenon DEF IInv, CkptLogInv
    <3>4. cache[b] # NotCached
      BY <1>0, <3>1, HeaderPinned, Zenon
    <3> QED
      BY <1>1, <3>2, <3>3, <3>4, Zenon DEF Visible
  <2>2. CASE ~ \E i \in 1..Len(header) : header[i] = b
    <3>1. Recovered'[b] = disk[b]
      BY <1>0, <2>2, Zenon DEF Recovered
    <3>2. b \notin pinned
      BY <1>1, <2>2, Zenon DEF IInv, PinnedInv, Elems
    <3> QED
      BY <1>1, <3>1, <3>2, Zenon DEF IInv, CleanInv, Visible
  <2> QED
    BY <2>1, <2>2, Zenon
<1>3. Recovered' = Visible
  BY <1>1, <1>2, ZenonT(40) DEF Recovered, Visible
<1>4. Visible' = Visible
  BY <1>0, <1>1, Zenon DEF Visible
<1>5. Persisting' /\ ~Persisting
  BY <1>0, <1>1, Zenon DEF Persisting, Checkpointing, IInv, TypeOK
<1>6. ASSUME NEW q \in Proc
      PROVE  /\ Phase(q) # "open"
             /\ Phase(q)' = IF Phase(q) = "closing" THEN "durable" ELSE Phase(q)
  <2>1. CASE q = p
    BY <1>0, <1>1, <1>5, <2>1, ZenonT(40) DEF Phase, Durable, IInv, TypeOK
  <2>2. CASE q # p
    <3>1. /\ pc'[q] = pc[q] /\ pc[q] \notin {"run", "commit", "ckpt_log", "replay"}
      BY <1>0, <1>1, <2>2, ZenonT(40) DEF Outstanding, Checkpointing, IInv, TypeOK
    <3> QED
      BY <1>0, <1>5, <3>1, ZenonT(40) DEF Phase, Durable
  <2> QED
    BY <2>1, <2>2, Zenon
<1>7. \A q \in Proc : Phases[q] # "open"
  BY <1>6, Zenon DEF Phases
<1>8. Phases' = [q \in Proc |-> IF Phases[q] = "closing" THEN "durable" ELSE Phases[q]]
  BY <1>6, Zenon DEF Phases
<1> QED
  BY <1>3, <1>4, <1>7, <1>8, Zenon DEF AtomicOps!Persist, Phases

\* Where replay returns to, in a checkpoint or at the end of init_bcache.
LEMMA AfterReplayPhases ==
  ASSUME IInv, Counting, NEW p \in Proc, pc[p] = "replay", AfterReplay(p),
         UNCHANGED <<ts, last_persisted_ts>>
  PROVE  \A q \in Proc : Phase(q)' = Phase(q)
<1>1. CASE up
  <2>1. up' /\ pc' = [pc EXCEPT ![p] = "persisted"]
    BY <1>1, Zenon DEF AfterReplay, Goto
  <2>2. Persisting /\ Persisting'
    BY <2>1, Zenon DEF Persisting, IInv, TypeOK
  <2> QED
    BY <1>1, <2>1, <2>2, SMTT(30) DEF Phase, Durable, IInv, TypeOK
<1>2. CASE ~up
  <2>1. \A q \in Proc : q # p => pc[q] = "idle"
    BY <1>2, NoOutstanding, Zenon DEF Checkpointing
  <2>2. \A q \in Proc : pc'[q] = "idle"
    BY <1>2, <2>1, Zenon DEF AfterReplay, Goto, IInv, TypeOK
  <2> QED
    BY <1>2, <2>1, <2>2, Zenon DEF Phase, Durable
<1> QED
  BY <1>1, <1>2, Zenon

\* At boot, what can be seen does not change when init_bcache returns.
LEMMA AfterReplayVisible ==
  ASSUME IInv, NEW p \in Proc, pc[p] = "replay", AfterReplay(p),
         Recovered = disk, UNCHANGED <<cache, disk>>
  PROVE  Visible' = Visible
<1>1. up'
  BY Zenon DEF AfterReplay
<1>2. CASE up
  BY <1>1, <1>2, Zenon DEF Visible
<1>3. CASE ~up
  <2>1. CleanInv /\ pinned = {} /\ disk \in [Block -> Value]
    BY <1>3, Zenon DEF IInv, BootInv, TypeOK
  <2>2. Visible' = disk
    BY <1>1, <2>1, Zenon DEF Visible, CleanInv
  <2> QED
    BY <1>3, <2>2, Zenon DEF Visible
<1> QED
  BY <1>2, <1>3, Zenon

\* replay of an empty log.
LEMMA ReplayNoneIsSilent ==
  ASSUME IInv, Counting, NEW p \in Proc, replay_none(p)
  PROVE  UNCHANGED AtomicOps!vars
<1>0. /\ pc[p] = "replay" /\ AfterReplay(p)
      /\ UNCHANGED <<ts, last_persisted_ts, cache, disk, logDisk, hdrDisk>>
  BY Zenon DEF replay_none, logVars, cacheVars, diskVars
<1>1. hdrDisk = <<>>
  BY <1>0, Zenon DEF replay_none, IInv, ReplayInv
<1>2. Recovered = disk
  BY <1>1, EmptyLog, Zenon DEF IInv
<1>3. Recovered' = Recovered
  BY <1>0, Zenon DEF Recovered
<1> QED
  BY <1>0, <1>2, <1>3, AfterReplayPhases, AfterReplayVisible, Silent, Zenon

\* Step 3 writes to a home block what recovery would write there.
LEMMA InstallIsSilent ==
  ASSUME IInv, NEW p \in Proc, replay_install(p)
  PROVE  UNCHANGED AtomicOps!vars
<1> DEFINE k == idx[p] + 1
           b == header[k]
<1>0. /\ pc[p] = "replay" /\ k \in 1..Len(header) /\ b \in Block
      /\ cache' = [cache EXCEPT ![b] = logDisk[k]] /\ disk' = [disk EXCEPT ![b] = logDisk[k]]
      /\ UNCHANGED <<ts, last_persisted_ts, up, pc, logDisk, hdrDisk>>
  BY SMTT(30) DEF replay_install, logVars, IInv, TypeOK
<1>1. hdrDisk = header
  BY <1>0, ZenonT(40) DEF IInv, ReplayInv
<1>2. \E i \in 1..Len(hdrDisk) : hdrDisk[i] = b
  BY <1>0, <1>1, ZenonT(40)
<1>t. idx[p] \in Nat /\ header \in Seq(Block) /\ Len(header) <= LogSize
  BY Zenon DEF IInv, TypeOK, FitInv
<1>k. k \in (idx[p] + 1)..Len(header) /\ k \in 1..LogSize
  BY <1>0, <1>t, SizeAssumption
<1>3. up => cache[b] = logDisk[k]
  BY <1>0, <1>k, Zenon DEF IInv, ReplayInv
<1>4. logDisk[k] # NotCached
  BY <1>k, ValueAssumption, Zenon DEF IInv, TypeOK
<1> HIDE DEF b, k
<1>5. Recovered' = Recovered
  BY <1>0, <1>2, Zenon DEF Recovered, IInv, TypeOK
<1>6. Visible' = Visible
  BY <1>0, <1>3, <1>4, <1>5, ZenonT(40) DEF Visible, IInv, TypeOK
<1>7. \A q \in Proc : Phase(q)' = Phase(q)
  BY <1>0, SamePhase, ZenonT(40) DEF Persisting
<1> QED
  BY <1>5, <1>6, <1>7, Silent, Zenon

\* Step 4 clears a log whose blocks are all at home.
LEMMA ClearIsSilent ==
  ASSUME IInv, Counting, NEW p \in Proc, replay_clear(p)
  PROVE  UNCHANGED AtomicOps!vars
<1>0. /\ pc[p] = "replay" /\ AfterReplay(p) /\ idx[p] = Len(header) /\ hdrDisk' = <<>>
      /\ UNCHANGED <<ts, last_persisted_ts, cache, disk>>
  BY Zenon DEF replay_clear, cacheVars
<1>1. hdrDisk = header /\ \A i \in 1..Len(hdrDisk) : disk[hdrDisk[i]] = logDisk[i]
  BY <1>0, Zenon DEF IInv, ReplayInv
<1>2. Recovered = disk
  <2>1. ASSUME NEW b \in Block PROVE Recovered[b] = disk[b]
    <3> DEFINE i == CHOOSE i \in 1..Len(hdrDisk) : hdrDisk[i] = b
    <3>1. CASE \E j \in 1..Len(hdrDisk) : hdrDisk[j] = b
      <4>1. i \in 1..Len(hdrDisk) /\ hdrDisk[i] = b
        BY <3>1, Zenon
      <4>2. Recovered[b] = logDisk[i]
        BY <3>1, Zenon DEF Recovered
      <4> QED
        BY <1>1, <4>1, <4>2, Zenon
    <3>2. CASE ~ \E j \in 1..Len(hdrDisk) : hdrDisk[j] = b
      BY <3>2, Zenon DEF Recovered
    <3> QED
      BY <3>1, <3>2, Zenon
  <2>2. disk = [b \in Block |-> disk[b]]
    BY Zenon DEF IInv, TypeOK
  <2> QED
    BY <2>1, <2>2, Zenon DEF Recovered
<1>3. Recovered' = disk
  BY <1>0, EmptySeq, SMTT(30) DEF Recovered, IInv, TypeOK
<1> QED
  BY <1>0, <1>2, <1>3, AfterReplayPhases, AfterReplayVisible, Silent, Zenon

\* Step 5 and the rest of end_op: the published timestamp takes over from the
\* control state as the sign that the waiting operations are persistent.
LEMMA PublishIsSilent ==
  ASSUME IInv, NEW p \in Proc, checkpoint_publish(p)
  PROVE  UNCHANGED AtomicOps!vars
<1>0. /\ pc[p] = "persisted" /\ pc' = [pc EXCEPT ![p] = "wake_ts"]
      /\ last_persisted_ts' = last_allocated_ts
      /\ UNCHANGED <<ts, up, cache, disk, logDisk, hdrDisk>>
  BY Zenon DEF checkpoint_publish, Goto, cacheVars, localVars, diskVars
<1>1. Visible' = Visible /\ Recovered' = Recovered
  BY <1>0, SameContents, Zenon
<1>2. Persisting
  BY <1>0, Zenon DEF Persisting
<1>3. \A q \in Proc : ts'[q] <= last_persisted_ts'
  BY <1>0, Zenon DEF IInv, CtxInv
<1>4. \A q \in Proc : Phase(q)' = Phase(q)
  BY <1>0, <1>2, <1>3, SMTT(30) DEF Phase, Durable, IInv, TypeOK
<1> QED
  BY <1>1, <1>4, Silent, Zenon

\* Waking the waiters of end_op, and reopening the log.
LEMMA ReopenIsSilent ==
  ASSUME IInv, NEW p \in Proc, checkpoint_wakeup(p) \/ end_op_reopen(p)
  PROVE  UNCHANGED AtomicOps!vars
<1>0. /\ pc[p] \in {"wake_ts", "reopen"} /\ pc'[p] \in {"reopen", "wake_log"}
      /\ \A q \in Proc \ {p} : pc'[q] = pc[q] \/ (pc[q] = "sleep_ts" /\ pc'[q] = "wait_ts")
      /\ UNCHANGED <<ts, last_persisted_ts, up, cache, disk, logDisk, hdrDisk>>
  <2> USE DEF IInv, TypeOK, logVars, cacheVars, localVars, diskVars
  <2>1. CASE checkpoint_wakeup(p)
    BY <2>1, Zenon DEF checkpoint_wakeup, Wakeup
  <2>2. CASE end_op_reopen(p)
    BY <2>2, Zenon DEF end_op_reopen, Goto
  <2> QED
    BY <2>1, <2>2, Zenon
<1>1. Visible' = Visible /\ Recovered' = Recovered
  BY <1>0, SameContents, Zenon
<1>2. Persisting' <=> Persisting
  BY <1>0, Zenon DEF Persisting
<1>3. \A q \in Proc : Phase(q)' = Phase(q)
  BY <1>0, <1>2, ZenonT(40) DEF Phase, Durable
<1> QED
  BY <1>1, <1>3, Silent, Zenon

-----------------------------------------------------------------------------
(* Boot and power failure.                                                 *)

\* The log on disk decides what is seen until init_bcache has replayed it.
LEMMA BootIsSilent ==
  ASSUME IInv, Counting, NEW p \in Proc, init_bcache(p)
  PROVE  UNCHANGED AtomicOps!vars
<1>0. /\ pc[p] = "read_header" /\ pc' = [pc EXCEPT ![p] = "replay"]
      /\ UNCHANGED <<up, cache, disk, logDisk, hdrDisk>>
  BY Zenon DEF init_bcache, Goto, cacheVars, diskVars
<1>1. ~up /\ \A q \in Proc : q # p => pc[q] = "idle"
  BY <1>0, NoOutstanding, ZenonT(40) DEF IInv, BootInv
<1>2. Visible' = Visible /\ Recovered' = Recovered
  BY <1>0, SameContents, Zenon
<1>3. \A q \in Proc : Phase(q)' = Phase(q)
  BY <1>0, <1>1, ZenonT(40) DEF Phase, Durable, IInv, TypeOK
<1> QED
  BY <1>2, <1>3, Silent, Zenon

\* A power failure: Crash.
LEMMA CrashCrashes ==
  ASSUME Crash
  PROVE  AtomicOps!Crash
<1>1. Recovered' = Recovered
  BY ZenonT(40) DEF Crash, diskVars, Recovered
<1>2. Visible' = Recovered
  BY <1>1, Zenon DEF Crash, Visible
<1>3. \A q \in Proc : pc'[q] \in {"idle", "read_header"}
  BY Zenon DEF Crash
<1>4. \A q \in Proc : Phase(q)' = "idle"
  BY <1>3, Zenon DEF Phase, Durable
<1> QED
  BY <1>1, <1>2, <1>4, Zenon DEF AtomicOps!Crash

-----------------------------------------------------------------------------
(* Counting operations.                                                    *)

INSTANCE FiniteSetTheorems

\* What the lemmas above assume.
LEMMA CountingHolds == Counting
<1> SUFFICES ASSUME NEW S \in SUBSET Proc
             PROVE  /\ Cardinality(S) \in Nat /\ (Cardinality(S) = 0 <=> S = {})
                    /\ \A p \in Proc \ S : Cardinality(S \union {p}) = Cardinality(S) + 1
                    /\ \A p \in S : Cardinality(S \ {p}) = Cardinality(S) - 1
  BY Zenon DEF Counting
<1>1. IsFiniteSet(S)
  BY ProcAssumption, FS_Subset, Zenon
<1>2. Cardinality(S) \in Nat /\ (Cardinality(S) = 0 <=> S = {})
  BY <1>1, FS_CardinalityType, FS_EmptySet, Zenon
<1>3. \A p \in Proc \ S : Cardinality(S \union {p}) = Cardinality(S) + 1
  BY <1>1, FS_AddElement, Zenon
<1>4. \A p \in S : Cardinality(S \ {p}) = Cardinality(S) - 1
  BY <1>1, FS_RemoveElement, Zenon
<1> QED
  BY <1>2, <1>3, <1>4, Zenon

-----------------------------------------------------------------------------
(* The theorems.                                                           *)

\* At the first boot, with an empty log on disk.
LEMMA InitInv ==
  ASSUME Init
  PROVE  IInv
<1> USE DEF Init
<1>1. PICK p \in Proc : pc = [q \in Proc |-> IF q = p THEN "read_header" ELSE "idle"]
  BY Zenon
<1>2. Outstanding = {} /\ Checkpointers = {} /\ \A q \in Proc : pc[q] \in {"idle", "read_header"}
  BY <1>1, Zenon DEF Outstanding, Checkpointers
<1>3. TypeOK
  <2>1. pc \in [Proc -> Pc]
    BY <1>1, Zenon DEF Pc
  <2>2. logDisk \in [1..LogSize -> Value]
    BY Zenon
  <2>3. block_no \in [Proc -> Seq(Block)]
    OBVIOUS
  <2> QED
    BY <2>1, <2>2, <2>3, SizeAssumption, ZenonT(40) DEF TypeOK
<1>4. LockInv /\ CtxInv /\ TsInv
  BY <1>2, SizeAssumption, EmptySeq DEF LockInv, CtxInv, TsInv
<1>5. BootInv /\ CkptInv
  BY <1>1, <1>2, Zenon DEF BootInv, CkptInv
<1>6. CountInv
  BY <1>2, FS_EmptySet, Zenon DEF CountInv
<1>7. SpaceInv /\ FitInv /\ DistinctInv
  BY <1>2, SizeAssumption, EmptySeq, SMTT(30) DEF SpaceInv, FitInv, DistinctInv
<1>8. CleanInv /\ PinnedInv /\ CommitInv /\ RecordedInv
  BY <1>2, Zenon DEF CleanInv, PinnedInv, CommitInv, RecordedInv
<1>9. EmptyLogInv /\ CkptLogInv /\ ReplayInv
  BY <1>2, Zenon DEF EmptyLogInv, CkptLogInv, ReplayInv
<1> QED
  BY <1>3, <1>4, <1>5, <1>6, <1>7, <1>8, <1>9, Zenon DEF IInv

\* A step that changes nothing.
LEMMA StutterStep ==
  ASSUME IInv, UNCHANGED vars
  PROVE  IInv'
<1> USE DEF IInv, vars, logVars, cacheVars, localVars, diskVars
<1>1. TypeOK' /\ LockInv' /\ CtxInv' /\ TsInv' /\ FitInv' /\ DistinctInv'
  BY Zenon DEF TypeOK, LockInv, CtxInv, TsInv, FitInv, DistinctInv
<1>2. BootInv' /\ CkptInv' /\ CountInv' /\ SpaceInv'
  BY Zenon DEF BootInv, CkptInv, CountInv, SpaceInv, Checkpointers, Outstanding, LockFree
<1>3. CleanInv' /\ PinnedInv' /\ CommitInv' /\ RecordedInv'
  BY ZenonT(40) DEF CleanInv, PinnedInv, CommitInv, RecordedInv, Outstanding
<1>4. EmptyLogInv' /\ CkptLogInv' /\ ReplayInv'
  BY DEF EmptyLogInv, CkptLogInv, ReplayInv
<1> QED
  BY <1>1, <1>2, <1>3, <1>4, Zenon

\* Every state of the log, with any interleaving of operations, evictions and
\* power failures, satisfies the inductive invariant.
THEOREM Invariance == Spec => []IInv
<1>1. Init => IInv
  BY InitInv, Zenon
<1>2. IInv /\ [Next]_vars => IInv'
  <2> SUFFICES ASSUME IInv, [Next]_vars
               PROVE  IInv'
    BY Zenon
  <2>1. ASSUME NEW p \in Proc, LogStep(p)
        PROVE  IInv'
    BY ZenonT(40), <2>1, CountingHolds, InitBcacheStep, BeginOpSleepStep, BeginOpEnterStep, CommitStep, EndOpWaitStep,
       EndOpLastStep, EndOpSleepStep, EndOpReturnStep, CheckpointLogStep, CheckpointHeaderStep,
       ReplayNoneStep, ReplayInstallStep, ReplayClearStep, CheckpointPublishStep,
       CheckpointWakeupStep, EndOpReopenStep, EndOpWakeupStep DEF LogStep
  <2>2. ASSUME NEW p \in Proc, Step(p)
        PROVE  IInv'
    BY <2>1, <2>2, CountingHolds, BeginOpStep, SyncStep, EndOpStep, Zenon DEF Step
  <2>3. CASE Running
    BY <2>2, <2>3, CountingHolds, LoadStep, EvictStep, Zenon DEF Running
  <2>4. CASE Crash
    BY <2>4, CountingHolds, CrashStep, Zenon
  <2>5. CASE UNCHANGED vars
    BY <2>5, StutterStep, Zenon
  <2> QED
    BY <2>3, <2>4, <2>5, Zenon DEF Next
<1> QED
  BY <1>1, <1>2, PTL DEF Spec

\* Type correctness.  In particular the unsigned log_used and op_count of
\* fs/cache.c never go below zero.
THEOREM TypeCorrect == Spec => []TypeOK
<1>1. IInv => TypeOK
  BY Zenon DEF IInv
<1> QED
  BY <1>1, Invariance, PTL

\* The assertion in commit never fails: whatever the threads do, an operation
\* that got past begin_op finds room for its blocks in the log (cache.c:224).
THEOREM CommitNeverOverflows == Spec => []CommitFits
<1>1. IInv => CommitFits
  <2> SUFFICES ASSUME IInv, NEW p \in Proc, pc[p] = "commit"
               PROVE  /\ idx[p] < Len(block_no[p]) => Len(header) < log_size
                      /\ idx[p] = Len(block_no[p]) => Returned(p) <= log_used
    BY Zenon DEF CommitFits
  <2> DEFINE n == Len(block_no[p])
             r == OpMax * op_count
  <2>1. up /\ Checkpointers = {} /\ op_count > 0 /\ p \in lockHolder
    BY CountingHolds, NoCheckpoint, Zenon DEF IInv, Outstanding, LockInv
  <2>2. /\ log_size = LogSize /\ log_used <= LogSize
        /\ log_used = Len(header) - idx[p] + absorbed[p] + r
    BY <2>1, Zenon DEF IInv, SpaceInv
  <2>3. /\ Len(header) \in Nat /\ n \in Nat /\ idx[p] \in Nat /\ absorbed[p] \in Nat
        /\ log_used \in Nat
    BY SMTT(30) DEF IInv, TypeOK
  <2>4. n <= OpMax /\ absorbed[p] <= idx[p]
    BY Zenon DEF IInv, CtxInv
  <2>5. r \in Nat /\ r >= OpMax /\ OpMax \in Nat /\ LogSize \in Nat
    BY <2>1, Reserve, SizeAssumption, SMTT(30) DEF IInv, TypeOK
  <2> HIDE DEF n, r
  <2>6. idx[p] < n => Len(header) < log_size
    BY SMTT(30), <2>2, <2>3, <2>4, <2>5
  <2>7. idx[p] = n => (OpMax - n) + absorbed[p] <= log_used
    BY SMTT(30), <2>2, <2>3, <2>4, <2>5
  <2> QED
    BY <2>6, <2>7, Zenon DEF n, Returned
<1> QED
  BY <1>1, Invariance, PTL

\* The comment in end_op holds: the checkpointer is alone with the log.
THEOREM CheckpointerAlone == Spec => []CheckpointExclusive
<1>1. IInv => CheckpointExclusive
  <2> SUFFICES ASSUME IInv, NEW p \in Proc, up, pc[p] \in Checkpointing
               PROVE  /\ Outstanding = {} /\ log_used + OpMax > log_size
                      /\ \A q \in Proc \ {p} : pc[q] \notin Checkpointing
    BY Zenon DEF CheckpointExclusive
  <2>1. p \in Checkpointers
    BY Zenon DEF Checkpointers
  <2>2. Outstanding = {} /\ log_size = 0
    BY <2>1, Zenon DEF IInv, CkptInv
  <2>3. log_used + OpMax > log_size
    BY <2>2, SizeAssumption, SMTT(30) DEF IInv, TypeOK
  <2> QED
    BY <2>1, <2>2, <2>3, Zenon DEF IInv, CkptInv, Checkpointers
<1> QED
  BY <1>1, Invariance, PTL

\* begin_op never over-commits the log: what is used and reserved fits.
THEOREM LogNeverOvercommitted == Spec => []LogReserved
<1>1. IInv => LogReserved
  BY Zenon DEF IInv, LogReserved, SpaceInv, Checkpointers
<1> QED
  BY <1>1, Invariance, PTL

\* Eviction never drops an update: a cached block that differs from its disk
\* copy is pinned, and whoever pinned it will write it back.
THEOREM UpdatesArePinned == Spec => []DirtyIsPinned
<1>1. IInv => DirtyIsPinned
  BY Zenon DEF IInv, TypeOK, DirtyIsPinned, CleanInv, PinnedInv
<1> QED
  BY <1>1, Invariance, PTL

\* The first boot.
LEMMA InitInits ==
  ASSUME Init
  PROVE  AtomicOps!Init
<1>1. TypeOK /\ hdrDisk = <<>> /\ ~up /\ disk \in [Block -> Value]
  BY InitInv, ZenonT(40) DEF Init, IInv
<1>2. Recovered = disk /\ Visible = Recovered
  BY <1>1, EmptyLog, Zenon DEF Visible
<1>3. \A q \in Proc : Phase(q) = "idle"
  BY IdlePhase, Zenon DEF Init
<1> QED
  BY <1>1, <1>2, <1>3, Zenon DEF AtomicOps!Init

\* The log implements atomic, durable operations, for any number of threads,
\* blocks and values and any size of the log: what a power failure leaves is
\* what all threads saw at a moment when no operation was half done, and
\* end_op returns only after such a moment (cache.h:53-59, 76-78).
THEOREM Refinement == Spec => ImplementsAtomicOps
<1>1. Init => AtomicOps!Init
  BY InitInits, Zenon
<1>2. IInv /\ [Next]_vars => [AtomicOps!Next]_(AtomicOps!vars)
  <2> SUFFICES ASSUME IInv, [Next]_vars
               PROVE  AtomicOps!Next \/ UNCHANGED AtomicOps!vars
    BY Zenon
  <2>1. ASSUME NEW p \in Proc, LogStep(p)
        PROVE  AtomicOps!Next \/ UNCHANGED AtomicOps!vars
    <3>1. CASE begin_op_enter(p) \/ end_op_return(p) \/ end_op_wakeup(p) \/ checkpoint_header(p)
      BY <3>1, CountingHolds, EnterBegins, EndOpReturns, HeaderPersists, Zenon DEF AtomicOps!Next
    <3>2. CASE ~(begin_op_enter(p) \/ end_op_return(p) \/ end_op_wakeup(p) \/ checkpoint_header(p))
      BY Zenon, <2>1, <3>2, CountingHolds, BootIsSilent, WaitingIsSilent, CommitIsSilent, LogCopyIsSilent,
         ReplayNoneIsSilent, InstallIsSilent, ClearIsSilent, PublishIsSilent, ReopenIsSilent
         DEF LogStep
    <3> QED
      BY <3>1, <3>2, Zenon
  <2>2. ASSUME NEW p \in Proc, Step(p)
        PROVE  AtomicOps!Next \/ UNCHANGED AtomicOps!vars
    <3>1. CASE \E b \in Block, v \in Value : cache_sync(p, b, v)
      BY <3>1, CountingHolds, SyncWrites, Zenon DEF AtomicOps!Next
    <3>2. CASE end_op(p)
      BY <3>2, EndOpEnds, Zenon DEF AtomicOps!Next
    <3> QED
      BY <2>1, <2>2, <3>1, <3>2, WaitingIsSilent, Zenon DEF Step
  <2>3. CASE Running
    BY <2>2, <2>3, CountingHolds, CacheIsSilent, Zenon DEF Running
  <2>4. CASE Crash
    BY <2>4, CrashCrashes, Zenon DEF AtomicOps!Next
  <2>5. CASE UNCHANGED vars
    <3>1. UNCHANGED <<ts, last_persisted_ts, up, pc, cache, disk, logDisk, hdrDisk>>
      BY <2>5, Zenon DEF vars, logVars, cacheVars, localVars, diskVars
    <3>2. \A q \in Proc : Phase(q)' = Phase(q)
      BY <3>1, SamePhase, Zenon DEF Persisting
    <3> QED
      BY <3>1, <3>2, SameContents, Silent, Zenon
  <2> QED
    BY <2>3, <2>4, <2>5, Zenon DEF Next
<1> QED
  BY <1>1, <1>2, Invariance, PTL DEF Spec, ImplementsAtomicOps, AtomicOps!Spec
=============================================================================
