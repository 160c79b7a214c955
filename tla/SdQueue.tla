------------------------------- MODULE SdQueue -------------------------------
(***************************************************************************)
(* The request queue of the SD card driver, driver/sd.c (sdrw, sd_start,   *)
(* sd_intr) and driver/buf.h, and its callers in fs/block_device.c.        *)
(*                                                                         *)
(* A thread describes its transfer in a buf on its stack, appends the buf  *)
(* to the singly linked queue `sdque' and sleeps until the interrupt       *)
(* handler has marked it done.  sdrw looks at the queue and appends to it  *)
(* before it takes `sdlock'; the other accesses are under the lock.  One   *)
(* action is a stretch of code that no other CPU can interrupt in a way    *)
(* that matters: the look at the queue, the link step of buflist_push,     *)
(* and each critical section of `sdlock'.                                  *)
(*                                                                         *)
(* The controller is external: it performs one command at a time and then  *)
(* raises an interrupt.  The threads and the handler run on any CPUs.      *)
(* `overlapped' records that one of them touched the queue while another   *)
(* thread was between its look at the queue and the first critical section *)
(* of sdrw, which on a single CPU never happens: interrupts are masked in  *)
(* the kernel.  The driver keeps its promises up to such a moment.         *)
(***************************************************************************)
EXTENDS Naturals, FiniteSets

CONSTANTS
    Thread,         \* threads that transfer blocks; each has one buf at a time
    HEAD,           \* the list head, sdque
    NIL,            \* the null pointer
    BlockNo,        \* block numbers
    Data,           \* block contents
    Written,        \* bound: the contents that threads write
    MaxOps,         \* bound: transfers per thread
    MaxGlitch       \* bound: interrupts of the wrong kind

ASSUME SdAssumption ==
    /\ HEAD \notin Thread /\ NIL \notin Thread \union {HEAD}
    /\ NIL \notin [block : BlockNo, write : BOOLEAN, data : Data]
    /\ BlockNo # {} /\ Data # {} /\ Written \subseteq Data
    /\ MaxOps \in Nat /\ MaxGlitch \in Nat

VARIABLES
    qnext,          \* qnext[n] for the head and every buf
    dirty, valid,   \* bufs with B_DIRTY, with B_VALID
    blockno, data,  \* blockno[t] and data[t] of each buf
    pc,             \* where each thread is in sdrw
    flag, tmp,      \* the locals of sdrw and buflist_push
    ops,            \* transfers each thread has begun
    disk,           \* the card
    cmd,            \* the command the controller performs, or NIL
    irq,            \* EMMC_INTERRUPT
    glitches,       \* interrupts of the wrong kind so far
    failed,         \* sd_start was called when it must not be
    overlapped      \* history: see above

bufVars == <<qnext, dirty, valid, blockno, data>>
callVars == <<flag, tmp, ops>>
emmcVars == <<disk, cmd, irq, glitches>>
vars == <<bufVars, pc, callVars, emmcVars, failed, overlapped>>

Command == [block : BlockNo, write : BOOLEAN, data : Data]

\* pc values: "idle"; "push" has looked at the queue and found its end; "lock"
\* has linked its buf and wants sdlock; "sleep" sleeps on the buf; "woken" is
\* runnable again inside sleep; "done" leaves sdrw.
TypeOK ==
    /\ qnext \in [Thread \union {HEAD} -> Thread \union {NIL}]
    /\ dirty \subseteq Thread /\ valid \subseteq Thread
    /\ blockno \in [Thread -> BlockNo] /\ data \in [Thread -> Data]
    /\ pc \in [Thread -> {"idle", "push", "lock", "sleep", "woken", "done"}]
    /\ flag \in [Thread -> BOOLEAN] /\ tmp \in [Thread -> Thread \union {HEAD}]
    /\ ops \in [Thread -> 0 .. MaxOps]
    /\ disk \in [BlockNo -> Data]
    /\ cmd \in Command \union {NIL}
    /\ irq \in {"none", "READ_RDY", "DATA_DONE"}
    /\ glitches \in 0 .. MaxGlitch
    /\ failed \in BOOLEAN /\ overlapped \in BOOLEAN

\* The content of the card at first, and of an unused buf.
AnyBlock == CHOOSE b \in BlockNo : TRUE
AnyData == CHOOSE d \in Data : TRUE

Init ==
    /\ qnext = [n \in Thread \union {HEAD} |-> NIL]
    /\ dirty = {} /\ valid = {}
    /\ blockno = [t \in Thread |-> AnyBlock]
    /\ data = [t \in Thread |-> AnyData]
    /\ pc = [t \in Thread |-> "idle"]
    /\ flag = [t \in Thread |-> FALSE] /\ tmp = [t \in Thread |-> HEAD]
    /\ ops = [t \in Thread |-> 0]
    /\ disk = [b \in BlockNo |-> AnyData]
    /\ cmd = NIL /\ irq = "none" /\ glitches = 0
    /\ failed = FALSE /\ overlapped = FALSE

-----------------------------------------------------------------------------
(* The queue *)

\* The bufs that lie behind the head, from the links.
Queued == {t \in Thread : \A S \in SUBSET (Thread \union {HEAD}) :
               (HEAD \in S /\ \A n \in S : qnext[n] # NIL => qnext[n] \in S) => t \in S}

front == qnext[HEAD]

\* The node at which the walk of buflist_push ends.
Last == CHOOSE n \in Queued \union {HEAD} : qnext[n] = NIL

Goto(t, l) == pc' = [pc EXCEPT ![t] = l]

\* Threads between their look at the queue and their first critical section.
InWindow == {t \in Thread : pc[t] \in {"push", "lock"}}

\* The queue is touched by anyone but the threads of S.
Touch(S) == overlapped' = (overlapped \/ InWindow \ S # {})

-----------------------------------------------------------------------------
(* sd_start *)

\* sd_start(b): the controller must be at rest, or the assertion on
\* EMMC_INTERRUPT fails or a command in progress is disturbed.
sd_start(b) ==
    IF b = NIL \/ cmd # NIL
    THEN failed' = TRUE /\ cmd' = cmd
    ELSE /\ cmd' = [block |-> blockno[b], write |-> b \in dirty, data |-> data[b]]
         /\ failed' = failed

-----------------------------------------------------------------------------
(* sd_read, sd_write and sdrw *)

\* The caller fills in its buf, and sdrw looks whether the queue is empty and
\* walks to its end.  The sleeping lock of a block keeps two threads from
\* transferring the same block at the same time.
sdrw(t, b, wr, d) ==
    /\ pc[t] = "idle" /\ ops[t] < MaxOps /\ ~failed
    /\ \A u \in Thread \ {t} : pc[u] = "idle" \/ blockno[u] # b
    /\ ops' = [ops EXCEPT ![t] = @ + 1]
    /\ blockno' = [blockno EXCEPT ![t] = b]
    /\ dirty' = IF wr THEN dirty \union {t} ELSE dirty \ {t}
    /\ valid' = IF wr THEN valid \union {t} ELSE valid \ {t}
    /\ data' = [data EXCEPT ![t] = d]
    /\ flag' = [flag EXCEPT ![t] = front = NIL]
    /\ tmp' = [tmp EXCEPT ![t] = Last]
    /\ Touch({t})
    /\ Goto(t, "push")
    /\ UNCHANGED <<qnext, emmcVars, failed>>

\* The last two assignments of buflist_push.
buflist_push(t) ==
    /\ pc[t] = "push" /\ ~failed
    /\ qnext' = [qnext EXCEPT ![tmp[t]] = t, ![t] = NIL]
    /\ Goto(t, "lock")
    /\ UNCHANGED <<dirty, valid, blockno, data, callVars, emmcVars, failed, overlapped>>

\* The first critical section of sdrw without the test of `flag'.
sdrw_start_always(t) ==
    /\ pc[t] = "lock" /\ ~failed
    /\ sd_start(front)
    /\ Goto(t, "sleep")
    /\ UNCHANGED <<bufVars, callVars, disk, irq, glitches, overlapped>>

\* The first critical section of sdrw, up to sleep.
sdrw_start(t) ==
    /\ pc[t] = "lock" /\ ~failed
    /\ IF flag[t] THEN sd_start(front) ELSE UNCHANGED <<cmd, failed>>
    /\ Goto(t, "sleep")
    /\ UNCHANGED <<bufVars, callVars, disk, irq, glitches, overlapped>>

\* sleep returns: the test of the flags that ends the loop.
sdrw_check(t) ==
    /\ pc[t] = "woken" /\ ~failed
    /\ Goto(t, IF t \in valid /\ t \notin dirty THEN "done" ELSE "sleep")
    /\ UNCHANGED <<bufVars, callVars, emmcVars, failed, overlapped>>

\* sd_read or sd_write returns, and the buf and the locals on its stack are
\* gone.
sdrw_return(t) ==
    /\ pc[t] = "done" /\ ~failed
    /\ Goto(t, "idle")
    /\ dirty' = dirty \ {t} /\ valid' = valid \ {t}
    /\ blockno' = [blockno EXCEPT ![t] = AnyBlock] /\ data' = [data EXCEPT ![t] = AnyData]
    /\ flag' = [flag EXCEPT ![t] = FALSE] /\ tmp' = [tmp EXCEPT ![t] = HEAD]
    /\ UNCHANGED <<qnext, ops, emmcVars, failed, overlapped>>

-----------------------------------------------------------------------------
(* The controller and the interrupt handler *)

Kind(wr) == IF wr THEN "DATA_DONE" ELSE "READ_RDY"

\* The controller ends its command: a write has reached the card.
emmc_done ==
    /\ cmd # NIL /\ irq = "none"
    /\ irq' = Kind(cmd.write)
    /\ disk' = IF cmd.write THEN [disk EXCEPT ![cmd.block] = cmd.data] ELSE disk
    /\ UNCHANGED <<bufVars, pc, callVars, cmd, glitches, failed, overlapped>>

\* The command ends with the other interrupt and without its effect.
emmc_glitch ==
    /\ cmd # NIL /\ irq = "none" /\ glitches < MaxGlitch
    /\ irq' = Kind(~cmd.write)
    /\ glitches' = glitches + 1
    /\ UNCHANGED <<bufVars, pc, callVars, disk, cmd, failed, overlapped>>

\* Restarting a buf: the interrupt is cleared, then sd_start(b).
restart(b) ==
    /\ cmd' = [block |-> blockno[b], write |-> b \in dirty, data |-> data[b]]
    /\ UNCHANGED <<qnext, dirty, valid, data, pc, failed>>

\* A handler that does not call wakeup.
NoWakeup(b) == UNCHANGED pc

\* wakeup(b).
Wakeup(b) == IF pc[b] = "sleep" THEN Goto(b, "woken") ELSE UNCHANGED pc

\* Removing the front without looking for the next request.
pop_only(b) ==
    /\ qnext' = [qnext EXCEPT ![HEAD] = qnext[b]]
    /\ cmd' = NIL

\* buflist_pop, and sd_start for the next buf.
pop_and_start(b) ==
    /\ qnext' = [qnext EXCEPT ![HEAD] = qnext[b]]
    /\ cmd' = IF qnext[b] = NIL THEN NIL
              ELSE [block |-> blockno[qnext[b]], write |-> qnext[b] \in dirty, data |-> data[qnext[b]]]

\* The front buf is done: copy the data of a read, mark the buf, wake its
\* thread, take the buf off the queue and start the next one.
complete(b) ==
    /\ data' = IF b \in dirty THEN data ELSE [data EXCEPT ![b] = disk[cmd.block]]
    /\ valid' = valid \union {b}
    /\ dirty' = dirty \ {b}
    /\ Wakeup(b)
    /\ pop_and_start(b)
    /\ UNCHANGED failed

\* sd_intr without the test of the interrupt's kind.
sd_intr_any ==
    /\ irq # "none" /\ ~failed
    /\ front # NIL
    /\ irq' = "none" /\ Touch({})
    /\ complete(front)
    /\ UNCHANGED <<blockno, callVars, disk, glitches>>

\* sd_intr.  On an empty queue it prints a message and changes nothing, which
\* is left out (NobodyForgotten says that it never happens).
sd_intr ==
    /\ irq # "none" /\ ~failed
    /\ front # NIL
    /\ irq' = "none" /\ Touch({})
    /\ \/ irq # Kind(front \in dirty) /\ restart(front)
       \/ irq = Kind(front \in dirty) /\ complete(front)
    /\ UNCHANGED <<blockno, callVars, disk, glitches>>

Next ==
    \/ \E t \in Thread :
          \/ \E b \in BlockNo, d \in Written : sdrw(t, b, TRUE, d)
          \/ \E b \in BlockNo : sdrw(t, b, FALSE, AnyData)
          \/ buflist_push(t) \/ sdrw_start(t) \/ sdrw_check(t) \/ sdrw_return(t)
    \/ emmc_done \/ emmc_glitch
    \/ sd_intr

\* The scheduler runs every runnable thread, the controller ends its commands
\* and the handler runs while an interrupt is pending.
Fairness ==
    /\ \A t \in Thread :
          WF_vars(buflist_push(t) \/ sdrw_start(t) \/ sdrw_check(t) \/ sdrw_return(t))
    /\ WF_vars(emmc_done) /\ WF_vars(sd_intr)

Spec == Init /\ [][Next]_vars
FairSpec == Spec /\ Fairness

-----------------------------------------------------------------------------
(* Properties *)

\* sd_start is only called when the controller is at rest and there is a
\* request to start (the assertion at sd.c:575, "emmc interrupt flag should be
\* empty").
StartsAtRest == TypeOK /\ (~overlapped => ~failed)

\* A thread that sleeps in sdrw is in the queue, so that an interrupt will wake
\* it; and a queue with requests keeps the controller busy as soon as the
\* thread that found it empty has started it.  No interrupt is pending on an
\* empty queue.
NobodyForgotten ==
    ~overlapped =>
      /\ \A t \in Thread : pc[t] = "sleep" => t \in Queued
      /\ front # NIL => cmd # NIL \/ \E t \in Thread : pc[t] = "lock" /\ flag[t]
      /\ irq # "none" => front # NIL

\* When sdrw returns, buffer and card agree: a read returns what is on the card
\* and a write has reached it (sd.c:645-648).
TransferDone ==
    ~overlapped => \A t \in Thread : pc[t] = "done" => data[t] = disk[blockno[t]]

\* Every transfer ends: no thread sleeps in sdrw for ever.
TransfersEnd ==
    \A t \in Thread : pc[t] = "push" ~> (pc[t] = "idle" \/ overlapped)
=============================================================================
