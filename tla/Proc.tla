-------------------------------- MODULE Proc --------------------------------
(***************************************************************************)
(* Processes and their scheduling: core/proc.c (fork, exit, wait, yield,   *)
(* sleep, wakeup), core/sched.c, core/sleeplock.c and the pid allocation   *)
(* of core/container.c.                                                    *)
(*                                                                         *)
(* Several CPUs share the process table, which ptable.lock protects.  The  *)
(* lock is held across a context switch: a process takes it, changes its   *)
(* state and calls sched(), and the scheduler of that CPU goes on with the *)
(* lock; or the scheduler takes it, switches to a process, and the process *)
(* releases it.  Kernel code is not interrupted, so one action is a        *)
(* stretch of code of one CPU up to the next lock operation or context     *)
(* switch.                                                                 *)
(*                                                                         *)
(* Left out: memory, open files and the trap frame; nested containers,     *)
(* which only the container test creates (yield_scheduler returns at once  *)
(* for the root container).                                                *)
(***************************************************************************)
EXTENDS Naturals, FiniteSets

CONSTANTS
    NPROC,          \* size of the process table
    NPID,           \* pids a container can allocate
    Cpu,            \* CPUs
    SleepLock,      \* sleeping locks
    NIL,            \* the null pointer
    MaxForks        \* bound: calls of fork

ASSUME ProcAssumption ==
    /\ NPROC \in Nat \ {0} /\ NPID \in Nat \ {0} /\ MaxForks \in Nat
    /\ NIL \notin Cpu \union SleepLock \union (1 .. NPROC)
    /\ SleepLock \intersect (1 .. NPROC) = {}

VARIABLES
    state, parent, chan, pid,   \* the fields of each proc
    kstack,         \* procs that own a kernel stack
    last_pid,       \* scheduler.pid of the root container
    contLocked,     \* container.lock was left locked
    plock,          \* the CPU that holds ptable.lock, or NIL
    mode,           \* mode[c]: "idle", "scan", "run" or "swtch"
    curr,           \* curr[c]: the process CPU c executes, or NIL
    scan,           \* scan[c]: the loop variable of scheduler_simple
    pc,             \* where each process is in the kernel
    arg,            \* arg[p]: its new child, or the lock it works on
    locked,         \* the sleeping locks whose field locked is set
    inner,          \* inner[l]: the process that holds the spinlock of l, or NIL
    forks,          \* calls of fork so far
    forker,         \* history: forker[p] is the pid of the process that forked p
    panicked

table == <<state, parent, chan, pid, kstack>>
cpuVars == <<plock, mode, curr, scan>>
lockVars == <<locked, inner>>
history == <<forks, forker>>
vars == <<table, last_pid, contLocked, cpuVars, pc, arg, lockVars, history, panicked>>

P == 1 .. NPROC
State == {"UNUSED", "EMBRYO", "SLEEPING", "RUNNABLE", "RUNNING", "ZOMBIE"}
PC == {"new", "user", "fork", "wait", "yield", "try", "block", "woken", "hold", "yield_hold", "wake", "dead"}

\* "user" is user mode; "new", "yield", "woken" and "yield_hold" are the points
\* where a process resumes after sched(); "hold" is kernel code that owns a
\* sleeping lock.

TypeOK ==
    /\ state \in [P -> State] /\ parent \in [P -> P \union {NIL}]
    /\ chan \in [P -> P \union SleepLock \union {NIL}]
    /\ pid \in [P -> 0 .. NPID] /\ kstack \subseteq P
    /\ last_pid \in 0 .. NPID /\ contLocked \in BOOLEAN
    /\ plock \in Cpu \union {NIL}
    /\ mode \in [Cpu -> {"idle", "scan", "run", "swtch"}]
    /\ curr \in [Cpu -> P \union {NIL}] /\ scan \in [Cpu -> 1 .. (NPROC + 1)]
    /\ pc \in [P -> PC] /\ arg \in [P -> P \union SleepLock \union {NIL}]
    /\ locked \subseteq SleepLock /\ inner \in [SleepLock -> P \union {NIL}]
    /\ forks \in 0 .. MaxForks /\ forker \in [P -> 0 .. NPID]
    /\ panicked \in BOOLEAN

\* spawn_init_process has created the first process.
Init ==
    /\ state = [p \in P |-> IF p = 1 THEN "RUNNABLE" ELSE "UNUSED"]
    /\ parent = [p \in P |-> NIL] /\ chan = [p \in P |-> NIL]
    /\ pid = [p \in P |-> IF p = 1 THEN 1 ELSE 0]
    /\ kstack = {1}
    /\ last_pid = 1 /\ contLocked = FALSE
    /\ plock = NIL /\ mode = [c \in Cpu |-> "idle"]
    /\ curr = [c \in Cpu |-> NIL] /\ scan = [c \in Cpu |-> 1]
    /\ pc = [p \in P |-> "new"] /\ arg = [p \in P |-> NIL]
    /\ locked = {} /\ inner = [l \in SleepLock |-> NIL]
    /\ forks = 0 /\ forker = [p \in P |-> 0]
    /\ panicked = FALSE

-----------------------------------------------------------------------------
(* The scheduler *)

Least(S) == CHOOSE x \in S : \A y \in S : x <= y

\* The processes the scan of CPU c still has to look at, if it started again
\* from the top after every process it ran.
AheadFromTop(c) == {p \in P : state[p] = "RUNNABLE"}

Ahead(c) == {p \in P : state[p] = "RUNNABLE" /\ p >= scan[c]}

\* scheduler_simple starts a pass over the table.
sched_enter(c) ==
    /\ mode[c] = "idle" /\ plock = NIL
    /\ plock' = c
    /\ mode' = [mode EXCEPT ![c] = "scan"]
    /\ scan' = [scan EXCEPT ![c] = 1]
    /\ UNCHANGED <<table, last_pid, contLocked, curr, pc, arg, lockVars, history, panicked>>

\* It finds a runnable process and switches to it.
sched_run(c) ==
    /\ mode[c] = "scan" /\ Ahead(c) # {}
    /\ LET p == Least(Ahead(c)) IN
         /\ state' = [state EXCEPT ![p] = "RUNNING"]
         /\ curr' = [curr EXCEPT ![c] = p]
         /\ scan' = [scan EXCEPT ![c] = p + 1]
    /\ mode' = [mode EXCEPT ![c] = "run"]
    /\ UNCHANGED <<parent, chan, pid, kstack, last_pid, contLocked, plock, pc, arg, lockVars, history, panicked>>

\* The pass ends.
sched_end(c) ==
    /\ mode[c] = "scan" /\ Ahead(c) = {}
    /\ plock' = NIL
    /\ mode' = [mode EXCEPT ![c] = "idle"]
    /\ UNCHANGED <<table, last_pid, contLocked, curr, scan, pc, arg, lockVars, history, panicked>>

\* The swtch of sched_simple: the process leaves its kernel stack, and the
\* scheduler's loop goes on.
swtch(c) ==
    /\ mode[c] = "swtch"
    /\ curr' = [curr EXCEPT ![c] = NIL]
    /\ mode' = [mode EXCEPT ![c] = "scan"]
    /\ UNCHANGED <<table, last_pid, contLocked, plock, scan, pc, arg, lockVars, history, panicked>>

-----------------------------------------------------------------------------
(* Steps of the process on CPU c *)

At(c, l) == mode[c] = "run" /\ pc[curr[c]] = l /\ ~panicked

Goto(p, l) == pc' = [pc EXCEPT ![p] = l]

\* acquire_sched_lock, state change, sched(): the lock stays with the CPU.
SwitchAway(c) ==
    /\ plock = NIL /\ plock' = c
    /\ mode' = [mode EXCEPT ![c] = "swtch"]

\* wakeup(ch), under ptable.lock, applied to the states s.
Woken(s, ch) == [p \in P |-> IF s[p] = "SLEEPING" /\ chan[p] = ch THEN "RUNNABLE" ELSE s[p]]

\* Where a resumed process goes on once it has released ptable.lock.
After(l) == IF l = "woken" THEN "try" ELSE IF l = "yield_hold" THEN "hold" ELSE "user"

\* A process that was switched to goes on: forkret, the end of yield, or the
\* end of sleep.  It releases ptable.lock.
sched_return(c) ==
    LET p == curr[c] IN
    /\ \E l \in {"new", "yield", "woken", "yield_hold"} : At(c, l)
    /\ plock = c /\ plock' = NIL
    /\ chan' = [chan EXCEPT ![p] = NIL]
    /\ Goto(p, After(pc[p]))
    /\ UNCHANGED <<state, parent, pid, kstack, last_pid, contLocked, mode, curr, scan, arg, lockVars, history, panicked>>

\* yield, called by the clock interrupt.
yield(c) ==
    LET p == curr[c] IN
    /\ At(c, "user") /\ SwitchAway(c)
    /\ state' = [state EXCEPT ![p] = "RUNNABLE"]
    /\ Goto(p, "yield")
    /\ UNCHANGED <<parent, chan, pid, kstack, last_pid, contLocked, curr, scan, arg, lockVars, history, panicked>>

\* The owner of a sleeping lock leaves the CPU for a while: it sleeps until a
\* disk transfer is done, which another CPU's interrupt handler reports.
sleep_io(c) ==
    LET p == curr[c] IN
    /\ At(c, "hold") /\ SwitchAway(c)
    /\ state' = [state EXCEPT ![p] = "RUNNABLE"]
    /\ Goto(p, "yield_hold")
    /\ UNCHANGED <<parent, chan, pid, kstack, last_pid, contLocked, curr, scan, arg, lockVars, history, panicked>>

\* alloc_resource(PID): at the limit it returns with the container locked.
NewPid == IF last_pid = NPID THEN last_pid ELSE last_pid + 1

\* fork up to the return of alloc_pcb.  Without a free proc alloc_proc panics;
\* with the container locked the CPU spins, or panics, with ptable.lock held.
fork(c) ==
    LET free == {q \in P : state[q] = "UNUSED"}
        p == curr[c]
    IN
    /\ At(c, "user") /\ plock = NIL /\ forks < MaxForks
    /\ forks' = forks + 1
    /\ IF free = {} \/ contLocked
       THEN panicked' = TRUE /\ UNCHANGED <<table, last_pid, contLocked, pc, arg>>
       ELSE /\ last_pid' = NewPid
            /\ contLocked' = (last_pid = NPID)
            /\ pid' = [pid EXCEPT ![Least(free)] = NewPid]
            /\ state' = [state EXCEPT ![Least(free)] = "EMBRYO"]
            /\ arg' = [arg EXCEPT ![p] = Least(free)]
            /\ Goto(p, "fork")
            /\ UNCHANGED <<parent, chan, kstack, panicked>>
    /\ UNCHANGED <<cpuVars, lockVars, forker>>

\* The rest of fork, without a lock: the new process becomes runnable.
fork_finish(c) ==
    LET p == curr[c]
        q == arg[p]
    IN
    /\ At(c, "fork")
    /\ parent' = [parent EXCEPT ![q] = p]
    /\ kstack' = kstack \union {q}
    /\ state' = [state EXCEPT ![q] = "RUNNABLE"]
    /\ pc' = [pc EXCEPT ![p] = "user", ![q] = "new"]
    /\ arg' = [arg EXCEPT ![p] = NIL]
    /\ forker' = [forker EXCEPT ![q] = pid[p]]
    /\ UNCHANGED <<chan, pid, last_pid, contLocked, cpuVars, lockVars, forks, panicked>>

\* uvm_copy finds no memory: fork gives the entry back, with the pid in it.
fork_fail(c) ==
    LET p == curr[c]
        q == arg[p]
    IN
    /\ At(c, "fork")
    /\ state' = [state EXCEPT ![q] = "UNUSED"]
    /\ arg' = [arg EXCEPT ![p] = NIL]
    /\ Goto(p, "user")
    /\ UNCHANGED <<parent, chan, pid, kstack, last_pid, contLocked, cpuVars, lockVars, history, panicked>>

Children(p) == {q \in P : parent[q] = p}

Zombies(p) == {q \in Children(p) : state[q] = "ZOMBIE"}

\* exit without the wakeup of the parent.
exit_silently(c) ==
    LET p == curr[c] IN
    /\ At(c, "user") /\ SwitchAway(c)
    /\ state' = [state EXCEPT ![p] = "ZOMBIE"]
    /\ Goto(p, "dead")
    /\ UNCHANGED <<parent, chan, pid, kstack, last_pid, contLocked, curr, scan, arg, lockVars, history, panicked>>

\* exit with the release of ptable.lock that the source has commented out.
exit_unlocked(c) ==
    LET p == curr[c] IN
    /\ At(c, "user") /\ plock = NIL
    /\ mode' = [mode EXCEPT ![c] = "swtch"]
    /\ state' = [Woken(state, parent[p]) EXCEPT ![p] = "ZOMBIE"]
    /\ Goto(p, "dead")
    /\ UNCHANGED <<parent, chan, pid, kstack, last_pid, contLocked, plock, curr, scan, arg, lockVars, history, panicked>>

\* exit from acquire_sched_lock on.  The loop over its children wakes processes
\* that sleep on the exiting process, which nobody else does.
exit(c) ==
    LET p == curr[c] IN
    /\ At(c, "user") /\ SwitchAway(c)
    /\ state' = [Woken(state, parent[p]) EXCEPT ![p] = "ZOMBIE"]
    /\ Goto(p, "dead")
    /\ UNCHANGED <<parent, chan, pid, kstack, last_pid, contLocked, curr, scan, arg, lockVars, history, panicked>>

\* The process holds ptable.lock after this step of its loop, or gets it now.
InWait(c) == (At(c, "user") /\ plock = NIL) \/ (At(c, "wait") /\ plock = c)

\* wait finds a zombie and frees it.  Nobody looks whether the entry that parent
\* points to still belongs to the process that forked it.
wait_reap(c) ==
    LET p == curr[c]
        q == Least(Zombies(p))
    IN
    /\ InWait(c) /\ Zombies(p) # {}
    /\ state' = [state EXCEPT ![q] = "UNUSED"]
    /\ pid' = [pid EXCEPT ![q] = 0]
    /\ parent' = [parent EXCEPT ![q] = NIL]
    /\ kstack' = kstack \ {q}
    /\ chan' = [chan EXCEPT ![p] = NIL]
    /\ plock' = NIL
    /\ Goto(p, "user")
    /\ UNCHANGED <<last_pid, contLocked, mode, curr, scan, arg, lockVars, history, panicked>>

\* wait has no children and returns -1.
wait_none(c) ==
    LET p == curr[c] IN
    /\ InWait(c) /\ Children(p) = {}
    /\ chan' = [chan EXCEPT ![p] = NIL]
    /\ plock' = NIL
    /\ Goto(p, "user")
    /\ UNCHANGED <<state, parent, pid, kstack, last_pid, contLocked, mode, curr, scan, arg, lockVars, history, panicked>>

\* wait sleeps on the process itself, with ptable.lock as the lock of sleep.
wait_sleep(c) ==
    LET p == curr[c] IN
    /\ InWait(c) /\ Children(p) # {} /\ Zombies(p) = {}
    /\ state' = [state EXCEPT ![p] = "SLEEPING"]
    /\ chan' = [chan EXCEPT ![p] = p]
    /\ plock' = c
    /\ mode' = [mode EXCEPT ![c] = "swtch"]
    /\ Goto(p, "wait")
    /\ UNCHANGED <<parent, pid, kstack, last_pid, contLocked, curr, scan, arg, lockVars, history, panicked>>

-----------------------------------------------------------------------------
(* Sleeping locks *)

\* A process asks for lock l.
acquire_sleeplock(c, l) ==
    LET p == curr[c] IN
    /\ At(c, "user")
    /\ arg' = [arg EXCEPT ![p] = l]
    /\ Goto(p, "try")
    /\ UNCHANGED <<table, last_pid, contLocked, cpuVars, lockVars, history, panicked>>

\* The loop of acquire_sleeplock: take the lock, or keep the spinlock and sleep.
acquire_try(c) ==
    LET p == curr[c]
        l == arg[p]
    IN
    /\ At(c, "try") /\ inner[l] = NIL
    /\ IF l \in locked
       THEN inner' = [inner EXCEPT ![l] = p] /\ locked' = locked /\ Goto(p, "block")
       ELSE locked' = locked \union {l} /\ inner' = inner /\ Goto(p, "hold")
    /\ UNCHANGED <<table, last_pid, contLocked, cpuVars, arg, history, panicked>>

\* A sleep that gives up the caller's lock before it has ptable.lock.
sleep_early_release(c) ==
    LET p == curr[c]
        l == arg[p]
    IN
    /\ At(c, "block")
    /\ \/ /\ inner[l] = p
          /\ inner' = [inner EXCEPT ![l] = NIL]
          /\ UNCHANGED <<state, chan, plock, mode, pc>>
       \/ /\ inner[l] # p
          /\ SwitchAway(c)
          /\ state' = [state EXCEPT ![p] = "SLEEPING"]
          /\ chan' = [chan EXCEPT ![p] = l]
          /\ Goto(p, "woken")
          /\ UNCHANGED inner
    /\ UNCHANGED <<parent, pid, kstack, last_pid, contLocked, curr, scan, arg, locked, history, panicked>>

\* sleep(lock, &lock->lock): take ptable.lock, then release the lock's spinlock.
sleep(c) ==
    LET p == curr[c]
        l == arg[p]
    IN
    /\ At(c, "block") /\ SwitchAway(c)
    /\ inner' = [inner EXCEPT ![l] = NIL]
    /\ state' = [state EXCEPT ![p] = "SLEEPING"]
    /\ chan' = [chan EXCEPT ![p] = l]
    /\ Goto(p, "woken")
    /\ UNCHANGED <<parent, pid, kstack, last_pid, contLocked, curr, scan, arg, locked, history, panicked>>

\* release_sleeplock up to the release of the spinlock.
release_sleeplock(c) ==
    LET p == curr[c]
        l == arg[p]
    IN
    /\ At(c, "hold") /\ inner[l] = NIL
    /\ locked' = locked \ {l}
    /\ Goto(p, "wake")
    /\ UNCHANGED <<table, last_pid, contLocked, cpuVars, arg, inner, history, panicked>>

\* The wakeup at the end of release_sleeplock.
release_wakeup(c) ==
    LET p == curr[c] IN
    /\ At(c, "wake") /\ plock = NIL
    /\ state' = Woken(state, arg[p])
    /\ arg' = [arg EXCEPT ![p] = NIL]
    /\ Goto(p, "user")
    /\ UNCHANGED <<parent, chan, pid, kstack, last_pid, contLocked, cpuVars, lockVars, history, panicked>>

-----------------------------------------------------------------------------
ProcStep(c) ==
    \/ sched_return(c) \/ yield(c) \/ sleep_io(c)
    \/ fork(c) \/ fork_finish(c) \/ fork_fail(c) \/ exit(c)
    \/ wait_reap(c) \/ wait_none(c) \/ wait_sleep(c)
    \/ \E l \in SleepLock : acquire_sleeplock(c, l)
    \/ acquire_try(c) \/ sleep(c) \/ release_sleeplock(c) \/ release_wakeup(c)

Next ==
    \E c \in Cpu : sched_enter(c) \/ sched_run(c) \/ sched_end(c) \/ swtch(c) \/ ProcStep(c)

Spec == Init /\ [][Next]_vars

\* The steps that a CPU in the kernel takes by itself.
KernelStep(c) ==
    \/ sched_enter(c) \/ sched_run(c) \/ sched_end(c) \/ swtch(c) \/ sched_return(c)
    \/ fork_finish(c) \/ fork_fail(c)
    \/ (At(c, "wait") /\ (wait_reap(c) \/ wait_none(c) \/ wait_sleep(c)))
    \/ acquire_try(c) \/ sleep(c) \/ release_sleeplock(c) \/ release_wakeup(c)

\* What a CPU does inside the kernel goes on, a spinlock that is free again and
\* again is taken, and the clock interrupts a process in user mode.
Fairness == \A c \in Cpu : SF_vars(KernelStep(c)) /\ SF_vars(yield(c))

FairSpec == Spec /\ Fairness

-----------------------------------------------------------------------------
(* Properties *)

\* A process runs on at most one CPU, and never on a kernel stack that wait has
\* freed: exit keeps ptable.lock until the CPU has left the stack
\* (proc.c:136-142, 329-338).
RunsOnItsOwnStack ==
    /\ TypeOK
    /\ \A c, d \in Cpu : curr[c] # NIL =>
         /\ curr[c] \in kstack /\ state[curr[c]] # "UNUSED"
         /\ curr[d] = curr[c] => c = d

\* No wakeup of a sleeping lock is lost: a process that sleeps on the lock finds
\* it taken, or a wakeup for it is still to come (sleeplock.c, proc.c sleep).
SleepersWillBeWoken ==
    \A p \in P, l \in SleepLock :
        state[p] = "SLEEPING" /\ chan[p] = l =>
            l \in locked \/ \E q \in P : pc[q] = "wake" /\ arg[q] = l

\* A parent never sleeps in wait while it has a child to collect.
NoZombieMissed ==
    \A p \in P : state[p] = "SLEEPING" /\ chan[p] = p => Zombies(p) = {}

\* The process whose pid wait is about to return is one that the caller itself
\* has forked ("Wait for a child process to exit and return its pid", proc.c:311).
WaitReturnsOwnChild ==
    \A c \in Cpu : InWait(c) /\ Zombies(curr[c]) # {} =>
        forker[Least(Zombies(curr[c]))] = pid[curr[c]]

\* A process in wait that has a child to collect comes back from wait: exit has
\* woken it, it gets a CPU and ptable.lock, and its scan of the table finds the
\* child (proc.c:131-141, 314-346, sched.c).
WaitReturns ==
    \A p \in P : pc[p] = "wait" /\ Zombies(p) # {} ~> (pc[p] = "user" \/ panicked)

\* No runnable process starves: the scan of the table goes round, so every
\* runnable process gets a CPU (scheduler_simple).
RunnableRuns ==
    \A p \in P : state[p] = "RUNNABLE" ~> (state[p] = "RUNNING" \/ panicked)
=============================================================================
