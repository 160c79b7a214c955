----------------------------- MODULE ProcProofs -----------------------------
(***************************************************************************)
(* Theorems about processes and sleeping locks (module Proc), for every    *)
(* number of CPUs, processes, pids and sleeping locks.                     *)
(*                                                                         *)
(* The invariant PInv is inductive.  Its heart is CpuInv: a CPU that scans *)
(* the table or leaves a kernel stack, and a process that has just been    *)
(* switched to, own ptable.lock.  So whoever takes the lock finds no       *)
(* process halfway through a context switch.                               *)
(***************************************************************************)
EXTENDS Proc, WellFoundedInduction, TLAPS

\* A process that was switched away goes on from one of these points.
Resuming == {"new", "yield", "woken", "yield_hold", "wait"}

\* Here a process is only while it runs.
Active == {"user", "fork", "try", "block", "hold", "wake"}

\* The process owns a sleeping lock.
Owning == {"hold", "yield_hold"}

\* The points where a process works on the lock arg[p].
Locking == {"try", "block", "hold", "yield_hold", "woken", "wake"}

\* Who holds ptable.lock, and the state of the process on each CPU.
CpuInv ==
    \A c \in Cpu :
        /\ mode[c] \in {"scan", "swtch"} => plock = c
        /\ mode[c] = "run" /\ pc[curr[c]] \in Resuming => plock = c
        /\ curr[c] # NIL <=> mode[c] \in {"run", "swtch"}
        /\ mode[c] = "run" => state[curr[c]] = "RUNNING"
        /\ mode[c] = "swtch" => state[curr[c]] \in {"RUNNABLE", "SLEEPING", "ZOMBIE"}

\* No process is on two CPUs.
OneCpuInv == \A c, d \in Cpu : curr[c] # NIL /\ curr[c] = curr[d] => c = d

\* The state of a process, its kernel stack and where it is in the kernel.
StateInv ==
    \A p \in P :
        /\ state[p] \in {"RUNNABLE", "RUNNING", "SLEEPING", "ZOMBIE"} => p \in kstack
        /\ pc[p] \in Active => state[p] = "RUNNING"
        /\ state[p] = "RUNNABLE" => pc[p] \in Resuming
        /\ state[p] = "SLEEPING" =>
             \/ (pc[p] = "woken" /\ chan[p] = arg[p])
             \/ (pc[p] = "wait" /\ chan[p] = p)

\* A process in fork has an embryo of its own.
ForkInv ==
    /\ \A p \in P : pc[p] = "fork" => arg[p] \in P /\ state[arg[p]] = "EMBRYO"
    /\ \A p, r \in P : pc[p] = "fork" /\ pc[r] = "fork" /\ arg[p] = arg[r] => p = r

\* A sleeping lock has one owner, who has set its field; who blocks on it
\* holds its spinlock.
SleepLockInv ==
    /\ \A p \in P : pc[p] \in Locking => arg[p] \in SleepLock
    /\ \A p \in P : pc[p] = "block" => inner[arg[p]] = p /\ arg[p] \in locked
    /\ \A p \in P : pc[p] \in Owning => arg[p] \in locked
    /\ \A p, r \in P : pc[p] \in Owning /\ pc[r] \in Owning /\ arg[p] = arg[r] => p = r

PInv ==
    /\ TypeOK /\ CpuInv /\ OneCpuInv /\ StateInv /\ ForkInv /\ SleepLockInv
    /\ SleepersWillBeWoken /\ NoZombieMissed

-----------------------------------------------------------------------------
(* Facts about the table *)

\* A nonempty set of table entries has a least element.
LEMMA LeastInSet ==
    ASSUME NEW S, S \subseteq P, S # {}
    PROVE  Least(S) \in S
  <1>0. S \subseteq Nat
    BY ProcAssumption DEF P
  <1> DEFINE Less == {ss \in Nat \X Nat : ss[1] < ss[2]}
  <1>1. IsWellFoundedOn(Less, Nat)
    BY NatLessThanWellFounded DEF OpToRel
  <1> HIDE DEF Less
  <1>2. PICK x \in S : \A y \in S : ~(<<y, x>> \in Less)
    BY <1>0, <1>1, WFMin, Zenon
  <1>3. \A y \in S : x <= y
    <2>1. SUFFICES ASSUME NEW y \in S, y < x PROVE FALSE
      BY <1>0
    <2>2. <<y, x>> \in Nat \X Nat /\ <<y, x>>[1] < <<y, x>>[2]
      BY <1>0, <2>1
    <2>3. <<y, x>> \in Less
      BY <2>2 DEF Less
    <2> QED
      BY <1>2, <2>3
  <1> QED
    BY <1>3 DEF Least

\* The process that a CPU executes.
LEMMA Running ==
    ASSUME PInv, NEW c \in Cpu, NEW l \in PC, At(c, l)
    PROVE  curr[c] \in P /\ state[curr[c]] = "RUNNING" /\ pc[curr[c]] = l /\ mode[c] = "run"
  BY DEF PInv, TypeOK, CpuInv, At

\* Pointers to processes and to locks, CPUs and NIL differ.
LEMMA Distinct ==
    /\ NIL \notin Cpu /\ NIL \notin SleepLock /\ NIL \notin P
    /\ \A l \in SleepLock : l \notin P
  BY ProcAssumption DEF P

\* What a process in Locking works on is a sleeping lock.
LEMMA WorksOnLock ==
    ASSUME PInv, NEW p \in P, pc[p] \in Locking
    PROVE  arg[p] \in SleepLock
  BY DEF PInv, SleepLockInv

\* Steps that leave the processes and their family ties alone.
LEMMA SameFamily ==
    ASSUME PInv, UNCHANGED <<state, parent, chan>>
    PROVE  NoZombieMissed'
  BY DEF PInv, NoZombieMissed, Children, Zombies

-----------------------------------------------------------------------------
(* Each action preserves the invariant *)

\* The scheduler takes ptable.lock.
LEMMA sched_enter_inv ==
    ASSUME PInv, NEW c \in Cpu, sched_enter(c)
    PROVE  PInv'
  <1>1. mode[c] = "idle" /\ plock = NIL
    BY DEF sched_enter
  <1>2. /\ plock' = c
        /\ mode' = [mode EXCEPT ![c] = "scan"]
        /\ scan' = [scan EXCEPT ![c] = 1]
        /\ UNCHANGED <<state, parent, chan, pid, kstack, last_pid, contLocked, curr, pc, arg,
                       locked, inner, forks, forker, panicked>>
    BY <1>1 DEF sched_enter, table, lockVars, history
  <1>3. TypeOK'
    BY ProcAssumption, <1>1, <1>2 DEF PInv, TypeOK, PC, State
  <1>4. CpuInv' /\ OneCpuInv'
    BY Distinct, <1>1, <1>2 DEF PInv, TypeOK, CpuInv, OneCpuInv, StateInv, Resuming
  <1>5. StateInv' /\ ForkInv' /\ SleepLockInv' /\ SleepersWillBeWoken' /\ NoZombieMissed'
    BY <1>2 DEF PInv, StateInv, ForkInv, SleepLockInv, SleepersWillBeWoken, NoZombieMissed,
       Children, Zombies
  <1> QED
    BY <1>3, <1>4, <1>5 DEF PInv

\* The scheduler owns ptable.lock, so the process it picks is on no CPU.
LEMMA sched_run_inv ==
    ASSUME PInv, NEW c \in Cpu, sched_run(c)
    PROVE  PInv'
  <1> DEFINE p == Least(Ahead(c))
  <1>1. /\ mode[c] = "scan" /\ plock = c
        /\ p \in P /\ p + 1 \in 1 .. (NPROC + 1) /\ state[p] = "RUNNABLE"
    BY ProcAssumption, LeastInSet DEF sched_run, Ahead, PInv, CpuInv, P
  <1>2. /\ state' = [state EXCEPT ![p] = "RUNNING"]
        /\ curr' = [curr EXCEPT ![c] = p]
        /\ scan' = [scan EXCEPT ![c] = p + 1]
        /\ mode' = [mode EXCEPT ![c] = "run"]
        /\ UNCHANGED <<parent, chan, pid, kstack, last_pid, contLocked, plock, pc, arg, locked,
                       inner, forks, forker, panicked>>
    BY <1>1 DEF sched_run, lockVars, history
  <1> HIDE DEF p
  <1>3. TypeOK'
    BY ProcAssumption, <1>1, <1>2 DEF PInv, TypeOK, PC, State
  <1>4. CpuInv' /\ OneCpuInv'
    BY Distinct, <1>1, <1>2 DEF PInv, TypeOK, CpuInv, OneCpuInv, StateInv, Resuming
  <1>5. StateInv' /\ ForkInv'
    BY Distinct, <1>1, <1>2 DEF PInv, TypeOK, StateInv, ForkInv, SleepLockInv, Active, Resuming,
       Locking
  <1>6. SleepLockInv' /\ SleepersWillBeWoken'
    BY Distinct, <1>1, <1>2, SMTT(20) DEF PInv, TypeOK, StateInv, SleepLockInv,
       SleepersWillBeWoken, Locking, Owning, Active
  <1>7. NoZombieMissed'
    BY Distinct, <1>1, <1>2, SMTT(20) DEF PInv, TypeOK, StateInv, NoZombieMissed,
       Children, Zombies, Active
  <1> QED
    BY <1>3, <1>4, <1>5, <1>6, <1>7 DEF PInv

\* The scheduler releases ptable.lock after its pass.
LEMMA sched_end_inv ==
    ASSUME PInv, NEW c \in Cpu, sched_end(c)
    PROVE  PInv'
  <1>1. mode[c] = "scan" /\ plock = c
    BY DEF sched_end, PInv, CpuInv
  <1>2. /\ plock' = NIL
        /\ mode' = [mode EXCEPT ![c] = "idle"]
        /\ UNCHANGED <<state, parent, chan, pid, kstack, last_pid, contLocked, curr, scan, pc,
                       arg, locked, inner, forks, forker, panicked>>
    BY <1>1 DEF sched_end, table, lockVars, history
  <1>3. TypeOK'
    BY ProcAssumption, <1>1, <1>2 DEF PInv, TypeOK, PC, State
  <1>4. CpuInv' /\ OneCpuInv'
    BY Distinct, <1>1, <1>2 DEF PInv, TypeOK, CpuInv, OneCpuInv, StateInv, Resuming
  <1>5. StateInv' /\ ForkInv' /\ SleepLockInv' /\ SleepersWillBeWoken' /\ NoZombieMissed'
    BY <1>2 DEF PInv, StateInv, ForkInv, SleepLockInv, SleepersWillBeWoken, NoZombieMissed,
       Children, Zombies
  <1> QED
    BY <1>3, <1>4, <1>5 DEF PInv

\* The CPU leaves the kernel stack of the process.
LEMMA swtch_inv ==
    ASSUME PInv, NEW c \in Cpu, swtch(c)
    PROVE  PInv'
  <1>1. mode[c] = "swtch" /\ plock = c
    BY DEF swtch, PInv, CpuInv
  <1>2. /\ curr' = [curr EXCEPT ![c] = NIL]
        /\ mode' = [mode EXCEPT ![c] = "scan"]
        /\ UNCHANGED <<state, parent, chan, pid, kstack, last_pid, contLocked, plock, scan, pc,
                       arg, locked, inner, forks, forker, panicked>>
    BY <1>1 DEF swtch, table, lockVars, history
  <1>3. TypeOK'
    BY ProcAssumption, <1>1, <1>2 DEF PInv, TypeOK, PC, State
  <1>4. CpuInv' /\ OneCpuInv'
    BY Distinct, <1>1, <1>2 DEF PInv, TypeOK, CpuInv, OneCpuInv, StateInv, Resuming
  <1>5. StateInv' /\ ForkInv' /\ SleepLockInv' /\ SleepersWillBeWoken' /\ NoZombieMissed'
    BY <1>2 DEF PInv, StateInv, ForkInv, SleepLockInv, SleepersWillBeWoken, NoZombieMissed,
       Children, Zombies
  <1> QED
    BY <1>3, <1>4, <1>5 DEF PInv

\* The process that was switched to releases ptable.lock.
LEMMA sched_return_inv ==
    ASSUME PInv, NEW c \in Cpu, sched_return(c)
    PROVE  PInv'
  <1> DEFINE p == curr[c]
  <1> DEFINE l == After(pc[p])
  <1>1. /\ p \in P /\ mode[c] = "run" /\ state[p] = "RUNNING" /\ plock = c
        /\ \/ (pc[p] \in {"new", "yield"} /\ l = "user")
           \/ (pc[p] = "woken" /\ l = "try")
           \/ (pc[p] = "yield_hold" /\ l = "hold")
    BY DEF sched_return, At, After, PInv, TypeOK, CpuInv
  <1>2. /\ plock' = NIL
        /\ chan' = [chan EXCEPT ![p] = NIL]
        /\ pc' = [pc EXCEPT ![p] = l]
        /\ UNCHANGED <<state, parent, pid, kstack, last_pid, contLocked, mode, curr, scan, arg,
                       locked, inner, forks, forker, panicked>>
    BY <1>1 DEF sched_return, Goto, lockVars, history
  <1> HIDE DEF p, l
  <1>3. TypeOK'
    BY ProcAssumption, <1>1, <1>2 DEF PInv, TypeOK, PC, State
  <1>4. CpuInv' /\ OneCpuInv'
    BY Distinct, <1>1, <1>2 DEF PInv, TypeOK, CpuInv, OneCpuInv, StateInv, Resuming, p
  <1>5. StateInv' /\ ForkInv'
    BY Distinct, <1>1, <1>2 DEF PInv, TypeOK, StateInv, ForkInv, SleepLockInv, Active, Resuming,
       Locking
  <1>6. SleepLockInv' /\ SleepersWillBeWoken'
    BY Distinct, <1>1, <1>2, SMTT(20) DEF PInv, TypeOK, StateInv, SleepLockInv,
       SleepersWillBeWoken, Locking, Owning, Active
  <1>7. NoZombieMissed'
    BY Distinct, <1>1, <1>2, SMTT(20) DEF PInv, TypeOK, StateInv, NoZombieMissed,
       Children, Zombies, Active
  <1> QED
    BY <1>3, <1>4, <1>5, <1>6, <1>7 DEF PInv

\* A process gives up its CPU.
LEMMA yield_inv ==
    ASSUME PInv, NEW c \in Cpu, yield(c)
    PROVE  PInv'
  <1> DEFINE p == curr[c]
  <1>1. /\ p \in P /\ mode[c] = "run" /\ state[p] = "RUNNING" /\ pc[p] = "user"
        /\ plock = NIL
    BY Running DEF yield, SwitchAway, PC
  <1>2. /\ plock' = c
        /\ mode' = [mode EXCEPT ![c] = "swtch"]
        /\ state' = [state EXCEPT ![p] = "RUNNABLE"]
        /\ pc' = [pc EXCEPT ![p] = "yield"]
        /\ UNCHANGED <<parent, chan, pid, kstack, last_pid, contLocked, curr, scan, arg, locked,
                       inner, forks, forker, panicked>>
    BY <1>1 DEF yield, SwitchAway, Goto, lockVars, history
  <1> HIDE DEF p
  <1>3. TypeOK'
    BY ProcAssumption, <1>1, <1>2 DEF PInv, TypeOK, PC, State
  <1>4. CpuInv' /\ OneCpuInv'
    BY Distinct, <1>1, <1>2 DEF PInv, TypeOK, CpuInv, OneCpuInv, StateInv, Resuming, p
  <1>5. StateInv' /\ ForkInv'
    BY Distinct, <1>1, <1>2 DEF PInv, TypeOK, StateInv, ForkInv, SleepLockInv, Active, Resuming,
       Locking
  <1>6. SleepLockInv' /\ SleepersWillBeWoken'
    BY Distinct, <1>1, <1>2, SMTT(20) DEF PInv, TypeOK, StateInv, SleepLockInv,
       SleepersWillBeWoken, Locking, Owning, Active
  <1>7. NoZombieMissed'
    BY Distinct, <1>1, <1>2, SMTT(20) DEF PInv, TypeOK, StateInv, NoZombieMissed,
       Children, Zombies, Active
  <1> QED
    BY <1>3, <1>4, <1>5, <1>6, <1>7 DEF PInv

\* The owner of a sleeping lock gives up its CPU.
LEMMA sleep_io_inv ==
    ASSUME PInv, NEW c \in Cpu, sleep_io(c)
    PROVE  PInv'
  <1> DEFINE p == curr[c]
  <1>1. /\ p \in P /\ mode[c] = "run" /\ state[p] = "RUNNING" /\ pc[p] = "hold"
        /\ plock = NIL
    BY Running DEF sleep_io, SwitchAway, PC
  <1>2. /\ plock' = c
        /\ mode' = [mode EXCEPT ![c] = "swtch"]
        /\ state' = [state EXCEPT ![p] = "RUNNABLE"]
        /\ pc' = [pc EXCEPT ![p] = "yield_hold"]
        /\ UNCHANGED <<parent, chan, pid, kstack, last_pid, contLocked, curr, scan, arg, locked,
                       inner, forks, forker, panicked>>
    BY <1>1 DEF sleep_io, SwitchAway, Goto, lockVars, history
  <1> HIDE DEF p
  <1>3. TypeOK'
    BY ProcAssumption, <1>1, <1>2 DEF PInv, TypeOK, PC, State
  <1>4. CpuInv' /\ OneCpuInv'
    BY Distinct, <1>1, <1>2 DEF PInv, TypeOK, CpuInv, OneCpuInv, StateInv, Resuming, p
  <1>5. StateInv' /\ ForkInv'
    BY Distinct, <1>1, <1>2 DEF PInv, TypeOK, StateInv, ForkInv, SleepLockInv, Active, Resuming,
       Locking
  <1>6. SleepLockInv' /\ SleepersWillBeWoken'
    BY Distinct, <1>1, <1>2, SMTT(20) DEF PInv, TypeOK, StateInv, SleepLockInv,
       SleepersWillBeWoken, Locking, Owning, Active
  <1>7. NoZombieMissed'
    BY Distinct, <1>1, <1>2, SMTT(20) DEF PInv, TypeOK, StateInv, NoZombieMissed,
       Children, Zombies, Active
  <1> QED
    BY <1>3, <1>4, <1>5, <1>6, <1>7 DEF PInv

\* fork gets an unused entry of the table, or panics.
LEMMA fork_inv ==
    ASSUME PInv, NEW c \in Cpu, fork(c)
    PROVE  PInv'
  <1> DEFINE p == curr[c]
  <1> DEFINE free == {r \in P : state[r] = "UNUSED"}
  <1> DEFINE q == Least(free)
  <1>1. /\ p \in P /\ mode[c] = "run" /\ state[p] = "RUNNING" /\ pc[p] = "user"
        /\ plock = NIL /\ forks < MaxForks
    BY Running DEF fork, PC
  <1>2. forks' = forks + 1
        /\ UNCHANGED <<plock, mode, curr, scan, locked, inner, forker>>
    BY DEF fork, cpuVars, lockVars
  <1>3. CASE free = {} \/ contLocked
    <2>1. panicked' = TRUE
          /\ UNCHANGED <<state, parent, chan, pid, kstack, last_pid, contLocked, pc, arg>>
      BY <1>3 DEF fork, table
    <2>2. TypeOK'
      BY ProcAssumption, <1>1, <1>2, <2>1 DEF PInv, TypeOK
    <2> QED
      BY <1>2, <2>1, <2>2
      DEF PInv, CpuInv, OneCpuInv, StateInv, ForkInv, SleepLockInv, SleepersWillBeWoken,
         NoZombieMissed, Children, Zombies
  <1>4. CASE ~(free = {} \/ contLocked)
    <2>1. q \in P /\ state[q] = "UNUSED" /\ q # p
      BY <1>1, <1>4, LeastInSet
    <2>2. NewPid \in 0 .. NPID
      <3>1. last_pid \in 0 .. NPID /\ NPID \in Nat
        BY ProcAssumption DEF PInv, TypeOK
      <3> QED
        BY <3>1 DEF NewPid
    <2>3. /\ last_pid' = NewPid
          /\ contLocked' = (last_pid = NPID)
          /\ pid' = [pid EXCEPT ![q] = NewPid]
          /\ state' = [state EXCEPT ![q] = "EMBRYO"]
          /\ arg' = [arg EXCEPT ![p] = q]
          /\ pc' = [pc EXCEPT ![p] = "fork"]
          /\ UNCHANGED <<parent, chan, kstack, panicked>>
      BY <1>4 DEF fork, Goto
    <2> HIDE DEF q, free
    <2>4. TypeOK'
      BY ProcAssumption, <1>1, <1>2, <2>1, <2>2, <2>3 DEF PInv, TypeOK, PC, State
    <2>5. CpuInv' /\ OneCpuInv'
      BY Distinct, <1>1, <1>2, <2>1, <2>3 DEF PInv, TypeOK, CpuInv, OneCpuInv, Resuming
    <2>6. StateInv' /\ ForkInv'
      BY Distinct, <1>1, <1>2, <2>1, <2>3 DEF PInv, TypeOK, StateInv, ForkInv, Active, Resuming
    <2>7. SleepLockInv' /\ SleepersWillBeWoken'
      BY Distinct, <1>1, <1>2, <2>1, <2>3
      DEF PInv, TypeOK, StateInv, SleepLockInv, SleepersWillBeWoken, Locking, Owning, Active
    <2>8. NoZombieMissed'
      BY Distinct, <1>1, <1>2, <2>1, <2>3 DEF PInv, TypeOK, NoZombieMissed, Children,
         Zombies
    <2> QED
      BY <2>4, <2>5, <2>6, <2>7, <2>8 DEF PInv
  <1> QED
    BY <1>3, <1>4

\* The embryo belongs to the process that forks alone.
LEMMA fork_finish_inv ==
    ASSUME PInv, NEW c \in Cpu, fork_finish(c)
    PROVE  PInv'
  <1> DEFINE p == curr[c]
  <1> DEFINE q == arg[p]
  <1>1. /\ p \in P /\ mode[c] = "run" /\ state[p] = "RUNNING" /\ pc[p] = "fork"
        /\ q \in P /\ arg[p] = q /\ state[q] = "EMBRYO" /\ q # p
    BY Running DEF fork_finish, PInv, ForkInv, PC
  <1>2. /\ parent' = [parent EXCEPT ![q] = p]
        /\ kstack' = kstack \union {q}
        /\ state' = [state EXCEPT ![q] = "RUNNABLE"]
        /\ pc' = [pc EXCEPT ![p] = "user", ![q] = "new"]
        /\ arg' = [arg EXCEPT ![p] = NIL]
        /\ forker' = [forker EXCEPT ![q] = pid[p]]
        /\ UNCHANGED <<chan, pid, last_pid, contLocked, plock, mode, curr, scan, locked, inner,
                       forks, panicked>>
    BY <1>1 DEF fork_finish, cpuVars, lockVars
  <1> HIDE DEF p, q
  <1>3. TypeOK'
    BY ProcAssumption, <1>1, <1>2 DEF PInv, TypeOK, PC, State
  <1>4. CpuInv' /\ OneCpuInv'
    BY Distinct, <1>1, <1>2 DEF PInv, TypeOK, CpuInv, OneCpuInv, StateInv, Resuming, p
  <1>5. StateInv' /\ ForkInv'
    BY Distinct, <1>1, <1>2 DEF PInv, TypeOK, StateInv, ForkInv, SleepLockInv, Active, Resuming,
       Locking
  <1>6. SleepLockInv' /\ SleepersWillBeWoken'
    BY Distinct, <1>1, <1>2, SMTT(20) DEF PInv, TypeOK, StateInv, SleepLockInv,
       SleepersWillBeWoken, Locking, Owning, Active
  <1>7. NoZombieMissed'
    BY Distinct, <1>1, <1>2, SMTT(20) DEF PInv, TypeOK, StateInv, ForkInv, NoZombieMissed,
       Children, Zombies, Active
  <1> QED
    BY <1>3, <1>4, <1>5, <1>6, <1>7 DEF PInv

\* fork gives back the entry that it has taken: no other process is in fork with it.
LEMMA fork_fail_inv ==
    ASSUME PInv, NEW c \in Cpu, fork_fail(c)
    PROVE  PInv'
  <1> DEFINE p == curr[c]
  <1> DEFINE q == arg[p]
  <1>1. /\ p \in P /\ mode[c] = "run" /\ state[p] = "RUNNING" /\ pc[p] = "fork"
        /\ q \in P /\ arg[p] = q /\ state[q] = "EMBRYO" /\ q # p
    BY Running DEF fork_fail, PInv, ForkInv, PC
  <1>2. /\ state' = [state EXCEPT ![q] = "UNUSED"]
        /\ arg' = [arg EXCEPT ![p] = NIL]
        /\ pc' = [pc EXCEPT ![p] = "user"]
        /\ UNCHANGED <<parent, chan, pid, kstack, last_pid, contLocked, plock, mode, curr, scan,
                       locked, inner, forks, forker, panicked>>
    BY <1>1 DEF fork_fail, Goto, cpuVars, lockVars, history
  <1> HIDE DEF p, q
  <1>3. TypeOK'
    BY ProcAssumption, <1>1, <1>2 DEF PInv, TypeOK, PC, State
  <1>4. CpuInv' /\ OneCpuInv'
    BY Distinct, <1>1, <1>2 DEF PInv, TypeOK, CpuInv, OneCpuInv, StateInv, Resuming, p
  <1>5. StateInv' /\ ForkInv'
    BY Distinct, <1>1, <1>2 DEF PInv, TypeOK, StateInv, ForkInv, SleepLockInv, Active, Resuming,
       Locking
  <1>6. SleepLockInv' /\ SleepersWillBeWoken'
    BY Distinct, <1>1, <1>2, SMTT(20) DEF PInv, TypeOK, StateInv, SleepLockInv,
       SleepersWillBeWoken, Locking, Owning, Active
  <1>7. NoZombieMissed'
    BY Distinct, <1>1, <1>2, SMTT(20) DEF PInv, TypeOK, StateInv, ForkInv, NoZombieMissed,
       Children, Zombies, Active
  <1> QED
    BY <1>3, <1>4, <1>5, <1>6, <1>7 DEF PInv

\* The parent that sleeps in wait becomes runnable when its child becomes a zombie.
LEMMA exit_inv ==
    ASSUME PInv, NEW c \in Cpu, exit(c)
    PROVE  PInv'
  <1> DEFINE p == curr[c]
  <1>1. /\ p \in P /\ mode[c] = "run" /\ state[p] = "RUNNING" /\ pc[p] = "user"
        /\ plock = NIL
    BY Running DEF exit, SwitchAway, PC
  <1>2. /\ plock' = c
        /\ mode' = [mode EXCEPT ![c] = "swtch"]
        /\ state' \in [P -> State] /\ state'[p] = "ZOMBIE"
        /\ \A r \in P \ {p} :
             state'[r] = IF state[r] = "SLEEPING" /\ chan[r] = parent[p] THEN "RUNNABLE"
                         ELSE state[r]
        /\ pc' = [pc EXCEPT ![p] = "dead"]
        /\ UNCHANGED <<parent, chan, pid, kstack, last_pid, contLocked, curr, scan, arg, locked,
                       inner, forks, forker, panicked>>
    BY <1>1 DEF exit, SwitchAway, Goto, Woken, lockVars, history, PInv, TypeOK, State
  <1> HIDE DEF p
  <1>3. TypeOK'
    <2>1. pc' \in [P -> PC] /\ mode' \in [Cpu -> {"idle", "scan", "run", "swtch"}]
      BY <1>1, <1>2 DEF PInv, TypeOK, PC
    <2> QED
      BY <1>2, <2>1 DEF PInv, TypeOK
  <1>4. CpuInv' /\ OneCpuInv'
    BY Distinct, <1>1, <1>2 DEF PInv, TypeOK, CpuInv, OneCpuInv, StateInv, Resuming, p
  <1>5. StateInv' /\ ForkInv'
    BY Distinct, <1>1, <1>2 DEF PInv, TypeOK, StateInv, ForkInv, SleepLockInv, Active, Resuming,
       Locking
  <1>6. SleepLockInv' /\ SleepersWillBeWoken'
    BY Distinct, <1>1, <1>2, SMTT(20) DEF PInv, TypeOK, StateInv, SleepLockInv,
       SleepersWillBeWoken, Locking, Owning, Active
  <1>7. NoZombieMissed'
    BY Distinct, <1>1, <1>2, SMTT(20) DEF PInv, TypeOK, StateInv, NoZombieMissed,
       Children, Zombies, Active
  <1> QED
    BY <1>3, <1>4, <1>5, <1>6, <1>7 DEF PInv

\* The zombie has left its kernel stack: the CPU it was on would hold ptable.lock.
LEMMA wait_reap_inv ==
    ASSUME PInv, NEW c \in Cpu, wait_reap(c)
    PROVE  PInv'
  <1> DEFINE p == curr[c]
  <1> DEFINE q == Least(Zombies(p))
  <1>1. /\ p \in P /\ mode[c] = "run" /\ state[p] = "RUNNING"
        /\ ((pc[p] = "user" /\ plock = NIL) \/ (pc[p] = "wait" /\ plock = c))
        /\ q \in P /\ state[q] = "ZOMBIE" /\ parent[q] = p
    BY Running, LeastInSet DEF wait_reap, InWait, PC, Zombies, Children
  <1>2. /\ state' = [state EXCEPT ![q] = "UNUSED"]
        /\ pid' = [pid EXCEPT ![q] = 0]
        /\ parent' = [parent EXCEPT ![q] = NIL]
        /\ kstack' = kstack \ {q}
        /\ chan' = [chan EXCEPT ![p] = NIL]
        /\ plock' = NIL
        /\ pc' = [pc EXCEPT ![p] = "user"]
        /\ UNCHANGED <<last_pid, contLocked, mode, curr, scan, arg, locked, inner, forks, forker,
                       panicked>>
    BY <1>1 DEF wait_reap, Goto, lockVars, history
  <1> HIDE DEF p, q
  <1>3. TypeOK'
    <2>1. state' \in [P -> State] /\ parent' \in [P -> P \union {NIL}] /\ pc' \in [P -> PC]
      BY <1>1, <1>2 DEF PInv, TypeOK, State, PC
    <2>2. pid' \in [P -> 0 .. NPID]
      BY ProcAssumption, <1>1, <1>2 DEF PInv, TypeOK
    <2>3. chan' \in [P -> P \union SleepLock \union {NIL}]
      BY <1>1, <1>2 DEF PInv, TypeOK
    <2>4. kstack' \subseteq P
      BY <1>2 DEF PInv, TypeOK
    <2> QED
      BY <1>2, <2>1, <2>2, <2>3, <2>4 DEF PInv, TypeOK
  <1>4. CpuInv' /\ OneCpuInv'
    BY Distinct, <1>1, <1>2 DEF PInv, TypeOK, CpuInv, OneCpuInv, StateInv, Resuming, p
  <1>5. StateInv' /\ ForkInv'
    BY Distinct, <1>1, <1>2 DEF PInv, TypeOK, StateInv, ForkInv, SleepLockInv, Active, Resuming,
       Locking
  <1>6. SleepLockInv' /\ SleepersWillBeWoken'
    BY Distinct, <1>1, <1>2, SMTT(20) DEF PInv, TypeOK, StateInv, SleepLockInv,
       SleepersWillBeWoken, Locking, Owning, Active
  <1>7. NoZombieMissed'
    <2>1. \A r \in P : Zombies(r)' \subseteq Zombies(r)
      <3>1. state \in [P -> State] /\ parent \in [P -> P \union {NIL}]
        BY DEF PInv, TypeOK
      <3> QED
        BY <1>1, <1>2, <3>1, Distinct DEF Zombies, Children
    <2>2. \A r \in P : state'[r] = "SLEEPING" /\ chan'[r] = r => state[r] = "SLEEPING" /\ chan[r] = r
      <3>1. state \in [P -> State] /\ chan \in [P -> P \union SleepLock \union {NIL}]
        BY DEF PInv, TypeOK
      <3> QED
        BY <1>1, <1>2, <3>1, Distinct
    <2>3. \A r \in P : state'[r] = "SLEEPING" /\ chan'[r] = r => Zombies(r) = {}
      BY <2>2, Zenon DEF PInv, NoZombieMissed
    <2> QED
      <3> SUFFICES ASSUME NEW r \in P, state'[r] = "SLEEPING", chan'[r] = r PROVE Zombies(r)' = {}
        BY DEF NoZombieMissed
      <3> QED
        BY <2>1, <2>3
  <1> QED
    BY <1>3, <1>4, <1>5, <1>6, <1>7 DEF PInv

\* wait returns at once.
LEMMA wait_none_inv ==
    ASSUME PInv, NEW c \in Cpu, wait_none(c)
    PROVE  PInv'
  <1> DEFINE p == curr[c]
  <1>1. /\ p \in P /\ mode[c] = "run" /\ state[p] = "RUNNING"
        /\ ((pc[p] = "user" /\ plock = NIL) \/ (pc[p] = "wait" /\ plock = c))
    <2>1. (At(c, "user") /\ plock = NIL) \/ (At(c, "wait") /\ plock = c)
      BY DEF wait_none, InWait
    <2> QED
      BY <2>1, Running DEF PC
  <1>2. /\ chan' = [chan EXCEPT ![p] = NIL]
        /\ plock' = NIL
        /\ pc' = [pc EXCEPT ![p] = "user"]
        /\ UNCHANGED <<state, parent, pid, kstack, last_pid, contLocked, mode, curr, scan, arg,
                       locked, inner, forks, forker, panicked>>
    BY <1>1 DEF wait_none, Goto, lockVars, history
  <1> HIDE DEF p
  <1>3. TypeOK'
    BY ProcAssumption, <1>1, <1>2 DEF PInv, TypeOK, PC, State
  <1>4. CpuInv' /\ OneCpuInv'
    BY Distinct, <1>1, <1>2 DEF PInv, TypeOK, CpuInv, OneCpuInv, StateInv, Resuming, p
  <1>5. StateInv' /\ ForkInv'
    BY Distinct, <1>1, <1>2 DEF PInv, TypeOK, StateInv, ForkInv, SleepLockInv, Active, Resuming,
       Locking
  <1>6. SleepLockInv' /\ SleepersWillBeWoken'
    BY Distinct, <1>1, <1>2, SMTT(20) DEF PInv, TypeOK, StateInv, SleepLockInv,
       SleepersWillBeWoken, Locking, Owning, Active
  <1>7. NoZombieMissed'
    <2>1. \A r \in P : Zombies(r)' = Zombies(r)
      <3>1. state' = state /\ parent' = parent
        BY <1>2
      <3> QED
        BY <3>1, Zenon DEF Zombies, Children
    <2>2. \A r \in P : state'[r] = "SLEEPING" /\ chan'[r] = r => state[r] = "SLEEPING" /\ chan[r] = r
      <3>1. state \in [P -> State] /\ chan \in [P -> P \union SleepLock \union {NIL}]
        BY DEF PInv, TypeOK
      <3> QED
        BY <1>1, <1>2, <3>1, Distinct
    <2>3. \A r \in P : state'[r] = "SLEEPING" /\ chan'[r] = r => Zombies(r) = {}
      BY <2>2, Zenon DEF PInv, NoZombieMissed
    <2> QED
      <3> SUFFICES ASSUME NEW r \in P, state'[r] = "SLEEPING", chan'[r] = r PROVE Zombies(r)' = {}
        BY DEF NoZombieMissed
      <3> QED
        BY <2>1, <2>3, Zenon
  <1> QED
    BY <1>3, <1>4, <1>5, <1>6, <1>7 DEF PInv

\* There is no zombie to collect when the parent goes to sleep.
LEMMA wait_sleep_inv ==
    ASSUME PInv, NEW c \in Cpu, wait_sleep(c)
    PROVE  PInv'
  <1> DEFINE p == curr[c]
  <1>1. /\ p \in P /\ mode[c] = "run" /\ state[p] = "RUNNING"
        /\ ((pc[p] = "user" /\ plock = NIL) \/ (pc[p] = "wait" /\ plock = c))
        /\ Zombies(p) = {}
    BY Running DEF wait_sleep, InWait, PC
  <1>2. /\ state' = [state EXCEPT ![p] = "SLEEPING"]
        /\ chan' = [chan EXCEPT ![p] = p]
        /\ plock' = c
        /\ mode' = [mode EXCEPT ![c] = "swtch"]
        /\ pc' = [pc EXCEPT ![p] = "wait"]
        /\ UNCHANGED <<parent, pid, kstack, last_pid, contLocked, curr, scan, arg, locked, inner,
                       forks, forker, panicked>>
    BY <1>1 DEF wait_sleep, Goto, lockVars, history
  <1> HIDE DEF p
  <1>3. TypeOK'
    BY ProcAssumption, <1>1, <1>2 DEF PInv, TypeOK, PC, State
  <1>4. CpuInv' /\ OneCpuInv'
    BY Distinct, <1>1, <1>2 DEF PInv, TypeOK, CpuInv, OneCpuInv, StateInv, Resuming, p
  <1>5. StateInv' /\ ForkInv'
    BY Distinct, <1>1, <1>2 DEF PInv, TypeOK, StateInv, ForkInv, SleepLockInv, Active, Resuming,
       Locking
  <1>6. SleepLockInv' /\ SleepersWillBeWoken'
    BY Distinct, <1>1, <1>2, SMTT(20) DEF PInv, TypeOK, StateInv, SleepLockInv,
       SleepersWillBeWoken, Locking, Owning, Active
  <1>7. NoZombieMissed'
    BY Distinct, <1>1, <1>2, SMTT(20) DEF PInv, TypeOK, StateInv, NoZombieMissed,
       Children, Zombies, Active
  <1> QED
    BY <1>3, <1>4, <1>5, <1>6, <1>7 DEF PInv

\* A process asks for a sleeping lock.
LEMMA acquire_sleeplock_inv ==
    ASSUME PInv, NEW c \in Cpu, NEW l \in SleepLock, acquire_sleeplock(c, l)
    PROVE  PInv'
  <1> DEFINE p == curr[c]
  <1>1. p \in P /\ mode[c] = "run" /\ state[p] = "RUNNING" /\ pc[p] = "user"
    BY Running DEF acquire_sleeplock, PC
  <1>2. /\ arg' = [arg EXCEPT ![p] = l]
        /\ pc' = [pc EXCEPT ![p] = "try"]
        /\ UNCHANGED <<state, parent, chan, pid, kstack, last_pid, contLocked, plock, mode, curr,
                       scan, locked, inner, forks, forker, panicked>>
    BY <1>1 DEF acquire_sleeplock, Goto, table, cpuVars, lockVars, history
  <1> HIDE DEF p
  <1>3. TypeOK'
    BY ProcAssumption, <1>1, <1>2 DEF PInv, TypeOK, PC, State
  <1>4. CpuInv' /\ OneCpuInv'
    BY Distinct, <1>1, <1>2 DEF PInv, TypeOK, CpuInv, OneCpuInv, StateInv, Resuming, p
  <1>5. StateInv' /\ ForkInv'
    <2>1. StateInv'
      BY <1>1, <1>2 DEF PInv, TypeOK, StateInv, Active, Resuming
    <2>2. ForkInv'
      BY <1>1, <1>2 DEF PInv, TypeOK, ForkInv
    <2> QED
      BY <2>1, <2>2
  <1>6. SleepLockInv' /\ SleepersWillBeWoken'
    BY Distinct, <1>1, <1>2, SMTT(20) DEF PInv, TypeOK, StateInv, SleepLockInv,
       SleepersWillBeWoken, Locking, Owning, Active
  <1>7. NoZombieMissed'
    BY <1>2, SameFamily, Zenon
  <1> QED
    BY <1>3, <1>4, <1>5, <1>6, <1>7 DEF PInv

\* A process takes a free lock, or keeps the spinlock of a taken one.
LEMMA acquire_try_inv ==
    ASSUME PInv, NEW c \in Cpu, acquire_try(c)
    PROVE  PInv'
  <1> DEFINE p == curr[c]
  <1> DEFINE l == arg[p]
  <1>1. /\ p \in P /\ mode[c] = "run" /\ state[p] = "RUNNING" /\ pc[p] = "try"
        /\ l \in SleepLock /\ arg[p] = l /\ inner[l] = NIL
    BY Running, WorksOnLock, ZenonT(20) DEF acquire_try, PC, Locking
  <1>2. /\ \/ /\ l \in locked /\ inner' = [inner EXCEPT ![l] = p]
              /\ locked' = locked /\ pc' = [pc EXCEPT ![p] = "block"]
           \/ /\ l \notin locked /\ inner' = inner
              /\ locked' = locked \union {l} /\ pc' = [pc EXCEPT ![p] = "hold"]
        /\ UNCHANGED <<state, parent, chan, pid, kstack, last_pid, contLocked, plock, mode, curr,
                       scan, arg, forks, forker, panicked>>
    BY <1>1, Zenon DEF acquire_try, Goto, table, cpuVars, history
  <1> HIDE DEF p, l
  <1>3. TypeOK'
    BY ProcAssumption, <1>1, <1>2 DEF PInv, TypeOK, PC, State
  <1>4. CpuInv' /\ OneCpuInv'
    BY Distinct, <1>1, <1>2 DEF PInv, TypeOK, CpuInv, OneCpuInv, StateInv, Resuming, p
  <1>5. StateInv' /\ ForkInv'
    BY Distinct, <1>1, <1>2 DEF PInv, TypeOK, StateInv, ForkInv, SleepLockInv, Active, Resuming,
       Locking
  <1>6. SleepLockInv' /\ SleepersWillBeWoken'
    BY Distinct, <1>1, <1>2, SMTT(20) DEF PInv, TypeOK, StateInv, SleepLockInv,
       SleepersWillBeWoken, Locking, Owning, Active
  <1>7. NoZombieMissed'
    BY <1>2, SameFamily, Zenon
  <1> QED
    BY <1>3, <1>4, <1>5, <1>6, <1>7 DEF PInv

\* The lock is still taken when the process is on its channel.
LEMMA sleep_inv ==
    ASSUME PInv, NEW c \in Cpu, sleep(c)
    PROVE  PInv'
  <1> DEFINE p == curr[c]
  <1> DEFINE l == arg[p]
  <1>1. /\ p \in P /\ mode[c] = "run" /\ state[p] = "RUNNING" /\ pc[p] = "block"
        /\ l \in SleepLock /\ arg[p] = l /\ plock = NIL
    BY Running, WorksOnLock, ZenonT(20) DEF sleep, SwitchAway, PC, Locking
  <1>2. /\ plock' = c
        /\ mode' = [mode EXCEPT ![c] = "swtch"]
        /\ inner' = [inner EXCEPT ![l] = NIL]
        /\ state' = [state EXCEPT ![p] = "SLEEPING"]
        /\ chan' = [chan EXCEPT ![p] = l]
        /\ pc' = [pc EXCEPT ![p] = "woken"]
        /\ UNCHANGED <<parent, pid, kstack, last_pid, contLocked, curr, scan, arg, locked, forks,
                       forker, panicked>>
    BY <1>1, Zenon DEF sleep, SwitchAway, Goto, history
  <1> HIDE DEF p, l
  <1>3. TypeOK'
    BY ProcAssumption, <1>1, <1>2 DEF PInv, TypeOK, PC, State
  <1>4. CpuInv' /\ OneCpuInv'
    BY Distinct, <1>1, <1>2, SMTT(20) DEF PInv, TypeOK, CpuInv, OneCpuInv, StateInv, Resuming, p
  <1>5. StateInv' /\ ForkInv'
    BY Distinct, <1>1, <1>2 DEF PInv, TypeOK, StateInv, ForkInv, SleepLockInv, Active, Resuming,
       Locking
  <1>6. SleepLockInv' /\ SleepersWillBeWoken'
    BY Distinct, <1>1, <1>2, SMTT(20) DEF PInv, TypeOK, StateInv, SleepLockInv,
       SleepersWillBeWoken, Locking, Owning, Active
  <1>7. NoZombieMissed'
    BY Distinct, <1>1, <1>2, SMTT(20) DEF PInv, TypeOK, StateInv, NoZombieMissed,
       Children, Zombies, Active
  <1> QED
    BY <1>3, <1>4, <1>5, <1>6, <1>7 DEF PInv

\* From the release of the lock to the wakeup, a wakeup is to come.
LEMMA release_sleeplock_inv ==
    ASSUME PInv, NEW c \in Cpu, release_sleeplock(c)
    PROVE  PInv'
  <1> DEFINE p == curr[c]
  <1> DEFINE l == arg[p]
  <1>1. /\ p \in P /\ mode[c] = "run" /\ state[p] = "RUNNING" /\ pc[p] = "hold"
        /\ l \in SleepLock /\ arg[p] = l /\ inner[l] = NIL
    BY Running, WorksOnLock, ZenonT(20) DEF release_sleeplock, PC, Locking
  <1>2. /\ locked' = locked \ {l}
        /\ pc' = [pc EXCEPT ![p] = "wake"]
        /\ UNCHANGED <<state, parent, chan, pid, kstack, last_pid, contLocked, plock, mode, curr,
                       scan, arg, inner, forks, forker, panicked>>
    BY <1>1, Zenon DEF release_sleeplock, Goto, table, cpuVars, history
  <1> HIDE DEF p, l
  <1>3. TypeOK'
    BY ProcAssumption, <1>1, <1>2 DEF PInv, TypeOK, PC, State
  <1>4. CpuInv' /\ OneCpuInv'
    BY Distinct, <1>1, <1>2 DEF PInv, TypeOK, CpuInv, OneCpuInv, StateInv, Resuming, p
  <1>5. StateInv' /\ ForkInv'
    BY Distinct, <1>1, <1>2 DEF PInv, TypeOK, StateInv, ForkInv, SleepLockInv, Active, Resuming,
       Locking
  <1>6. SleepLockInv' /\ SleepersWillBeWoken'
    BY Distinct, <1>1, <1>2, SMTT(20) DEF PInv, TypeOK, StateInv, SleepLockInv,
       SleepersWillBeWoken, Locking, Owning, Active
  <1>7. NoZombieMissed'
    BY <1>2, SameFamily, Zenon
  <1> QED
    BY <1>3, <1>4, <1>5, <1>6, <1>7 DEF PInv

\* The wakeup leaves nobody asleep on the lock.
LEMMA release_wakeup_inv ==
    ASSUME PInv, NEW c \in Cpu, release_wakeup(c)
    PROVE  PInv'
  <1> DEFINE p == curr[c]
  <1>1. /\ p \in P /\ mode[c] = "run" /\ state[p] = "RUNNING" /\ pc[p] = "wake"
        /\ plock = NIL /\ arg[p] \in SleepLock
    BY Running, WorksOnLock, ZenonT(20) DEF release_wakeup, PC, Locking
  <1>2. /\ state' \in [P -> State]
        /\ \A r \in P :
             state'[r] = IF state[r] = "SLEEPING" /\ chan[r] = arg[p] THEN "RUNNABLE" ELSE state[r]
        /\ arg' = [arg EXCEPT ![p] = NIL]
        /\ pc' = [pc EXCEPT ![p] = "user"]
        /\ UNCHANGED <<parent, chan, pid, kstack, last_pid, contLocked, plock, mode, curr, scan,
                       locked, inner, forks, forker, panicked>>
    BY <1>1 DEF release_wakeup, Goto, Woken, cpuVars, lockVars, history, PInv, TypeOK, State
  <1> HIDE DEF p
  <1>3. TypeOK'
    BY ProcAssumption, <1>1, <1>2 DEF PInv, TypeOK, PC, State
  <1>4. CpuInv' /\ OneCpuInv'
    BY Distinct, <1>1, <1>2 DEF PInv, TypeOK, CpuInv, OneCpuInv, StateInv, Resuming, p
  <1>5. StateInv' /\ ForkInv'
    BY Distinct, <1>1, <1>2 DEF PInv, TypeOK, StateInv, ForkInv, SleepLockInv, Active, Resuming,
       Locking
  <1>6. SleepLockInv' /\ SleepersWillBeWoken'
    BY Distinct, <1>1, <1>2, SMTT(20) DEF PInv, TypeOK, StateInv, SleepLockInv,
       SleepersWillBeWoken, Locking, Owning, Active
  <1>7. NoZombieMissed'
    BY Distinct, <1>1, <1>2, SMTT(20) DEF PInv, TypeOK, StateInv, NoZombieMissed,
       Children, Zombies, Active
  <1> QED
    BY <1>3, <1>4, <1>5, <1>6, <1>7 DEF PInv

-----------------------------------------------------------------------------
(* Theorems *)

\* At first one process is runnable, and all CPUs are idle.
LEMMA InitInv ==
    ASSUME Init
    PROVE  PInv
  <1>1. TypeOK
    <2>1. 1 \in P /\ 1 \in 0 .. NPID /\ 0 \in 0 .. NPID
      BY ProcAssumption DEF P
    <2>2. state \in [P -> State] /\ pid \in [P -> 0 .. NPID] /\ pc \in [P -> PC]
      BY <2>1 DEF Init, State, PC
    <2>3. forker \in [P -> 0 .. NPID]
      BY <2>1 DEF Init
    <2>4. scan \in [Cpu -> 1 .. (NPROC + 1)] /\ forks \in 0 .. MaxForks
      BY ProcAssumption DEF Init
    <2> QED
      BY <2>1, <2>2, <2>3, <2>4, Zenon DEF Init, TypeOK
  <1>2. CpuInv /\ OneCpuInv
    BY Distinct DEF Init, CpuInv, OneCpuInv
  <1>3. StateInv /\ ForkInv /\ SleepLockInv
    BY DEF Init, StateInv, ForkInv, SleepLockInv, Active, Resuming, Locking, Owning
  <1>4. SleepersWillBeWoken /\ NoZombieMissed
    BY Distinct DEF Init, SleepersWillBeWoken, NoZombieMissed, Children, Zombies
  <1> QED
    BY <1>1, <1>2, <1>3, <1>4 DEF PInv

\* The inductive invariant holds for every number of CPUs, processes and
\* sleeping locks: every step of the scheduler and of a process preserves it.
THEOREM ProcInvariant == Spec => []PInv
  <1>1. PInv /\ [Next]_vars => PInv'
    <2> SUFFICES ASSUME PInv, [Next]_vars PROVE PInv'
      OBVIOUS
    <2>1. CASE UNCHANGED vars
      <3>1. TypeOK' /\ CpuInv' /\ OneCpuInv' /\ StateInv'
        BY <2>1, SMTT(20) DEF vars, table, cpuVars, lockVars, history, PInv, TypeOK, CpuInv,
           OneCpuInv,
           StateInv
      <3>2. ForkInv' /\ SleepLockInv'
        BY <2>1, ZenonT(20) DEF vars, table, lockVars, PInv, ForkInv, SleepLockInv
      <3>4. SleepersWillBeWoken'
        BY <2>1, ZenonT(20) DEF vars, table, lockVars, PInv, SleepersWillBeWoken
      <3>3. NoZombieMissed'
        BY <2>1, ZenonT(20) DEF vars, table, history, PInv, NoZombieMissed, Children, Zombies
      <3> QED
        BY <3>1, <3>2, <3>3, <3>4 DEF PInv
    <2>2. ASSUME NEW c \in Cpu, sched_enter(c) \/ sched_run(c) \/ sched_end(c) \/ swtch(c)
          PROVE  PInv'
      BY <2>2, sched_enter_inv, sched_run_inv, sched_end_inv, swtch_inv
    <2>3. ASSUME NEW c \in Cpu, ProcStep(c) PROVE PInv'
      <3>1. CASE sched_return(c) \/ yield(c) \/ sleep_io(c)
        BY <3>1, sched_return_inv, yield_inv, sleep_io_inv
      <3>2. CASE fork(c) \/ fork_finish(c) \/ fork_fail(c) \/ exit(c)
        BY <3>2, fork_inv, fork_finish_inv, fork_fail_inv, exit_inv
      <3>3. CASE wait_reap(c) \/ wait_none(c) \/ wait_sleep(c)
        BY <3>3, wait_reap_inv, wait_none_inv, wait_sleep_inv
      <3>4. ASSUME NEW l \in SleepLock, acquire_sleeplock(c, l) PROVE PInv'
        BY <3>4, acquire_sleeplock_inv
      <3>5. CASE acquire_try(c) \/ sleep(c) \/ release_sleeplock(c) \/ release_wakeup(c)
        BY <3>5, acquire_try_inv, sleep_inv, release_sleeplock_inv, release_wakeup_inv
      <3> QED
        BY <2>3, <3>1, <3>2, <3>3, <3>4, <3>5 DEF ProcStep
    <2> QED
      BY <2>1, <2>2, <2>3 DEF Next
  <1> QED
    BY <1>1, InitInv, PTL DEF Spec

\* No process is on two CPUs or on a kernel stack that wait has freed.
THEOREM StacksAreOwned == Spec => []RunsOnItsOwnStack
  <1>1. PInv => RunsOnItsOwnStack
    BY DEF PInv, TypeOK, CpuInv, OneCpuInv, StateInv, RunsOnItsOwnStack
  <1> QED
    BY <1>1, ProcInvariant, PTL

\* sleep takes ptable.lock before it gives up the caller's spinlock, so no
\* release of a sleeping lock passes a sleeper unnoticed.
THEOREM NoLostWakeup == Spec => []SleepersWillBeWoken
  <1>1. PInv => SleepersWillBeWoken
    BY DEF PInv
  <1> QED
    BY <1>1, ProcInvariant, PTL

\* A parent that sleeps in wait has no child to collect: exit wakes it.
THEOREM ParentIsWoken == Spec => []NoZombieMissed
  <1>1. PInv => NoZombieMissed
    BY DEF PInv
  <1> QED
    BY <1>1, ProcInvariant, PTL

\* Two processes never own the same sleeping lock, whichever CPUs they run on
\* and however often they leave them (sleeplock.c).
LocksExclude ==
    \A p, q \in P : pc[p] \in Owning /\ pc[q] \in Owning /\ arg[p] = arg[q] => p = q

\* Sleeping locks exclude each other's owners.
THEOREM SleepLocksExclude == Spec => []LocksExclude
  <1>1. PInv => LocksExclude
    BY Zenon DEF PInv, SleepLockInv, LocksExclude
  <1> QED
    BY <1>1, ProcInvariant, PTL
=============================================================================
