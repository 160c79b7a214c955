------------------------------ MODULE InodeTree ------------------------------
(***************************************************************************)
(* The in-memory inodes of fs/inode.c: reference counts, the lock and the  *)
(* cached entry of an inode, and the system calls of core/sysfile.c and    *)
(* fs/file.c that make, find, remove and close files.                      *)
(*                                                                         *)
(* All names are in the root directory.  A process in the kernel runs on a *)
(* CPU that it leaves only when it sleeps for a block; it then goes on,    *)
(* on any idle CPU.  The lock of an inode is a spinlock, which remembers   *)
(* the CPU that took it and not the process.  File contents are left out.  *)
(***************************************************************************)
EXTENDS Naturals, FiniteSets

CONSTANTS
    Thread, Cpu,
    Object,         \* memory for Inode objects, the one of the root included
    root,           \* inodes.root, a member of Object
    NINODES,        \* inode numbers 1 .. NINODES, 1 is the root
    CreateTypes,    \* types that create is called with
    MaySleep,       \* a block may be missing in the cache, and a process sleep
    None

ASSUME InodeAssumption ==
    /\ NINODES \in Nat \ {0, 1} /\ root \in Object /\ MaySleep \in BOOLEAN
    /\ IsFiniteSet(Thread)
    /\ IsFiniteSet(Object) /\ Cardinality(Object) >= NINODES
    /\ CreateTypes \subseteq {"file", "dir"}
    /\ None \notin Thread \union Cpu \union Object

Ino == 1 .. NINODES
Entry == [type : {"none", "file", "dir"}, links : Nat]

VARIABLES
    disk,       \* disk[i]: the entry of inode i in its block
    names,      \* the inodes with an entry in the root directory
    ino, rc, valid, entry,  \* the fields of every Inode object
    lock,       \* lock[o].cpu: the holder in the eyes of the spinlock
    owner,      \* history: the process that took the lock of o
    treeOwner,  \* the process that holds the lock of the inode tree
    pc, cpu,    \* per process: its place, and the CPU it runs on
    ip, open,   \* per process: the inode at work, and its open file
    call,       \* per process: the system call
    failed      \* an assertion failed or a spinlock panicked

objectVars == <<ino, rc, valid, entry, lock, owner, treeOwner>>
threadVars == <<pc, cpu, ip, open, call>>
vars == <<disk, names, objectVars, threadVars, failed>>

Pc == {"user", "lock_dp", "lookup", "alloc", "unlock_dp", "lock_ip", "load", "link",
       "remove", "unlink", "unlock_ip", "put", "put_lock", "put_clear", "put_unlock", "put_drop"}

TypeOK ==
    /\ disk \in [Ino -> Entry]
    /\ names \subseteq Ino \ {1}
    /\ ino \in [Object -> Ino \union {0}] /\ rc \in [Object -> Nat]
    /\ valid \in [Object -> BOOLEAN] /\ entry \in [Object -> Entry]
    /\ lock \in [Object -> Cpu \union {None}]
    /\ owner \in [Object -> Thread \union {None}]
    /\ treeOwner \in Thread \union {None}
    /\ pc \in [Thread -> Pc] /\ cpu \in [Thread -> Cpu \union {None}]
    /\ ip \in [Thread -> Object \union {None}] /\ open \in [Thread -> Object \union {None}]
    /\ call \in [Thread -> {"open", "unlink", "close"} \union CreateTypes]
    /\ failed \in {"no", "type", "not_held", "already_held", "inode_zero", "full"}

NoEntry == [type |-> "none", links |-> 0]

\* init_inodes has taken the root; the disk holds one file.
Init ==
    /\ names = {2}
    /\ disk = [i \in Ino |-> IF i = 1 THEN [type |-> "dir", links |-> 1]
                             ELSE IF i = 2 THEN [type |-> "file", links |-> 1] ELSE NoEntry]
    /\ ino = [o \in Object |-> IF o = root THEN 1 ELSE 0]
    /\ rc = [o \in Object |-> IF o = root THEN 1 ELSE 0]
    /\ valid = [o \in Object |-> o = root]
    /\ entry = [o \in Object |-> IF o = root THEN [type |-> "dir", links |-> 1] ELSE NoEntry]
    /\ lock = [o \in Object |-> None] /\ owner = [o \in Object |-> None]
    /\ treeOwner = None
    /\ pc = [t \in Thread |-> "user"] /\ cpu = [t \in Thread |-> None]
    /\ ip = [t \in Thread |-> None] /\ open = [t \in Thread |-> None]
    /\ call = [t \in Thread |-> "close"]
    /\ failed = "no"

-----------------------------------------------------------------------------
(* Running and sleeping *)

IdleCpu == {c \in Cpu : \A t \in Thread : cpu[t] # c}

At(t, label) == failed = "no" /\ pc[t] = label /\ cpu[t] # None
Goto(t, label) == pc' = [pc EXCEPT ![t] = label]

\* Where the code reads a block and may have to wait for the disk.
IoPoints == {"lookup", "alloc", "load", "link", "remove", "unlink", "put_clear"}

sleep(t) ==
    /\ MaySleep /\ failed = "no" /\ cpu[t] # None /\ pc[t] \in IoPoints
    /\ cpu' = [cpu EXCEPT ![t] = None]
    /\ UNCHANGED <<disk, names, objectVars, pc, ip, open, call, failed>>

\* The scheduler of an idle CPU picks the process up again.
resume(t) ==
    /\ failed = "no" /\ cpu[t] = None /\ pc[t] # "user"
    /\ \E c \in IdleCpu : cpu' = [cpu EXCEPT ![t] = c]
    /\ UNCHANGED <<disk, names, objectVars, pc, ip, open, call, failed>>

-----------------------------------------------------------------------------
(* Locks *)

\* A variant that does not wait.
acquire_anyway(t, o) ==
    lock' = [lock EXCEPT ![o] = cpu[t]] /\ owner' = [owner EXCEPT ![o] = t]

\* acquire_spinlock, once the lock is free.
acquire(t, o) ==
    /\ lock[o] = None
    /\ lock' = [lock EXCEPT ![o] = cpu[t]] /\ owner' = [owner EXCEPT ![o] = t]

\* acquire_spinlock panics when the lock is held by this CPU.
acquire_panics(t) ==
    LET o == IF pc[t] = "lock_dp" THEN root ELSE ip[t]
    IN  /\ At(t, pc[t]) /\ pc[t] \in {"lock_dp", "lock_ip", "put_lock"} /\ lock[o] = cpu[t]
        /\ failed' = "already_held"
        /\ UNCHANGED <<disk, names, objectVars, threadVars>>

\* inode_unlock and release_spinlock: only on the CPU that took the lock.
release(t, o, label) ==
    IF lock[o] = cpu[t]
    THEN /\ lock' = [lock EXCEPT ![o] = None] /\ owner' = [owner EXCEPT ![o] = None]
         /\ Goto(t, label) /\ UNCHANGED failed
    ELSE failed' = "not_held" /\ UNCHANGED <<lock, owner, pc>>

-----------------------------------------------------------------------------
(* inode_get, inode_alloc *)

\* A variant of the search that skips objects which are not loaded yet.
CachedValid(i) == {o \in Object : rc[o] > 0 /\ valid[o] /\ ino[o] = i}

Cached(i) == {o \in Object : rc[o] > 0 /\ ino[o] = i}

\* A variant that takes no reference to an object it finds.
inode_get_weak(t, i) ==
    /\ treeOwner = None
    /\ LET o == IF Cached(i) # {} THEN CHOOSE x \in Cached(i) : TRUE ELSE CHOOSE x \in Object : rc[x] = 0
       IN  /\ rc' = [rc EXCEPT ![o] = IF @ = 0 THEN 1 ELSE @]
           /\ ino' = [ino EXCEPT ![o] = i]
           /\ valid' = [valid EXCEPT ![o] = @ /\ rc[o] > 0]
           /\ ip' = [ip EXCEPT ![t] = o]

\* inode_get, under the lock of the tree.  A new object keeps the entry that
\* its memory held; valid says that it means nothing.
inode_get(t, i) ==
    /\ treeOwner = None
    /\ IF Cached(i) # {}
       THEN \E o \in Cached(i) :
               /\ rc' = [rc EXCEPT ![o] = @ + 1]
               /\ ip' = [ip EXCEPT ![t] = o]
               /\ UNCHANGED <<ino, valid>>
       ELSE LET o == CHOOSE x \in Object : rc[x] = 0
            IN  /\ rc' = [rc EXCEPT ![o] = 1]
                /\ ino' = [ino EXCEPT ![o] = i]
                /\ valid' = [valid EXCEPT ![o] = FALSE]
                /\ ip' = [ip EXCEPT ![t] = o]

FreeInodes == {i \in Ino : disk[i].type = "none"}

-----------------------------------------------------------------------------
(* System calls: open, create, unlink *)

\* A process enters the kernel on an idle CPU.
enter(t, what) ==
    /\ failed = "no" /\ pc[t] = "user"
    /\ \E c \in IdleCpu : cpu' = [cpu EXCEPT ![t] = c]
    /\ call' = [call EXCEPT ![t] = what]

begin_call(t, what) ==
    /\ enter(t, what)
    /\ what # "unlink" => open[t] = None
    /\ Goto(t, "lock_dp")
    /\ UNCHANGED <<disk, names, objectVars, ip, open, failed>>

\* fileclose of the last reference to an open file.
begin_close(t) ==
    /\ open[t] # None
    /\ enter(t, "close")
    /\ ip' = [ip EXCEPT ![t] = open[t]]
    /\ open' = [open EXCEPT ![t] = None]
    /\ Goto(t, "put")
    /\ UNCHANGED <<disk, names, objectVars, failed>>

lock_dp(t) ==
    /\ At(t, "lock_dp")
    /\ acquire(t, root)
    /\ Goto(t, IF call[t] \in {"open", "unlink"} THEN "lookup" ELSE "alloc")
    /\ UNCHANGED <<disk, names, ino, rc, valid, entry, treeOwner, cpu, ip, open, call, failed>>

\* The name is there: get the inode, with the directory locked.
lookup_found(t) ==
    /\ At(t, "lookup")
    /\ \E i \in names : inode_get(t, i)
    /\ Goto(t, IF call[t] = "open" THEN "unlock_dp" ELSE "lock_ip")
    /\ UNCHANGED <<disk, names, entry, lock, owner, treeOwner, cpu, open, call, failed>>

\* It is not: open unlocks the directory and returns; sys_unlink passes the
\* 0 that inode_lookup returned on to inode_get, whose assertion fails.
lookup_fails(t) ==
    /\ At(t, "lookup")
    /\ IF call[t] = "open"
       THEN Goto(t, "unlock_dp") /\ UNCHANGED failed
       ELSE failed' = "inode_zero" /\ UNCHANGED pc
    /\ UNCHANGED <<disk, names, objectVars, cpu, ip, open, call>>

\* create: no inode is free.
create_panics(t) ==
    /\ At(t, "alloc") /\ FreeInodes = {}
    /\ failed' = "full"
    /\ UNCHANGED <<disk, names, objectVars, threadVars>>

\* create: the first free inode, with all fields zero but the type.
inode_alloc(t) ==
    /\ At(t, "alloc") /\ FreeInodes # {}
    /\ \E i \in FreeInodes :
         /\ \A j \in FreeInodes : i <= j
         /\ disk' = [disk EXCEPT ![i] = [type |-> call[t], links |-> 0]]
         /\ inode_get(t, i)
    /\ Goto(t, "lock_ip")
    /\ UNCHANGED <<names, entry, lock, owner, treeOwner, cpu, open, call, failed>>

\* inode_lock: the entry is read when it is not loaded; it must not be free.
AfterLock(t) == CASE call[t] = "open" -> "unlock_ip"
                  [] call[t] = "unlink" -> "remove"
                  [] OTHER -> "link"

lock_ip(t) ==
    /\ At(t, "lock_ip")
    /\ acquire(t, ip[t])
    /\ IF valid[ip[t]]
       THEN IF entry[ip[t]].type = "none"
            THEN failed' = "type" /\ UNCHANGED pc
            ELSE Goto(t, AfterLock(t)) /\ UNCHANGED failed
       ELSE Goto(t, "load") /\ UNCHANGED failed
    /\ UNCHANGED <<disk, names, ino, rc, valid, entry, treeOwner, cpu, ip, open, call>>

\* inode_sync of an entry that is not loaded.
load(t) ==
    /\ At(t, "load")
    /\ entry' = [entry EXCEPT ![ip[t]] = disk[ino[ip[t]]]]
    /\ valid' = [valid EXCEPT ![ip[t]] = TRUE]
    /\ IF disk[ino[ip[t]]].type = "none"
       THEN failed' = "type" /\ UNCHANGED pc
       ELSE Goto(t, AfterLock(t)) /\ UNCHANGED failed
    /\ UNCHANGED <<disk, names, ino, rc, lock, owner, treeOwner, cpu, ip, open, call>>

\* create: one link, written; the directory gets the entry.  For a directory
\* the link count of the parent grows, in memory only: inode_sync is called
\* without do_write.
link(t) ==
    LET o == ip[t]
        new == [entry[o] EXCEPT !.links = 1]
        dp == IF call[t] = "dir" THEN [entry[root] EXCEPT !.links = @ + 1] ELSE entry[root]
    IN  /\ At(t, "link")
        /\ entry' = [entry EXCEPT ![o] = new, ![root] = dp]
        /\ disk' = [disk EXCEPT ![ino[o]] = new]
        /\ names' = names \union {ino[o]}
        /\ Goto(t, "unlock_dp")
        /\ UNCHANGED <<ino, rc, valid, lock, owner, treeOwner, cpu, ip, open, call, failed>>

\* sys_unlink: the directory entry goes, and with a directory its link to
\* the parent, written.
remove(t) ==
    LET o == ip[t]
        dp == [entry[root] EXCEPT !.links = @ - 1]
    IN  /\ At(t, "remove")
        /\ names' = names \ {ino[o]}
        /\ IF entry[o].type = "dir"
           THEN entry' = [entry EXCEPT ![root] = dp] /\ disk' = [disk EXCEPT ![1] = dp]
           ELSE UNCHANGED <<entry, disk>>
        /\ Goto(t, "unlock_dp")
        /\ UNCHANGED <<ino, rc, valid, lock, owner, treeOwner, cpu, ip, open, call, failed>>

unlock_dp(t) ==
    /\ At(t, "unlock_dp")
    /\ release(t, root, IF ip[t] = None THEN "user"
                        ELSE CASE call[t] = "open" -> "lock_ip"
                               [] call[t] = "unlink" -> "unlink"
                               [] OTHER -> "unlock_ip")
    /\ cpu' = IF ip[t] = None /\ failed' = "no" THEN [cpu EXCEPT ![t] = None] ELSE cpu
    /\ UNCHANGED <<disk, names, ino, rc, valid, entry, treeOwner, ip, open, call>>

\* A variant that does not write the link count.
unlink_unwritten(t) ==
    /\ At(t, "unlink")
    /\ entry' = [entry EXCEPT ![ip[t]].links = @ - 1]
    /\ Goto(t, "unlock_ip")
    /\ UNCHANGED <<disk, names, ino, rc, valid, lock, owner, treeOwner, cpu, ip, open, call, failed>>

\* sys_unlink: the inode itself, written.
unlink(t) ==
    LET o == ip[t]
        new == [entry[o] EXCEPT !.links = @ - 1]
    IN  /\ At(t, "unlink")
        /\ entry' = [entry EXCEPT ![o] = new]
        /\ disk' = [disk EXCEPT ![ino[o]] = new]
        /\ Goto(t, "unlock_ip")
        /\ UNCHANGED <<names, ino, rc, valid, lock, owner, treeOwner, cpu, ip, open, call, failed>>

\* The end of open and create: the file is open.  unlink drops the inode.
unlock_ip(t) ==
    /\ At(t, "unlock_ip")
    /\ release(t, ip[t], IF call[t] = "unlink" THEN "put" ELSE "user")
    /\ IF call[t] # "unlink" /\ failed' = "no"
       THEN /\ open' = [open EXCEPT ![t] = ip[t]]
            /\ ip' = [ip EXCEPT ![t] = None]
            /\ cpu' = [cpu EXCEPT ![t] = None]
       ELSE UNCHANGED <<open, ip, cpu>>
    /\ UNCHANGED <<disk, names, ino, rc, valid, entry, treeOwner, call>>

-----------------------------------------------------------------------------
(* inode_put *)

\* A variant: the last link decides alone.
IsUnlinked(o) == entry[o].links = 0

IsLast(o) == rc[o] <= 1 /\ entry[o].links = 0

\* decrement_rc, and at zero the object goes back to the arena.
drop(t) ==
    /\ rc' = [rc EXCEPT ![ip[t]] = @ - 1]
    /\ ino' = IF rc[ip[t]] <= 1 THEN [ino EXCEPT ![ip[t]] = 0] ELSE ino
    /\ ip' = [ip EXCEPT ![t] = None]
    /\ cpu' = [cpu EXCEPT ![t] = None]
    /\ Goto(t, "user")

\* The reference is not the last one, or the file has a name.
put(t) ==
    /\ At(t, "put") /\ treeOwner = None
    /\ ~IsLast(ip[t])
    /\ drop(t)
    /\ UNCHANGED <<disk, names, valid, entry, lock, owner, treeOwner, open, call, failed>>

\* It is: keep the lock of the tree until the inode is locked.
put_last(t) ==
    /\ At(t, "put") /\ treeOwner = None
    /\ IsLast(ip[t])
    /\ treeOwner' = t
    /\ Goto(t, "put_lock")
    /\ UNCHANGED <<disk, names, ino, rc, valid, entry, lock, owner, cpu, ip, open, call, failed>>

put_lock(t) ==
    /\ At(t, "put_lock")
    /\ acquire(t, ip[t])
    /\ treeOwner' = None
    /\ Goto(t, "put_clear")
    /\ UNCHANGED <<disk, names, ino, rc, valid, entry, cpu, ip, open, call, failed>>

\* inode_clear, then the type, written.
put_clear(t) ==
    LET o == ip[t]
        new == [entry[o] EXCEPT !.type = "none"]
    IN  /\ At(t, "put_clear")
        /\ entry' = [entry EXCEPT ![o] = new]
        /\ disk' = [disk EXCEPT ![ino[o]] = new]
        /\ Goto(t, "put_unlock")
        /\ UNCHANGED <<names, ino, rc, valid, lock, owner, treeOwner, cpu, ip, open, call, failed>>

put_unlock(t) ==
    /\ At(t, "put_unlock")
    /\ release(t, ip[t], "put_drop")
    /\ UNCHANGED <<disk, names, ino, rc, valid, entry, treeOwner, cpu, ip, open, call>>

put_drop(t) ==
    /\ At(t, "put_drop") /\ treeOwner = None
    /\ drop(t)
    /\ UNCHANGED <<disk, names, valid, entry, lock, owner, treeOwner, open, call, failed>>

-----------------------------------------------------------------------------
\* The kernel has stopped in PANIC.
halted == failed # "no" /\ UNCHANGED vars

Next ==
    \/ \E t \in Thread :
          \/ sleep(t) \/ resume(t)
          \/ \E what \in {"open", "unlink"} \union CreateTypes : begin_call(t, what)
          \/ begin_close(t)
          \/ lock_dp(t) \/ acquire_panics(t)
          \/ lookup_found(t) \/ lookup_fails(t) \/ create_panics(t) \/ inode_alloc(t)
          \/ lock_ip(t) \/ load(t) \/ link(t) \/ remove(t)
          \/ unlock_dp(t) \/ unlink(t) \/ unlock_ip(t)
          \/ put(t) \/ put_last(t) \/ put_lock(t) \/ put_clear(t) \/ put_unlock(t) \/ put_drop(t)
    \/ halted

Spec == Init /\ [][Next]_vars

-----------------------------------------------------------------------------
(* Properties *)

\* inode_get never makes a second object for an inode that is in memory: two
\* processes that use a file share its lock and its entry.
OneObjectPerInode ==
    \A o1, o2 \in Object : rc[o1] > 0 /\ rc[o2] > 0 /\ ino[o1] = ino[o2] => o1 = o2

\* The reference count of an object is the number of references: the open
\* files and the system calls under way (and inodes.root).  inode_put frees
\* neither too early nor too late.
RefsCounted ==
    TypeOK /\ \A o \in Object :
        rc[o] = Cardinality({t \in Thread : open[t] = o}) + Cardinality({t \in Thread : ip[t] = o})
                + (IF o = root THEN 1 ELSE 0)

\* An inode that has a name or that is open is never freed on disk, and when
\* no system call is under way no other inode is allocated: unlink of an
\* open file leaves the inode to the last close.
FreedWithLastUse ==
    LET Used == {1} \union names \union {ino[o] : o \in {open[t] : t \in Thread} \ {None}}
    IN  failed = "no" =>
          /\ \A i \in Used : disk[i].type # "none"
          /\ (\A t \in Thread : pc[t] = "user") => \A i \in Ino \ Used : disk[i].type = "none"

\* A lock excludes: whoever is between lock and unlock of an inode owns it.
LockOwned ==
    \A t \in Thread :
        /\ pc[t] \in {"lookup", "alloc", "link", "remove", "unlock_dp"} => owner[root] = t
        /\ pc[t] \in {"load", "link", "remove", "unlink", "unlock_ip", "put_clear", "put_unlock"}
              => owner[ip[t]] = t

\* The entry of an inode that nobody has locked is the one on disk: every
\* change of a field is written before the lock is released.  Two exceptions:
\* inode_put leaves the object of a freed inode in the list until its last
\* step (inode.c:267-278), and create raises the link count of the parent of a
\* new directory, here the root, in memory and calls inode_sync without
\* do_write (sysfile.c:344).
EntryWritten ==
    \A o \in Object \ {root} :
        rc[o] > 0 /\ valid[o] /\ lock[o] = None /\ entry[o].type # "none"
            => entry[o] = disk[ino[o]]
=============================================================================
