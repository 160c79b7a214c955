------------------------------ MODULE FileTable ------------------------------
(***************************************************************************)
(* Open files: the file table of fs/file.c, and the system calls of        *)
(* core/sysfile.c and core/proc.c that make, copy, use and drop the file   *)
(* descriptors and the working directory of a process.                     *)
(*                                                                         *)
(* Every step is what a process does between two points where another CPU  *)
(* can come in: a section under ftable.lock, or under the lock of an       *)
(* inode.  An inode is its size and its reference count; module InodeTree  *)
(* has the rest of it.                                                     *)
(***************************************************************************)
EXTENDS Naturals, FiniteSets, FiniteSetsExt

CONSTANTS
    Proc, init,     \* the processes, and the one that runs at the start
    NFILE, NOFILE,  \* slots of ftable.file, and of ofile in a process
    Inode, Dir,     \* the inodes that paths lead to; those that are directories
    root,           \* the first working directory
    OpenAs,         \* bound: what open is called with, an inode and an access mode
    ChunkMax,       \* bytes filewrite writes in one atomic operation
    CountMax,       \* bound: bytes of one read or write
    SizeMax,        \* bound: bytes of a file, below INODE_MAX_BYTES
    None

ASSUME FileAssumption ==
    /\ {NFILE, NOFILE, ChunkMax} \subseteq Nat \ {0} /\ {CountMax, SizeMax} \subseteq Nat
    /\ OpenAs \subseteq Inode \X {"r", "w", "rw"}
    /\ init \in Proc /\ Dir \subseteq Inode /\ root \in Dir /\ None \notin Proc \union Inode
    /\ IsFiniteSet(Proc)

File == 1 .. NFILE
Fd == 0 .. NOFILE - 1
Mode == {"r", "w", "rw"}

VARIABLES
    ref, type, fip, off, mode,  \* the fields of ftable.file[f]
    iref, size, ilock,      \* of every inode: rc, num_bytes, the lock's owner
    state, ofile, cwd,      \* the fields of struct proc
    pc, f, fd, ip,          \* per process: its place and its variables
    omode, left, start,     \* how to open or use a file; bytes to go, and where a transfer began
    child,                  \* fork's new process
    panicked

fileVars == <<ref, type, fip, off, mode>>
inodeVars == <<iref, size, ilock>>
procVars == <<state, ofile, cwd>>
localVars == <<f, fd, ip, omode, left, start, child>>
vars == <<fileVars, inodeVars, procVars, pc, localVars, panicked>>

Pc == {"user", "open_file", "open_fd", "open_undo", "open_fill", "dup_ref", "close_file",
       "put", "chdir_put", "fork_fd", "exit_file", "exit_put", "exit_cwd", "lock", "move"}

TypeOK ==
    /\ ref \in [File -> Nat] /\ type \in [File -> {"none", "inode"}]
    /\ fip \in [File -> Inode \union {None}] /\ off \in [File -> Nat]
    /\ mode \in [File -> Mode]
    /\ iref \in [Inode -> Nat] /\ size \in [Inode -> Nat]
    /\ ilock \in [Inode -> Proc \union {None}]
    /\ state \in [Proc -> {"unused", "embryo", "running", "zombie"}]
    /\ ofile \in [Proc -> [Fd -> File \union {0}]] /\ cwd \in [Proc -> Inode \union {None}]
    /\ pc \in [Proc -> Pc]
    /\ f \in [Proc -> File \union {0}] /\ fd \in [Proc -> Nat]
    /\ ip \in [Proc -> Inode \union {None}]
    /\ omode \in [Proc -> Mode] /\ left \in [Proc -> Nat] /\ start \in [Proc -> Nat]
    /\ child \in [Proc -> Proc \union {None}]
    /\ panicked \in BOOLEAN

\* spawn_init has made one process, with no file open.
Init ==
    /\ ref = [x \in File |-> 0] /\ type = [x \in File |-> "none"]
    /\ fip = [x \in File |-> None] /\ off = [x \in File |-> 0] /\ mode = [x \in File |-> "r"]
    /\ iref = [i \in Inode |-> IF i = root THEN 1 ELSE 0]
    /\ size = [i \in Inode |-> 0] /\ ilock = [i \in Inode |-> None]
    /\ state = [p \in Proc |-> IF p = init THEN "running" ELSE "unused"]
    /\ ofile = [p \in Proc |-> [d \in Fd |-> 0]]
    /\ cwd = [p \in Proc |-> IF p = init THEN root ELSE None]
    /\ pc = [p \in Proc |-> "user"]
    /\ f = [p \in Proc |-> 0] /\ fd = [p \in Proc |-> 0] /\ ip = [p \in Proc |-> None]
    /\ omode = [p \in Proc |-> "r"] /\ left = [p \in Proc |-> 0] /\ start = [p \in Proc |-> 0]
    /\ child = [p \in Proc |-> None]
    /\ panicked = FALSE

At(p, label) == ~panicked /\ state[p] = "running" /\ pc[p] = label
Goto(p, label) == pc' = [pc EXCEPT ![p] = label]

-----------------------------------------------------------------------------
(* The file table, under ftable.lock *)

\* A variant that takes a slot for free by its type, which open sets late.
FreeFilesByType == {x \in File : type[x] = "none"}

FreeFiles == {x \in File : ref[x] = 0}

\* filedup
filedup(x) ==
    IF ref[x] < 1
    THEN panicked' = TRUE /\ UNCHANGED ref
    ELSE ref' = [ref EXCEPT ![x] = @ + 1] /\ UNCHANGED panicked

\* A variant that leaves the type of a closed file alone.
close_slot_keeping_type(x) == ref' = [ref EXCEPT ![x] = 0] /\ UNCHANGED type

close_slot(x) == ref' = [ref EXCEPT ![x] = 0] /\ type' = [type EXCEPT ![x] = "none"]

LastOfInode(x) == ref[x] = 1 /\ type[x] = "inode"

Shared(x) == ref[x] > 1

\* The locked part of fileclose; at the last reference to a file with an
\* inode the process goes on to put the inode, otherwise to label.
fileclose(p, x, put_label, label) ==
    IF ref[x] < 1
    THEN panicked' = TRUE /\ UNCHANGED <<ref, type, ip, pc>>
    ELSE /\ IF Shared(x)
            THEN ref' = [ref EXCEPT ![x] = @ - 1] /\ UNCHANGED type
            ELSE close_slot(x)
         /\ IF LastOfInode(x)
            THEN ip' = [ip EXCEPT ![p] = fip[x]] /\ Goto(p, put_label)
            ELSE Goto(p, label) /\ UNCHANGED ip
         /\ UNCHANGED panicked

-----------------------------------------------------------------------------
(* sys_openat *)

FreeFds(p) == {d \in Fd : ofile[p][d] = 0}

\* namei or create has found the inode and taken a reference, and the
\* inode is locked.
open(p, i, m) ==
    /\ At(p, "user") /\ ilock[i] = None
    /\ iref' = [iref EXCEPT ![i] = @ + 1]
    /\ ilock' = [ilock EXCEPT ![i] = p]
    /\ ip' = [ip EXCEPT ![p] = i]
    /\ Goto(p, "open_file")
    /\ omode' = [omode EXCEPT ![p] = m]
    /\ UNCHANGED <<fileVars, size, procVars, f, fd, left, start, child, panicked>>

\* inodes.unlock and inodes.put of the inode in hand.
give_up(p) ==
    /\ iref' = [iref EXCEPT ![ip[p]] = @ - 1]
    /\ ilock' = [ilock EXCEPT ![ip[p]] = None]
    /\ ip' = [ip EXCEPT ![p] = None]
    /\ Goto(p, "user")

\* filealloc
open_file(p) ==
    /\ At(p, "open_file")
    /\ IF FreeFiles = {}
       THEN give_up(p) /\ UNCHANGED <<ref, f>>
       ELSE /\ ref' = [ref EXCEPT ![Min(FreeFiles)] = 1]
            /\ f' = [f EXCEPT ![p] = Min(FreeFiles)]
            /\ Goto(p, "open_fd") /\ UNCHANGED <<ip, iref, ilock>>
    /\ UNCHANGED <<type, fip, off, mode, size, procVars, fd, omode, left, start, child, panicked>>

\* fdalloc; on success the inode is unlocked.
open_fd(p) ==
    /\ At(p, "open_fd")
    /\ IF FreeFds(p) = {}
       THEN Goto(p, "open_undo") /\ UNCHANGED <<ofile, ilock>>
       ELSE /\ ofile' = [ofile EXCEPT ![p][Min(FreeFds(p))] = f[p]]
            /\ ilock' = [ilock EXCEPT ![ip[p]] = None]
            /\ Goto(p, "open_fill")
    /\ UNCHANGED <<fileVars, iref, size, state, cwd, localVars, panicked>>

\* No descriptor: fileclose, then the inode goes.  (fileclose would put the
\* inode of an older file if its type were still there.)
open_undo(p) ==
    LET x == f[p]
        putAgain == IF LastOfInode(x) THEN fip[x] ELSE None
    IN  /\ At(p, "open_undo")
        /\ IF ref[x] < 1 THEN panicked' = TRUE /\ UNCHANGED <<ref, type>>
                         ELSE close_slot(x) /\ UNCHANGED panicked
        /\ iref' = [i \in Inode |-> iref[i] - (IF i = ip[p] THEN 1 ELSE 0)
                                            - (IF i = putAgain THEN 1 ELSE 0)]
        /\ ilock' = [ilock EXCEPT ![ip[p]] = None]
        /\ ip' = [ip EXCEPT ![p] = None] /\ f' = [f EXCEPT ![p] = 0]
        /\ Goto(p, "user")
        /\ UNCHANGED <<fip, off, mode, size, procVars, fd, omode, left, start, child>>

\* The fields of the file, after end_op.
open_fill(p) ==
    LET x == f[p]
    IN  /\ At(p, "open_fill")
        /\ type' = [type EXCEPT ![x] = "inode"]
        /\ fip' = [fip EXCEPT ![x] = ip[p]]
        /\ off' = [off EXCEPT ![x] = 0]
        /\ mode' = [mode EXCEPT ![x] = omode[p]]
        /\ f' = [f EXCEPT ![p] = 0] /\ ip' = [ip EXCEPT ![p] = None]
        /\ omode' = [omode EXCEPT ![p] = "r"]
        /\ Goto(p, "user")
        /\ UNCHANGED <<ref, inodeVars, procVars, fd, left, start, child, panicked>>

-----------------------------------------------------------------------------
(* sys_dup, sys_close, sys_chdir *)

\* sys_dup: the new descriptor first, then the count.
dup(p, d) ==
    /\ At(p, "user") /\ ofile[p][d] # 0 /\ FreeFds(p) # {}
    /\ ofile' = [ofile EXCEPT ![p][Min(FreeFds(p))] = ofile[p][d]]
    /\ f' = [f EXCEPT ![p] = ofile[p][d]]
    /\ Goto(p, "dup_ref")
    /\ UNCHANGED <<fileVars, inodeVars, state, cwd, fd, ip, omode, left, start, child, panicked>>

dup_ref(p) ==
    /\ At(p, "dup_ref")
    /\ filedup(f[p])
    /\ f' = [f EXCEPT ![p] = 0] /\ Goto(p, "user")
    /\ UNCHANGED <<type, fip, off, mode, inodeVars, procVars, fd, ip, omode, left, start, child>>

close(p, d) ==
    /\ At(p, "user") /\ ofile[p][d] # 0
    /\ f' = [f EXCEPT ![p] = ofile[p][d]]
    /\ ofile' = [ofile EXCEPT ![p][d] = 0]
    /\ Goto(p, "close_file")
    /\ UNCHANGED <<fileVars, inodeVars, state, cwd, fd, ip, omode, left, start, child, panicked>>

close_file(p) ==
    /\ At(p, "close_file")
    /\ fileclose(p, f[p], "put", "user")
    /\ f' = [f EXCEPT ![p] = 0]
    /\ UNCHANGED <<fip, off, mode, inodeVars, procVars, fd, omode, left, start, child>>

\* inodes.put at the end of fileclose.
put(p) ==
    /\ At(p, "put")
    /\ iref' = [iref EXCEPT ![ip[p]] = @ - 1]
    /\ ip' = [ip EXCEPT ![p] = None] /\ Goto(p, "user")
    /\ UNCHANGED <<fileVars, size, ilock, procVars, f, fd, omode, left, start, child, panicked>>

\* sys_chdir: namei takes a reference to the new directory ...
chdir(p, i) ==
    /\ At(p, "user")
    /\ iref' = [iref EXCEPT ![i] = @ + 1]
    /\ ip' = [ip EXCEPT ![p] = i] /\ Goto(p, "chdir_put")
    /\ UNCHANGED <<fileVars, size, ilock, procVars, f, fd, omode, left, start, child, panicked>>

\* ... and the old one is put; or the new one, if it is no directory.
chdir_put(p) ==
    LET ok == ip[p] \in Dir
    IN  /\ At(p, "chdir_put") /\ ilock[ip[p]] = None
        /\ iref' = [iref EXCEPT ![IF ok THEN cwd[p] ELSE ip[p]] = @ - 1]
        /\ cwd' = IF ok THEN [cwd EXCEPT ![p] = ip[p]] ELSE cwd
        /\ ip' = [ip EXCEPT ![p] = None] /\ Goto(p, "user")
        /\ UNCHANGED <<fileVars, size, ilock, state, ofile, f, fd, omode, left, start, child, panicked>>

-----------------------------------------------------------------------------
(* fork, exit, wait *)

fork(p, c) ==
    /\ At(p, "user") /\ state[c] = "unused"
    /\ state' = [state EXCEPT ![c] = "embryo"]
    /\ child' = [child EXCEPT ![p] = c] /\ fd' = [fd EXCEPT ![p] = 0]
    /\ Goto(p, "fork_fd")
    /\ UNCHANGED <<fileVars, inodeVars, ofile, cwd, f, ip, omode, left, start, panicked>>

\* A variant of fork_fd that copies the descriptors and counts nothing.
fork_fd_uncounted(p) ==
    LET c == child[p]
    IN  /\ At(p, "fork_fd")
        /\ ofile' = [ofile EXCEPT ![c] = ofile[p]]
        /\ iref' = [iref EXCEPT ![cwd[p]] = @ + 1]
        /\ cwd' = [cwd EXCEPT ![c] = cwd[p]]
        /\ state' = [state EXCEPT ![c] = "running"]
        /\ child' = [child EXCEPT ![p] = None] /\ Goto(p, "user")
        /\ UNCHANGED <<fileVars, size, ilock, fd, f, ip, omode, left, start, panicked>>

\* One turn of the loop over ofile; at its end the child has the same
\* working directory and may run.
fork_fd(p) ==
    LET c == child[p]  d == fd[p]
    IN  /\ At(p, "fork_fd")
        /\ IF d < NOFILE
           THEN /\ IF ofile[p][d] # 0
                   THEN filedup(ofile[p][d]) /\ ofile' = [ofile EXCEPT ![c][d] = ofile[p][d]]
                   ELSE UNCHANGED <<ref, ofile, panicked>>
                /\ fd' = [fd EXCEPT ![p] = d + 1]
                /\ UNCHANGED <<iref, state, cwd, pc, child>>
           ELSE /\ iref' = [iref EXCEPT ![cwd[p]] = @ + 1]
                /\ cwd' = [cwd EXCEPT ![c] = cwd[p]]
                /\ state' = [state EXCEPT ![c] = "running"]
                /\ child' = [child EXCEPT ![p] = None] /\ fd' = [fd EXCEPT ![p] = 0]
                /\ Goto(p, "user")
                /\ UNCHANGED <<ref, ofile, panicked>>
        /\ UNCHANGED <<type, fip, off, mode, size, ilock, f, ip, omode, left, start>>

\* exit: one turn of the loop over ofile.
exit(p) ==
    /\ At(p, "user")
    /\ fd' = [fd EXCEPT ![p] = 0] /\ Goto(p, "exit_file")
    /\ UNCHANGED <<fileVars, inodeVars, procVars, f, ip, omode, left, start, child, panicked>>

exit_file(p) ==
    /\ At(p, "exit_file")
    /\ IF fd[p] < NOFILE
       THEN IF ofile[p][fd[p]] # 0
            THEN /\ fileclose(p, ofile[p][fd[p]], "exit_put", "exit_file")
                 /\ ofile' = [ofile EXCEPT ![p][fd[p]] = 0]
                 /\ fd' = [fd EXCEPT ![p] = @ + 1]
            ELSE fd' = [fd EXCEPT ![p] = @ + 1] /\ UNCHANGED <<ref, type, ip, pc, ofile, panicked>>
       ELSE Goto(p, "exit_cwd") /\ UNCHANGED <<ref, type, ip, ofile, fd, panicked>>
    /\ UNCHANGED <<fip, off, mode, inodeVars, state, cwd, f, omode, left, start, child>>

exit_put(p) ==
    /\ At(p, "exit_put")
    /\ iref' = [iref EXCEPT ![ip[p]] = @ - 1]
    /\ ip' = [ip EXCEPT ![p] = None] /\ Goto(p, "exit_file")
    /\ UNCHANGED <<fileVars, size, ilock, procVars, f, fd, omode, left, start, child, panicked>>

exit_cwd(p) ==
    /\ At(p, "exit_cwd")
    /\ iref' = [iref EXCEPT ![cwd[p]] = @ - 1]
    /\ cwd' = [cwd EXCEPT ![p] = None]
    /\ state' = [state EXCEPT ![p] = "zombie"]
    /\ fd' = [fd EXCEPT ![p] = 0] /\ Goto(p, "user")
    /\ UNCHANGED <<fileVars, size, ilock, ofile, f, ip, omode, left, start, child, panicked>>

\* wait of the parent frees the slot of the process.
wait(p) ==
    /\ ~panicked /\ state[p] = "zombie"
    /\ state' = [state EXCEPT ![p] = "unused"]
    /\ UNCHANGED <<fileVars, inodeVars, ofile, cwd, pc, localVars, panicked>>

-----------------------------------------------------------------------------
(* fileread, filewrite *)

Allows(x, m) == mode[x] \in {m, "rw"}

\* The checks before the loop; another type than FD_INODE is a PANIC.
transfer(p, d, m, n) ==
    LET x == ofile[p][d]
    IN  /\ At(p, "user") /\ x # 0
        /\ Allows(x, m)
        /\ IF type[x] = "inode"
           THEN /\ f' = [f EXCEPT ![p] = x]
                /\ omode' = [omode EXCEPT ![p] = m] /\ left' = [left EXCEPT ![p] = n]
                /\ Goto(p, "lock") /\ UNCHANGED panicked
           ELSE panicked' = TRUE /\ UNCHANGED <<f, omode, left, pc>>
        /\ UNCHANGED <<fileVars, inodeVars, procVars, fd, ip, start, child>>

\* A variant that reads the offset without waiting for the lock.
lock_early(p) ==
    /\ At(p, "lock")
    /\ start' = [start EXCEPT ![p] = off[f[p]]] /\ Goto(p, "move")
    /\ UNCHANGED <<fileVars, inodeVars, procVars, f, fd, ip, omode, left, child, panicked>>

\* inodes.lock, and the start of inodes.read or inodes.write at the offset,
\* which must not be beyond the end of the file.
lock(p) ==
    LET x == f[p]  i == fip[f[p]]
    IN  /\ At(p, "lock") /\ ilock[i] = None
        /\ omode[p] = "w" => off[x] + Min({left[p], ChunkMax}) <= SizeMax
        /\ ilock' = [ilock EXCEPT ![i] = p]
        /\ start' = [start EXCEPT ![p] = off[x]]
        /\ panicked' = (off[x] > size[i])
        /\ Goto(p, "move")
        /\ UNCHANGED <<fileVars, iref, size, procVars, f, fd, ip, omode, left, child>>

\* The bytes of a read end with the file, those of a write with the chunk.
Step(p) == LET i == fip[f[p]]
           IN  IF omode[p] = "r" THEN Min({left[p], size[i] - start[p]})
               ELSE Min({left[p], ChunkMax})

\* The end of the transfer: offset, size, inodes.unlock.  filewrite goes on
\* with the next chunk, in an atomic operation of its own.
move(p) ==
    LET x == f[p]  i == fip[f[p]]  k == Step(p)  more == omode[p] = "w" /\ left[p] > k
    IN  /\ At(p, "move")
        /\ off' = [off EXCEPT ![x] = @ + k]
        /\ size' = [size EXCEPT ![i] = Max({@, start[p] + (IF omode[p] = "w" THEN k ELSE 0)})]
        /\ ilock' = [ilock EXCEPT ![i] = None]
        /\ start' = [start EXCEPT ![p] = 0]
        /\ left' = [left EXCEPT ![p] = IF more THEN @ - k ELSE 0]
        /\ f' = IF more THEN f ELSE [f EXCEPT ![p] = 0]
        /\ omode' = IF more THEN omode ELSE [omode EXCEPT ![p] = "r"]
        /\ Goto(p, IF more THEN "lock" ELSE "user")
        /\ UNCHANGED <<ref, type, fip, mode, iref, procVars, fd, ip, child, panicked>>

-----------------------------------------------------------------------------
Next ==
    \/ \E p \in Proc :
          \/ \E a \in OpenAs : open(p, a[1], a[2])
          \/ open_file(p) \/ open_fd(p) \/ open_undo(p) \/ open_fill(p)
          \/ \E d \in Fd : dup(p, d) \/ close(p, d)
          \/ dup_ref(p) \/ close_file(p) \/ put(p)
          \/ \E i \in Inode : chdir(p, i)
          \/ chdir_put(p)
          \/ \E c \in Proc : fork(p, c)
          \/ fork_fd(p) \/ exit(p) \/ exit_file(p) \/ exit_put(p) \/ exit_cwd(p) \/ wait(p)
          \/ \E d \in Fd, m \in {"r", "w"}, n \in 1 .. CountMax : transfer(p, d, m, n)
          \/ lock(p) \/ move(p)

Spec == Init /\ [][Next]_vars

-----------------------------------------------------------------------------
(* Properties *)

\* The descriptors that name slot x, and the processes that have it in hand at
\* one of the given places.
InTable(x) == {pd \in Proc \X Fd : ofile[pd[1]][pd[2]] = x}
InHand(x, labels) == {p \in Proc : f[p] = x /\ pc[p] \in labels}

\* The count of an open file is the number of descriptors that name it, in
\* all processes, up to the system calls that are between the two updates:
\* no slot of the file table leaks, and none is taken while it is in use.
RefsExact ==
    TypeOK /\ \A x \in File :
        ref[x] + Cardinality(InHand(x, {"dup_ref"}))
            = Cardinality(InTable(x)) + Cardinality(InHand(x, {"open_fd", "open_undo", "close_file"}))

\* The references to an inode are the open files, the working directories
\* and the system calls that hold it: dup, fork, a failing open and the last
\* close neither leak an inode nor free one that is in use.
InodeRefsExact ==
    \A i \in Inode :
        iref[i] = Cardinality({x \in File : type[x] = "inode" /\ fip[x] = i})
                  + Cardinality({p \in Proc : cwd[p] = i}) + Cardinality({p \in Proc : ip[p] = i})

\* Processes that share an open file (after fork) never move the same bytes:
\* a transfer is at the offset of the file until it ends, and not beyond the
\* end of the file.
TransferAtOffset ==
    \A p \in Proc : pc[p] = "move" => start[p] = off[f[p]] /\ start[p] <= size[fip[f[p]]]

\* The PANICs of filedup, fileclose, fileread and filewrite, and the assertion
\* of inode_read on the offset, are not reached: every descriptor a process can
\* use names an open file of type FD_INODE.
NeverPanics ==
    /\ ~panicked
    /\ \A p \in Proc, d \in Fd :
         pc[p] = "user" /\ state[p] = "running" /\ ofile[p][d] # 0
             => type[ofile[p][d]] = "inode" /\ ref[ofile[p][d]] > 0
=============================================================================
