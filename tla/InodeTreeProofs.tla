-------------------------- MODULE InodeTreeProofs --------------------------
(***************************************************************************)
(* Theorems about the inodes in memory (module InodeTree), for every       *)
(* number of processes, CPUs, inodes and objects.                          *)
(*                                                                         *)
(* The part Base of the invariant also holds after a panic; Core, which    *)
(* ties names, links and references together, up to then.  Most steps only *)
(* move a process on: StillStep says what they owe.  The steps that        *)
(* change an inode or its object are taken one by one.  What the steps     *)
(* need to know about the sizes of sets is the assumption Tally of their   *)
(* lemmas, which follows from the invariant (TallyHolds).                  *)
(***************************************************************************)
EXTENDS InodeTree, TLAPS

-----------------------------------------------------------------------------
(* The inductive invariant *)

\* A process that makes a file, one that has removed the name of its inode and
\* not yet its link, and an object with the entry of an allocated inode.
Creating(t) == call[t] \in CreateTypes
Unlinking(t) == pc[t] = "unlink" \/ (pc[t] = "unlock_dp" /\ call[t] = "unlink")
Live(o) == valid[o] /\ entry[o].type # "none"

\* Where a process has the lock of the directory, and the one of its inode.
HoldsRoot(t) ==
    \/ pc[t] \in {"lookup", "alloc", "link", "remove", "unlock_dp"}
    \/ pc[t] \in {"lock_ip", "load"} /\ call[t] # "open"
HoldsIp(t) ==
    \/ pc[t] \in {"load", "link", "remove", "unlink", "unlock_ip", "put_clear", "put_unlock"}
    \/ pc[t] = "unlock_dp" /\ call[t] # "open"

LockInv ==
    /\ \A o \in Object : lock[o] = None <=> owner[o] = None
    /\ \A t \in Thread : (HoldsRoot(t) => owner[root] = t) /\ (HoldsIp(t) => owner[ip[t]] = t)

\* Which system calls pass through which places.
CallAt(t) ==
    /\ pc[t] = "lookup" => call[t] \in {"open", "unlink"}
    /\ pc[t] \in {"alloc", "link"} => Creating(t)
    /\ pc[t] \in {"remove", "unlink"} => call[t] = "unlink"
    /\ pc[t] \in {"lock_dp", "lock_ip", "load", "unlock_dp", "unlock_ip"} => call[t] # "close"
    /\ pc[t] \in {"put", "put_lock", "put_clear", "put_unlock", "put_drop"} => call[t] \in {"unlink", "close"}

\* Which references a process has.
Before == {"user", "lock_dp", "lookup", "alloc"}
RefAt(t) ==
    /\ pc[t] \in Before => ip[t] = None
    /\ pc[t] \notin Before /\ ip[t] = None => pc[t] = "unlock_dp" /\ call[t] = "open"
    /\ ip[t] # root /\ open[t] # root
    /\ pc[t] # "user" /\ call[t] # "unlink" => open[t] = None

ThreadInv == \A t \in Thread : CallAt(t) /\ RefAt(t)

\* The count of every object.
OpenRefs(o) == {t \in Thread : open[t] = o}
IpRefs(o) == {t \in Thread : ip[t] = o}
CountInv ==
    \A o \in Object :
        rc[o] = Cardinality(OpenRefs(o)) + Cardinality(IpRefs(o)) + (IF o = root THEN 1 ELSE 0)

\* An object in use belongs to one inode, and no other object does.
InoInv ==
    /\ ino[root] = 1
    /\ \A o \in Object : rc[o] > 0 => ino[o] \in Ino
    /\ OneObjectPerInode

\* The entry of an allocated inode is the one on disk, locked or not.
EntryInv ==
    \A o \in Object \ {root} : rc[o] > 0 /\ Live(o) => entry[o] = disk[ino[o]]

\* The root stays a directory, with a link from every directory in it.
SubDirs == {i \in names : disk[i].type = "dir"}
RootInv ==
    /\ entry[root].type = "dir" /\ disk[1].type = "dir"
    /\ entry[root].links = 1 + Cardinality(SubDirs)

Base == TypeOK /\ LockInv /\ ThreadInv /\ CountInv /\ InoInv /\ EntryInv /\ RootInv

\* Until the kernel panics: a name has its inode, and an inode without a name
\* its user; its link count tells the two apart, but for an unlink in progress.
NameInv == \A i \in names : disk[i].type # "none" /\ disk[i].links = 1
AllocInv ==
    \A i \in Ino \ {1} : disk[i].type # "none" /\ i \notin names =>
        /\ \E o \in Object : rc[o] > 0 /\ ino[o] = i
        /\ disk[i].links # 0 => \E t \in Thread : Unlinking(t) /\ ino[ip[t]] = i

\* Who has locked an inode, and who has it open, has its entry.
HasEntry(t) ==
    \/ pc[t] \in {"link", "remove", "unlink", "unlock_ip", "put", "put_lock", "put_clear"}
    \/ pc[t] = "unlock_dp" /\ call[t] # "open"
LiveAt(t) == (HasEntry(t) => Live(ip[t])) /\ (open[t] # None => Live(open[t]))

\* The inode of an unlink has a name until that is removed.
UnlinkAt(t) ==
    /\ call[t] = "unlink" /\ pc[t] \in {"lock_ip", "load", "remove"} => ino[ip[t]] \in names
    /\ Unlinking(t) => /\ ino[ip[t]] \notin names /\ disk[ino[ip[t]]].links = 1
                       /\ \A u \in Thread : Unlinking(u) /\ ip[u] = ip[t] => u = t

\* A new inode has no name and no links yet.
CreateAt(t) ==
    Creating(t) /\ pc[t] \in {"lock_ip", "load", "link"} =>
        ino[ip[t]] \notin names /\ disk[ino[ip[t]]].type = call[t] /\ disk[ino[ip[t]]].links = 0

\* inode_put frees an inode that nobody else uses.
SoleAt(t) ==
    pc[t] \in {"put_lock", "put_clear"} => rc[ip[t]] = 1 /\ entry[ip[t]].links = 0

\* The object of an inode that it has freed is of no use: a create that gets
\* the inode again finds the object, and stops in inode_lock.
Freed(t) == pc[t] \in {"put_unlock", "put_drop"}
DeadAt(t) ==
    Freed(t) =>
        /\ valid[ip[t]] /\ entry[ip[t]].type = "none" /\ ino[ip[t]] \notin names
        /\ disk[ino[ip[t]]].type # "none" => rc[ip[t]] > 1
        /\ \A u \in Thread : /\ ip[u] = ip[t] /\ u # t => pc[u] = "lock_ip" /\ Creating(u)
                             /\ open[u] # ip[t]

UseAt(t) == LiveAt(t) /\ UnlinkAt(t) /\ CreateAt(t) /\ SoleAt(t) /\ DeadAt(t)

Core == NameInv /\ AllocInv /\ \A t \in Thread : UseAt(t)

IInv == Base /\ (failed = "no" => Core)

-----------------------------------------------------------------------------
(* What counting tells the steps *)

\* The other processes stand still.
Only(t) ==
    \A u \in Thread : u # t => pc'[u] = pc[u] /\ call'[u] = call[u] /\ ip'[u] = ip[u] /\ open'[u] = open[u]

\* A truth value as a number.
One(b) == IF b THEN 1 ELSE 0

\* Process t pays for its own references to o.
Pays(t, o) ==
    /\ rc'[o] \in Nat
    /\ rc'[o] + One(open[t] = o) + One(ip[t] = o) = rc[o] + One(open'[t] = o) + One(ip'[t] = o)

\* What follows from the invariant by counting, and is all that the steps use
\* of it.  The root is in use, and so is the object of a process; one that two
\* have is counted twice.  An inode that has no object finds a free one.  The
\* counts follow when a process pays for its references, and the links of the
\* root when a name comes or goes.  TallyHolds proves it.
Tally ==
    /\ rc[root] > 0
    /\ \A t \in Thread, o \in Object : open[t] = o \/ ip[t] = o => rc[o] > 0
    /\ \A t, u \in Thread, o \in Object : ip[t] = o /\ (open[u] = o \/ (ip[u] = o /\ u # t)) => rc[o] > 1
    /\ \A i \in Ino : Cached(i) = {} => \E o \in Object : rc[o] = 0
    /\ \A t \in Thread : Only(t) /\ (\A o \in Object : Pays(t, o)) => CountInv'
    /\ Cardinality(SubDirs) \in Nat
    /\ \A i \in Ino \ SubDirs : Cardinality(SubDirs \union {i}) = Cardinality(SubDirs) + 1
    /\ \A i \in SubDirs : Cardinality(SubDirs \ {i}) = Cardinality(SubDirs) - 1

\* The object of a process is in use.
LEMMA InUse ==
    ASSUME Tally, NEW t \in Thread, NEW o \in Object, open[t] = o \/ ip[t] = o
    PROVE  rc[o] > 0
  BY Zenon DEF Tally

\* An object that a second open file or process uses is counted twice at least.
LEMMA TwoUsers ==
    ASSUME Tally, NEW t \in Thread, NEW u \in Thread, NEW o \in Object, ip[t] = o,
           open[u] = o \/ (ip[u] = o /\ u # t)
    PROVE  rc[o] > 1
  BY Zenon DEF Tally

\* The root is always in use.
LEMMA RootInUse ==
    ASSUME Tally
    PROVE  rc[root] > 0
  BY Zenon DEF Tally

\* The counts follow when the step of a process pays for its own references.
LEMMA CountStep ==
    ASSUME Tally, NEW t \in Thread, Only(t), \A o \in Object : Pays(t, o)
    PROVE  CountInv'
  BY Zenon DEF Tally

\* Nothing to pay: neither counts nor references change, or a reference moves
\* between ip and open.
LEMMA CountSame ==
    ASSUME Tally, TypeOK, NEW t \in Thread, Only(t), rc' = rc,
           \/ open'[t] = open[t] /\ ip'[t] = ip[t]
           \/ open'[t] = ip[t] /\ ip'[t] = open[t]
    PROVE  CountInv'
  <1>1. ASSUME NEW o \in Object
        PROVE  Pays(t, o)
    <2>1. rc[o] \in Nat /\ rc'[o] = rc[o]
      BY Zenon DEF TypeOK
    <2>2. One(open[t] = o) \in Nat /\ One(ip[t] = o) \in Nat
      BY DEF One
    <2>3. CASE open'[t] = open[t] /\ ip'[t] = ip[t]
      BY <2>1, <2>3, Zenon DEF Pays
    <2>4. CASE open'[t] = ip[t] /\ ip'[t] = open[t]
      <3>1. rc'[o] + One(open[t] = o) + One(ip[t] = o) = rc[o] + One(ip[t] = o) + One(open[t] = o)
        BY ONLY <2>1, <2>2
      <3> QED BY <2>1, <2>4, <3>1, Zenon DEF Pays
    <2> QED BY <2>3, <2>4, Zenon
  <1> QED BY <1>1, CountStep, Zenon

-----------------------------------------------------------------------------
(* Functions and records *)

\* g is f with another value at s.
Changed(f, g, S, T, s, v) ==
    g \in [S -> T] /\ g[s] = v /\ \A x \in S : x # s => g[x] = f[x]

\* A function changed at one place.
LEMMA ExceptChanges ==
    ASSUME NEW S, NEW T, NEW f \in [S -> T], NEW s \in S, NEW v \in T
    PROVE  Changed(f, [f EXCEPT ![s] = v], S, T, s, v)
  BY Zenon DEF Changed

\* The fields of an entry.
LEMMA EntryFields ==
    ASSUME NEW e \in Entry
    PROVE  e.type \in {"none", "file", "dir"} /\ e.links \in Nat
  BY Zenon DEF Entry

\* inode_link and the unlink in sysfile.c change the number of links only.
LEMMA NewLinks ==
    ASSUME NEW e \in Entry, NEW n \in Nat
    PROVE  LET d == [e EXCEPT !.links = n]
           IN  d \in Entry /\ d.type = e.type /\ d.links = n
  BY DEF Entry

\* inode_put changes the type only, when it frees the inode.
LEMMA NewType ==
    ASSUME NEW e \in Entry, NEW y \in {"none", "file", "dir"}
    PROVE  LET d == [e EXCEPT !.type = y]
           IN  d \in Entry /\ d.type = y /\ d.links = e.links
  BY DEF Entry

\* The types of the variables, one object or process at a time.
LEMMA Typed ==
    ASSUME TypeOK
    PROVE  /\ \A i \in Ino : disk[i] \in Entry
           /\ \A o \in Object : ino[o] \in Ino \union {0} /\ rc[o] \in Nat /\ entry[o] \in Entry
           /\ \A t \in Thread : /\ pc[t] \in Pc /\ ip[t] \in Object \union {None}
                                /\ open[t] \in Object \union {None}
                                /\ call[t] \in {"open", "unlink", "close"} \union CreateTypes
  BY Zenon DEF TypeOK

\* The names of the system calls.
LEMMA Calls ==
    ASSUME NEW t, Creating(t)
    PROVE  call[t] # "open" /\ call[t] # "unlink" /\ call[t] # "close" /\ call[t] # "none"
           /\ call[t] \in {"none", "file", "dir"}
  <1>1. call[t] = "file" \/ call[t] = "dir"
    BY InodeAssumption, Zenon DEF Creating
  <1> QED BY <1>1

-----------------------------------------------------------------------------
(* inode_get *)

\* The effect of inode_get: one more reference to the object of inode i.
Got(t, i, o) ==
    /\ rc'[o] = rc[o] + 1 /\ ino'[o] = i /\ ip'[t] = o
    /\ \A x \in Object : x # o => rc'[x] = rc[x] /\ ino'[x] = ino[x] /\ (valid'[x] <=> valid[x])
    /\ \A u \in Thread : u # t => ip'[u] = ip[u]
    /\ rc[o] = 0 => ~valid'[o] /\ \A x \in Object : rc[x] > 0 => ino[x] # i
    /\ rc[o] # 0 => ino[o] = i /\ (valid'[o] <=> valid[o])

\* What inode_get changes keeps its type.
GetTyped ==
    /\ rc' \in [Object -> Nat] /\ ino' \in [Object -> Ino \union {0}]
    /\ valid' \in [Object -> BOOLEAN] /\ ip' \in [Thread -> Object \union {None}]

\* inode_get finds the object of the inode, or takes one that nobody uses.
LEMMA GetEffect ==
    ASSUME TypeOK, Tally, InoInv, NEW t \in Thread, NEW i \in Ino, inode_get(t, i)
    PROVE  GetTyped /\ \E o \in Object : Got(t, i, o)
  <1>1. /\ rc \in [Object -> Nat] /\ ino \in [Object -> Ino \union {0}]
        /\ valid \in [Object -> BOOLEAN] /\ ip \in [Thread -> Object \union {None}]
    BY Zenon DEF TypeOK
  <1>2. CASE Cached(i) # {}
    <2>1. PICK o \in Cached(i) : /\ rc' = [rc EXCEPT ![o] = rc[o] + 1]
                                 /\ ip' = [ip EXCEPT ![t] = o]
                                 /\ ino' = ino /\ valid' = valid
      BY <1>2, Zenon DEF inode_get
    <2>2. o \in Object /\ rc[o] > 0 /\ ino[o] = i
      BY Zenon DEF Cached
    <2>3. rc[o] + 1 \in Nat /\ rc[o] # 0
      BY <1>1, <2>2
    <2>4. Changed(rc, rc', Object, Nat, o, rc[o] + 1) /\ Changed(ip, ip', Thread, Object \union {None}, t, o)
      BY <1>1, <2>1, <2>2, <2>3, ExceptChanges, Zenon
    <2>5. GetTyped
      BY <1>1, <2>1, <2>4, Zenon DEF GetTyped, Changed
    <2>6. Got(t, i, o)
      BY <2>1, <2>2, <2>3, <2>4, Zenon DEF Got, Changed
    <2> QED BY <2>2, <2>5, <2>6, Zenon
  <1>3. CASE Cached(i) = {}
    <2> DEFINE o == CHOOSE x \in Object : rc[x] = 0
    <2>1. o \in Object /\ rc[o] = 0
      BY <1>3, Zenon DEF Tally
    <2>2. /\ rc' = [rc EXCEPT ![o] = 1] /\ ino' = [ino EXCEPT ![o] = i]
          /\ valid' = [valid EXCEPT ![o] = FALSE] /\ ip' = [ip EXCEPT ![t] = o]
      BY <1>3, Zenon DEF inode_get
    <2> HIDE DEF o
    <2>3. 1 \in Nat /\ i \in Ino \union {0} /\ FALSE \in BOOLEAN /\ o \in Object \union {None} /\ rc[o] + 1 = 1
      BY <2>1
    <2>4. Changed(rc, rc', Object, Nat, o, 1)
      BY <1>1, <2>1, <2>2, <2>3, ExceptChanges, Zenon
    <2>5. Changed(ino, ino', Object, Ino \union {0}, o, i)
      BY <1>1, <2>1, <2>2, <2>3, ExceptChanges, Zenon
    <2>6. Changed(valid, valid', Object, BOOLEAN, o, FALSE)
      BY <1>1, <2>1, <2>2, <2>3, ExceptChanges, Zenon
    <2>7. Changed(ip, ip', Thread, Object \union {None}, t, o)
      BY <1>1, <2>1, <2>2, <2>3, ExceptChanges, Zenon
    <2>8. GetTyped
      BY <2>4, <2>5, <2>6, <2>7, Zenon DEF GetTyped, Changed
    <2>9. \A x \in Object : rc[x] > 0 => ino[x] # i
      BY <1>3, Zenon DEF Cached
    <2>10. ~valid'[o] /\ \A x \in Object : x # o => (valid'[x] <=> valid[x])
      BY ONLY <2>6, Zenon DEF Changed
    <2>11. Got(t, i, o)
      BY <2>1, <2>3, <2>4, <2>5, <2>7, <2>9, <2>10, Zenon DEF Got, Changed
    <2> QED BY <2>1, <2>8, <2>11, Zenon
  <1> QED BY <1>2, <1>3, Zenon

-----------------------------------------------------------------------------
(* Locks and the places of the processes *)

\* A process that has got its inode has an object, and not the root's.
LEMMA IpObject ==
    ASSUME TypeOK, ThreadInv, NEW t \in Thread, pc[t] \notin Before, pc[t] # "unlock_dp" \/ call[t] # "open"
    PROVE  ip[t] \in Object /\ ip[t] # root /\ ip[t] # None
  <1>1. ip[t] # None /\ ip[t] # root
    BY Zenon DEF ThreadInv, RefAt
  <1>2. ip[t] \in Object \union {None}
    BY Typed, Zenon
  <1> QED BY <1>1, <1>2, Zenon

\* A process that works on an inode has its object, and not the root's.
LEMMA HolderObject ==
    ASSUME TypeOK, ThreadInv, NEW t \in Thread, HoldsIp(t) \/ HasEntry(t) \/ Freed(t) \/ Unlinking(t)
    PROVE  ip[t] \in Object /\ ip[t] # root /\ ip[t] # None
  <1>1. pc[t] \notin Before /\ (pc[t] # "unlock_dp" \/ call[t] # "open")
    BY DEF HoldsIp, HasEntry, Freed, Unlinking, Before
  <1> QED BY <1>1, IpObject, Zenon

\* An open file has an object, and not the root's.
LEMMA OpenObject ==
    ASSUME TypeOK, ThreadInv, NEW t \in Thread, open[t] # None
    PROVE  open[t] \in Object /\ open[t] # root
  BY Typed, Zenon DEF ThreadInv, RefAt

\* Locks exclude when a step takes none from another process.
LEMMA LockStep ==
    ASSUME TypeOK, ThreadInv, LockInv, NEW t \in Thread, Only(t),
           \A o \in Object : lock'[o] = None <=> owner'[o] = None,
           \A o \in Object : owner[o] = t \/ owner[o] = None \/ owner'[o] = owner[o],
           HoldsRoot(t)' => owner'[root] = t, HoldsIp(t)' => owner'[ip'[t]] = t
    PROVE  LockInv'
  <1>1. SUFFICES ASSUME NEW u \in Thread, u # t
                 PROVE  (HoldsRoot(u)' => owner'[root] = u) /\ (HoldsIp(u)' => owner'[ip'[u]] = u)
    BY Zenon DEF LockInv
  <1>2. pc'[u] = pc[u] /\ call'[u] = call[u] /\ ip'[u] = ip[u] /\ u # None
    BY <1>1, InodeAssumption, Zenon DEF Only
  <1>3. (HoldsRoot(u)' <=> HoldsRoot(u)) /\ (HoldsIp(u)' <=> HoldsIp(u))
    BY <1>2, Zenon DEF HoldsRoot, HoldsIp
  <1>4. ASSUME HoldsRoot(u) PROVE owner'[root] = u
    <2>1. owner[root] = u
      BY <1>4, Zenon DEF LockInv
    <2> QED BY <1>1, <1>2, <2>1, InodeAssumption, Zenon
  <1>5. ASSUME HoldsIp(u) PROVE owner'[ip'[u]] = u
    <2>1. owner[ip[u]] = u /\ ip[u] \in Object
      BY <1>5, HolderObject, Zenon DEF LockInv
    <2> QED BY <1>1, <1>2, <2>1, Zenon
  <1> QED BY <1>3, <1>4, <1>5, Zenon

\* The locks stay consistent when none is taken or given back,
LEMMA LockSame ==
    ASSUME TypeOK, ThreadInv, LockInv, NEW t \in Thread, Only(t), lock' = lock, owner' = owner,
           HoldsRoot(t)' => HoldsRoot(t), HoldsIp(t)' => HoldsIp(t) /\ ip'[t] = ip[t]
    PROVE  LockInv'
  <1>1. \A o \in Object : lock'[o] = None <=> owner'[o] = None
    BY Zenon DEF LockInv
  <1>2. HoldsRoot(t)' => owner'[root] = t
    BY Zenon DEF LockInv
  <1>3. HoldsIp(t)' => owner'[ip'[t]] = t
    BY Zenon DEF LockInv
  <1> QED BY <1>1, <1>2, <1>3, LockStep, Zenon

\* The lock of o changes hands.
LockSet(o, c, t) ==
    /\ Changed(lock, lock', Object, Cpu \union {None}, o, c)
    /\ Changed(owner, owner', Object, Thread \union {None}, o, t)

\* when the lock of o is taken,
LEMMA LockTaken ==
    ASSUME TypeOK, ThreadInv, LockInv, NEW t \in Thread, Only(t), NEW o \in Object, cpu[t] # None, acquire(t, o),
           HoldsRoot(t)' => HoldsRoot(t) \/ o = root,
           HoldsIp(t)' => ip'[t] = o \/ (HoldsIp(t) /\ ip'[t] = ip[t])
    PROVE  LockInv' /\ LockSet(o, cpu[t], t)
  <1>1. /\ lock \in [Object -> Cpu \union {None}] /\ owner \in [Object -> Thread \union {None}]
        /\ cpu[t] \in Cpu \union {None} /\ t \in Thread \union {None}
    BY Zenon DEF TypeOK
  <1>2. /\ lock[o] = None /\ lock' = [lock EXCEPT ![o] = cpu[t]] /\ owner' = [owner EXCEPT ![o] = t]
    BY Zenon DEF acquire
  <1>3. LockSet(o, cpu[t], t)
    BY <1>1, <1>2, ExceptChanges, Zenon DEF LockSet
  <1>4. /\ lock'[o] = cpu[t] /\ owner'[o] = t /\ t # None
        /\ \A x \in Object : x # o => lock'[x] = lock[x] /\ owner'[x] = owner[x]
    BY <1>3, InodeAssumption, Zenon DEF LockSet, Changed
  <1>5. owner[o] = None
    BY <1>2, Zenon DEF LockInv
  <1>6. \A x \in Object : lock'[x] = None <=> owner'[x] = None
    BY <1>4, Zenon DEF LockInv
  <1>7. \A x \in Object : owner[x] = t \/ owner[x] = None \/ owner'[x] = owner[x]
    BY <1>4, <1>5, Zenon
  <1>8. HoldsRoot(t)' => owner'[root] = t
    BY <1>4, InodeAssumption, Zenon DEF LockInv
  <1>9. HoldsIp(t)' => owner'[ip'[t]] = t
    <2>1. HoldsIp(t) => ip[t] \in Object /\ owner[ip[t]] = t
      BY HolderObject, Zenon DEF LockInv
    <2> QED BY <1>4, <2>1, Zenon
  <1> QED BY <1>3, <1>6, <1>7, <1>8, <1>9, LockStep, Zenon

\* and when its owner gives it back.
LEMMA LockFreed ==
    ASSUME TypeOK, ThreadInv, LockInv, NEW t \in Thread, Only(t), NEW o \in Object, owner[o] = t,
           lock' = [lock EXCEPT ![o] = None], owner' = [owner EXCEPT ![o] = None],
           HoldsRoot(t)' => HoldsRoot(t) /\ o # root,
           HoldsIp(t)' => HoldsIp(t) /\ ip'[t] = ip[t] /\ ip[t] # o
    PROVE  LockInv' /\ LockSet(o, None, None)
  <1>1. /\ lock \in [Object -> Cpu \union {None}] /\ owner \in [Object -> Thread \union {None}]
        /\ None \in Cpu \union {None} /\ None \in Thread \union {None}
    BY Zenon DEF TypeOK
  <1>2. LockSet(o, None, None)
    BY <1>1, ExceptChanges, Zenon DEF LockSet
  <1>3. /\ lock'[o] = None /\ owner'[o] = None
        /\ \A x \in Object : x # o => lock'[x] = lock[x] /\ owner'[x] = owner[x]
    BY <1>2, Zenon DEF LockSet, Changed
  <1>4. \A x \in Object : lock'[x] = None <=> owner'[x] = None
    BY ONLY LockInv, <1>3, Zenon DEF LockInv
  <1>5. \A x \in Object : owner[x] = t \/ owner[x] = None \/ owner'[x] = owner[x]
    BY <1>3, Zenon
  <1>6. HoldsRoot(t)' => owner'[root] = t
    BY <1>3, InodeAssumption, Zenon DEF LockInv
  <1>7. HoldsIp(t)' => owner'[ip'[t]] = t
    <2>1. HoldsIp(t) => ip[t] \in Object /\ owner[ip[t]] = t
      BY HolderObject, Zenon DEF LockInv
    <2> QED BY <1>3, <2>1, Zenon
  <1> QED BY <1>2, <1>4, <1>5, <1>6, <1>7, LockStep, Zenon

\* The places of the others do not change.
LEMMA ThreadStep ==
    ASSUME ThreadInv, NEW t \in Thread, Only(t), CallAt(t)', RefAt(t)'
    PROVE  ThreadInv'
  <1>1. SUFFICES ASSUME NEW u \in Thread, u # t PROVE CallAt(u)' /\ RefAt(u)'
    BY Zenon DEF ThreadInv
  <1>2. pc'[u] = pc[u] /\ call'[u] = call[u] /\ ip'[u] = ip[u] /\ open'[u] = open[u]
    BY <1>1, Zenon DEF Only
  <1>3. CallAt(u) /\ RefAt(u)
    BY Zenon DEF ThreadInv
  <1>4. CallAt(u)'
    BY <1>2, <1>3, Zenon DEF CallAt, Creating
  <1>5. RefAt(u)'
    BY <1>2, <1>3, Zenon DEF RefAt
  <1> QED BY <1>4, <1>5, Zenon

-----------------------------------------------------------------------------
(* Steps that change no inode and no object *)

\* A step of this kind.
Still == /\ disk' = disk /\ names' = names
         /\ ino' = ino /\ rc' = rc /\ valid' = valid /\ entry' = entry

\* The part that outlives a panic: the process keeps its references or moves
\* the one to its inode into its open file.
LEMMA StillBase ==
    ASSUME Base, Tally, NEW t \in Thread, Only(t), Still, TypeOK', LockInv', CallAt(t)', RefAt(t)',
           \/ open'[t] = open[t] /\ ip'[t] = ip[t]
           \/ open'[t] = ip[t] /\ ip'[t] = open[t]
    PROVE  Base'
  <1>1. TypeOK /\ LockInv /\ ThreadInv /\ CountInv /\ InoInv /\ EntryInv /\ RootInv
    BY Zenon DEF Base
  <1>2. ThreadInv'
    BY <1>1, ThreadStep, Zenon
  <1>3. CountInv'
    BY <1>1, CountSame, Zenon DEF Still
  <1>4. InoInv'
    BY <1>1, Zenon DEF Still, InoInv, OneObjectPerInode
  <1>5. EntryInv'
    BY <1>1, Zenon DEF Still, EntryInv, Live
  <1>6. RootInv'
    BY <1>1, Zenon DEF Still, RootInv, SubDirs
  <1> QED BY <1>2, <1>3, <1>4, <1>5, <1>6, Zenon DEF Base

\* What such a step of t owes to the others.
Moves(t) ==
    /\ Unlinking(t)' <=> Unlinking(t)
    /\ Unlinking(t)' => ip'[t] = ip[t]
    /\ pc[t] = "lock_ip" => ~(valid[ip[t]] /\ entry[ip[t]].type = "none")
    /\ ip'[t] = ip[t] \/ ip'[t] = open[t] \/ ip'[t] = None
    /\ open'[t] = open[t] \/ open'[t] = ip[t] \/ open'[t] = None
    /\ Freed(t)' => Freed(t) /\ ip'[t] = ip[t] /\ open'[t] = open[t]

\* The part about names, links and uses.
LEMMA StillCore ==
    ASSUME Base, Core, NEW t \in Thread, Only(t), Still, Moves(t), LiveAt(t)', CreateAt(t)', SoleAt(t)',
           call'[t] = "unlink" /\ pc'[t] \in {"lock_ip", "load", "remove"} => ino[ip'[t]] \in names
    PROVE  Core'
  <1>1. TypeOK /\ ThreadInv /\ CountInv
    BY Zenon DEF Base
  <1>2. NameInv /\ AllocInv /\ \A u \in Thread : LiveAt(u) /\ UnlinkAt(u) /\ CreateAt(u) /\ SoleAt(u) /\ DeadAt(u)
    BY Zenon DEF Core, UseAt
  <1>3. /\ disk' = disk /\ names' = names /\ ino' = ino /\ rc' = rc /\ entry' = entry
        /\ \A o : Live(o)' <=> Live(o)
    BY Zenon DEF Still, Live
  <1>4. \A u \in Thread : u # t => pc'[u] = pc[u] /\ call'[u] = call[u] /\ ip'[u] = ip[u] /\ open'[u] = open[u]
    BY Zenon DEF Only
  <1>5. \A u \in Thread : Unlinking(u)' <=> Unlinking(u)
    <2>1. \A u \in Thread : u # t => (Unlinking(u)' <=> Unlinking(u))
      BY <1>4, Zenon DEF Unlinking
    <2> QED BY <2>1, Zenon DEF Moves
  <1>6. \A u \in Thread : Unlinking(u) => ip'[u] = ip[u]
    BY <1>4, <1>5, Zenon DEF Moves
  <1>7. NameInv'
    BY <1>2, <1>3, Zenon DEF NameInv
  <1>8. AllocInv'
    <2>1. SUFFICES ASSUME NEW i \in Ino \ {1}, disk[i].type # "none", i \notin names
                   PROVE  /\ \E o \in Object : rc[o] > 0 /\ ino[o] = i
                          /\ disk[i].links # 0 => \E u \in Thread : Unlinking(u)' /\ ino[ip'[u]] = i
      BY <1>3, Zenon DEF AllocInv
    <2>2. disk[i].links # 0 => \E u \in Thread : Unlinking(u) /\ ino[ip[u]] = i
      BY <1>2, <2>1, Zenon DEF AllocInv
    <2>3. disk[i].links # 0 => \E u \in Thread : Unlinking(u)' /\ ino[ip'[u]] = i
      BY <1>5, <1>6, <2>2, Zenon
    <2>4. \E o \in Object : rc[o] > 0 /\ ino[o] = i
      BY <1>2, <2>1, Zenon DEF AllocInv
    <2> QED BY <2>3, <2>4, Zenon
  <1>9. ASSUME NEW u \in Thread PROVE LiveAt(u)' /\ CreateAt(u)' /\ SoleAt(u)'
    <2>1. CASE u = t
      BY <2>1, Zenon
    <2>2. CASE u # t
      <3>1. pc'[u] = pc[u] /\ call'[u] = call[u] /\ ip'[u] = ip[u] /\ open'[u] = open[u]
        BY <1>4, <2>2, Zenon
      <3>2. LiveAt(u)'
        BY <1>2, <1>3, <3>1, Zenon DEF LiveAt, HasEntry
      <3>3. CreateAt(u)'
        BY <1>2, <1>3, <3>1, Zenon DEF CreateAt, Creating
      <3>4. SoleAt(u)'
        BY <1>2, <1>3, <3>1, Zenon DEF SoleAt
      <3> QED BY <3>2, <3>3, <3>4, Zenon
    <2> QED BY <2>1, <2>2, Zenon
  <1>10. ASSUME NEW u \in Thread PROVE UnlinkAt(u)'
    <2>1. call'[u] = "unlink" /\ pc'[u] \in {"lock_ip", "load", "remove"} => ino'[ip'[u]] \in names'
      <3>1. CASE u = t
        BY <1>3, <3>1, Zenon
      <3>2. CASE u # t
        BY <1>2, <1>3, <1>4, <3>2, Zenon DEF UnlinkAt
      <3> QED BY <3>1, <3>2, Zenon
    <2>2. ASSUME Unlinking(u)' PROVE ino'[ip'[u]] \notin names' /\ disk'[ino'[ip'[u]]].links = 1
      BY <1>2, <1>3, <1>5, <1>6, <2>2, Zenon DEF UnlinkAt
    <2>3. ASSUME Unlinking(u)', NEW v \in Thread, Unlinking(v)', ip'[v] = ip'[u] PROVE v = u
      BY <1>2, <1>5, <1>6, <2>3, Zenon DEF UnlinkAt
    <2> QED BY <2>1, <2>2, <2>3, Zenon DEF UnlinkAt
  <1>11. ASSUME NEW u \in Thread PROVE DeadAt(u)'
    <2>1. SUFFICES ASSUME Freed(u)' PROVE DeadAt(u)'
      BY Zenon DEF DeadAt
    <2>2. Freed(u) /\ ip'[u] = ip[u]
      <3>1. CASE u = t
        BY <2>1, <3>1, Zenon DEF Moves
      <3>2. CASE u # t
        BY <1>4, <2>1, <3>2, Zenon DEF Freed
      <3> QED BY <3>1, <3>2, Zenon
    <2>3. /\ valid[ip[u]] /\ entry[ip[u]].type = "none" /\ ino[ip[u]] \notin names
          /\ disk[ino[ip[u]]].type # "none" => rc[ip[u]] > 1
          /\ \A v \in Thread : /\ ip[v] = ip[u] /\ v # u => pc[v] = "lock_ip" /\ Creating(v)
                               /\ open[v] # ip[u]
      BY <1>2, <2>2, Zenon DEF DeadAt
    <2>4. /\ valid'[ip'[u]] /\ entry'[ip'[u]].type = "none" /\ ino'[ip'[u]] \notin names'
          /\ disk'[ino'[ip'[u]]].type # "none" => rc'[ip'[u]] > 1
      BY <2>2, <2>3, Zenon DEF Still
    <2>5. ip[u] # None
      BY <1>1, <2>2, HolderObject, Zenon
    <2>6. ASSUME NEW v \in Thread
          PROVE  (ip'[v] = ip'[u] /\ v # u => pc'[v] = "lock_ip" /\ Creating(v)') /\ open'[v] # ip'[u]
      <3>1. CASE v # t
        <4>1. pc'[v] = pc[v] /\ call'[v] = call[v] /\ ip'[v] = ip[v] /\ open'[v] = open[v]
          BY <1>4, <3>1, Zenon
        <4> QED BY <2>2, <2>3, <4>1, Zenon DEF Creating
      <3>2. CASE v = t /\ u = t
        <4>1. open'[t] = open[t]
          BY <2>1, <3>2, Zenon DEF Moves
        <4> QED BY <2>2, <2>3, <3>2, <4>1, Zenon
      <3>3. CASE v = t /\ u # t
        <4>1. open[t] # ip[u]
          BY <2>3, Zenon
        <4>2. ip[t] # ip[u]
          <5>1. SUFFICES ASSUME ip[t] = ip[u] PROVE FALSE
            BY Zenon
          <5>2. pc[t] = "lock_ip"
            BY <2>3, <3>3, <5>1, Zenon
          <5> QED BY <2>3, <5>1, <5>2, Zenon DEF Moves
        <4>3. ip'[t] # ip[u] /\ open'[t] # ip[u]
          BY <2>5, <4>1, <4>2, Zenon DEF Moves
        <4> QED BY <2>2, <3>3, <4>3, Zenon
      <3> QED BY <3>1, <3>2, <3>3, Zenon
    <2> QED BY <2>4, <2>6, Zenon DEF DeadAt
  <1> QED BY <1>7, <1>8, <1>9, <1>10, <1>11, Zenon DEF Core, UseAt

\* What the step owes for t itself.
Owes(t) ==
    /\ CallAt(t)' /\ RefAt(t)' /\ Moves(t) /\ LiveAt(t)' /\ CreateAt(t)' /\ SoleAt(t)'
    /\ call'[t] = "unlink" /\ pc'[t] \in {"lock_ip", "load", "remove"} => ino[ip'[t]] \in names

\* The two together.
LEMMA StillStep ==
    ASSUME IInv, Tally, failed = "no", NEW t \in Thread, Only(t), Still, TypeOK', LockInv', Owes(t),
           \/ open'[t] = open[t] /\ ip'[t] = ip[t]
           \/ open'[t] = ip[t] /\ ip'[t] = open[t]
    PROVE  IInv'
  <1>1. Base /\ Core
    BY Zenon DEF IInv
  <1>2. Base'
    BY <1>1, StillBase, Zenon DEF Owes
  <1>3. Core'
    BY <1>1, StillCore, Zenon DEF Owes
  <1> QED BY <1>2, <1>3, Zenon DEF IInv

\* The invariant, part by part, and at one process.
LEMMA Parts ==
    ASSUME IInv
    PROVE  TypeOK /\ LockInv /\ ThreadInv /\ CountInv /\ InoInv /\ EntryInv /\ RootInv
           /\ (failed = "no" => NameInv /\ AllocInv)
  BY Zenon DEF IInv, Base, Core

\* The invariant at one process.
LEMMA PartsAt ==
    ASSUME IInv, failed = "no", NEW t \in Thread
    PROVE  CallAt(t) /\ RefAt(t) /\ LiveAt(t) /\ UnlinkAt(t) /\ CreateAt(t) /\ SoleAt(t) /\ DeadAt(t)
  BY Zenon DEF IInv, Base, ThreadInv, Core, UseAt

\* A process goes on to label.
LEMMA GotoEffect ==
    ASSUME TypeOK, NEW t \in Thread, NEW label \in Pc, Goto(t, label)
    PROVE  Changed(pc, pc', Thread, Pc, t, label)
  <1>1. pc \in [Thread -> Pc]
    BY Zenon DEF TypeOK
  <1> QED BY <1>1, ExceptChanges, Zenon DEF Goto

\* It keeps its system call and its references.
Same == call' = call /\ ip' = ip /\ open' = open

\* Only this process moves.
LEMMA GotoOnly ==
    ASSUME TypeOK, NEW t \in Thread, NEW label \in Pc, Goto(t, label), Same
    PROVE  /\ Only(t) /\ pc' \in [Thread -> Pc] /\ pc'[t] = label
           /\ call'[t] = call[t] /\ ip'[t] = ip[t] /\ open'[t] = open[t]
  BY GotoEffect, Zenon DEF Changed, Only, Same

-----------------------------------------------------------------------------
(* The steps of the control *)

\* lock_dp takes the lock of the directory.
LEMMA LockDpStep ==
    ASSUME IInv, Tally, NEW t \in Thread, lock_dp(t) PROVE IInv'
  <1> DEFINE label == IF call[t] \in {"open", "unlink"} THEN "lookup" ELSE "alloc"
  <1>1. /\ failed = "no" /\ pc[t] = "lock_dp" /\ cpu[t] # None /\ acquire(t, root) /\ Goto(t, label)
        /\ Still /\ Same /\ cpu' = cpu /\ treeOwner' = treeOwner /\ failed' = failed
    BY Zenon DEF lock_dp, At, Still, Same
  <1>2. label \in Pc /\ (label = "lookup" \/ label = "alloc")
    BY Zenon DEF Pc
  <1>3. CallAt(t) /\ RefAt(t) /\ LiveAt(t)
    BY <1>1, PartsAt, Zenon
  <1>4. label = "lookup" => call[t] \in {"open", "unlink"}
    BY Zenon
  <1>5. label = "alloc" => Creating(t)
    <2>1. call[t] \in {"open", "unlink", "close"} \union CreateTypes /\ call[t] # "close"
      BY <1>1, <1>3, Parts, Typed, Zenon DEF CallAt
    <2> QED BY <2>1, Zenon DEF Creating
  <1> HIDE DEF label
  <1>6. /\ Only(t) /\ pc' \in [Thread -> Pc] /\ pc'[t] = label
        /\ call'[t] = call[t] /\ ip'[t] = ip[t] /\ open'[t] = open[t]
    BY <1>1, <1>2, Parts, GotoOnly, Zenon
  <1>7. LockInv' /\ LockSet(root, cpu[t], t)
    <2>1. ~HoldsIp(t)'
      BY <1>2, <1>6, Zenon DEF HoldsIp
    <2> QED BY <1>1, <1>6, <2>1, Parts, LockTaken, InodeAssumption, Zenon
  <1>8. TypeOK'
    BY <1>1, <1>6, <1>7, Parts, Zenon DEF TypeOK, Still, Same, LockSet, Changed
  <1>9. Owes(t)
    <2>1. CallAt(t)'
      BY <1>2, <1>4, <1>5, <1>6, Zenon DEF CallAt, Creating
    <2>2. RefAt(t)'
      BY <1>1, <1>2, <1>3, <1>6, Zenon DEF RefAt, Before
    <2>3. Moves(t)
      BY <1>1, <1>2, <1>6, Zenon DEF Moves, Unlinking, Freed
    <2>4. LiveAt(t)' /\ CreateAt(t)' /\ SoleAt(t)'
      BY <1>1, <1>2, <1>3, <1>6, Zenon DEF LiveAt, Live, Still, CreateAt, SoleAt, HasEntry
    <2> QED BY <1>2, <1>6, <2>1, <2>2, <2>3, <2>4, Zenon DEF Owes
  <1> QED BY <1>1, <1>6, <1>7, <1>8, <1>9, StillStep, Zenon

\* A panic leaves everything else as it is.
LEMMA PanicStep ==
    ASSUME IInv, Still, Same, lock' = lock, owner' = owner, treeOwner' = treeOwner, pc' = pc, cpu' = cpu,
           failed' \in {"type", "not_held", "already_held", "inode_zero", "full"}
    PROVE  IInv'
  <1>1. failed' # "no"
    OBVIOUS
  <1>2. TypeOK'
    BY Parts, Zenon DEF TypeOK, Still, Same
  <1>3. LockInv'
    BY Parts, Zenon DEF LockInv, HoldsRoot, HoldsIp, Same
  <1>4. ThreadInv'
    BY Parts, Zenon DEF ThreadInv, CallAt, RefAt, Creating, Same
  <1>5. CountInv'
    BY Parts, Zenon DEF CountInv, OpenRefs, IpRefs, Same, Still
  <1>6. InoInv' /\ EntryInv' /\ RootInv'
    BY Parts, Zenon DEF InoInv, OneObjectPerInode, EntryInv, Live, RootInv, SubDirs, Still
  <1> QED BY <1>1, <1>2, <1>3, <1>4, <1>5, <1>6, Zenon DEF IInv, Base

\* Sleeping and waking up only change the CPU.
LEMMA CpuStep ==
    ASSUME IInv, Still, Same, lock' = lock, owner' = owner, treeOwner' = treeOwner, pc' = pc, failed' = failed,
           cpu' \in [Thread -> Cpu \union {None}]
    PROVE  IInv'
  <1>1. TypeOK'
    BY Parts, Zenon DEF TypeOK, Still, Same
  <1>2. LockInv'
    BY Parts, Zenon DEF LockInv, HoldsRoot, HoldsIp, Same
  <1>3. ThreadInv'
    BY Parts, Zenon DEF ThreadInv, CallAt, RefAt, Creating, Same
  <1>4. CountInv'
    BY Parts, Zenon DEF CountInv, OpenRefs, IpRefs, Same, Still
  <1>5. InoInv' /\ EntryInv' /\ RootInv'
    BY Parts, Zenon DEF InoInv, OneObjectPerInode, EntryInv, Live, RootInv, SubDirs, Still
  <1>6. ASSUME failed = "no" PROVE Core'
    <2>1. NameInv' /\ AllocInv'
      BY <1>6, Parts, Zenon DEF NameInv, AllocInv, Unlinking, Still, Same
    <2>2. ASSUME NEW u \in Thread PROVE UseAt(u)'
      <3>1. LiveAt(u)' /\ CreateAt(u)' /\ SoleAt(u)'
        BY <1>6, PartsAt, Zenon DEF LiveAt, HasEntry, Live, CreateAt, Creating, SoleAt, Still, Same
      <3>2. UnlinkAt(u)'
        BY <1>6, PartsAt, Zenon DEF UnlinkAt, Unlinking, Still, Same
      <3>3. DeadAt(u)'
        BY <1>6, PartsAt, Zenon DEF DeadAt, Freed, Creating, Still, Same
      <3> QED BY <3>1, <3>2, <3>3, Zenon DEF UseAt
    <2> QED BY <2>1, <2>2, Zenon DEF Core
  <1> QED BY <1>1, <1>2, <1>3, <1>4, <1>5, <1>6, Zenon DEF IInv, Base

\* A process that runs on another CPU, or on none.
LEMMA CpuTyped ==
    ASSUME TypeOK, NEW t \in Thread, NEW c \in Cpu \union {None}
    PROVE  [cpu EXCEPT ![t] = c] \in [Thread -> Cpu \union {None}]
  BY Zenon DEF TypeOK

\* sleep and resume.
LEMMA SleepStep ==
    ASSUME IInv, NEW t \in Thread, sleep(t) \/ resume(t) PROVE IInv'
  <1>1. /\ Still /\ Same /\ lock' = lock /\ owner' = owner /\ treeOwner' = treeOwner
        /\ pc' = pc /\ failed' = failed
    BY Zenon DEF sleep, resume, objectVars, Still, Same
  <1>2. \E c \in Cpu \union {None} : cpu' = [cpu EXCEPT ![t] = c]
    BY Zenon DEF sleep, resume, IdleCpu
  <1>3. cpu' \in [Thread -> Cpu \union {None}]
    BY <1>2, Parts, CpuTyped, Zenon
  <1> QED BY <1>1, <1>3, CpuStep, Zenon

\* acquire_panics and create_panics.
LEMMA StopStep ==
    ASSUME IInv, NEW t \in Thread, acquire_panics(t) \/ create_panics(t) PROVE IInv'
  <1>1. /\ Still /\ Same /\ lock' = lock /\ owner' = owner /\ treeOwner' = treeOwner
        /\ pc' = pc /\ cpu' = cpu /\ (failed' = "already_held" \/ failed' = "full")
    BY Zenon DEF acquire_panics, create_panics, objectVars, threadVars, Still, Same
  <1> QED BY <1>1, PanicStep, Zenon

\* begin_call enters the kernel.
LEMMA BeginCallStep ==
    ASSUME IInv, Tally, NEW t \in Thread, NEW what \in {"open", "unlink"} \union CreateTypes, begin_call(t, what)
    PROVE  IInv'
  <1>1. /\ failed = "no" /\ pc[t] = "user" /\ Goto(t, "lock_dp")
        /\ what # "unlink" => open[t] = None
        /\ Still /\ ip' = ip /\ open' = open /\ lock' = lock /\ owner' = owner /\ treeOwner' = treeOwner
        /\ failed' = failed /\ call' = [call EXCEPT ![t] = what]
        /\ \E c \in Cpu : cpu' = [cpu EXCEPT ![t] = c]
    BY Zenon DEF begin_call, enter, IdleCpu, objectVars, Still
  <1>2. TypeOK /\ ThreadInv /\ LockInv /\ CallAt(t) /\ RefAt(t) /\ LiveAt(t)
    BY <1>1, Parts, PartsAt, Zenon
  <1>3. "lock_dp" \in Pc
    BY Zenon DEF Pc
  <1>4. Changed(pc, pc', Thread, Pc, t, "lock_dp")
    BY <1>1, <1>2, <1>3, GotoEffect, Zenon
  <1>5. Changed(call, call', Thread, {"open", "unlink", "close"} \union CreateTypes, t, what)
    BY <1>1, <1>2, ExceptChanges, Zenon DEF TypeOK
  <1>6. Only(t) /\ pc'[t] = "lock_dp" /\ call'[t] = what
    BY <1>1, <1>4, <1>5, Zenon DEF Only, Changed
  <1>7. cpu' \in [Thread -> Cpu \union {None}]
    BY <1>1, <1>2, CpuTyped, Zenon
  <1>8. TypeOK'
    BY <1>1, <1>2, <1>4, <1>5, <1>7, Zenon DEF TypeOK, Still, Changed
  <1>9. LockInv'
    <2>1. ~HoldsRoot(t)' /\ ~HoldsIp(t)'
      BY <1>6, Zenon DEF HoldsRoot, HoldsIp
    <2> QED BY <1>1, <1>2, <1>6, <2>1, LockSame, Zenon
  <1>10. what # "close"
    BY InodeAssumption
  <1>11. Owes(t)
    <2>1. CallAt(t)'
      BY <1>6, <1>10, Zenon DEF CallAt
    <2>2. RefAt(t)'
      BY <1>1, <1>2, <1>6, Zenon DEF RefAt, Before
    <2>3. Moves(t)
      BY <1>1, <1>6, Zenon DEF Moves, Unlinking, Freed
    <2>4. LiveAt(t)' /\ CreateAt(t)' /\ SoleAt(t)'
      BY <1>1, <1>2, <1>6, Zenon DEF LiveAt, Live, Still, CreateAt, SoleAt, HasEntry
    <2> QED BY <1>6, <2>1, <2>2, <2>3, <2>4, Zenon DEF Owes
  <1> QED BY <1>1, <1>6, <1>8, <1>9, <1>11, StillStep, Zenon

\* begin_close: the reference moves from the open file to inode_put.
LEMMA BeginCloseStep ==
    ASSUME IInv, Tally, NEW t \in Thread, begin_close(t) PROVE IInv'
  <1>1. /\ failed = "no" /\ pc[t] = "user" /\ Goto(t, "put") /\ open[t] # None
        /\ Still /\ lock' = lock /\ owner' = owner /\ treeOwner' = treeOwner
        /\ failed' = failed /\ call' = [call EXCEPT ![t] = "close"]
        /\ ip' = [ip EXCEPT ![t] = open[t]] /\ open' = [open EXCEPT ![t] = None]
        /\ \E c \in Cpu : cpu' = [cpu EXCEPT ![t] = c]
    BY Zenon DEF begin_close, enter, IdleCpu, objectVars, Still
  <1>2. TypeOK /\ ThreadInv /\ LockInv /\ CallAt(t) /\ RefAt(t) /\ LiveAt(t)
    BY <1>1, Parts, PartsAt, Zenon
  <1>3. "put" \in Pc
    BY Zenon DEF Pc
  <1>4. Changed(pc, pc', Thread, Pc, t, "put")
    BY <1>1, <1>2, <1>3, GotoEffect, Zenon
  <1>5. Changed(call, call', Thread, {"open", "unlink", "close"} \union CreateTypes, t, "close")
    BY <1>1, <1>2, ExceptChanges, Zenon DEF TypeOK
  <1>6. Changed(ip, ip', Thread, Object \union {None}, t, open[t])
    <2>1. ip \in [Thread -> Object \union {None}] /\ open[t] \in Object \union {None}
      BY <1>2, Zenon DEF TypeOK
    <2> QED BY <1>1, <2>1, ExceptChanges, Zenon
  <1>7. Changed(open, open', Thread, Object \union {None}, t, None)
    <2>1. open \in [Thread -> Object \union {None}] /\ None \in Object \union {None}
      BY <1>2, Zenon DEF TypeOK
    <2> QED BY <1>1, <2>1, ExceptChanges, Zenon
  <1>8. Only(t) /\ pc'[t] = "put" /\ call'[t] = "close" /\ ip'[t] = open[t] /\ open'[t] = None
    BY <1>4, <1>5, <1>6, <1>7, Zenon DEF Only, Changed
  <1>9. cpu' \in [Thread -> Cpu \union {None}]
    BY <1>1, <1>2, CpuTyped, Zenon
  <1>10. TypeOK'
    BY <1>1, <1>2, <1>4, <1>5, <1>6, <1>7, <1>9, Zenon DEF TypeOK, Still, Changed
  <1>11. LockInv'
    <2>1. ~HoldsRoot(t)' /\ ~HoldsIp(t)'
      BY <1>8, Zenon DEF HoldsRoot, HoldsIp
    <2> QED BY <1>1, <1>2, <1>8, <2>1, LockSame, Zenon
  <1>12. ip[t] = None /\ open[t] # root /\ None # root /\ Live(open[t])
    BY <1>1, <1>2, InodeAssumption, Zenon DEF RefAt, LiveAt, Before
  <1>13. Owes(t)
    <2>1. CallAt(t)'
      BY <1>8, Zenon DEF CallAt
    <2>2. RefAt(t)'
      BY <1>1, <1>8, <1>12, Zenon DEF RefAt, Before
    <2>3. Moves(t)
      BY <1>1, <1>8, Zenon DEF Moves, Unlinking, Freed
    <2>4. LiveAt(t)' /\ CreateAt(t)' /\ SoleAt(t)'
      BY <1>1, <1>8, <1>12, Zenon DEF LiveAt, Live, Still, CreateAt, SoleAt
    <2> QED BY <1>8, <2>1, <2>2, <2>3, <2>4, Zenon DEF Owes
  <1> QED BY <1>1, <1>8, <1>10, <1>11, <1>12, <1>13, StillStep, Zenon

\* A step that only moves a process on, with the locks it takes or gives back.
Locks == lock' \in [Object -> Cpu \union {None}] /\ owner' \in [Object -> Thread \union {None}]

\* The invariant follows from what such a step owes.
LEMMA PlainStep ==
    ASSUME IInv, Tally, failed = "no", NEW t \in Thread, NEW label \in Pc, Goto(t, label), Still, Same, Locks, LockInv',
           cpu' \in [Thread -> Cpu \union {None}], treeOwner' \in Thread \union {None}, failed' = failed, Owes(t)
    PROVE  IInv'
  <1>1. /\ Only(t) /\ pc' \in [Thread -> Pc] /\ pc'[t] = label
        /\ call'[t] = call[t] /\ ip'[t] = ip[t] /\ open'[t] = open[t]
    BY Parts, GotoOnly, Zenon
  <1>2. TypeOK'
    BY <1>1, Parts, Zenon DEF TypeOK, Still, Same, Locks
  <1> QED BY <1>1, <1>2, StillStep, Zenon

\* lookup_fails: open gives up, sys_unlink panics.
LEMMA LookupFailsStep ==
    ASSUME IInv, Tally, NEW t \in Thread, lookup_fails(t) PROVE IInv'
  <1>1. /\ failed = "no" /\ pc[t] = "lookup" /\ Still /\ Same
        /\ lock' = lock /\ owner' = owner /\ treeOwner' = treeOwner /\ cpu' = cpu
    BY Zenon DEF lookup_fails, At, objectVars, Still, Same
  <1>2. CASE call[t] # "open"
    <2>1. failed' = "inode_zero" /\ pc' = pc
      BY <1>2, Zenon DEF lookup_fails
    <2> QED BY <1>1, <2>1, PanicStep, Zenon
  <1>3. CASE call[t] = "open"
    <2>1. Goto(t, "unlock_dp") /\ failed' = failed
      BY <1>3, Zenon DEF lookup_fails
    <2>2. "unlock_dp" \in Pc
      BY Zenon DEF Pc
    <2>3. TypeOK /\ ThreadInv /\ LockInv /\ CallAt(t) /\ RefAt(t) /\ LiveAt(t)
      BY <1>1, Parts, PartsAt, Zenon
    <2>4. /\ Only(t) /\ pc'[t] = "unlock_dp"
          /\ call'[t] = call[t] /\ ip'[t] = ip[t] /\ open'[t] = open[t]
      BY <1>1, <2>1, <2>2, <2>3, GotoOnly, Zenon
    <2>5. HoldsRoot(t) /\ ~HoldsIp(t)'
      BY <1>1, <1>3, <2>4, Zenon DEF HoldsRoot, HoldsIp
    <2>6. LockInv'
      BY <1>1, <2>3, <2>4, <2>5, LockSame, Zenon
    <2>7. ip[t] = None
      BY <1>1, <2>3, Zenon DEF RefAt, Before
    <2>8. Owes(t)
      <3>1. CallAt(t)'
        BY <1>3, <2>4, Zenon DEF CallAt
      <3>2. RefAt(t)'
        BY <1>1, <1>3, <2>3, <2>4, <2>7, Zenon DEF RefAt, Before
      <3>3. Moves(t)
        BY <1>1, <1>3, <2>4, Zenon DEF Moves, Unlinking, Freed
      <3>4. LiveAt(t)' /\ CreateAt(t)' /\ SoleAt(t)'
        BY <1>1, <1>3, <2>3, <2>4, Zenon DEF LiveAt, Live, Still, CreateAt, SoleAt, HasEntry
      <3> QED BY <2>4, <3>1, <3>2, <3>3, <3>4, Zenon DEF Owes
    <2>9. Locks /\ cpu' \in [Thread -> Cpu \union {None}] /\ treeOwner' \in Thread \union {None}
      BY <1>1, <2>3, Zenon DEF TypeOK, Locks
    <2> QED BY <1>1, <2>1, <2>2, <2>6, <2>8, <2>9, PlainStep, Zenon
  <1> QED BY <1>2, <1>3, Zenon

\* Where inode_lock returns to.
LEMMA AfterLockPlace ==
    ASSUME TypeOK, NEW t \in Thread, call[t] # "close"
    PROVE  /\ AfterLock(t) \in {"unlock_ip", "remove", "link"}
           /\ AfterLock(t) = "unlock_ip" => call[t] = "open"
           /\ AfterLock(t) = "remove" => call[t] = "unlink"
           /\ AfterLock(t) = "link" => Creating(t)
  <1>1. call[t] \in {"open", "unlink", "close"} \union CreateTypes
    BY Typed, Zenon
  <1> QED BY <1>1 DEF AfterLock, Creating

\* lock_ip takes the lock of the inode.
LEMMA LockIpStep ==
    ASSUME IInv, Tally, NEW t \in Thread, lock_ip(t) PROVE IInv'
  <1>1. /\ failed = "no" /\ pc[t] = "lock_ip" /\ cpu[t] # None /\ acquire(t, ip[t]) /\ Still /\ Same
        /\ cpu' = cpu /\ treeOwner' = treeOwner
    BY Zenon DEF lock_ip, At, Still, Same
  <1>2. /\ TypeOK /\ ThreadInv /\ LockInv /\ CallAt(t) /\ RefAt(t) /\ LiveAt(t) /\ UnlinkAt(t) /\ CreateAt(t)
        /\ cpu \in [Thread -> Cpu \union {None}] /\ treeOwner \in Thread \union {None}
    BY <1>1, Parts, PartsAt, Zenon DEF TypeOK
  <1>3. ip[t] \in Object /\ ip[t] # root /\ ip[t] # None
    BY <1>1, <1>2, IpObject, Zenon DEF Before
  <1>4. ASSUME NEW label, label \in {"load", "unlock_ip", "remove", "link"}, Goto(t, label), failed' = failed,
               label # "load" => AfterLock(t) = label /\ valid[ip[t]], valid[ip[t]] => entry[ip[t]].type # "none"
        PROVE  IInv'
    <2>1. label \in Pc
      BY <1>4, Zenon DEF Pc
    <2>2. /\ Only(t) /\ pc'[t] = label
          /\ call'[t] = call[t] /\ ip'[t] = ip[t] /\ open'[t] = open[t]
      BY <1>1, <1>2, <1>4, <2>1, GotoOnly, Zenon
    <2>3. call[t] # "close"
      BY <1>1, <1>2, Zenon DEF CallAt
    <2>4. /\ label = "unlock_ip" => call[t] = "open"
          /\ label = "remove" => call[t] = "unlink"
          /\ label = "link" => Creating(t) /\ call[t] # "open"
      BY <1>2, <1>4, <2>3, AfterLockPlace, Calls, Zenon
    <2>5. LockInv' /\ LockSet(ip[t], cpu[t], t)
      <3>1. HoldsRoot(t)' => HoldsRoot(t)
        BY <1>1, <1>4, <2>2, <2>4, Zenon DEF HoldsRoot
      <3> QED BY <1>1, <1>2, <1>3, <2>2, <3>1, LockTaken, Zenon
    <2>6. Owes(t)
      <3>1. CallAt(t)'
        BY <1>4, <2>2, <2>3, <2>4, Zenon DEF CallAt, Creating
      <3>2. RefAt(t)'
        BY <1>1, <1>2, <1>3, <1>4, <2>2, Zenon DEF RefAt, Before
      <3>3. Moves(t)
        BY <1>1, <1>4, <2>2, Zenon DEF Moves, Unlinking, Freed
      <3>4. LiveAt(t)'
        <4>1. label # "load" => Live(ip[t])
          BY <1>4, Zenon DEF Live
        <4>2. HasEntry(t)' => label # "load"
          BY <2>2, Zenon DEF HasEntry
        <4>3. \A o : Live(o)' <=> Live(o)
          BY <1>1, Zenon DEF Still, Live
        <4> QED BY <1>2, <2>2, <4>1, <4>2, <4>3, Zenon DEF LiveAt
      <3>5. CreateAt(t)' /\ SoleAt(t)'
        BY <1>1, <1>2, <1>4, <2>2, Zenon DEF CreateAt, Creating, SoleAt, Still
      <3>6. call'[t] = "unlink" => ino[ip'[t]] \in names
        BY <1>1, <1>2, <2>2, Zenon DEF UnlinkAt
      <3> QED BY <3>1, <3>2, <3>3, <3>4, <3>5, <3>6, Zenon DEF Owes
    <2>7. Locks
      BY <2>5, Zenon DEF LockSet, Changed, Locks
    <2> QED BY <1>1, <1>2, <1>4, <2>1, <2>5, <2>6, <2>7, PlainStep, Zenon
  <1>5. CASE ~valid[ip[t]]
    <2>1. Goto(t, "load") /\ failed' = failed
      BY <1>5, Zenon DEF lock_ip
    <2> QED BY <1>4, <1>5, <2>1, Zenon
  <1>6. CASE valid[ip[t]] /\ entry[ip[t]].type # "none"
    <2>1. Goto(t, AfterLock(t)) /\ failed' = failed
      BY <1>6, Zenon DEF lock_ip
    <2>2. AfterLock(t) \in {"load", "unlock_ip", "remove", "link"}
      BY <1>1, <1>2, AfterLockPlace, Zenon DEF CallAt
    <2> QED BY <1>4, <1>6, <2>1, <2>2, Zenon
  <1>7. CASE valid[ip[t]] /\ entry[ip[t]].type = "none"
    <2>1. failed' = "type" /\ pc' = pc
      BY <1>7, Zenon DEF lock_ip
    <2>2. /\ Only(t) /\ call'[t] = call[t] /\ ip'[t] = ip[t] /\ open'[t] = open[t] /\ pc'[t] = pc[t]
      BY <1>1, <2>1, Zenon DEF Only, Same
    <2>3. LockInv' /\ LockSet(ip[t], cpu[t], t)
      <3>1. HoldsRoot(t)' => HoldsRoot(t)
        BY <2>2, Zenon DEF HoldsRoot
      <3> QED BY <1>1, <1>2, <1>3, <2>2, <3>1, LockTaken, Zenon
    <2>4. TypeOK'
      BY <1>1, <1>2, <2>1, <2>3, Zenon DEF TypeOK, Still, Same, LockSet, Changed
    <2>5. CallAt(t)' /\ RefAt(t)'
      BY <1>2, <2>2, Zenon DEF CallAt, RefAt, Creating
    <2>6. Base'
      BY <1>1, <2>2, <2>3, <2>4, <2>5, StillBase, Zenon DEF IInv
    <2>7. failed' # "no"
      BY <2>1
    <2> QED BY <2>6, <2>7, Zenon DEF IInv
  <1> QED BY <1>5, <1>6, <1>7, Zenon

\* The owner of a lock gives it back, or panics on another CPU.
LEMMA Released ==
    ASSUME TypeOK, NEW t, NEW o, NEW label, release(t, o, label)
    PROVE  \/ /\ lock' = [lock EXCEPT ![o] = None] /\ owner' = [owner EXCEPT ![o] = None]
              /\ Goto(t, label) /\ failed' = failed
           \/ failed' = "not_held" /\ lock' = lock /\ owner' = owner /\ pc' = pc
  BY Zenon DEF release

\* unlock_dp gives the directory back and goes on with the inode, if there is one.
LEMMA UnlockDpStep ==
    ASSUME IInv, Tally, NEW t \in Thread, unlock_dp(t) PROVE IInv'
  <1> DEFINE label == IF ip[t] = None THEN "user"
                      ELSE CASE call[t] = "open" -> "lock_ip"
                             [] call[t] = "unlink" -> "unlink" [] OTHER -> "unlock_ip"
  <1>1. /\ failed = "no" /\ pc[t] = "unlock_dp" /\ Still /\ Same /\ treeOwner' = treeOwner
        /\ release(t, root, label)
        /\ cpu' = IF ip[t] = None /\ failed' = "no" THEN [cpu EXCEPT ![t] = None] ELSE cpu
    BY Zenon DEF unlock_dp, At, Still, Same
  <1>2. TypeOK /\ ThreadInv /\ LockInv /\ CallAt(t) /\ RefAt(t) /\ LiveAt(t)
    BY <1>1, Parts, PartsAt, Zenon
  <1>3. call[t] # "close"
    BY <1>1, <1>2, Zenon DEF CallAt
  <1>4. ip[t] = None => call[t] = "open"
    BY <1>1, <1>2, Zenon DEF RefAt, Before
  <1>5. \/ label = "user" /\ ip[t] = None /\ call[t] = "open"
        \/ label = "lock_ip" /\ ip[t] # None /\ call[t] = "open"
        \/ label = "unlink" /\ ip[t] # None /\ call[t] = "unlink"
        \/ label = "unlock_ip" /\ ip[t] # None /\ Creating(t) /\ call[t] # "open" /\ call[t] # "unlink"
    <2>1. call[t] \in {"open", "unlink", "close"} \union CreateTypes
      BY <1>2, Typed, Zenon
    <2> QED BY <1>3, <1>4, <2>1, SMTT(20) DEF Creating
  <1> HIDE DEF label
  <1>6. CASE failed' = "not_held" /\ lock' = lock /\ owner' = owner /\ pc' = pc
    <2>1. failed' # "no"
      BY <1>6
    <2> QED BY <1>1, <1>6, <2>1, PanicStep, Zenon
  <1>7. CASE /\ lock' = [lock EXCEPT ![root] = None] /\ owner' = [owner EXCEPT ![root] = None]
             /\ Goto(t, label) /\ failed' = failed
    <2>1. label \in Pc
      BY <1>5, Zenon DEF Pc
    <2>2. Only(t) /\ pc'[t] = label /\ call'[t] = call[t] /\ ip'[t] = ip[t] /\ open'[t] = open[t]
      BY <1>1, <1>2, <1>7, <2>1, GotoOnly, Zenon
    <2>3. owner[root] = t
      BY <1>1, <1>2, Zenon DEF LockInv, HoldsRoot
    <2>4. ~HoldsRoot(t)'
      BY <1>5, <2>2, Zenon DEF HoldsRoot
    <2>5. HoldsIp(t)' => HoldsIp(t)
      BY <1>1, <1>5, <2>2, Zenon DEF HoldsIp
    <2>6. ip[t] # root
      BY <1>2, Zenon DEF RefAt
    <2>7. LockInv' /\ LockSet(root, None, None)
      BY <1>2, <1>7, <2>2, <2>3, <2>4, <2>5, <2>6, LockFreed, InodeAssumption, Zenon
    <2>8. Owes(t)
      <3>1. CallAt(t)'
        BY <1>3, <1>5, <2>2, Zenon DEF CallAt
      <3>2. RefAt(t)'
        BY <1>1, <1>2, <1>5, <2>2, Zenon DEF RefAt, Before
      <3>3. Moves(t)
        BY <1>1, <1>5, <2>2, Zenon DEF Moves, Unlinking, Freed
      <3>4. LiveAt(t)'
        BY <1>1, <1>2, <1>5, <2>2, Zenon DEF LiveAt, Live, Still, HasEntry
      <3>5. CreateAt(t)' /\ SoleAt(t)'
        <4>1. label = "lock_ip" => ~Creating(t)
          BY <1>5, Calls, Zenon
        <4> QED BY <1>5, <2>2, <4>1, Zenon DEF CreateAt, Creating, SoleAt
      <3> QED BY <1>5, <2>2, <3>1, <3>2, <3>3, <3>4, <3>5, Zenon DEF Owes
    <2>9. Locks /\ treeOwner' \in Thread \union {None}
      BY <1>1, <1>2, <2>7, Zenon DEF TypeOK, LockSet, Changed, Locks
    <2>10. cpu' \in [Thread -> Cpu \union {None}]
      <3>1. cpu' = [cpu EXCEPT ![t] = None] \/ cpu' = cpu
        BY <1>1, Zenon
      <3> QED BY <1>2, <3>1, CpuTyped, Zenon DEF TypeOK
    <2> QED BY <1>1, <1>7, <2>1, <2>7, <2>8, <2>9, <2>10, PlainStep, Zenon
  <1> QED BY <1>1, <1>2, <1>6, <1>7, Released, Zenon

\* unlock_ip: the file is open, or the inode of an unlink goes to inode_put.
LEMMA UnlockIpStep ==
    ASSUME IInv, Tally, NEW t \in Thread, unlock_ip(t) PROVE IInv'
  <1> DEFINE label == IF call[t] = "unlink" THEN "put" ELSE "user"
  <1>1. /\ failed = "no" /\ pc[t] = "unlock_ip" /\ Still /\ call' = call /\ treeOwner' = treeOwner
        /\ release(t, ip[t], label)
    BY Zenon DEF unlock_ip, At, Still
  <1>2. /\ TypeOK /\ ThreadInv /\ LockInv /\ CallAt(t) /\ RefAt(t) /\ LiveAt(t)
        /\ cpu \in [Thread -> Cpu \union {None}] /\ treeOwner \in Thread \union {None}
    BY <1>1, Parts, PartsAt, Zenon DEF TypeOK
  <1>3. ip[t] \in Object /\ ip[t] # root /\ ip[t] # None
    BY <1>1, <1>2, IpObject, Zenon DEF Before
  <1>4. Live(ip[t]) /\ owner[ip[t]] = t
    BY <1>1, <1>2, Zenon DEF LiveAt, HasEntry, LockInv, HoldsIp
  <1>5. (label = "put" /\ call[t] = "unlink") \/ (label = "user" /\ call[t] # "unlink")
    BY Zenon
  <1>6. /\ call[t] # "unlink" /\ failed' = "no" => /\ open' = [open EXCEPT ![t] = ip[t]]
                                                   /\ ip' = [ip EXCEPT ![t] = None]
                                                   /\ cpu' = [cpu EXCEPT ![t] = None]
        /\ call[t] = "unlink" \/ failed' # "no" => open' = open /\ ip' = ip /\ cpu' = cpu
    BY Zenon DEF unlock_ip
  <1> HIDE DEF label
  <1>7. CASE failed' = "not_held" /\ lock' = lock /\ owner' = owner /\ pc' = pc
    <2>1. failed' # "no"
      BY <1>7
    <2> QED BY <1>1, <1>6, <1>7, <2>1, PanicStep, Zenon DEF Same
  <1>8. CASE /\ lock' = [lock EXCEPT ![ip[t]] = None] /\ owner' = [owner EXCEPT ![ip[t]] = None]
             /\ Goto(t, label) /\ failed' = failed /\ call[t] = "unlink"
    <2>1. label = "put" /\ label \in Pc
      BY <1>5, <1>8, Zenon DEF Pc
    <2>2. Same /\ cpu' = cpu
      BY <1>1, <1>6, <1>8, Zenon DEF Same
    <2>3. Only(t) /\ pc'[t] = "put" /\ call'[t] = "unlink" /\ ip'[t] = ip[t] /\ open'[t] = open[t]
      BY <1>2, <1>8, <2>1, <2>2, GotoOnly, Zenon
    <2>4. ~HoldsRoot(t)' /\ ~HoldsIp(t)'
      BY <2>3, Zenon DEF HoldsRoot, HoldsIp
    <2>5. LockInv' /\ LockSet(ip[t], None, None)
      BY <1>2, <1>3, <1>4, <1>8, <2>3, <2>4, LockFreed, Zenon
    <2>6. Owes(t)
      <3>1. CallAt(t)' /\ RefAt(t)'
        BY <1>1, <1>2, <1>3, <2>3, Zenon DEF CallAt, RefAt, Before
      <3>2. Moves(t)
        BY <1>1, <2>3, Zenon DEF Moves, Unlinking, Freed
      <3>3. LiveAt(t)' /\ CreateAt(t)' /\ SoleAt(t)'
        BY <1>1, <1>2, <1>4, <2>3, Zenon DEF LiveAt, Live, Still, CreateAt, SoleAt
      <3> QED BY <2>3, <3>1, <3>2, <3>3, Zenon DEF Owes
    <2>7. Locks
      BY <2>5, Zenon DEF LockSet, Changed, Locks
    <2> QED BY <1>1, <1>2, <1>8, <2>1, <2>2, <2>5, <2>6, <2>7, PlainStep, Zenon
  <1>9. CASE /\ lock' = [lock EXCEPT ![ip[t]] = None] /\ owner' = [owner EXCEPT ![ip[t]] = None]
             /\ Goto(t, label) /\ failed' = failed /\ call[t] # "unlink"
    <2>1. label = "user" /\ label \in Pc
      BY <1>5, <1>9, Zenon DEF Pc
    <2>2. /\ open' = [open EXCEPT ![t] = ip[t]] /\ ip' = [ip EXCEPT ![t] = None]
          /\ cpu' = [cpu EXCEPT ![t] = None]
      BY <1>1, <1>6, <1>9, Zenon
    <2>3. Changed(pc, pc', Thread, Pc, t, "user")
      BY <1>2, <1>9, <2>1, GotoEffect, Zenon
    <2>4. Changed(open, open', Thread, Object \union {None}, t, ip[t])
      <3>1. open \in [Thread -> Object \union {None}] /\ ip[t] \in Object \union {None}
        BY <1>2, Zenon DEF TypeOK
      <3> QED BY <2>2, <3>1, ExceptChanges, Zenon
    <2>5. Changed(ip, ip', Thread, Object \union {None}, t, None)
      <3>1. ip \in [Thread -> Object \union {None}] /\ None \in Object \union {None}
        BY <1>2, Zenon DEF TypeOK
      <3> QED BY <2>2, <3>1, ExceptChanges, Zenon
    <2>6. Only(t) /\ pc'[t] = "user" /\ call'[t] = call[t] /\ open'[t] = ip[t] /\ ip'[t] = None
      BY <1>1, <2>3, <2>4, <2>5, Zenon DEF Only, Changed
    <2>7. ~HoldsRoot(t)' /\ ~HoldsIp(t)'
      BY <2>6, Zenon DEF HoldsRoot, HoldsIp
    <2>8. LockInv' /\ LockSet(ip[t], None, None)
      BY <1>2, <1>3, <1>4, <1>9, <2>6, <2>7, LockFreed, Zenon
    <2>9. cpu' \in [Thread -> Cpu \union {None}]
      BY <1>2, <2>2, CpuTyped, Zenon
    <2>10. TypeOK'
      BY <1>1, <1>2, <1>9, <2>3, <2>4, <2>5, <2>8, <2>9, Zenon DEF TypeOK, Still, LockSet, Changed
    <2>11. open[t] = None /\ None # root
      BY <1>1, <1>2, <1>9, InodeAssumption, Zenon DEF RefAt
    <2>12. Owes(t)
      <3>1. CallAt(t)' /\ RefAt(t)'
        BY <1>3, <2>6, <2>11, Zenon DEF CallAt, RefAt, Before
      <3>2. Moves(t)
        BY <1>1, <2>6, Zenon DEF Moves, Unlinking, Freed
      <3>3. LiveAt(t)' /\ CreateAt(t)' /\ SoleAt(t)'
        BY <1>1, <1>4, <2>6, Zenon DEF LiveAt, HasEntry, Live, Still, CreateAt, SoleAt
      <3> QED BY <2>6, <3>1, <3>2, <3>3, Zenon DEF Owes
    <2> QED BY <1>1, <2>6, <2>8, <2>10, <2>11, <2>12, StillStep, Zenon
  <1> QED BY <1>1, <1>2, <1>7, <1>8, <1>9, Released, Zenon

\* put_last: the last use of an inode without links.
LEMMA PutLastStep ==
    ASSUME IInv, Tally, NEW t \in Thread, put_last(t) PROVE IInv'
  <1>1. /\ failed = "no" /\ pc[t] = "put" /\ Goto(t, "put_lock") /\ Still /\ Same
        /\ lock' = lock /\ owner' = owner /\ treeOwner' = t /\ cpu' = cpu /\ failed' = failed
        /\ rc[ip[t]] <= 1 /\ entry[ip[t]].links = 0
    BY Zenon DEF put_last, At, Still, Same, IsLast
  <1>2. /\ TypeOK /\ ThreadInv /\ LockInv /\ CountInv /\ CallAt(t) /\ RefAt(t) /\ LiveAt(t)
        /\ cpu \in [Thread -> Cpu \union {None}]
    BY <1>1, Parts, PartsAt, Zenon DEF TypeOK
  <1>3. ip[t] \in Object /\ ip[t] # root /\ ip[t] # None
    BY <1>1, <1>2, IpObject, Zenon DEF Before
  <1>4. rc[ip[t]] = 1
    <2>1. rc[ip[t]] > 0 /\ rc[ip[t]] \in Nat
      BY <1>2, <1>3, InUse, Typed, Zenon
    <2> QED BY ONLY <1>1, <2>1
  <1>5. "put_lock" \in Pc
    BY Zenon DEF Pc
  <1>6. Only(t) /\ pc'[t] = "put_lock" /\ call'[t] = call[t] /\ ip'[t] = ip[t] /\ open'[t] = open[t]
    BY <1>1, <1>2, <1>5, GotoOnly, Zenon
  <1>7. LockInv'
    <2>1. ~HoldsRoot(t)' /\ ~HoldsIp(t)'
      BY <1>6, Zenon DEF HoldsRoot, HoldsIp
    <2> QED BY <1>1, <1>2, <1>6, <2>1, LockSame, Zenon
  <1>8. Owes(t)
    <2>1. CallAt(t)' /\ RefAt(t)'
      BY <1>1, <1>2, <1>3, <1>6, Zenon DEF CallAt, RefAt, Before
    <2>2. Moves(t)
      BY <1>1, <1>6, Zenon DEF Moves, Unlinking, Freed
    <2>3. LiveAt(t)'
      BY <1>1, <1>2, <1>6, Zenon DEF LiveAt, HasEntry, Live, Still
    <2>4. CreateAt(t)' /\ SoleAt(t)'
      BY <1>1, <1>4, <1>6, Zenon DEF CreateAt, SoleAt, Still
    <2> QED BY <1>6, <2>1, <2>2, <2>3, <2>4, Zenon DEF Owes
  <1>9. Locks
    BY <1>1, <1>2, Zenon DEF TypeOK, Locks
  <1> QED BY <1>1, <1>2, <1>5, <1>7, <1>8, <1>9, PlainStep, Zenon

\* put_lock takes the lock of the inode that is to be freed.
LEMMA PutLockStep ==
    ASSUME IInv, Tally, NEW t \in Thread, put_lock(t) PROVE IInv'
  <1>1. /\ failed = "no" /\ pc[t] = "put_lock" /\ cpu[t] # None /\ Goto(t, "put_clear") /\ Still /\ Same
        /\ acquire(t, ip[t]) /\ treeOwner' = None /\ cpu' = cpu /\ failed' = failed
    BY Zenon DEF put_lock, At, Still, Same
  <1>2. /\ TypeOK /\ ThreadInv /\ LockInv /\ CallAt(t) /\ RefAt(t) /\ LiveAt(t) /\ SoleAt(t)
        /\ cpu \in [Thread -> Cpu \union {None}]
    BY <1>1, Parts, PartsAt, Zenon DEF TypeOK
  <1>3. ip[t] \in Object /\ ip[t] # root /\ ip[t] # None
    BY <1>1, <1>2, IpObject, Zenon DEF Before
  <1>4. "put_clear" \in Pc
    BY Zenon DEF Pc
  <1>5. Only(t) /\ pc'[t] = "put_clear" /\ call'[t] = call[t] /\ ip'[t] = ip[t] /\ open'[t] = open[t]
    BY <1>1, <1>2, <1>4, GotoOnly, Zenon
  <1>6. LockInv' /\ LockSet(ip[t], cpu[t], t)
    <2>1. ~HoldsRoot(t)'
      BY <1>5, Zenon DEF HoldsRoot
    <2> QED BY <1>1, <1>2, <1>3, <1>5, <2>1, LockTaken, Zenon
  <1>7. Owes(t)
    <2>1. CallAt(t)' /\ RefAt(t)'
      BY <1>1, <1>2, <1>3, <1>5, Zenon DEF CallAt, RefAt, Before
    <2>2. Moves(t)
      BY <1>1, <1>5, Zenon DEF Moves, Unlinking, Freed
    <2>3. LiveAt(t)'
      BY <1>1, <1>2, <1>5, Zenon DEF LiveAt, HasEntry, Live, Still
    <2>4. CreateAt(t)' /\ SoleAt(t)'
      BY <1>1, <1>2, <1>5, Zenon DEF CreateAt, SoleAt, Still
    <2> QED BY <1>5, <2>1, <2>2, <2>3, <2>4, Zenon DEF Owes
  <1>8. Locks
    BY <1>6, Zenon DEF LockSet, Changed, Locks
  <1> QED BY <1>1, <1>2, <1>4, <1>6, <1>7, <1>8, PlainStep, Zenon

\* put_unlock gives the lock of the freed inode back.
LEMMA PutUnlockStep ==
    ASSUME IInv, Tally, NEW t \in Thread, put_unlock(t) PROVE IInv'
  <1>1. /\ failed = "no" /\ pc[t] = "put_unlock" /\ Still /\ Same /\ treeOwner' = treeOwner /\ cpu' = cpu
        /\ release(t, ip[t], "put_drop")
    BY Zenon DEF put_unlock, At, Still, Same
  <1>2. /\ TypeOK /\ ThreadInv /\ LockInv /\ CallAt(t) /\ RefAt(t) /\ LiveAt(t)
        /\ cpu \in [Thread -> Cpu \union {None}] /\ treeOwner \in Thread \union {None}
    BY <1>1, Parts, PartsAt, Zenon DEF TypeOK
  <1>3. ip[t] \in Object /\ ip[t] # root /\ ip[t] # None
    BY <1>1, <1>2, IpObject, Zenon DEF Before
  <1>4. CASE failed' = "not_held" /\ lock' = lock /\ owner' = owner /\ pc' = pc
    BY <1>1, <1>4, PanicStep, Zenon
  <1>5. CASE /\ lock' = [lock EXCEPT ![ip[t]] = None] /\ owner' = [owner EXCEPT ![ip[t]] = None]
             /\ Goto(t, "put_drop") /\ failed' = failed
    <2>1. "put_drop" \in Pc
      BY Zenon DEF Pc
    <2>2. Only(t) /\ pc'[t] = "put_drop" /\ call'[t] = call[t] /\ ip'[t] = ip[t] /\ open'[t] = open[t]
      BY <1>1, <1>2, <1>5, <2>1, GotoOnly, Zenon
    <2>3. ~HoldsRoot(t)' /\ ~HoldsIp(t)' /\ owner[ip[t]] = t
      BY <1>1, <1>2, <2>2, Zenon DEF HoldsRoot, HoldsIp, LockInv
    <2>4. LockInv' /\ LockSet(ip[t], None, None)
      BY <1>2, <1>3, <1>5, <2>2, <2>3, LockFreed, Zenon
    <2>5. Owes(t)
      <3>1. CallAt(t)' /\ RefAt(t)'
        BY <1>1, <1>2, <1>3, <2>2, Zenon DEF CallAt, RefAt, Before
      <3>2. Moves(t)
        BY <1>1, <2>2, Zenon DEF Moves, Unlinking, Freed
      <3>3. LiveAt(t)'
        BY <1>1, <1>2, <2>2, Zenon DEF LiveAt, HasEntry, Live, Still
      <3>4. CreateAt(t)' /\ SoleAt(t)'
        BY <2>2, Zenon DEF CreateAt, SoleAt
      <3> QED BY <2>2, <3>1, <3>2, <3>3, <3>4, Zenon DEF Owes
    <2>6. Locks
      BY <2>4, Zenon DEF LockSet, Changed, Locks
    <2> QED BY <1>1, <1>2, <1>5, <2>1, <2>4, <2>5, <2>6, PlainStep, Zenon
  <1> QED BY <1>1, <1>2, <1>4, <1>5, Released, Zenon

-----------------------------------------------------------------------------
(* The steps that take a reference: inode_lookup and inode_alloc *)

\* Process t gets object o of inode i, which has a name or was free.
Finds(t, i) == i \in names /\ disk' = disk /\ call[t] \in {"open", "unlink"}
Makes(t, i) == /\ i \notin names /\ disk[i].type = "none" /\ Creating(t) /\ pc'[t] = "lock_ip"
               /\ disk'[i] = [type |-> call[t], links |-> 0]
Gets(t, i, o) ==
    /\ GetTyped /\ Got(t, i, o) /\ Only(t)
    /\ pc[t] \in {"lookup", "alloc"}
    /\ (pc'[t] = "unlock_dp" /\ call[t] = "open") \/ (pc'[t] = "lock_ip" /\ call[t] # "open" /\ call[t] # "close")
    /\ call' = call /\ open' = open /\ names' = names /\ entry' = entry /\ lock' = lock /\ owner' = owner
    /\ \A j \in Ino : j # i => disk'[j] = disk[j]
    /\ Finds(t, i) \/ Makes(t, i)

\* What no such step changes: the objects in use.
LEMMA GetsKeeps ==
    ASSUME IInv, Tally, failed = "no", NEW t \in Thread, NEW i \in Ino, i # 1, NEW o \in Object, Gets(t, i, o)
    PROVE  /\ o # root /\ ip[t] = None /\ rc'[o] > 0 /\ rc'[o] \in Nat
           /\ \A x \in Object : rc[x] > 0 => ino'[x] = ino[x] /\ (valid'[x] <=> valid[x]) /\ (Live(x)' <=> Live(x))
           /\ \A x \in Object : rc'[x] > 0 /\ x # o => rc[x] > 0 /\ ino'[x] # i /\ ino[x] # i
  <1>1. TypeOK /\ CountInv /\ InoInv /\ RefAt(t)
    BY Parts, PartsAt, Zenon
  <1>2. /\ rc'[o] = rc[o] + 1 /\ ino'[o] = i /\ ip'[t] = o
        /\ \A x \in Object : x # o => rc'[x] = rc[x] /\ ino'[x] = ino[x] /\ (valid'[x] <=> valid[x])
        /\ rc[o] = 0 => ~valid'[o] /\ \A x \in Object : rc[x] > 0 => ino[x] # i
        /\ rc[o] # 0 => ino[o] = i /\ (valid'[o] <=> valid[o])
    BY Zenon DEF Gets, Got
  <1>3. rc[o] \in Nat
    BY <1>1, Typed, Zenon
  <1>4. rc'[o] > 0 /\ rc'[o] \in Nat /\ (rc[o] > 0 => rc[o] # 0) /\ (rc[o] # 0 => rc[o] > 0)
    <2>1. rc'[o] = rc[o] + 1
      BY <1>2, Zenon
    <2> QED BY ONLY <1>3, <2>1
  <1>5. ip[t] = None
    BY <1>1, Zenon DEF Gets, RefAt, Before
  <1>6. o # root
    <2>1. rc[root] > 0 /\ ino[root] = 1
      BY <1>1, RootInUse, Zenon DEF InoInv
    <2> QED BY <1>2, <1>4, <2>1, Zenon
  <1>7. \A x \in Object : rc[x] > 0 => ino'[x] = ino[x] /\ (valid'[x] <=> valid[x])
    BY <1>2, <1>4, Zenon
  <1>8. \A x \in Object : rc[x] > 0 => (Live(x)' <=> Live(x))
    BY <1>7, Zenon DEF Live, Gets
  <1>9. ASSUME NEW x \in Object, rc'[x] > 0, x # o PROVE rc[x] > 0 /\ ino'[x] # i /\ ino[x] # i
    <2>1. rc[x] > 0 /\ ino'[x] = ino[x]
      BY <1>2, <1>9, Zenon
    <2>2. ino[x] # i
      BY <1>1, <1>2, <1>4, <1>9, <2>1, Zenon DEF InoInv, OneObjectPerInode
    <2> QED BY <2>1, <2>2, Zenon
  <1> QED BY <1>4, <1>5, <1>6, <1>7, <1>8, <1>9, Zenon

\* The objects of the others.
LEMMA InUseAt ==
    ASSUME IInv, Tally, NEW u \in Thread
    PROVE  /\ ip[u] # None => ip[u] \in Object /\ ip[u] # root /\ rc[ip[u]] > 0 /\ ino[ip[u]] \in Ino
           /\ open[u] # None => open[u] \in Object /\ open[u] # root /\ rc[open[u]] > 0 /\ ino[open[u]] \in Ino
  <1>1. TypeOK /\ CountInv /\ ThreadInv /\ InoInv
    BY Parts, Zenon
  <1>2. /\ ip[u] # None => ip[u] \in Object /\ ip[u] # root
        /\ open[u] # None => open[u] \in Object /\ open[u] # root
    BY <1>1, Typed, Zenon DEF ThreadInv, RefAt
  <1>3. /\ ip[u] # None => rc[ip[u]] > 0
        /\ open[u] # None => rc[open[u]] > 0
    BY <1>1, <1>2, InUse, Zenon
  <1> QED BY <1>1, <1>2, <1>3, Zenon DEF InoInv

\* The part that outlives a panic.
LEMMA GetsBase ==
    ASSUME IInv, Tally, failed = "no", NEW t \in Thread, NEW i \in Ino, i # 1, NEW o \in Object, Gets(t, i, o), TypeOK'
    PROVE  Base'
  <1>1. TypeOK /\ LockInv /\ ThreadInv /\ CountInv /\ InoInv /\ EntryInv /\ RootInv /\ CallAt(t) /\ RefAt(t)
    BY Parts, PartsAt, Zenon
  <1>2. /\ o # root /\ ip[t] = None /\ rc'[o] > 0
        /\ \A x \in Object : rc[x] > 0 => ino'[x] = ino[x] /\ (Live(x)' <=> Live(x))
        /\ \A x \in Object : rc'[x] > 0 /\ x # o => rc[x] > 0 /\ ino'[x] # i /\ ino[x] # i
    BY GetsKeeps, Zenon
  <1>3. /\ pc[t] \in {"lookup", "alloc"} /\ Only(t)
        /\ (pc'[t] = "unlock_dp" /\ call[t] = "open") \/ (pc'[t] = "lock_ip" /\ call[t] # "open" /\ call[t] # "close")
        /\ call'[t] = call[t] /\ open'[t] = open[t] /\ ip'[t] = o /\ lock' = lock /\ owner' = owner
    BY Zenon DEF Gets, Got
  <1>4. LockInv'
    <2>1. HoldsRoot(t) /\ ~HoldsIp(t)'
      BY <1>3, Zenon DEF HoldsRoot, HoldsIp
    <2> QED BY <1>1, <1>3, <2>1, LockSame, Zenon
  <1>5. ThreadInv'
    <2>1. CallAt(t)'
      BY <1>3, Zenon DEF CallAt
    <2>2. RefAt(t)'
      <3>1. o # None
        BY InodeAssumption, Zenon
      <3>2. pc'[t] \notin Before /\ pc[t] # "user"
        BY <1>3 DEF Before
      <3> QED BY <1>1, <1>2, <1>3, <3>1, <3>2, Zenon DEF RefAt
    <2> QED BY <1>1, <1>3, <2>1, <2>2, ThreadStep, Zenon
  <1>6. CountInv'
    <2>1. ASSUME NEW x \in Object
          PROVE  Pays(t, x)
      <3>1. rc[x] \in Nat /\ rc'[x] \in Nat
        BY <1>1, Typed, Zenon DEF TypeOK
      <3>2. One(open'[t] = x) = One(open[t] = x) /\ One(open[t] = x) \in Nat
        BY <1>3 DEF One
      <3>3. One(ip[t] = x) = 0
        BY <1>2, InodeAssumption, Zenon DEF One
      <3>4. rc'[x] = rc[x] + One(ip'[t] = x) /\ One(ip'[t] = x) \in Nat
        <4>1. CASE x = o
          BY <1>3, <4>1, Zenon DEF Gets, Got, One
        <4>2. CASE x # o
          <5>1. rc'[x] = rc[x] /\ One(ip'[t] = x) = 0
            BY <1>3, <4>2, Zenon DEF Gets, Got, One
          <5> QED BY ONLY <3>1, <5>1
        <4> QED BY <4>1, <4>2, Zenon
      <3> QED BY ONLY <3>1, <3>2, <3>3, <3>4 DEF Pays
    <2> QED BY <1>1, <1>3, <2>1, CountStep, Zenon
  <1>7. InoInv'
    <2>1. ino'[root] = 1
      BY <1>1, <1>2, RootInUse, InodeAssumption, Zenon DEF InoInv
    <2>2. ino'[o] = i
      BY Zenon DEF Gets, Got
    <2>3. \A x \in Object : rc'[x] > 0 => ino'[x] \in Ino
      BY <1>1, <1>2, <2>2, Zenon DEF InoInv
    <2>4. OneObjectPerInode'
      <3>1. ASSUME NEW x \in Object, NEW y \in Object, rc'[x] > 0, rc'[y] > 0, ino'[x] = ino'[y], x # o, y # o
            PROVE  x = y
        BY <1>1, <1>2, <3>1, Zenon DEF InoInv, OneObjectPerInode
      <3> QED BY <1>2, <2>2, <3>1, Zenon DEF OneObjectPerInode
    <2> QED BY <2>1, <2>3, <2>4, Zenon DEF InoInv
  <1>8. EntryInv'
    <2>1. SUFFICES ASSUME NEW x \in Object \ {root}, rc'[x] > 0, Live(x)' PROVE entry'[x] = disk'[ino'[x]]
      BY Zenon DEF EntryInv
    <2>2. CASE x # o
      <3>1. rc[x] > 0 /\ ino'[x] = ino[x] /\ ino[x] # i /\ Live(x) /\ ino[x] \in Ino
        BY <1>1, <1>2, <2>1, <2>2, Zenon DEF InoInv
      <3>2. entry[x] = disk[ino[x]]
        BY <1>1, <3>1, Zenon DEF EntryInv
      <3> QED BY <3>1, <3>2, Zenon DEF Gets
    <2>3. CASE x = o
      <3>1. valid'[o] /\ rc[o] # 0
        BY <2>1, <2>3, Zenon DEF Live, Gets, Got
      <3>2. rc[o] > 0
        BY <1>1, <3>1, Typed
      <3>3. ino[o] = i /\ ino'[o] = i /\ Live(o)
        BY <1>2, <2>1, <2>3, <3>1, <3>2, Zenon DEF Gets, Got
      <3>4. entry[o] = disk[i]
        BY <1>1, <2>1, <2>3, <3>2, <3>3, Zenon DEF EntryInv
      <3>5. disk[i].type # "none"
        BY <3>3, <3>4, Zenon DEF Live
      <3> QED BY <2>3, <3>3, <3>4, <3>5, Zenon DEF Gets, Finds, Makes
    <2> QED BY <2>2, <2>3, Zenon
  <1>9. RootInv'
    <2>1. entry'[root] = entry[root] /\ disk'[1] = disk[1]
      <3>1. 1 \in Ino
        BY InodeAssumption DEF Ino
      <3> QED BY <3>1, Zenon DEF Gets
    <2>2. \A j \in names : disk'[j] = disk[j]
      <3>1. names \subseteq Ino
        BY <1>1, Zenon DEF TypeOK
      <3> QED BY <3>1, Zenon DEF Gets, Finds, Makes
    <2>3. SubDirs' = SubDirs
      BY <2>2, Zenon DEF SubDirs, Gets
    <2> QED BY <1>1, <2>1, <2>3, Zenon DEF RootInv
  <1> QED BY <1>4, <1>5, <1>6, <1>7, <1>8, <1>9, Zenon DEF Base

\* Nobody uses o for long: who frees it, or makes it, is not in the way.
LEMMA GetsCore ==
    ASSUME IInv, Tally, failed = "no", NEW t \in Thread, NEW i \in Ino, i # 1, NEW o \in Object, Gets(t, i, o)
    PROVE  Core'
  <1>1. TypeOK /\ CountInv /\ EntryInv /\ ThreadInv /\ NameInv /\ AllocInv
    BY Parts, Zenon
  <1>2. /\ o # root /\ ip[t] = None /\ rc'[o] > 0
        /\ \A x \in Object : rc[x] > 0 => ino'[x] = ino[x] /\ (valid'[x] <=> valid[x]) /\ (Live(x)' <=> Live(x))
        /\ \A x \in Object : rc'[x] > 0 /\ x # o => rc[x] > 0 /\ ino'[x] # i /\ ino[x] # i
    BY GetsKeeps, Zenon
  <1>3. /\ pc[t] \in {"lookup", "alloc"} /\ Only(t)
        /\ (pc'[t] = "unlock_dp" /\ call[t] = "open") \/ (pc'[t] = "lock_ip" /\ call[t] # "open" /\ call[t] # "close")
        /\ call'[t] = call[t] /\ open'[t] = open[t] /\ ip'[t] = o /\ ino'[o] = i /\ rc'[o] = rc[o] + 1
        /\ names' = names /\ entry' = entry
        /\ \A x \in Object : x # o => rc'[x] = rc[x]
        /\ rc[o] # 0 => ino[o] = i
    BY Zenon DEF Gets, Got
  <1>4. /\ \A j \in Ino : j # i => disk'[j] = disk[j]
        /\ \/ i \in names /\ disk' = disk /\ call[t] \in {"open", "unlink"}
           \/ /\ i \notin names /\ disk[i].type = "none" /\ Creating(t) /\ pc'[t] = "lock_ip"
              /\ disk'[i].type = call[t] /\ disk'[i].links = 0
    BY DEF Gets, Finds, Makes
  <1>5. \A j \in Ino : disk[j].type # "none" => disk'[j] = disk[j]
    BY <1>4, Zenon
  <1>6. \A u \in Thread : u # t => pc'[u] = pc[u] /\ call'[u] = call[u] /\ ip'[u] = ip[u] /\ open'[u] = open[u]
    BY <1>3, Zenon DEF Only
  <1>7. ~Unlinking(t) /\ ~Unlinking(t)'
    BY <1>3, Zenon DEF Unlinking
  <1>8. \A u \in Thread : Unlinking(u)' <=> Unlinking(u)
    <2>1. \A u \in Thread : u # t => (Unlinking(u)' <=> Unlinking(u))
      BY <1>6, Zenon DEF Unlinking
    <2> QED BY <1>7, <2>1, Zenon
  <1>9. \A u \in Thread : /\ ip[u] # None => ip[u] \in Object /\ ip[u] # root /\ rc[ip[u]] > 0 /\ ino[ip[u]] \in Ino
                          /\ open[u] # None => open[u] \in Object /\ open[u] # root /\ rc[open[u]] > 0
    BY InUseAt, Zenon
  <1>10. NameInv'
    <2>1. names \subseteq Ino
      BY <1>1, Zenon DEF TypeOK
    <2> QED BY <1>1, <1>3, <1>5, <2>1, Zenon DEF NameInv
  <1>11. AllocInv'
    <2>1. SUFFICES ASSUME NEW j \in Ino \ {1}, disk'[j].type # "none", j \notin names'
                   PROVE  /\ \E x \in Object : rc'[x] > 0 /\ ino'[x] = j
                          /\ disk'[j].links # 0 => \E u \in Thread : Unlinking(u)' /\ ino'[ip'[u]] = j
      BY Zenon DEF AllocInv
    <2>2. CASE j = i
      BY <1>2, <1>3, <1>4, <2>1, <2>2, Zenon
    <2>3. CASE j # i
      <3>1. disk'[j] = disk[j] /\ disk[j].type # "none" /\ j \notin names
        BY <1>3, <1>4, <2>1, <2>3, Zenon
      <3>2. PICK x \in Object : rc[x] > 0 /\ ino[x] = j
        BY <1>1, <2>1, <3>1, Zenon DEF AllocInv
      <3>3. ino'[x] = j
        BY <1>2, <3>2, Zenon
      <3>4. x # o
        BY <1>3, <2>3, <3>3, Zenon
      <3>5. rc'[x] > 0
        BY <1>3, <3>2, <3>4, Zenon
      <3>6. ASSUME disk[j].links # 0 PROVE \E u \in Thread : Unlinking(u)' /\ ino'[ip'[u]] = j
        <4>1. PICK u \in Thread : Unlinking(u) /\ ino[ip[u]] = j
          BY <1>1, <2>1, <3>1, <3>6, Zenon DEF AllocInv
        <4>2. ip[u] # None /\ u # t
          BY <1>1, <1>7, <4>1, HolderObject, Zenon
        <4>3. ip'[u] = ip[u] /\ ino'[ip[u]] = j
          BY <1>2, <1>6, <1>9, <4>1, <4>2, Zenon
        <4> QED BY <1>8, <4>1, <4>3, Zenon
      <3> QED BY <3>1, <3>3, <3>5, <3>6, Zenon
    <2> QED BY <2>2, <2>3, Zenon
  <1>12. UseAt(t)'
    <2>1. LiveAt(t)'
      <3>1. ~HasEntry(t)'
        BY <1>3, Zenon DEF HasEntry
      <3>2. LiveAt(t)
        BY PartsAt, Zenon
      <3> QED BY <1>2, <1>3, <1>9, <3>1, <3>2, Zenon DEF LiveAt
    <2>2. UnlinkAt(t)'
      <3>1. call[t] = "unlink" => ~Creating(t)
        BY Calls, Zenon
      <3> QED BY <1>3, <1>4, <1>7, <3>1, Zenon DEF UnlinkAt
    <2>3. CreateAt(t)'
      <3>1. call[t] \in {"open", "unlink"} => ~Creating(t)
        BY Calls, Zenon
      <3> QED BY <1>3, <1>4, <3>1, Zenon DEF CreateAt, Creating
    <2>4. SoleAt(t)' /\ DeadAt(t)'
      BY <1>3, Zenon DEF SoleAt, DeadAt, Freed
    <2> QED BY <2>1, <2>2, <2>3, <2>4, Zenon DEF UseAt
  <1>13. ASSUME NEW u \in Thread, u # t PROVE UseAt(u)'
    <2>1. LiveAt(u) /\ UnlinkAt(u) /\ CreateAt(u) /\ SoleAt(u) /\ DeadAt(u)
      BY PartsAt, Zenon
    <2>2. pc'[u] = pc[u] /\ call'[u] = call[u] /\ ip'[u] = ip[u] /\ open'[u] = open[u]
      BY <1>6, <1>13, Zenon
    <2>3. /\ ip[u] # None => ip[u] \in Object /\ ip[u] # root /\ rc[ip[u]] > 0 /\ ino[ip[u]] \in Ino
          /\ ip[u] # None => ino'[ip[u]] = ino[ip[u]]
      BY <1>2, <1>9, Zenon
    <2>4. ASSUME HasEntry(u) PROVE ip[u] # None /\ entry[ip[u]] = disk[ino[ip[u]]] /\ disk[ino[ip[u]]].type # "none"
      <3>1. ip[u] # None /\ Live(ip[u])
        BY <1>1, <2>1, <2>4, HolderObject, Zenon DEF LiveAt
      <3>2. entry[ip[u]] = disk[ino[ip[u]]]
        BY <1>1, <2>3, <3>1, Zenon DEF EntryInv
      <3> QED BY <3>1, <3>2, Zenon DEF Live
    <2>5. LiveAt(u)'
      <3>1. HasEntry(u)' <=> HasEntry(u)
        BY <2>2, Zenon DEF HasEntry
      <3>2. HasEntry(u) => ip[u] # None
        BY <2>4, Zenon
      <3> QED BY <1>2, <1>9, <2>1, <2>2, <3>1, <3>2, Zenon DEF LiveAt
    <2>6. UnlinkAt(u)'
      <3>1. ASSUME call[u] = "unlink", pc[u] \in {"lock_ip", "load", "remove"} PROVE ino'[ip'[u]] \in names'
        <4>1. ip[u] # None
          BY <1>1, <3>1, IpObject, Zenon DEF Before
        <4> QED BY <1>3, <2>1, <2>2, <2>3, <3>1, <4>1, Zenon DEF UnlinkAt
      <3>2. ASSUME Unlinking(u) PROVE ino'[ip'[u]] \notin names' /\ disk'[ino'[ip'[u]]].links = 1
        <4>1. HasEntry(u)
          BY <3>2 DEF Unlinking, HasEntry
        <4>2. ip[u] # None /\ disk[ino[ip[u]]].type # "none"
          BY <2>4, <4>1, Zenon
        <4> QED BY <1>3, <1>5, <2>1, <2>2, <2>3, <3>2, <4>2, Zenon DEF UnlinkAt
      <3>3. ASSUME Unlinking(u), NEW v \in Thread, Unlinking(v)', ip'[v] = ip'[u] PROVE v = u
        BY <1>6, <1>7, <1>8, <2>1, <2>2, <3>3, Zenon DEF UnlinkAt
      <3> QED BY <1>8, <2>2, <3>1, <3>2, <3>3, Zenon DEF UnlinkAt
    <2>7. CreateAt(u)'
      <3>1. SUFFICES ASSUME Creating(u), pc[u] \in {"lock_ip", "load", "link"} PROVE CreateAt(u)'
        BY <2>2, Zenon DEF CreateAt, Creating
      <3>2. ip[u] # None
        BY <1>1, <3>1, IpObject, Zenon DEF Before
      <3>3. disk[ino[ip[u]]].type # "none"
        BY <2>1, <3>1, Calls, Zenon DEF CreateAt
      <3> QED BY <1>3, <1>5, <2>1, <2>2, <2>3, <3>1, <3>2, <3>3, Zenon DEF CreateAt
    <2>8. SoleAt(u)'
      <3>1. SUFFICES ASSUME pc[u] \in {"put_lock", "put_clear"} PROVE SoleAt(u)'
        BY <2>2, Zenon DEF SoleAt
      <3>2. HasEntry(u) /\ rc[ip[u]] = 1 /\ entry[ip[u]].links = 0
        BY <2>1, <3>1, Zenon DEF SoleAt, HasEntry
      <3>3. disk[ino[ip[u]]].links = 0 /\ disk[ino[ip[u]]].type # "none"
        BY <2>4, <3>2, Zenon
      <3>4. ip[u] # o
        <4>1. SUFFICES ASSUME ip[u] = o PROVE FALSE
          BY Zenon
        <4>2. rc[o] # 0
          BY <3>2, <4>1
        <4>3. disk[i].links = 0 /\ disk[i].type # "none"
          BY <1>3, <3>3, <4>1, <4>2, Zenon
        <4>4. i \in names
          BY <1>4, <4>3, Zenon
        <4>5. disk[i].links = 1
          BY <1>1, <4>4, Zenon DEF NameInv
        <4> QED BY ONLY <4>3, <4>5
      <3> QED BY <1>3, <2>2, <2>3, <2>4, <3>2, <3>4, Zenon DEF SoleAt
    <2>9. DeadAt(u)'
      <3>1. SUFFICES ASSUME Freed(u) PROVE DeadAt(u)'
        BY <2>2, Zenon DEF DeadAt, Freed
      <3>2. /\ valid[ip[u]] /\ entry[ip[u]].type = "none" /\ ino[ip[u]] \notin names
            /\ disk[ino[ip[u]]].type # "none" => rc[ip[u]] > 1
            /\ \A v \in Thread : /\ ip[v] = ip[u] /\ v # u => pc[v] = "lock_ip" /\ Creating(v)
                                 /\ open[v] # ip[u]
        BY <2>1, <3>1, Zenon DEF DeadAt
      <3>3. ip[u] \in Object /\ ip[u] # None /\ rc[ip[u]] > 0 /\ ino'[ip[u]] = ino[ip[u]] /\ ino[ip[u]] \in Ino
        BY <1>1, <2>3, <3>1, HolderObject, Zenon
      <3>4. valid'[ip'[u]] /\ entry'[ip'[u]].type = "none" /\ ino'[ip'[u]] \notin names'
        BY <1>2, <1>3, <2>2, <3>2, <3>3, Zenon
      <3>5. disk'[ino'[ip'[u]]].type # "none" => rc'[ip'[u]] > 1
        <4>1. CASE ip[u] = o
          <5>1. rc'[o] = rc[o] + 1 /\ rc[o] > 0 /\ rc[o] \in Nat
            BY <1>1, <1>3, <3>3, <4>1, Typed, Zenon
          <5>2. rc'[o] > 1
            BY ONLY <5>1
          <5> QED BY <2>2, <4>1, <5>2, Zenon
        <4>2. CASE ip[u] # o
          <5>1. rc'[ip[u]] = rc[ip[u]]
            BY <1>3, <3>3, <4>2, Zenon
          <5>2. ino[ip[u]] # i
            BY <1>2, <3>3, <4>2, <5>1, Zenon
          <5>3. disk'[ino[ip[u]]] = disk[ino[ip[u]]]
            BY <1>4, <3>3, <5>2, Zenon
          <5> QED BY ONLY <2>2, <3>2, <3>3, <5>1, <5>3, Zenon
        <4> QED BY <4>1, <4>2, Zenon
      <3>6. ASSUME NEW v \in Thread
            PROVE  (ip'[v] = ip'[u] /\ v # u => pc'[v] = "lock_ip" /\ Creating(v)') /\ open'[v] # ip'[u]
        <4>1. CASE v # t
          <5>1. pc'[v] = pc[v] /\ call'[v] = call[v] /\ ip'[v] = ip[v] /\ open'[v] = open[v]
            BY <1>6, <4>1, Zenon
          <5> QED BY <2>2, <3>2, <5>1, Zenon DEF Creating
        <4>2. CASE v = t
          <5>1. ip[u] = o => i \notin names
            BY <1>3, <2>3, <3>2, <3>3, Zenon
          <5>2. ip[u] = o => pc'[t] = "lock_ip" /\ Creating(t)
            BY <1>4, <5>1, Zenon
          <5> QED BY <1>3, <2>2, <3>2, <4>2, <5>2, Zenon DEF Creating
        <4> QED BY <4>1, <4>2, Zenon
      <3> QED BY <3>4, <3>5, <3>6, Zenon DEF DeadAt
    <2> QED BY <2>5, <2>6, <2>7, <2>8, <2>9, Zenon DEF UseAt
  <1> QED BY <1>10, <1>11, <1>12, <1>13, Zenon DEF Core

\* A step that gets an object preserves the invariant.
LEMMA GetsStep ==
    ASSUME IInv, Tally, failed = "no", NEW t \in Thread, NEW i \in Ino, i # 1, NEW o \in Object, Gets(t, i, o), TypeOK'
    PROVE  IInv'
  BY GetsBase, GetsCore, Zenon DEF IInv

\* lookup_found gets the inode of a name.
LEMMA LookupFoundStep ==
    ASSUME IInv, Tally, NEW t \in Thread, lookup_found(t) PROVE IInv'
  <1> DEFINE label == IF call[t] = "open" THEN "unlock_dp" ELSE "lock_ip"
  <1>1. /\ failed = "no" /\ pc[t] = "lookup" /\ Goto(t, label)
        /\ disk' = disk /\ names' = names /\ entry' = entry /\ lock' = lock /\ owner' = owner
        /\ treeOwner' = treeOwner /\ cpu' = cpu /\ open' = open /\ call' = call /\ failed' = failed
    BY Zenon DEF lookup_found, At
  <1>2. PICK i \in names : inode_get(t, i)
    BY Zenon DEF lookup_found
  <1>3. TypeOK /\ InoInv /\ CallAt(t) /\ i \in Ino /\ i # 1
    BY <1>1, <1>2, Parts, PartsAt, Zenon DEF TypeOK
  <1>4. GetTyped /\ \E o \in Object : Got(t, i, o)
    BY <1>2, <1>3, GetEffect, Zenon
  <1>5. PICK o \in Object : Got(t, i, o)
    BY <1>4, Zenon
  <1>6. call[t] \in {"open", "unlink"}
    BY <1>1, <1>3, Zenon DEF CallAt
  <1>7. (label = "unlock_dp" /\ call[t] = "open") \/ (label = "lock_ip" /\ call[t] # "open" /\ call[t] # "close")
    BY <1>6, Zenon
  <1>8. label \in Pc
    BY Zenon DEF Pc
  <1> HIDE DEF label
  <1>9. Changed(pc, pc', Thread, Pc, t, label)
    BY <1>1, <1>3, <1>8, GotoEffect, Zenon
  <1>10. Only(t) /\ pc'[t] = label
    BY <1>1, <1>5, <1>9, Zenon DEF Only, Got, Changed
  <1>11. Gets(t, i, o)
    BY <1>1, <1>2, <1>4, <1>5, <1>6, <1>7, <1>10, Zenon DEF Gets, Finds
  <1>12. TypeOK'
    BY <1>1, <1>3, <1>4, <1>9, Zenon DEF TypeOK, GetTyped, Changed
  <1> QED BY <1>1, <1>3, <1>11, <1>12, GetsStep, Zenon

\* inode_alloc gets a free inode.
LEMMA InodeAllocStep ==
    ASSUME IInv, Tally, NEW t \in Thread, inode_alloc(t) PROVE IInv'
  <1>3. PICK i \in FreeInodes : disk' = [disk EXCEPT ![i] = [type |-> call[t], links |-> 0]] /\ inode_get(t, i)
    BY Zenon DEF inode_alloc
  <1>1. /\ failed = "no" /\ pc[t] = "alloc" /\ Goto(t, "lock_ip")
        /\ disk' = [disk EXCEPT ![i] = [type |-> call[t], links |-> 0]] /\ inode_get(t, i)
        /\ names' = names /\ entry' = entry /\ lock' = lock /\ owner' = owner
        /\ treeOwner' = treeOwner /\ cpu' = cpu /\ open' = open /\ call' = call /\ failed' = failed
    BY <1>3, Zenon DEF inode_alloc, At
  <1>2. TypeOK /\ InoInv /\ RootInv /\ NameInv /\ CallAt(t)
    BY <1>1, Parts, PartsAt, Zenon
  <1>4. i \in Ino /\ disk[i].type = "none" /\ i # 1 /\ i \notin names
    <2>1. i \in Ino /\ disk[i].type = "none"
      BY <1>3, Zenon DEF FreeInodes
    <2>2. i # 1
      <3>1. disk[1].type = "dir"
        BY <1>2, Zenon DEF RootInv
      <3> QED BY <2>1, <3>1
    <2> QED BY <1>2, <2>1, <2>2, Zenon DEF NameInv
  <1>5. Creating(t) /\ call[t] # "open" /\ call[t] # "close" /\ call[t] \in {"none", "file", "dir"}
    BY <1>1, <1>2, Calls, Zenon DEF CallAt
  <1>6. [type |-> call[t], links |-> 0] \in Entry
    BY <1>5 DEF Entry
  <1>7. Changed(disk, disk', Ino, Entry, i, [type |-> call[t], links |-> 0])
    <2>1. disk \in [Ino -> Entry]
      BY <1>2, Zenon DEF TypeOK
    <2> QED BY <1>1, <1>4, <1>6, <2>1, ExceptChanges, Zenon
  <1>8. GetTyped /\ \E o \in Object : Got(t, i, o)
    BY <1>1, <1>2, <1>4, GetEffect, Zenon
  <1>9. PICK o \in Object : Got(t, i, o)
    BY <1>8, Zenon
  <1>10. "lock_ip" \in Pc
    BY Zenon DEF Pc
  <1>11. Changed(pc, pc', Thread, Pc, t, "lock_ip")
    BY <1>1, <1>2, <1>10, GotoEffect, Zenon
  <1>12. Only(t) /\ pc'[t] = "lock_ip"
    BY <1>1, <1>9, <1>11, Zenon DEF Only, Got, Changed
  <1>13. Makes(t, i) /\ \A j \in Ino : j # i => disk'[j] = disk[j]
    BY <1>4, <1>5, <1>7, <1>12, Zenon DEF Makes, Changed
  <1>14. Gets(t, i, o)
    BY <1>1, <1>5, <1>8, <1>9, <1>12, <1>13, Zenon DEF Gets
  <1>15. TypeOK'
    BY <1>1, <1>2, <1>7, <1>8, <1>11, Zenon DEF TypeOK, GetTyped, Changed
  <1> QED BY <1>1, <1>4, <1>14, <1>15, GetsStep, Zenon

-----------------------------------------------------------------------------
(* The steps that change an inode: load, link, remove, unlink, put_clear *)

\* Process t, which has locked it, changes its inode and perhaps the root.
Writes(t) ==
    /\ pc[t] \in {"load", "link", "remove", "unlink", "put_clear"}
    /\ Only(t) /\ Same /\ ino' = ino /\ rc' = rc /\ lock' = lock /\ owner' = owner
    /\ \A x \in Object : x # ip[t] => (x # root => entry'[x] = entry[x]) /\ (valid'[x] <=> valid[x])
    /\ \A j \in Ino : j # ino[ip[t]] => (j # 1 => disk'[j] = disk[j]) /\ (j \in names' <=> j \in names)

\* The other objects in use belong to other inodes.
LEMMA WritesKeeps ==
    ASSUME IInv, Tally, NEW t \in Thread, Writes(t)
    PROVE  /\ ip[t] \in Object /\ ip[t] # root /\ ip[t] # None /\ rc[ip[t]] > 0
           /\ ino[ip[t]] \in Ino /\ ino[ip[t]] # 1 /\ owner[ip[t]] = t
           /\ \A x \in Object : rc[x] > 0 /\ x # ip[t] /\ x # root =>
                 /\ ino[x] \in Ino /\ ino[x] # ino[ip[t]] /\ ino[x] # 1
                 /\ disk'[ino[x]] = disk[ino[x]] /\ entry'[x] = entry[x] /\ (valid'[x] <=> valid[x])
                 /\ Live(x)' <=> Live(x)
                 /\ ino[x] \in names' <=> ino[x] \in names
  <1>1. TypeOK /\ ThreadInv /\ CountInv /\ InoInv /\ LockInv
    BY Parts, Zenon
  <1>2. HoldsIp(t)
    BY DEF Writes, HoldsIp
  <1>3. ip[t] \in Object /\ ip[t] # root /\ ip[t] # None /\ owner[ip[t]] = t
    BY <1>1, <1>2, HolderObject, Zenon DEF LockInv
  <1>4. rc[ip[t]] > 0 /\ ino[ip[t]] \in Ino
    BY <1>3, InUseAt, Zenon
  <1>5. rc[root] > 0 /\ ino[root] = 1 /\ root \in Object
    BY <1>1, RootInUse, InodeAssumption, Zenon DEF InoInv
  <1>6. ino[ip[t]] # 1
    BY <1>1, <1>3, <1>4, <1>5, Zenon DEF InoInv, OneObjectPerInode
  <1>7. ASSUME NEW x \in Object, rc[x] > 0, x # ip[t], x # root
        PROVE  /\ ino[x] \in Ino /\ ino[x] # ino[ip[t]] /\ ino[x] # 1
               /\ disk'[ino[x]] = disk[ino[x]] /\ entry'[x] = entry[x] /\ (valid'[x] <=> valid[x])
               /\ Live(x)' <=> Live(x)
               /\ ino[x] \in names' <=> ino[x] \in names
    <2>1. ino[x] \in Ino /\ ino[x] # ino[ip[t]] /\ ino[x] # 1
      BY <1>1, <1>3, <1>4, <1>5, <1>7, Zenon DEF InoInv, OneObjectPerInode
    <2>2. /\ disk'[ino[x]] = disk[ino[x]]
          /\ ino[x] \in names' <=> ino[x] \in names
      BY <2>1, Zenon DEF Writes
    <2>3. entry'[x] = entry[x] /\ (valid'[x] <=> valid[x])
      BY <1>7, Zenon DEF Writes
    <2>4. Live(x)' <=> Live(x)
      BY ONLY <2>3, Zenon DEF Live
    <2> QED BY <2>1, <2>2, <2>3, <2>4, Zenon
  <1> QED BY <1>3, <1>4, <1>6, <1>7, Zenon

\* The part that outlives a panic: the new entry reaches the disk.
LEMMA WritesBase ==
    ASSUME IInv, Tally, NEW t \in Thread, Writes(t), TypeOK', HoldsRoot(t)' => HoldsRoot(t), CallAt(t)', RefAt(t)',
           Live(ip[t])' => entry'[ip[t]] = disk'[ino[ip[t]]], RootInv'
    PROVE  Base'
  <1>1. TypeOK /\ LockInv /\ ThreadInv /\ CountInv /\ InoInv /\ EntryInv
    BY Parts, Zenon
  <1>2. Only(t) /\ call'[t] = call[t] /\ ip'[t] = ip[t] /\ open'[t] = open[t] /\ ino' = ino /\ rc' = rc
        /\ lock' = lock /\ owner' = owner
    BY Zenon DEF Writes, Same
  <1>3. LockInv'
    <2>1. HoldsIp(t)
      BY DEF Writes, HoldsIp
    <2> QED BY <1>1, <1>2, <2>1, LockSame, Zenon
  <1>4. ThreadInv'
    BY <1>1, <1>2, ThreadStep, Zenon
  <1>5. CountInv'
    BY <1>1, <1>2, CountSame, Zenon
  <1>6. InoInv'
    BY <1>1, <1>2, Zenon DEF InoInv, OneObjectPerInode
  <1>7. EntryInv'
    <2>1. SUFFICES ASSUME NEW x \in Object \ {root}, rc[x] > 0, Live(x)' PROVE entry'[x] = disk'[ino[x]]
      BY <1>2, Zenon DEF EntryInv
    <2>2. CASE x = ip[t]
      BY <1>2, <2>1, <2>2, Zenon DEF Live
    <2>3. CASE x # ip[t]
      <3>1. \A y \in Object : rc[y] > 0 /\ y # ip[t] /\ y # root =>
                 /\ ino[y] \in Ino /\ ino[y] # ino[ip[t]] /\ ino[y] # 1
                 /\ disk'[ino[y]] = disk[ino[y]] /\ entry'[y] = entry[y] /\ (valid'[y] <=> valid[y])
                 /\ Live(y)' <=> Live(y)
                 /\ ino[y] \in names' <=> ino[y] \in names
        BY WritesKeeps, Zenon
      <3>2. disk'[ino[x]] = disk[ino[x]] /\ entry'[x] = entry[x] /\ (Live(x)' <=> Live(x))
        BY <2>1, <2>3, <3>1, Zenon
      <3> QED BY <1>1, <2>1, <3>2, Zenon DEF EntryInv
    <2> QED BY <2>2, <2>3, Zenon
  <1> QED BY <1>3, <1>4, <1>5, <1>6, <1>7, Zenon DEF Base

\* What the step owes to a process u that has a reference to the same object.
Shares(t, u) ==
    LET i == ino[ip[t]]
    IN  /\ Live(ip[t]) => Live(ip[t])'
        /\ ip[u] = ip[t] =>
              /\ call[u] = "unlink" /\ pc[u] \in {"lock_ip", "load", "remove"} => i \in names'
              /\ Unlinking(u) => i \notin names' /\ disk'[i].links = 1 /\ ~Unlinking(t)'
              /\ Creating(u) /\ pc[u] \in {"lock_ip", "load", "link"} => i \notin names' /\ disk'[i] = disk[i]

\* And to the inode itself.
Fits(t) ==
    LET i == ino[ip[t]]
    IN  /\ i \in names' => disk'[i].type # "none" /\ disk'[i].links = 1
        /\ disk'[i].type # "none" /\ i \notin names' /\ disk'[i].links # 0 =>
              \E u \in Thread : Unlinking(u)' /\ ino[ip[u]] = i

\* The part about names, links and uses.
LEMMA WritesCore ==
    ASSUME IInv, Tally, failed = "no", NEW t \in Thread, Writes(t), TypeOK', UseAt(t)', Fits(t),
           \A u \in Thread : u # t /\ (ip[u] = ip[t] \/ open[u] = ip[t]) => Shares(t, u)
    PROVE  Core'
  <1>1. TypeOK /\ ThreadInv /\ CountInv /\ NameInv /\ AllocInv
    BY Parts, Zenon
  <1>2. /\ ip[t] \in Object /\ ip[t] # root /\ ip[t] # None /\ rc[ip[t]] > 0
        /\ ino[ip[t]] \in Ino /\ ino[ip[t]] # 1
        /\ \A x \in Object : rc[x] > 0 /\ x # ip[t] /\ x # root =>
                 /\ ino[x] \in Ino /\ ino[x] # ino[ip[t]] /\ ino[x] # 1
                 /\ disk'[ino[x]] = disk[ino[x]] /\ entry'[x] = entry[x] /\ (valid'[x] <=> valid[x])
                 /\ Live(x)' <=> Live(x)
                 /\ ino[x] \in names' <=> ino[x] \in names
    BY WritesKeeps, Zenon
  <1>3. /\ pc[t] # "lock_ip" /\ ip' = ip /\ open' = open /\ call' = call /\ ino' = ino /\ rc' = rc
        /\ \A u \in Thread : u # t => pc'[u] = pc[u]
        /\ \A j \in Ino : j # ino[ip[t]] => (j # 1 => disk'[j] = disk[j]) /\ (j \in names' <=> j \in names)
    BY DEF Writes, Same, Only
  <1>4. \A u \in Thread : u # t => (Unlinking(u)' <=> Unlinking(u))
    BY <1>3, Zenon DEF Unlinking
  <1>5. NameInv'
    <2>1. SUFFICES ASSUME NEW j \in names' PROVE disk'[j].type # "none" /\ disk'[j].links = 1
      BY Zenon DEF NameInv
    <2>2. CASE j = ino[ip[t]]
      BY <2>1, <2>2, Zenon DEF Fits
    <2>3. CASE j # ino[ip[t]]
      <3>1. j \in Ino /\ j # 1
        BY <2>1, Zenon DEF TypeOK
      <3>2. disk'[j] = disk[j] /\ j \in names
        BY <1>3, <2>1, <2>3, <3>1, Zenon
      <3> QED BY <1>1, <3>2, Zenon DEF NameInv
    <2> QED BY <2>2, <2>3, Zenon
  <1>6. AllocInv'
    <2>1. SUFFICES ASSUME NEW j \in Ino \ {1}, disk'[j].type # "none", j \notin names'
                   PROVE  /\ \E x \in Object : rc[x] > 0 /\ ino[x] = j
                          /\ disk'[j].links # 0 => \E u \in Thread : Unlinking(u)' /\ ino[ip[u]] = j
      BY <1>3, Zenon DEF AllocInv
    <2>2. CASE j = ino[ip[t]]
      BY <1>2, <2>1, <2>2, Zenon DEF Fits
    <2>3. CASE j # ino[ip[t]]
      <3>1. disk'[j] = disk[j] /\ j \notin names /\ j \in Ino
        BY <1>3, <2>1, <2>3, Zenon
      <3>2. \E x \in Object : rc[x] > 0 /\ ino[x] = j
        BY <1>1, <2>1, <3>1, Zenon DEF AllocInv
      <3>3. disk[j].links # 0 => \E u \in Thread : Unlinking(u) /\ ino[ip[u]] = j
        BY <1>1, <2>1, <3>1, Zenon DEF AllocInv
      <3>4. disk[j].links # 0 => \E u \in Thread : Unlinking(u)' /\ ino[ip[u]] = j
        BY <1>4, <2>3, <3>3, Zenon
      <3> QED BY <3>1, <3>2, <3>4, Zenon
    <2> QED BY <2>2, <2>3, Zenon
  <1>7. ASSUME NEW u \in Thread, u # t PROVE UseAt(u)'
    <2>1. LiveAt(u) /\ UnlinkAt(u) /\ CreateAt(u) /\ SoleAt(u) /\ DeadAt(u)
      BY PartsAt, Zenon
    <2>2. pc'[u] = pc[u] /\ call'[u] = call[u] /\ ip'[u] = ip[u] /\ open'[u] = open[u]
      BY <1>3, <1>7, Zenon
    <2>3. /\ ip[u] # None => ip[u] \in Object /\ ip[u] # root /\ rc[ip[u]] > 0 /\ ino[ip[u]] \in Ino
          /\ open[u] # None => open[u] \in Object /\ open[u] # root /\ rc[open[u]] > 0
      BY InUseAt, Zenon
    <2>4. ip[u] = ip[t] \/ open[u] = ip[t] => Shares(t, u)
      BY <1>7, Zenon
    <2>5. LiveAt(u)'
      <3>1. HasEntry(u)' <=> HasEntry(u)
        BY <2>2, Zenon DEF HasEntry
      <3>2. ASSUME HasEntry(u) PROVE Live(ip[u])'
        <4>1. Live(ip[u]) /\ ip[u] # None
          BY <1>1, <2>1, <3>2, HolderObject, Zenon DEF LiveAt
        <4>2. CASE ip[u] = ip[t]
          BY <1>3, <2>2, <2>4, <4>1, <4>2, Zenon DEF Shares, Live
        <4>3. CASE ip[u] # ip[t]
          BY <1>2, <2>2, <2>3, <4>1, <4>3, Zenon DEF Live
        <4> QED BY <4>2, <4>3, Zenon
      <3>3. ASSUME open[u] # None PROVE Live(open[u])'
        <4>1. Live(open[u])
          BY <2>1, <3>3, Zenon DEF LiveAt
        <4>2. CASE open[u] = ip[t]
          BY <1>3, <2>2, <2>4, <4>1, <4>2, Zenon DEF Shares, Live
        <4>3. CASE open[u] # ip[t]
          BY <1>2, <2>2, <2>3, <3>3, <4>1, <4>3, Zenon DEF Live
        <4> QED BY <4>2, <4>3, Zenon
      <3> QED BY <2>2, <3>1, <3>2, <3>3, Zenon DEF LiveAt, Live
    <2>6. UnlinkAt(u)'
      <3>1. ASSUME call[u] = "unlink", pc[u] \in {"lock_ip", "load", "remove"} PROVE ino'[ip'[u]] \in names'
        <4>1. ip[u] # None /\ ino[ip[u]] \in names
          BY <1>1, <2>1, <3>1, IpObject, Zenon DEF Before, UnlinkAt
        <4>2. CASE ip[u] = ip[t]
          BY <1>3, <2>2, <2>4, <3>1, <4>2, Zenon DEF Shares
        <4>3. CASE ip[u] # ip[t]
          BY <1>2, <1>3, <2>2, <2>3, <4>1, <4>3, Zenon
        <4> QED BY <4>2, <4>3, Zenon
      <3>2. ASSUME Unlinking(u) PROVE ino'[ip'[u]] \notin names' /\ disk'[ino'[ip'[u]]].links = 1
        <4>1. ip[u] # None /\ ino[ip[u]] \notin names /\ disk[ino[ip[u]]].links = 1
          BY <1>1, <2>1, <3>2, HolderObject, Zenon DEF UnlinkAt
        <4>2. CASE ip[u] = ip[t]
          BY <1>3, <2>2, <2>4, <3>2, <4>2, Zenon DEF Shares
        <4>3. CASE ip[u] # ip[t]
          BY <1>2, <1>3, <2>2, <2>3, <4>1, <4>3, Zenon
        <4> QED BY <4>2, <4>3, Zenon
      <3>3. ASSUME Unlinking(u), NEW v \in Thread, Unlinking(v)', ip'[v] = ip'[u] PROVE v = u
        <4>1. CASE v = t
          BY <1>3, <2>4, <3>3, <4>1, Zenon DEF Shares
        <4>2. CASE v # t
          BY <1>3, <1>4, <2>1, <3>3, <4>2, Zenon DEF UnlinkAt
        <4> QED BY <4>1, <4>2, Zenon
      <3> QED BY <1>4, <1>7, <2>2, <3>1, <3>2, <3>3, Zenon DEF UnlinkAt
    <2>7. CreateAt(u)'
      <3>1. SUFFICES ASSUME Creating(u), pc[u] \in {"lock_ip", "load", "link"} PROVE CreateAt(u)'
        BY <2>2, Zenon DEF CreateAt, Creating
      <3>2. ip[u] # None
        BY <1>1, <3>1, IpObject, Zenon DEF Before
      <3>3. ino[ip[u]] \notin names' /\ disk'[ino[ip[u]]] = disk[ino[ip[u]]]
        <4>1. CASE ip[u] = ip[t]
          BY <2>4, <3>1, <4>1, Zenon DEF Shares
        <4>2. CASE ip[u] # ip[t]
          BY <1>2, <2>1, <2>3, <3>1, <3>2, <4>2, Zenon DEF CreateAt
        <4> QED BY <4>1, <4>2, Zenon
      <3> QED BY <1>3, <2>1, <2>2, <3>1, <3>3, Zenon DEF CreateAt
    <2>8. SoleAt(u)'
      <3>1. SUFFICES ASSUME pc[u] \in {"put_lock", "put_clear"} PROVE SoleAt(u)'
        BY <2>2, Zenon DEF SoleAt
      <3>2. ip[u] # None /\ rc[ip[u]] = 1 /\ entry[ip[u]].links = 0
        BY <1>1, <2>1, <3>1, IpObject, Zenon DEF SoleAt, Before
      <3>3. ip[u] # ip[t]
        <4>1. SUFFICES ASSUME ip[u] = ip[t] PROVE FALSE
          BY Zenon
        <4>2. rc[ip[u]] > 1
          BY <1>1, <1>2, <1>7, <4>1, TwoUsers, Zenon
        <4> QED BY ONLY <3>2, <4>2
      <3> QED BY <1>2, <1>3, <2>2, <2>3, <3>2, <3>3, Zenon DEF SoleAt
    <2>9. DeadAt(u)'
      <3>1. SUFFICES ASSUME Freed(u) PROVE DeadAt(u)'
        BY <2>2, Zenon DEF DeadAt, Freed
      <3>2. /\ valid[ip[u]] /\ entry[ip[u]].type = "none" /\ ino[ip[u]] \notin names
            /\ disk[ino[ip[u]]].type # "none" => rc[ip[u]] > 1
            /\ \A v \in Thread : /\ ip[v] = ip[u] /\ v # u => pc[v] = "lock_ip" /\ Creating(v)
                                 /\ open[v] # ip[u]
        BY <2>1, <3>1, Zenon DEF DeadAt
      <3>3. ip[u] # ip[t] /\ ip[u] # None
        BY <1>1, <1>3, <1>7, <3>1, <3>2, HolderObject, Zenon
      <3>4. /\ disk'[ino[ip[u]]] = disk[ino[ip[u]]] /\ entry'[ip[u]] = entry[ip[u]] /\ valid'[ip[u]]
            /\ ino[ip[u]] \notin names'
        BY <1>2, <2>3, <3>2, <3>3, Zenon
      <3>5. \A v \in Thread : /\ ip'[v] = ip'[u] /\ v # u => pc'[v] = "lock_ip" /\ Creating(v)'
                              /\ open'[v] # ip'[u]
        BY <1>3, <3>2, <3>3, Zenon DEF Creating
      <3> QED BY <1>3, <3>2, <3>4, <3>5, Zenon DEF DeadAt
    <2> QED BY <2>5, <2>6, <2>7, <2>8, <2>9, Zenon DEF UseAt
  <1> QED BY <1>5, <1>6, <1>7, Zenon DEF Core

\* The two together.
LEMMA WritesStep ==
    ASSUME IInv, Tally, failed = "no", NEW t \in Thread, Writes(t), TypeOK', HoldsRoot(t)' => HoldsRoot(t),
           CallAt(t)', RefAt(t)', Live(ip[t])' => entry'[ip[t]] = disk'[ino[ip[t]]], RootInv', UseAt(t)', Fits(t),
           \A u \in Thread : u # t /\ (ip[u] = ip[t] \/ open[u] = ip[t]) => Shares(t, u)
    PROVE  IInv'
  <1>1. Base'
    BY WritesBase, Zenon
  <1>2. Core'
    BY WritesCore, Zenon
  <1> QED BY <1>1, <1>2, Zenon DEF IInv

\* The entry of an inode that is open stays.
LEMMA OpenKept ==
    ASSUME IInv, Tally, failed = "no", NEW t \in Thread, Writes(t), open[t] # None,
           open[t] = ip[t] => (Live(ip[t]) => Live(ip[t])')
    PROVE  Live(open[t])'
  <1>1. open[t] \in Object /\ open[t] # root /\ rc[open[t]] > 0
    BY InUseAt, Zenon
  <1>2. Live(open[t])
    BY PartsAt, Zenon DEF LiveAt
  <1>3. ip'[t] = ip[t] /\ open'[t] = open[t]
    BY Zenon DEF Writes, Same
  <1>4. CASE open[t] = ip[t]
    BY <1>2, <1>3, <1>4, Zenon DEF Live
  <1>5. CASE open[t] # ip[t]
    <2>1. entry'[open[t]] = entry[open[t]] /\ (valid'[open[t]] <=> valid[open[t]])
      BY <1>1, <1>5, Zenon DEF Writes
    <2> QED BY ONLY <1>2, <1>3, <2>1, Zenon DEF Live
  <1> QED BY <1>4, <1>5, Zenon

\* The directories in the root are counted as long as no name comes or goes.
LEMMA RootSame ==
    ASSUME RootInv, entry'[root] = entry[root], disk'[1] = disk[1], names' = names,
           \A j \in names : disk'[j].type = disk[j].type
    PROVE  RootInv'
  <1>1. SubDirs' = SubDirs
    BY Zenon DEF SubDirs
  <1> QED BY <1>1, Zenon DEF RootInv

\* load reads the entry of the inode.
LEMMA LoadStep ==
    ASSUME IInv, Tally, NEW t \in Thread, load(t) PROVE IInv'
  <1> DEFINE o == ip[t]
             i == ino[o]
  <1>1. /\ failed = "no" /\ pc[t] = "load"
        /\ entry' = [entry EXCEPT ![o] = disk[i]] /\ valid' = [valid EXCEPT ![o] = TRUE]
        /\ disk' = disk /\ names' = names /\ ino' = ino /\ rc' = rc /\ Same
        /\ lock' = lock /\ owner' = owner /\ treeOwner' = treeOwner /\ cpu' = cpu
    BY Zenon DEF load, At, Same
  <1>2. /\ disk[i].type = "none" => failed' = "type" /\ pc' = pc
        /\ disk[i].type # "none" => Goto(t, AfterLock(t)) /\ failed' = failed
    BY Zenon DEF load
  <1>3. /\ TypeOK /\ ThreadInv /\ LockInv /\ RootInv /\ NameInv /\ AllocInv
        /\ CallAt(t) /\ RefAt(t) /\ LiveAt(t) /\ UnlinkAt(t) /\ CreateAt(t)
    BY <1>1, Parts, PartsAt, Zenon
  <1>4. o \in Object /\ o # root /\ o # None
    BY <1>1, <1>3, IpObject, Zenon DEF Before
  <1>5. i \in Ino
    BY <1>4, InUseAt, Zenon
  <1> HIDE DEF o, i
  <1>6. Changed(entry, entry', Object, Entry, o, disk[i])
    <2>1. entry \in [Object -> Entry] /\ disk[i] \in Entry
      BY <1>3, <1>5, Zenon DEF TypeOK
    <2> QED BY <1>1, <1>4, <2>1, ExceptChanges, Zenon
  <1>7. Changed(valid, valid', Object, BOOLEAN, o, TRUE)
    <2>1. valid \in [Object -> BOOLEAN] /\ TRUE \in BOOLEAN
      BY <1>3, Zenon DEF TypeOK
    <2> QED BY ONLY <1>1, <1>4, <2>1, ExceptChanges, Zenon
  <1>8. /\ entry'[o] = disk[i] /\ valid'[o] /\ \A x \in Object : x # o => entry'[x] = entry[x]
        /\ \A x \in Object : x # o => (valid'[x] <=> valid[x])
    BY ONLY <1>6, <1>7, Zenon DEF Changed
  <1>9. call'[t] = call[t] /\ ip'[t] = ip[t] /\ open'[t] = open[t]
    BY <1>1, Zenon DEF Same
  <1>10. RootInv'
    BY <1>1, <1>3, <1>4, <1>8, RootSame, InodeAssumption, Zenon
  <1>11. Live(ip[t])' => entry'[ip[t]] = disk'[ino[ip[t]]]
    BY <1>1, <1>8, Zenon DEF o, i
  <1>12. ASSUME Only(t) PROVE Writes(t)
    BY <1>1, <1>8, <1>12, Zenon DEF Writes, o
  <1>13. CASE disk[i].type = "none"
    <2>1. failed' = "type" /\ pc' = pc /\ failed' # "no"
      BY <1>2, <1>13
    <2>2. Only(t) /\ pc'[t] = pc[t]
      BY <1>1, <2>1, Zenon DEF Only, Same
    <2>3. TypeOK'
      BY <1>1, <1>3, <1>6, <1>7, <2>1, Zenon DEF TypeOK, Same, Changed
    <2>4. CallAt(t)' /\ RefAt(t)' /\ (HoldsRoot(t)' => HoldsRoot(t))
      BY <1>3, <1>9, <2>2, Zenon DEF CallAt, RefAt, Creating, HoldsRoot
    <2>5. Base'
      BY <1>10, <1>11, <1>12, <2>2, <2>3, <2>4, WritesBase, Zenon
    <2> QED BY <2>1, <2>5, Zenon DEF IInv
  <1>14. CASE disk[i].type # "none"
    <2> DEFINE label == AfterLock(t)
    <2>1. Goto(t, label) /\ failed' = failed /\ call[t] # "close"
      BY <1>1, <1>2, <1>3, <1>14, Zenon DEF CallAt
    <2>2. /\ label \in {"unlock_ip", "remove", "link"}
          /\ label = "unlock_ip" => call[t] = "open"
          /\ label = "remove" => call[t] = "unlink"
          /\ label = "link" => Creating(t) /\ call[t] # "open"
      BY <1>3, <2>1, AfterLockPlace, Calls, Zenon
    <2> HIDE DEF label
    <2>3. label \in Pc
      BY <2>2, Zenon DEF Pc
    <2>4. Only(t) /\ pc' \in [Thread -> Pc] /\ pc'[t] = label
      BY <1>1, <1>3, <2>1, <2>3, GotoOnly, Zenon
    <2>5. TypeOK'
      BY <1>1, <1>3, <1>6, <1>7, <2>1, <2>4, Zenon DEF TypeOK, Same, Changed
    <2>6. HoldsRoot(t)' => HoldsRoot(t)
      BY <1>1, <1>9, <2>2, <2>4, Zenon DEF HoldsRoot
    <2>7. CallAt(t)'
      BY <1>9, <2>1, <2>2, <2>4, Zenon DEF CallAt, Creating
    <2>8. RefAt(t)'
      BY <1>1, <1>3, <1>4, <1>9, <2>2, <2>4, Zenon DEF RefAt, Before, o
    <2>9. Writes(t)
      BY <1>12, <2>4, Zenon
    <2>10. Live(ip[t])'
      BY <1>8, <1>9, <1>14, Zenon DEF Live, o
    <2>11. ~Unlinking(t) /\ ~Unlinking(t)'
      BY <1>1, <2>2, <2>4, Zenon DEF Unlinking
    <2>12. UseAt(t)'
      <3>1. LiveAt(t)'
        BY <1>1, <1>9, <2>9, <2>10, OpenKept, Zenon DEF LiveAt
      <3>2. UnlinkAt(t)' /\ CreateAt(t)'
        BY <1>1, <1>3, <1>9, <2>2, <2>4, <2>11, Zenon DEF UnlinkAt, CreateAt, Creating
      <3>3. SoleAt(t)' /\ DeadAt(t)'
        BY <2>2, <2>4, Zenon DEF SoleAt, DeadAt, Freed
      <3> QED BY <3>1, <3>2, <3>3, Zenon DEF UseAt
    <2>13. i # 1
      BY <2>9, WritesKeeps, Zenon DEF i, o
    <2>14. Fits(t)
      <3>1. i \in names => disk[i].type # "none" /\ disk[i].links = 1
        BY <1>3, Zenon DEF NameInv
      <3>2. disk[i].type # "none" /\ i \notin names /\ disk[i].links # 0 =>
                \E u \in Thread : Unlinking(u) /\ ino[ip[u]] = i
        BY <1>3, <1>5, <2>13, Zenon DEF AllocInv
      <3>3. \A u \in Thread : Unlinking(u) => Unlinking(u)'
        BY <2>4, <2>11, Zenon DEF Unlinking, Only
      <3> QED BY <1>1, <3>1, <3>2, <3>3, Zenon DEF Fits, i, o
    <2>15. ASSUME NEW u \in Thread PROVE Shares(t, u)
      <3>1. UnlinkAt(u) /\ CreateAt(u)
        BY <1>1, PartsAt, Zenon
      <3> QED BY <1>1, <2>10, <2>11, <3>1, Zenon DEF Shares, UnlinkAt, CreateAt
    <2> QED BY <1>1, <1>10, <1>11, <2>5, <2>6, <2>7, <2>8, <2>9, <2>12, <2>14, <2>15, WritesStep, Zenon
  <1> QED BY <1>13, <1>14, Zenon

\* Only the root has inode 1.
LEMMA OwnInode ==
    ASSUME IInv, Tally, NEW t \in Thread, ip[t] # None
    PROVE  ip[t] \in Object /\ ip[t] # root /\ rc[ip[t]] > 0 /\ ino[ip[t]] \in Ino /\ ino[ip[t]] # 1
  <1>1. ip[t] \in Object /\ ip[t] # root /\ rc[ip[t]] > 0 /\ ino[ip[t]] \in Ino
    BY InUseAt, Zenon
  <1>2. rc[root] > 0 /\ ino[root] = 1 /\ root \in Object /\ OneObjectPerInode
    BY Parts, RootInUse, InodeAssumption, Zenon DEF InoInv
  <1> QED BY <1>1, <1>2, Zenon DEF OneObjectPerInode

\* Who has the entry of its inode has the one on disk.
LEMMA OwnEntry ==
    ASSUME IInv, Tally, failed = "no", NEW t \in Thread, HasEntry(t)
    PROVE  ip[t] # None /\ Live(ip[t]) /\ entry[ip[t]] = disk[ino[ip[t]]]
  <1>1. ip[t] # None
    BY Parts, HolderObject, Zenon
  <1>2. Live(ip[t])
    BY PartsAt, Zenon DEF LiveAt
  <1>3. ip[t] \in Object /\ ip[t] # root /\ rc[ip[t]] > 0
    BY <1>1, InUseAt, Zenon
  <1>4. entry[ip[t]] = disk[ino[ip[t]]]
    BY <1>2, <1>3, Parts, Zenon DEF EntryInv
  <1> QED BY <1>1, <1>2, <1>4, Zenon

\* A new entry for an inode without a name.
LEMMA OwnWrite ==
    ASSUME IInv, Tally, NEW t \in Thread, pc[t] \in {"unlink", "put_clear"}, ino[ip[t]] \notin names, NEW new \in Entry,
           entry' = [entry EXCEPT ![ip[t]] = new], disk' = [disk EXCEPT ![ino[ip[t]]] = new],
           NEW label \in Pc, Goto(t, label), Same, names' = names, ino' = ino, rc' = rc, valid' = valid,
           lock' = lock, owner' = owner, treeOwner' = treeOwner, cpu' = cpu, failed' = failed
    PROVE  /\ Writes(t) /\ TypeOK' /\ RootInv' /\ entry'[ip[t]] = new /\ disk'[ino[ip[t]]] = new
           /\ pc'[t] = label /\ call'[t] = call[t] /\ ip'[t] = ip[t] /\ open'[t] = open[t]
  <1>1. TypeOK /\ ThreadInv /\ RootInv
    BY Parts, Zenon
  <1>2. ip[t] # None
    <2>1. pc[t] \notin Before /\ pc[t] # "unlock_dp"
      BY DEF Before
    <2> QED BY <1>1, <2>1, IpObject, Zenon
  <1> DEFINE o == ip[t]
             i == ino[o]
  <1>3. o \in Object /\ o # root /\ i \in Ino /\ i # 1
    BY <1>2, OwnInode, Zenon
  <1> HIDE DEF o, i
  <1>4. Changed(entry, entry', Object, Entry, o, new)
    <2>1. entry \in [Object -> Entry] /\ entry' = [entry EXCEPT ![o] = new]
      BY <1>1, Zenon DEF TypeOK, o
    <2> QED BY ONLY new \in Entry, <1>3, <2>1, ExceptChanges, Zenon
  <1>5. Changed(disk, disk', Ino, Entry, i, new)
    <2>1. disk \in [Ino -> Entry] /\ disk' = [disk EXCEPT ![i] = new]
      BY <1>1, Zenon DEF TypeOK, i, o
    <2> QED BY ONLY new \in Entry, <1>3, <2>1, ExceptChanges, Zenon
  <1>6. Only(t) /\ pc' \in [Thread -> Pc] /\ pc'[t] = label
        /\ call'[t] = call[t] /\ ip'[t] = ip[t] /\ open'[t] = open[t]
    BY <1>1, GotoOnly, Zenon
  <1>7. TypeOK'
    BY <1>1, <1>4, <1>5, <1>6, Zenon DEF TypeOK, Same, Changed
  <1>8. RootInv'
    <2>1. entry'[root] = entry[root]
      BY <1>3, <1>4, InodeAssumption, Zenon DEF Changed
    <2>2. 1 \in Ino /\ names \subseteq Ino
      BY <1>1, InodeAssumption DEF Ino, TypeOK
    <2>3. disk'[1] = disk[1] /\ \A j \in names : disk'[j] = disk[j]
      BY <1>3, <1>5, <2>2, Zenon DEF Changed, i, o
    <2> QED BY <1>1, <2>1, <2>3, RootSame, Zenon
  <1>9. Writes(t)
    <2>1. pc[t] \in {"load", "link", "remove", "unlink", "put_clear"}
      OBVIOUS
    <2>2. \A x \in Object : x # ip[t] => (x # root => entry'[x] = entry[x]) /\ (valid'[x] <=> valid[x])
      BY <1>4, Zenon DEF Changed, o
    <2>3. \A j \in Ino : j # ino[ip[t]] => (j # 1 => disk'[j] = disk[j]) /\ (j \in names' <=> j \in names)
      BY <1>5, Zenon DEF Changed, i, o
    <2> QED BY <1>6, <2>1, <2>2, <2>3, Zenon DEF Writes
  <1>10. entry'[ip[t]] = new /\ disk'[ino[ip[t]]] = new
    BY <1>4, <1>5, Zenon DEF Changed, i, o
  <1> QED BY <1>6, <1>7, <1>8, <1>9, <1>10, Zenon

\* unlink takes the last link of the inode whose name it has removed.
LEMMA UnlinkStep ==
    ASSUME IInv, Tally, NEW t \in Thread, unlink(t) PROVE IInv'
  <1> DEFINE o == ip[t]
             i == ino[o]
             new == [entry[o] EXCEPT !.links = entry[o].links - 1]
  <1>1. /\ failed = "no" /\ pc[t] = "unlink" /\ Goto(t, "unlock_ip")
        /\ entry' = [entry EXCEPT ![o] = new] /\ disk' = [disk EXCEPT ![i] = new] /\ Same
        /\ names' = names /\ ino' = ino /\ rc' = rc /\ valid' = valid /\ lock' = lock /\ owner' = owner
        /\ treeOwner' = treeOwner /\ cpu' = cpu /\ failed' = failed
    BY Zenon DEF unlink, At, Same
  <1>2. TypeOK /\ ThreadInv /\ CallAt(t) /\ RefAt(t) /\ UnlinkAt(t)
    BY <1>1, Parts, PartsAt, Zenon
  <1>3. HasEntry(t) /\ Unlinking(t) /\ call[t] = "unlink"
    BY <1>1, <1>2, Zenon DEF HasEntry, Unlinking, CallAt
  <1>4. o # None /\ Live(o) /\ entry[o] = disk[i]
    BY <1>1, <1>3, OwnEntry, Zenon
  <1>5. i \notin names /\ disk[i].links = 1 /\ \A u \in Thread : Unlinking(u) /\ ip[u] = o => u = t
    BY <1>2, <1>3, Zenon DEF UnlinkAt
  <1>6. entry[o] \in Entry /\ entry[o].links = 1
    <2>1. o \in Object
      BY <1>4, OwnInode, Zenon
    <2> QED BY <1>2, <1>4, <1>5, <2>1, Typed, Zenon
  <1>7. new \in Entry /\ new.type = entry[o].type /\ new.links = 0
    <2>1. entry[o].links - 1 = 0 /\ 0 \in Nat
      BY <1>6
    <2> QED BY ONLY <1>6, <2>1, NewLinks, Zenon
  <1>8. "unlock_ip" \in Pc /\ pc[t] \in {"unlink", "put_clear"}
    BY <1>1, Zenon DEF Pc
  <1> HIDE DEF new
  <1>9. /\ Writes(t) /\ TypeOK' /\ RootInv' /\ entry'[o] = new /\ disk'[i] = new
        /\ pc'[t] = "unlock_ip" /\ call'[t] = call[t] /\ ip'[t] = ip[t] /\ open'[t] = open[t]
    BY <1>1, <1>5, <1>7, <1>8, OwnWrite, Zenon
  <1>10. ~HoldsRoot(t)' /\ ~Unlinking(t)'
    BY <1>9, Zenon DEF HoldsRoot, Unlinking
  <1>11. CallAt(t)' /\ RefAt(t)'
    BY <1>1, <1>2, <1>3, <1>4, <1>9, Zenon DEF CallAt, RefAt, Before
  <1>12. Live(ip[t])' /\ (Live(ip[t])' => entry'[ip[t]] = disk'[ino[ip[t]]])
    <2>1. valid[o] /\ new.type # "none"
      BY <1>4, <1>7, Zenon DEF Live
    <2>2. Live(ip[t])'
      BY <1>1, <1>9, <2>1, Zenon DEF Live
    <2> QED BY <1>9, <2>2, Zenon
  <1>13. UseAt(t)'
    <2>1. LiveAt(t)'
      BY <1>1, <1>9, <1>12, OpenKept, Zenon DEF LiveAt
    <2>2. UnlinkAt(t)' /\ CreateAt(t)' /\ SoleAt(t)' /\ DeadAt(t)'
      BY <1>9, <1>10, Zenon DEF UnlinkAt, CreateAt, SoleAt, DeadAt, Freed
    <2> QED BY <2>1, <2>2, Zenon DEF UseAt
  <1>14. Fits(t)
    BY <1>1, <1>5, <1>7, <1>9, Zenon DEF Fits
  <1>15. ASSUME NEW u \in Thread, u # t PROVE Shares(t, u)
    <2>1. UnlinkAt(u) /\ CreateAt(u)
      BY <1>1, PartsAt, Zenon
    <2>2. ASSUME ip[u] = o, Creating(u), pc[u] \in {"lock_ip", "load", "link"} PROVE FALSE
      <3>1. disk[i].links = 0
        BY <2>1, <2>2, Zenon DEF CreateAt
      <3> QED BY ONLY <1>5, <3>1
    <2>3. ~(Unlinking(u) /\ ip[u] = o)
      BY <1>5, <1>15, Zenon
    <2>4. call[u] = "unlink" /\ pc[u] \in {"lock_ip", "load", "remove"} => ip[u] # o
      BY <1>5, <2>1, Zenon DEF UnlinkAt
    <2> QED BY <1>12, <2>2, <2>3, <2>4, Zenon DEF Shares
  <1> QED BY <1>1, <1>9, <1>10, <1>11, <1>12, <1>13, <1>14, <1>15, WritesStep, Zenon

\* put_clear frees an inode that only its process uses.
LEMMA PutClearStep ==
    ASSUME IInv, Tally, NEW t \in Thread, put_clear(t) PROVE IInv'
  <1> DEFINE o == ip[t]
             i == ino[o]
             new == [entry[o] EXCEPT !.type = "none"]
  <1>1. /\ failed = "no" /\ pc[t] = "put_clear" /\ Goto(t, "put_unlock")
        /\ entry' = [entry EXCEPT ![o] = new] /\ disk' = [disk EXCEPT ![i] = new] /\ Same
        /\ names' = names /\ ino' = ino /\ rc' = rc /\ valid' = valid /\ lock' = lock /\ owner' = owner
        /\ treeOwner' = treeOwner /\ cpu' = cpu /\ failed' = failed
    BY Zenon DEF put_clear, At, Same
  <1>2. TypeOK /\ ThreadInv /\ CountInv /\ NameInv /\ CallAt(t) /\ RefAt(t) /\ SoleAt(t)
    BY <1>1, Parts, PartsAt, Zenon
  <1>3. HasEntry(t)
    BY <1>1, Zenon DEF HasEntry
  <1>4. o # None /\ Live(o) /\ entry[o] = disk[i]
    BY <1>1, <1>3, OwnEntry, Zenon
  <1>5. o \in Object
    BY <1>4, OwnInode, Zenon
  <1>6. rc[o] = 1 /\ entry[o].links = 0
    BY <1>1, <1>2, Zenon DEF SoleAt
  <1>7. \A u \in Thread : open[u] # o /\ (ip[u] = o => u = t)
    <2>1. SUFFICES ASSUME NEW u \in Thread, open[u] = o \/ (ip[u] = o /\ u # t) PROVE FALSE
      BY Zenon
    <2>2. rc[o] > 1
      BY <1>2, <1>5, <2>1, TwoUsers, Zenon
    <2> QED BY ONLY <1>6, <2>2
  <1>8. i \notin names
    <2>1. SUFFICES ASSUME i \in names PROVE FALSE
      BY Zenon
    <2>2. disk[i].links = 1
      BY <1>2, <2>1, Zenon DEF NameInv
    <2> QED BY ONLY <1>4, <1>6, <2>2
  <1>9. new \in Entry /\ new.type = "none"
    <2>1. entry[o] \in Entry
      BY <1>2, <1>5, Typed, Zenon
    <2> QED BY ONLY <2>1, NewType, Zenon
  <1>10. "put_unlock" \in Pc /\ pc[t] \in {"unlink", "put_clear"}
    BY <1>1, Zenon DEF Pc
  <1> HIDE DEF new
  <1>11. /\ Writes(t) /\ TypeOK' /\ RootInv' /\ entry'[o] = new /\ disk'[i] = new
         /\ pc'[t] = "put_unlock" /\ call'[t] = call[t] /\ ip'[t] = ip[t] /\ open'[t] = open[t]
    BY <1>1, <1>8, <1>9, <1>10, OwnWrite, Zenon
  <1>12. ~HoldsRoot(t)' /\ ~Unlinking(t)'
    BY <1>11, Zenon DEF HoldsRoot, Unlinking
  <1>13. CallAt(t)' /\ RefAt(t)'
    BY <1>1, <1>2, <1>4, <1>11, Zenon DEF CallAt, RefAt, Before
  <1>14. UseAt(t)'
    <2>1. LiveAt(t)'
      <3>1. ~HasEntry(t)'
        BY <1>11, Zenon DEF HasEntry
      <3>2. open[t] # ip[t]
        BY <1>7, Zenon
      <3> QED BY <1>1, <1>11, <3>1, <3>2, OpenKept, Zenon DEF LiveAt
    <2>2. UnlinkAt(t)' /\ CreateAt(t)' /\ SoleAt(t)'
      BY <1>11, <1>12, Zenon DEF UnlinkAt, CreateAt, SoleAt
    <2>3. DeadAt(t)'
      <3>1. valid'[ip'[t]] /\ entry'[ip'[t]].type = "none" /\ ino'[ip'[t]] \notin names'
        BY <1>1, <1>4, <1>8, <1>9, <1>11, Zenon DEF Live
      <3>2. disk'[ino'[ip'[t]]].type = "none"
        BY <1>1, <1>9, <1>11, Zenon
      <3>3. \A u \in Thread : open'[u] # ip'[t] /\ ~(ip'[u] = ip'[t] /\ u # t)
        BY <1>1, <1>7, <1>11, Zenon DEF Same
      <3> QED BY <3>1, <3>2, <3>3, Zenon DEF DeadAt
    <2> QED BY <2>1, <2>2, <2>3, Zenon DEF UseAt
  <1>15. Fits(t)
    BY <1>1, <1>8, <1>9, <1>11, Zenon DEF Fits
  <1> QED BY <1>1, <1>7, <1>11, <1>12, <1>13, <1>14, <1>15, WritesStep, Zenon

-----------------------------------------------------------------------------
(* Names: link and remove *)

\* Nobody else is between lock and unlock of the directory.
LEMMA RootExcludes ==
    ASSUME IInv, NEW t \in Thread, HoldsRoot(t), NEW u \in Thread, u # t
    PROVE  /\ ~(call[u] = "unlink" /\ pc[u] \in {"lock_ip", "load", "remove"})
           /\ ~(Creating(u) /\ pc[u] \in {"lock_ip", "load", "link"})
  <1>1. owner[root] = t /\ (HoldsRoot(u) => owner[root] = u)
    BY Parts, Zenon DEF LockInv
  <1>2. ~HoldsRoot(u)
    BY <1>1, Zenon
  <1>3. Creating(u) => call[u] # "open"
    BY Calls, Zenon
  <1> QED BY <1>2, <1>3 DEF HoldsRoot

\* Two changes of a function.
LEMMA TwoExcepts ==
    ASSUME NEW S, NEW T, NEW f \in [S -> T], NEW a \in S, NEW b \in S, a # b, NEW y \in T, NEW z \in T
    PROVE  LET g == [f EXCEPT ![a] = y, ![b] = z]
           IN  g \in [S -> T] /\ g[a] = y /\ g[b] = z /\ \A x \in S : x # a /\ x # b => g[x] = f[x]
  OBVIOUS

\* link: the new inode gets its name and its link.
LEMMA LinkStep ==
    ASSUME IInv, Tally, NEW t \in Thread, link(t) PROVE IInv'
  <1> DEFINE o == ip[t]
             i == ino[o]
             new == [entry[o] EXCEPT !.links = 1]
             dp == IF call[t] = "dir" THEN [entry[root] EXCEPT !.links = entry[root].links + 1] ELSE entry[root]
  <1>1. /\ failed = "no" /\ pc[t] = "link" /\ Goto(t, "unlock_dp")
        /\ entry' = [entry EXCEPT ![o] = new, ![root] = dp] /\ disk' = [disk EXCEPT ![i] = new]
        /\ names' = names \union {i} /\ Same
        /\ ino' = ino /\ rc' = rc /\ valid' = valid /\ lock' = lock /\ owner' = owner
        /\ treeOwner' = treeOwner /\ cpu' = cpu /\ failed' = failed
    BY Zenon DEF link, At, Same
  <1>2. TypeOK /\ ThreadInv /\ RootInv /\ CallAt(t) /\ RefAt(t) /\ CreateAt(t)
    BY <1>1, Parts, PartsAt, Zenon
  <1>3. HasEntry(t) /\ HoldsRoot(t) /\ Creating(t) /\ call[t] # "open" /\ call[t] # "unlink"
        /\ call[t] # "close" /\ call[t] # "none"
    BY <1>1, <1>2, Calls, Zenon DEF HasEntry, HoldsRoot, CallAt
  <1>4. o # None /\ Live(o) /\ entry[o] = disk[i]
    BY <1>1, <1>3, OwnEntry, Zenon
  <1>5. o \in Object /\ o # root /\ i \in Ino /\ i # 1
    BY <1>4, OwnInode, Zenon
  <1>6. i \notin names /\ disk[i].type = call[t] /\ disk[i].links = 0
    BY <1>1, <1>2, <1>3, Zenon DEF CreateAt
  <1>7. entry[o] \in Entry /\ entry[root] \in Entry /\ root \in Object
    BY <1>2, <1>5, Typed, InodeAssumption, Zenon
  <1>8. new \in Entry /\ new.type = call[t] /\ new.links = 1
    <2>1. 1 \in Nat /\ entry[o].type = call[t]
      BY <1>4, <1>6
    <2> QED BY ONLY <1>7, <2>1, NewLinks, Zenon
  <1>9. dp \in Entry /\ dp.type = entry[root].type
        /\ dp.links = IF call[t] = "dir" THEN entry[root].links + 1 ELSE entry[root].links
    <2>1. entry[root].links + 1 \in Nat
      BY <1>7, EntryFields
    <2>2. CASE call[t] # "dir"
      <3>1. dp = entry[root]
        BY <2>2, Zenon
      <3> QED BY <1>7, <2>2, <3>1, Zenon
    <2>3. CASE call[t] = "dir"
      <3>1. dp = [entry[root] EXCEPT !.links = entry[root].links + 1]
        BY <2>3, Zenon
      <3> HIDE DEF dp
      <3>2. dp \in Entry /\ dp.type = entry[root].type /\ dp.links = entry[root].links + 1
        BY ONLY <1>7, <2>1, <3>1, NewLinks, Zenon
      <3> QED BY <2>3, <3>2, Zenon
    <2> QED BY <2>2, <2>3, Zenon
  <1> HIDE DEF o, i, new, dp
  <1>10. /\ entry' \in [Object -> Entry] /\ entry'[o] = new /\ entry'[root] = dp
         /\ \A x \in Object : x # o /\ x # root => entry'[x] = entry[x]
    <2>1. entry \in [Object -> Entry]
      BY <1>2, Zenon DEF TypeOK
    <2> QED BY ONLY <1>1, <1>5, <1>7, <1>8, <1>9, <2>1, TwoExcepts
  <1>11. Changed(disk, disk', Ino, Entry, i, new)
    <2>1. disk \in [Ino -> Entry]
      BY <1>2, Zenon DEF TypeOK
    <2> QED BY ONLY <1>1, <1>5, <1>8, <2>1, ExceptChanges, Zenon
  <1>12. disk'[i] = new /\ \A j \in Ino : j # i => disk'[j] = disk[j]
    BY <1>11, Zenon DEF Changed
  <1>13. "unlock_dp" \in Pc
    BY Zenon DEF Pc
  <1>14. Only(t) /\ pc' \in [Thread -> Pc] /\ pc'[t] = "unlock_dp"
         /\ call'[t] = call[t] /\ ip'[t] = ip[t] /\ open'[t] = open[t]
    BY <1>1, <1>2, <1>13, GotoOnly, Zenon
  <1>15. names \subseteq Ino \ {1} /\ names' \subseteq Ino \ {1}
    BY <1>1, <1>2, <1>5, Zenon DEF TypeOK
  <1>16. TypeOK'
    BY <1>1, <1>2, <1>10, <1>11, <1>14, <1>15, Zenon DEF TypeOK, Same, Changed
  <1>17. RootInv'
    <2>1. entry'[root].type = "dir" /\ disk'[1].type = "dir"
      <3>1. 1 \in Ino
        BY InodeAssumption DEF Ino
      <3> QED BY <1>2, <1>5, <1>9, <1>10, <1>12, <3>1, Zenon DEF RootInv
    <2>2. \A j \in names : disk'[j] = disk[j]
      BY <1>6, <1>12, <1>15, Zenon
    <2>3. Cardinality(SubDirs) \in Nat /\ i \notin SubDirs
      BY <1>2, <1>6, Zenon DEF SubDirs, Tally
    <2>4. entry[root].links = 1 + Cardinality(SubDirs)
      BY <1>2, Zenon DEF RootInv
    <2>5. CASE call[t] = "dir"
      <3>1. SubDirs' = SubDirs \union {i}
        BY <1>1, <1>8, <1>12, <2>2, <2>5, Zenon DEF SubDirs
      <3>2. Cardinality(SubDirs') = Cardinality(SubDirs) + 1
        <4>1. \A j \in Ino \ SubDirs : Cardinality(SubDirs \union {j}) = Cardinality(SubDirs) + 1
          BY Zenon DEF Tally
        <4>2. i \in Ino \ SubDirs
          BY <1>5, <2>3, Zenon
        <4> QED BY <3>1, <4>1, <4>2, Zenon
      <3>3. entry'[root].links = entry[root].links + 1
        BY <1>9, <1>10, <2>5, Zenon
      <3>4. entry'[root].links = 1 + Cardinality(SubDirs')
        BY ONLY <2>3, <2>4, <3>2, <3>3
      <3> QED BY <2>1, <3>4, Zenon DEF RootInv
    <2>6. CASE call[t] # "dir"
      <3>1. SubDirs' = SubDirs
        BY <1>1, <1>8, <1>12, <2>2, <2>6, Zenon DEF SubDirs
      <3>2. entry'[root].links = entry[root].links
        BY <1>9, <1>10, <2>6, Zenon
      <3> QED BY <2>1, <2>4, <3>1, <3>2, Zenon DEF RootInv
    <2> QED BY <2>5, <2>6, Zenon
  <1>18. Writes(t)
    <2>1. pc[t] \in {"load", "link", "remove", "unlink", "put_clear"}
      BY <1>1
    <2>2. \A x \in Object : x # ip[t] => (x # root => entry'[x] = entry[x]) /\ (valid'[x] <=> valid[x])
      BY <1>1, <1>10, Zenon DEF o
    <2>3. \A j \in Ino : j # ino[ip[t]] => (j # 1 => disk'[j] = disk[j]) /\ (j \in names' <=> j \in names)
      BY <1>1, <1>12, Zenon DEF i, o
    <2> QED BY <1>1, <1>14, <2>1, <2>2, <2>3, Zenon DEF Writes
  <1>19. CallAt(t)' /\ RefAt(t)'
    BY <1>1, <1>2, <1>3, <1>4, <1>14, Zenon DEF CallAt, RefAt, Before, o
  <1>20. Live(ip[t])' /\ entry'[ip[t]] = disk'[ino[ip[t]]]
    <2>1. valid[o]
      BY <1>4, Zenon DEF Live
    <2>2. valid'[o] /\ entry'[o].type # "none" /\ entry'[o] = disk'[i]
      BY <1>1, <1>3, <1>8, <1>10, <1>12, <2>1, Zenon
    <2> QED BY <1>14, <2>2, Zenon DEF Live, o, i
  <1>21. ~Unlinking(t)'
    BY <1>3, <1>14, Zenon DEF Unlinking
  <1>22. UseAt(t)'
    <2>1. LiveAt(t)'
      BY <1>1, <1>14, <1>18, <1>20, OpenKept, Zenon DEF LiveAt
    <2>2. UnlinkAt(t)' /\ CreateAt(t)' /\ SoleAt(t)' /\ DeadAt(t)'
      BY <1>14, <1>21, Zenon DEF UnlinkAt, CreateAt, SoleAt, DeadAt, Freed
    <2> QED BY <2>1, <2>2, Zenon DEF UseAt
  <1>23. Fits(t)
    BY <1>1, <1>3, <1>8, <1>12, Zenon DEF Fits, o, i
  <1>24. ASSUME NEW u \in Thread, u # t PROVE Shares(t, u)
    <2>1. ASSUME ip[u] = o, Unlinking(u) PROVE FALSE
      <3>1. disk[i].links = 1
        BY <1>1, <2>1, PartsAt, Zenon DEF UnlinkAt, i
      <3> QED BY ONLY <1>6, <3>1
    <2>2. /\ ~(call[u] = "unlink" /\ pc[u] \in {"lock_ip", "load", "remove"})
          /\ ~(Creating(u) /\ pc[u] \in {"lock_ip", "load", "link"})
      BY <1>3, <1>24, RootExcludes, Zenon
    <2> QED BY <1>20, <2>1, <2>2, Zenon DEF Shares, o
  <1> QED BY <1>1, <1>3, <1>16, <1>17, <1>18, <1>19, <1>20, <1>22, <1>23, <1>24, WritesStep, Zenon

\* remove: the name goes, and with a directory a link of the root.
LEMMA RemoveStep ==
    ASSUME IInv, Tally, NEW t \in Thread, remove(t) PROVE IInv'
  <1> DEFINE o == ip[t]
             i == ino[o]
             dp == [entry[root] EXCEPT !.links = entry[root].links - 1]
             isDir == entry[o].type = "dir"
  <1>1. /\ failed = "no" /\ pc[t] = "remove" /\ Goto(t, "unlock_dp") /\ names' = names \ {i} /\ Same
        /\ ino' = ino /\ rc' = rc /\ valid' = valid /\ lock' = lock /\ owner' = owner
        /\ treeOwner' = treeOwner /\ cpu' = cpu /\ failed' = failed
    BY Zenon DEF remove, At, Same
  <1>2. /\ isDir => entry' = [entry EXCEPT ![root] = dp] /\ disk' = [disk EXCEPT ![1] = dp]
        /\ ~isDir => entry' = entry /\ disk' = disk
    BY Zenon DEF remove
  <1>3. TypeOK /\ ThreadInv /\ RootInv /\ NameInv /\ CallAt(t) /\ RefAt(t) /\ UnlinkAt(t)
    BY <1>1, Parts, PartsAt, Zenon
  <1>4. HasEntry(t) /\ HoldsRoot(t) /\ call[t] = "unlink"
    BY <1>1, <1>3, Zenon DEF HasEntry, HoldsRoot, CallAt
  <1>5. o # None /\ Live(o) /\ entry[o] = disk[i]
    BY <1>1, <1>4, OwnEntry, Zenon
  <1>6. o \in Object /\ o # root /\ i \in Ino /\ i # 1
    BY <1>5, OwnInode, Zenon
  <1>7. i \in names /\ disk[i].links = 1
    BY <1>1, <1>3, <1>4, Zenon DEF UnlinkAt, NameInv
  <1>8. entry[root] \in Entry /\ root \in Object /\ 1 \in Ino /\ entry[root].links \in Nat
    BY <1>3, Typed, EntryFields, InodeAssumption DEF Ino
  <1>9. Cardinality(SubDirs) \in Nat /\ (isDir <=> i \in SubDirs)
    BY <1>3, <1>5, <1>7, Zenon DEF SubDirs, Tally
  <1>10. entry[root].links = 1 + Cardinality(SubDirs) /\ entry[root].type = "dir" /\ disk[1].type = "dir"
    BY <1>3, Zenon DEF RootInv
  <1>11. entry[root].links - 1 = Cardinality(SubDirs) /\ entry[root].links - 1 \in Nat
    BY ONLY <1>8, <1>9, <1>10
  <1>12. dp \in Entry /\ dp.type = entry[root].type /\ dp.links = entry[root].links - 1
    BY ONLY <1>8, <1>11, NewLinks, Zenon
  <1> HIDE DEF o, i, dp, isDir
  <1>13. /\ entry' \in [Object -> Entry] /\ entry'[root] = (IF isDir THEN dp ELSE entry[root])
         /\ \A x \in Object : x # root => entry'[x] = entry[x]
    <2>1. entry \in [Object -> Entry]
      BY <1>3, Zenon DEF TypeOK
    <2>2. ASSUME isDir PROVE Changed(entry, entry', Object, Entry, root, dp)
      <3>1. entry' = [entry EXCEPT ![root] = dp]
        BY <1>2, <2>2, Zenon
      <3> QED BY ONLY <1>8, <1>12, <2>1, <3>1, ExceptChanges, Zenon
    <2> QED BY ONLY <1>2, <2>1, <2>2, Zenon DEF Changed
  <1>14. /\ disk' \in [Ino -> Entry] /\ disk'[1] = (IF isDir THEN dp ELSE disk[1])
         /\ \A j \in Ino : j # 1 => disk'[j] = disk[j]
    <2>1. disk \in [Ino -> Entry]
      BY <1>3, Zenon DEF TypeOK
    <2>2. ASSUME isDir PROVE Changed(disk, disk', Ino, Entry, 1, dp)
      <3>1. disk' = [disk EXCEPT ![1] = dp]
        BY <1>2, <2>2, Zenon
      <3> QED BY ONLY <1>8, <1>12, <2>1, <3>1, ExceptChanges, Zenon
    <2> QED BY ONLY <1>2, <2>1, <2>2, Zenon DEF Changed
  <1>15. "unlock_dp" \in Pc
    BY Zenon DEF Pc
  <1>16. Only(t) /\ pc' \in [Thread -> Pc] /\ pc'[t] = "unlock_dp"
         /\ call'[t] = call[t] /\ ip'[t] = ip[t] /\ open'[t] = open[t]
    BY <1>1, <1>3, <1>15, GotoOnly, Zenon
  <1>17. names \subseteq Ino \ {1} /\ names' \subseteq Ino \ {1}
    BY <1>1, <1>3, Zenon DEF TypeOK
  <1>18. TypeOK'
    BY <1>1, <1>3, <1>13, <1>14, <1>16, <1>17, Zenon DEF TypeOK, Same
  <1>19. RootInv'
    <2>1. entry'[root].type = "dir" /\ disk'[1].type = "dir"
      BY <1>10, <1>12, <1>13, <1>14, Zenon
    <2>2. \A j \in names : disk'[j] = disk[j]
      BY <1>14, <1>17, Zenon
    <2>3. SubDirs' = SubDirs \ {i}
      BY <1>1, <2>2, Zenon DEF SubDirs
    <2>4. CASE isDir
      <3>1. Cardinality(SubDirs') = Cardinality(SubDirs) - 1
        BY <1>9, <2>3, <2>4, Zenon DEF Tally
      <3>2. entry'[root].links = entry[root].links - 1
        BY <1>12, <1>13, <2>4, Zenon
      <3>3. entry'[root].links = 1 + Cardinality(SubDirs')
        BY ONLY <1>9, <1>10, <3>1, <3>2
      <3> QED BY <2>1, <3>3, Zenon DEF RootInv
    <2>5. CASE ~isDir
      <3>1. SubDirs' = SubDirs
        BY <1>9, <2>3, <2>5, Zenon
      <3> QED BY <1>10, <1>13, <2>1, <2>5, <3>1, Zenon DEF RootInv
    <2> QED BY <2>4, <2>5, Zenon
  <1>20. Writes(t)
    <2>1. pc[t] \in {"load", "link", "remove", "unlink", "put_clear"}
      BY <1>1
    <2>2. \A x \in Object : x # ip[t] => (x # root => entry'[x] = entry[x]) /\ (valid'[x] <=> valid[x])
      BY <1>1, <1>13, Zenon
    <2>3. \A j \in Ino : j # ino[ip[t]] => (j # 1 => disk'[j] = disk[j]) /\ (j \in names' <=> j \in names)
      BY <1>1, <1>14, Zenon DEF i, o
    <2> QED BY <1>1, <1>16, <2>1, <2>2, <2>3, Zenon DEF Writes
  <1>21. CallAt(t)' /\ RefAt(t)'
    BY <1>1, <1>3, <1>4, <1>5, <1>16, Zenon DEF CallAt, RefAt, Before, o
  <1>22. entry'[o] = entry[o] /\ disk'[i] = disk[i]
    BY <1>6, <1>13, <1>14, Zenon
  <1>23. Live(ip[t])' /\ entry'[ip[t]] = disk'[ino[ip[t]]]
    BY <1>1, <1>5, <1>16, <1>22, Zenon DEF Live, o, i
  <1>24. Unlinking(t)' /\ i \notin names'
    BY <1>1, <1>4, <1>16, Zenon DEF Unlinking
  <1>25. ASSUME NEW u \in Thread, u # t, Unlinking(u) PROVE ip[u] # o
    <2>1. ino[ip[u]] \notin names
      BY <1>1, <1>25, PartsAt, Zenon DEF UnlinkAt
    <2> QED BY <1>7, <2>1, Zenon DEF i
  <1>26. UseAt(t)'
    <2>1. LiveAt(t)'
      BY <1>1, <1>16, <1>20, <1>23, OpenKept, Zenon DEF LiveAt
    <2>2. UnlinkAt(t)'
      <3>1. ino'[ip'[t]] \notin names' /\ disk'[ino'[ip'[t]]].links = 1
        BY <1>1, <1>7, <1>16, <1>22, <1>24, Zenon DEF i, o
      <3>2. ASSUME NEW u \in Thread, Unlinking(u)', ip'[u] = ip'[t] PROVE u = t
        <4>1. SUFFICES ASSUME u # t PROVE FALSE
          BY Zenon
        <4>2. Unlinking(u) /\ ip[u] = o
          BY <1>16, <3>2, <4>1, Zenon DEF Unlinking, Only, o
        <4> QED BY <1>25, <4>1, <4>2, Zenon
      <3>3. pc'[t] \notin {"lock_ip", "load", "remove"}
        BY <1>16
      <3> QED BY <3>1, <3>2, <3>3, Zenon DEF UnlinkAt
    <2>3. CreateAt(t)' /\ SoleAt(t)' /\ DeadAt(t)'
      BY <1>16, Zenon DEF CreateAt, SoleAt, DeadAt, Freed
    <2> QED BY <2>1, <2>2, <2>3, Zenon DEF UseAt
  <1>27. Fits(t)
    BY <1>24, Zenon DEF Fits, o, i
  <1>28. ASSUME NEW u \in Thread, u # t PROVE Shares(t, u)
    <2>1. Unlinking(u) => ip[u] # o
      BY <1>25, <1>28, Zenon
    <2>2. /\ ~(call[u] = "unlink" /\ pc[u] \in {"lock_ip", "load", "remove"})
          /\ ~(Creating(u) /\ pc[u] \in {"lock_ip", "load", "link"})
      BY <1>4, <1>28, RootExcludes, Zenon
    <2> QED BY <1>23, <2>1, <2>2, Zenon DEF Shares, o
  <1> QED BY <1>1, <1>4, <1>18, <1>19, <1>20, <1>21, <1>23, <1>26, <1>27, <1>28, WritesStep, Zenon

-----------------------------------------------------------------------------
(* The steps that give a reference back: put and put_drop *)

\* Process t drops its object; with the last reference, its inode has a name
\* or is free.
Drops(t) ==
    /\ pc[t] \in {"put", "put_drop"} /\ drop(t)
    /\ disk' = disk /\ names' = names /\ valid' = valid /\ entry' = entry /\ lock' = lock /\ owner' = owner
    /\ treeOwner' = treeOwner /\ open' = open /\ call' = call /\ failed' = failed
    /\ rc[ip[t]] <= 1 => disk[ino[ip[t]]].type = "none" \/ ino[ip[t]] \in names

\* The effect of drop, and that the objects of the others stay in use.
LEMMA DropEffect ==
    ASSUME IInv, Tally, failed = "no", NEW t \in Thread, Drops(t)
    PROVE  /\ TypeOK' /\ Only(t) /\ pc'[t] = "user" /\ ip'[t] = None
           /\ ip[t] \in Object /\ ip[t] # root /\ ip[t] # None /\ ino[ip[t]] # 1
           /\ rc[ip[t]] = rc'[ip[t]] + 1
           /\ \A x \in Object : x # ip[t] => rc'[x] = rc[x] /\ ino'[x] = ino[x]
           /\ \A x \in Object : rc'[x] > 0 => rc[x] > 0 /\ ino'[x] = ino[x]
           /\ \A u \in Thread : u # t /\ ip[u] # None => rc'[ip[u]] > 0 /\ ip[u] \in Object
           /\ \A u \in Thread : open[u] # None => rc'[open[u]] > 0 /\ open[u] \in Object
  <1> DEFINE o == ip[t]
  <1>1. TypeOK /\ ThreadInv /\ CountInv
    BY Parts, Zenon
  <1>2. o # None
    <2>1. pc[t] \notin Before /\ pc[t] # "unlock_dp"
      BY DEF Drops, Before
    <2> QED BY <1>1, <2>1, IpObject, Zenon
  <1>3. o \in Object /\ o # root /\ rc[o] > 0 /\ ino[o] \in Ino /\ ino[o] # 1
    BY <1>2, OwnInode, Zenon
  <1>4. /\ rc' = [rc EXCEPT ![o] = rc[o] - 1]
        /\ ino' = IF rc[o] <= 1 THEN [ino EXCEPT ![o] = 0] ELSE ino
        /\ ip' = [ip EXCEPT ![t] = None] /\ cpu' = [cpu EXCEPT ![t] = None] /\ Goto(t, "user")
    BY Zenon DEF Drops, drop
  <1>5. ASSUME NEW u \in Thread, (open[u] = o \/ (ip[u] = o /\ u # t)) PROVE rc[o] > 1
    BY <1>1, <1>3, <1>5, TwoUsers, Zenon
  <1>6. \A u \in Thread : /\ ip[u] # None => ip[u] \in Object /\ rc[ip[u]] > 0
                          /\ open[u] # None => open[u] \in Object /\ rc[open[u]] > 0
    BY InUseAt, Zenon
  <1> HIDE DEF o
  <1>7. rc[o] \in Nat /\ rc[o] - 1 \in Nat /\ rc[o] = rc[o] - 1 + 1
    <2>1. rc[o] \in Nat
      BY <1>1, <1>3, Typed, Zenon
    <2> QED BY ONLY <1>3, <2>1
  <1>8. Changed(rc, rc', Object, Nat, o, rc[o] - 1)
    <2>1. rc \in [Object -> Nat]
      BY <1>1, Zenon DEF TypeOK
    <2> QED BY ONLY <1>3, <1>4, <1>7, <2>1, ExceptChanges, Zenon
  <1>9. /\ rc'[o] = rc[o] - 1 /\ rc[o] = rc'[o] + 1 /\ rc'[o] \in Nat
        /\ \A x \in Object : x # o => rc'[x] = rc[x]
    BY <1>7, <1>8, Zenon DEF Changed
  <1>10. /\ ino' \in [Object -> Ino \union {0}]
         /\ \A x \in Object : x # o \/ rc[o] > 1 => ino'[x] = ino[x]
    <2>1. ino \in [Object -> Ino \union {0}]
      BY <1>1, Zenon DEF TypeOK
    <2>2. CASE rc[o] <= 1
      <3>1. ino' = [ino EXCEPT ![o] = 0] /\ 0 \in Ino \union {0}
        BY <1>4, <2>2, Zenon
      <3>2. Changed(ino, ino', Object, Ino \union {0}, o, 0)
        BY ONLY <1>3, <2>1, <3>1, ExceptChanges, Zenon
      <3>3. ~(rc[o] > 1)
        BY ONLY <1>7, <2>2
      <3> QED BY <3>2, <3>3, Zenon DEF Changed
    <2>3. CASE ~(rc[o] <= 1)
      <3>1. ino' = ino
        BY <1>4, <2>3, Zenon
      <3> QED BY <2>1, <3>1, Zenon
    <2> QED BY <2>2, <2>3, Zenon
  <1>11. rc'[o] > 0 <=> rc[o] > 1
    BY ONLY <1>7, <1>9
  <1>12. \A x \in Object : rc'[x] > 0 => rc[x] > 0 /\ ino'[x] = ino[x]
    BY <1>3, <1>9, <1>10, <1>11, Zenon
  <1>13. Changed(ip, ip', Thread, Object \union {None}, t, None)
    <2>1. ip \in [Thread -> Object \union {None}] /\ None \in Object \union {None}
      BY <1>1, Zenon DEF TypeOK
    <2> QED BY ONLY t \in Thread, <1>4, <2>1, ExceptChanges, Zenon
  <1>14. "user" \in Pc
    BY Zenon DEF Pc
  <1>15. Changed(pc, pc', Thread, Pc, t, "user")
    BY <1>1, <1>4, <1>14, GotoEffect, Zenon
  <1>16. Only(t) /\ pc'[t] = "user" /\ ip'[t] = None
    BY <1>13, <1>15, Zenon DEF Only, Changed, Drops
  <1>17. cpu' \in [Thread -> Cpu \union {None}]
    BY <1>1, <1>4, CpuTyped, Zenon
  <1>18. TypeOK'
    BY <1>1, <1>8, <1>10, <1>13, <1>15, <1>17, Zenon DEF TypeOK, Drops, Changed
  <1>19. ASSUME NEW u \in Thread, u # t, ip[u] # None PROVE rc'[ip[u]] > 0 /\ ip[u] \in Object
    BY <1>5, <1>6, <1>9, <1>11, <1>19, Zenon
  <1>20. ASSUME NEW u \in Thread, open[u] # None PROVE rc'[open[u]] > 0 /\ open[u] \in Object
    BY <1>5, <1>6, <1>9, <1>11, <1>20, Zenon
  <1> QED BY <1>2, <1>3, <1>9, <1>10, <1>12, <1>16, <1>18, <1>19, <1>20, Zenon DEF o

\* A step that drops a reference preserves the invariant.
LEMMA DropStep ==
    ASSUME IInv, Tally, failed = "no", NEW t \in Thread, Drops(t) PROVE IInv'
  <1>1. /\ TypeOK /\ LockInv /\ ThreadInv /\ CountInv /\ InoInv /\ EntryInv /\ RootInv
        /\ NameInv /\ AllocInv /\ RefAt(t) /\ LiveAt(t)
    BY Parts, PartsAt, Zenon
  <1>2. /\ TypeOK' /\ Only(t) /\ pc'[t] = "user" /\ ip'[t] = None
        /\ ip[t] \in Object /\ ip[t] # root /\ ip[t] # None /\ ino[ip[t]] # 1
        /\ rc[ip[t]] = rc'[ip[t]] + 1
        /\ \A x \in Object : x # ip[t] => rc'[x] = rc[x] /\ ino'[x] = ino[x]
        /\ \A x \in Object : rc'[x] > 0 => rc[x] > 0 /\ ino'[x] = ino[x]
        /\ \A u \in Thread : u # t /\ ip[u] # None => rc'[ip[u]] > 0 /\ ip[u] \in Object
        /\ \A u \in Thread : open[u] # None => rc'[open[u]] > 0 /\ open[u] \in Object
    BY DropEffect, Zenon
  <1>3. /\ pc[t] \in {"put", "put_drop"} /\ disk' = disk /\ names' = names /\ valid' = valid /\ entry' = entry
        /\ lock' = lock /\ owner' = owner /\ open' = open /\ call' = call
    BY Zenon DEF Drops
  <1>4. LockInv'
    <2>1. ~HoldsRoot(t)' /\ ~HoldsIp(t)'
      BY <1>2, Zenon DEF HoldsRoot, HoldsIp
    <2> QED BY <1>1, <1>2, <1>3, <2>1, LockSame, Zenon
  <1>5. ThreadInv'
    <2>1. CallAt(t)'
      BY <1>2, Zenon DEF CallAt
    <2>2. RefAt(t)'
      <3>1. None # root
        BY InodeAssumption, Zenon
      <3> QED BY <1>1, <1>2, <1>3, <3>1, Zenon DEF RefAt, Before
    <2> QED BY <1>1, <1>2, <2>1, <2>2, ThreadStep, Zenon
  <1>6. CountInv'
    <2>1. ASSUME NEW x \in Object
          PROVE  Pays(t, x)
      <3>1. rc[x] \in Nat /\ rc'[x] \in Nat
        BY <1>1, <1>2, Zenon DEF TypeOK
      <3>2. open'[t] = open[t]
        BY <1>3, Zenon
      <3>3. One(open'[t] = x) = One(open[t] = x) /\ One(open[t] = x) \in Nat
        BY ONLY <3>2 DEF One
      <3>4. One(ip'[t] = x) = 0
        BY <1>2, InodeAssumption, Zenon DEF One
      <3>5. rc[x] = rc'[x] + One(ip[t] = x) /\ One(ip[t] = x) \in Nat
        <4>1. CASE x = ip[t]
          BY <1>2, <4>1, Zenon DEF One
        <4>2. CASE x # ip[t]
          <5>1. rc'[x] = rc[x] /\ One(ip[t] = x) = 0
            BY <1>2, <4>2, Zenon DEF One
          <5> QED BY ONLY <3>1, <5>1
        <4> QED BY <4>1, <4>2, Zenon
      <3> QED BY ONLY <3>1, <3>3, <3>4, <3>5 DEF Pays
    <2> QED BY <1>1, <1>2, <2>1, CountStep, Zenon
  <1>7. InoInv'
    <2>1. ino'[root] = 1
      BY <1>1, <1>2, InodeAssumption, Zenon DEF InoInv
    <2> QED BY <1>1, <1>2, <2>1, Zenon DEF InoInv, OneObjectPerInode
  <1>8. EntryInv'
    BY <1>1, <1>2, <1>3, Zenon DEF EntryInv, Live
  <1>9. RootInv'
    BY <1>1, <1>3, RootSame, Zenon
  <1>10. \A u \in Thread : u # t => pc'[u] = pc[u] /\ call'[u] = call[u] /\ ip'[u] = ip[u] /\ open'[u] = open[u]
    BY <1>2, Zenon DEF Only
  <1>11. ~Unlinking(t) /\ ~Unlinking(t)'
    BY <1>2, <1>3, Zenon DEF Unlinking
  <1>12. \A u \in Thread : Unlinking(u)' <=> Unlinking(u)
    <2>1. \A u \in Thread : u # t => (Unlinking(u)' <=> Unlinking(u))
      BY <1>10, Zenon DEF Unlinking
    <2> QED BY <1>11, <2>1, Zenon
  <1>13. \A o : Live(o)' <=> Live(o)
    BY <1>3, Zenon DEF Live
  <1>14. NameInv'
    BY <1>1, <1>3, Zenon DEF NameInv
  <1>15. AllocInv'
    <2>1. SUFFICES ASSUME NEW j \in Ino \ {1}, disk[j].type # "none", j \notin names
                   PROVE  /\ \E x \in Object : rc'[x] > 0 /\ ino'[x] = j
                          /\ disk[j].links # 0 => \E u \in Thread : Unlinking(u)' /\ ino'[ip'[u]] = j
      BY <1>3, Zenon DEF AllocInv
    <2>2. PICK x \in Object : rc[x] > 0 /\ ino[x] = j
      BY <1>1, <2>1, Zenon DEF AllocInv
    <2>3. rc'[x] > 0 /\ ino'[x] = j
      <3>1. CASE x # ip[t]
        BY <1>2, <2>2, <3>1, Zenon
      <3>2. CASE x = ip[t]
        <4>1. ~(rc[x] <= 1)
          BY <2>1, <2>2, <3>2, Zenon DEF Drops
        <4>2. rc[x] \in Nat /\ rc'[x] \in Nat /\ rc[x] = rc'[x] + 1
          BY <1>1, <1>2, <3>2, Zenon DEF TypeOK
        <4>3. rc'[x] > 0
          BY ONLY <4>1, <4>2
        <4> QED BY <1>2, <2>2, <4>3, Zenon
      <3> QED BY <3>1, <3>2, Zenon
    <2>4. ASSUME disk[j].links # 0 PROVE \E u \in Thread : Unlinking(u)' /\ ino'[ip'[u]] = j
      <3>1. PICK u \in Thread : Unlinking(u) /\ ino[ip[u]] = j
        BY <1>1, <2>1, <2>4, Zenon DEF AllocInv
      <3>2. u # t /\ ip[u] # None
        BY <1>1, <1>11, <3>1, HolderObject, Zenon
      <3>3. ip'[u] = ip[u] /\ ino'[ip[u]] = ino[ip[u]]
        BY <1>2, <1>10, <3>2, Zenon
      <3> QED BY <1>12, <3>1, <3>3, Zenon
    <2> QED BY <2>3, <2>4, Zenon
  <1>16. UseAt(t)'
    <2>1. LiveAt(t)'
      <3>1. ~HasEntry(t)'
        BY <1>2, Zenon DEF HasEntry
      <3> QED BY <1>1, <1>3, <1>13, <3>1, Zenon DEF LiveAt
    <2>2. UnlinkAt(t)' /\ CreateAt(t)' /\ SoleAt(t)' /\ DeadAt(t)'
      BY <1>2, <1>11, Zenon DEF UnlinkAt, CreateAt, SoleAt, DeadAt, Freed
    <2> QED BY <2>1, <2>2, Zenon DEF UseAt
  <1>17. ASSUME NEW u \in Thread, u # t PROVE UseAt(u)'
    <2>1. LiveAt(u) /\ UnlinkAt(u) /\ CreateAt(u) /\ SoleAt(u) /\ DeadAt(u)
      BY PartsAt, Zenon
    <2>2. pc'[u] = pc[u] /\ call'[u] = call[u] /\ ip'[u] = ip[u] /\ open'[u] = open[u]
      BY <1>10, <1>17, Zenon
    <2>3. ip[u] # None => ip[u] \in Object /\ ino'[ip[u]] = ino[ip[u]]
      BY <1>2, <1>17, Zenon
    <2>4. LiveAt(u)'
      <3>1. HasEntry(u)' <=> HasEntry(u)
        BY <2>2, Zenon DEF HasEntry
      <3> QED BY <1>13, <2>1, <2>2, <3>1, Zenon DEF LiveAt
    <2>5. UnlinkAt(u)'
      <3>1. ASSUME call[u] = "unlink", pc[u] \in {"lock_ip", "load", "remove"} PROVE ino'[ip'[u]] \in names'
        <4>1. ip[u] # None /\ ino[ip[u]] \in names
          BY <1>1, <2>1, <3>1, IpObject, Zenon DEF Before, UnlinkAt
        <4> QED BY <1>3, <2>2, <2>3, <4>1, Zenon
      <3>2. ASSUME Unlinking(u) PROVE ino'[ip'[u]] \notin names' /\ disk'[ino'[ip'[u]]].links = 1
        <4>1. ip[u] # None /\ ino[ip[u]] \notin names /\ disk[ino[ip[u]]].links = 1
          BY <1>1, <2>1, <3>2, HolderObject, Zenon DEF UnlinkAt
        <4> QED BY <1>3, <2>2, <2>3, <4>1, Zenon
      <3>3. ASSUME Unlinking(u), NEW v \in Thread, Unlinking(v)', ip'[v] = ip'[u] PROVE v = u
        BY <1>10, <1>11, <1>12, <2>1, <2>2, <3>3, Zenon DEF UnlinkAt
      <3> QED BY <1>12, <2>2, <3>1, <3>2, <3>3, Zenon DEF UnlinkAt
    <2>6. CreateAt(u)'
      <3>1. SUFFICES ASSUME Creating(u), pc[u] \in {"lock_ip", "load", "link"} PROVE CreateAt(u)'
        BY <2>2, Zenon DEF CreateAt, Creating
      <3>2. ip[u] # None
        BY <1>1, <3>1, IpObject, Zenon DEF Before
      <3> QED BY <1>3, <2>1, <2>2, <2>3, <3>1, <3>2, Zenon DEF CreateAt
    <2>7. SoleAt(u)'
      <3>1. SUFFICES ASSUME pc[u] \in {"put_lock", "put_clear"} PROVE SoleAt(u)'
        BY <2>2, Zenon DEF SoleAt
      <3>2. ip[u] # None /\ rc[ip[u]] = 1 /\ entry[ip[u]].links = 0
        BY <1>1, <2>1, <3>1, IpObject, Zenon DEF SoleAt, Before
      <3>3. ip[u] # ip[t]
        <4>1. SUFFICES ASSUME ip[u] = ip[t] PROVE FALSE
          BY Zenon
        <4>2. rc[ip[u]] > 1
          BY <1>1, <1>2, <1>17, <4>1, TwoUsers, Zenon
        <4> QED BY ONLY <3>2, <4>2
      <3> QED BY <1>2, <1>3, <2>2, <2>3, <3>2, <3>3, Zenon DEF SoleAt
    <2>8. DeadAt(u)'
      <3>1. SUFFICES ASSUME Freed(u) PROVE DeadAt(u)'
        BY <2>2, Zenon DEF DeadAt, Freed
      <3>2. /\ valid[ip[u]] /\ entry[ip[u]].type = "none" /\ ino[ip[u]] \notin names
            /\ disk[ino[ip[u]]].type # "none" => rc[ip[u]] > 1
            /\ \A v \in Thread : /\ ip[v] = ip[u] /\ v # u => pc[v] = "lock_ip" /\ Creating(v)
                                 /\ open[v] # ip[u]
        BY <2>1, <3>1, Zenon DEF DeadAt
      <3>3. pc[t] # "lock_ip"
        BY <1>3
      <3>4. ip[u] # ip[t] /\ ip[u] # None
        BY <1>1, <1>17, <3>1, <3>2, <3>3, HolderObject, Zenon
      <3>5. rc'[ip[u]] = rc[ip[u]] /\ ino'[ip[u]] = ino[ip[u]]
        BY <1>2, <2>3, <3>4, Zenon
      <3>6. ASSUME NEW v \in Thread
            PROVE  (ip'[v] = ip'[u] /\ v # u => pc'[v] = "lock_ip" /\ Creating(v)') /\ open'[v] # ip'[u]
        <4>1. CASE v = t
          BY <1>2, <1>3, <2>2, <3>2, <3>4, <4>1, Zenon
        <4>2. CASE v # t
          <5>1. pc'[v] = pc[v] /\ call'[v] = call[v] /\ ip'[v] = ip[v] /\ open'[v] = open[v]
            BY <1>10, <4>2, Zenon
          <5> QED BY <2>2, <3>2, <5>1, Zenon DEF Creating
        <4> QED BY <4>1, <4>2, Zenon
      <3>7. /\ valid'[ip'[u]] /\ entry'[ip'[u]].type = "none" /\ ino'[ip'[u]] \notin names'
            /\ disk'[ino'[ip'[u]]].type # "none" => rc'[ip'[u]] > 1
        BY <1>3, <2>2, <3>2, <3>5, Zenon
      <3> QED BY <3>6, <3>7, Zenon DEF DeadAt
    <2> QED BY <2>4, <2>5, <2>6, <2>7, <2>8, Zenon DEF UseAt
  <1>18. Base'
    BY <1>2, <1>4, <1>5, <1>6, <1>7, <1>8, <1>9, Zenon DEF Base
  <1>19. Core'
    BY <1>14, <1>15, <1>16, <1>17, Zenon DEF Core
  <1> QED BY <1>18, <1>19, Zenon DEF IInv

\* put: when the reference is the last one, the inode has a link and so a
\* name; it is not in an unlink, which would have another reference.
LEMMA PutStep ==
    ASSUME IInv, Tally, NEW t \in Thread, put(t) PROVE IInv'
  <1> DEFINE o == ip[t]
             i == ino[o]
  <1>1. /\ failed = "no" /\ pc[t] = "put" /\ drop(t) /\ ~IsLast(o)
        /\ disk' = disk /\ names' = names /\ valid' = valid /\ entry' = entry /\ lock' = lock /\ owner' = owner
        /\ treeOwner' = treeOwner /\ open' = open /\ call' = call /\ failed' = failed
    BY Zenon DEF put, At
  <1>2. HasEntry(t) /\ ~Unlinking(t)
    BY <1>1, Zenon DEF HasEntry, Unlinking
  <1>3. o # None /\ Live(o) /\ entry[o] = disk[i]
    BY <1>1, <1>2, OwnEntry, Zenon
  <1>4. o \in Object /\ rc[o] > 0 /\ i \in Ino /\ i # 1
    BY <1>3, OwnInode, Zenon
  <1>5. TypeOK /\ CountInv /\ InoInv /\ AllocInv /\ ThreadInv
    BY <1>1, Parts, Zenon
  <1>6. ASSUME rc[o] <= 1 PROVE i \in names
    <2>1. SUFFICES ASSUME i \notin names PROVE FALSE
      BY Zenon
    <2>2. disk[i].type # "none" /\ disk[i].links # 0
      BY <1>1, <1>3, <1>6, Zenon DEF IsLast, Live
    <2>3. PICK u \in Thread : Unlinking(u) /\ ino[ip[u]] = i
      BY <1>4, <1>5, <2>1, <2>2, Zenon DEF AllocInv
    <2>4. u # t /\ ip[u] # None
      BY <1>2, <1>5, <2>3, HolderObject, Zenon
    <2>5. ip[u] \in Object /\ rc[ip[u]] > 0
      BY <2>4, OwnInode, Zenon
    <2>6. ip[u] = o
      BY <1>4, <1>5, <2>3, <2>5, Zenon DEF InoInv, OneObjectPerInode
    <2>7. rc[o] > 1
      BY <1>4, <1>5, <2>4, <2>6, TwoUsers, Zenon
    <2>8. rc[o] \in Nat
      BY <1>4, <1>5, Typed, Zenon
    <2> QED BY ONLY <1>6, <2>7, <2>8
  <1>7. Drops(t)
    BY <1>1, <1>6, Zenon DEF Drops
  <1> QED BY <1>1, <1>7, DropStep, Zenon

\* put_drop: the inode is free, unless somebody has got it again.
LEMMA PutDropStep ==
    ASSUME IInv, Tally, NEW t \in Thread, put_drop(t) PROVE IInv'
  <1>1. /\ failed = "no" /\ pc[t] = "put_drop" /\ drop(t)
        /\ disk' = disk /\ names' = names /\ valid' = valid /\ entry' = entry /\ lock' = lock /\ owner' = owner
        /\ treeOwner' = treeOwner /\ open' = open /\ call' = call /\ failed' = failed
    BY Zenon DEF put_drop, At
  <1>2. TypeOK /\ ThreadInv /\ DeadAt(t)
    BY <1>1, Parts, PartsAt, Zenon
  <1>3. Freed(t)
    BY <1>1, Zenon DEF Freed
  <1>4. ip[t] \in Object
    BY <1>2, <1>3, HolderObject, Zenon
  <1>5. ASSUME rc[ip[t]] <= 1 PROVE disk[ino[ip[t]]].type = "none"
    <2>1. rc[ip[t]] \in Nat
      BY <1>2, <1>4, Typed, Zenon
    <2>2. ~(rc[ip[t]] > 1)
      BY ONLY <1>5, <2>1
    <2> QED BY <1>2, <1>3, <2>2, Zenon DEF DeadAt
  <1>6. Drops(t)
    BY <1>1, <1>5, Zenon DEF Drops
  <1> QED BY <1>1, <1>6, DropStep, Zenon

-----------------------------------------------------------------------------
(* Counting *)

INSTANCE FiniteSetTheorems

\* The share of a in the size of S, and sets that differ in a only.
Ind(a, S) == IF a \in S THEN 1 ELSE 0
OnlyAt(A, B, a) == A \ {a} = B \ {a}

\* Sets that differ in one element.
LEMMA OneChange ==
    ASSUME NEW A, NEW B, NEW a, IsFiniteSet(A), OnlyAt(A, B, a)
    PROVE  /\ IsFiniteSet(B) /\ Cardinality(A) \in Nat /\ Cardinality(B) \in Nat
           /\ Ind(a, A) \in Nat /\ Ind(a, B) \in Nat
           /\ Cardinality(B) + Ind(a, A) = Cardinality(A) + Ind(a, B)
  <1> DEFINE C == A \ {a}
  <1>1. IsFiniteSet(C) /\ Cardinality(C) = Cardinality(A) - Ind(a, A)
    <2>1. CASE a \in A
      BY <2>1, FS_RemoveElement, Zenon DEF Ind
    <2>2. CASE a \notin A
      <3>1. C = A
        BY <2>2, Zenon
      <3>2. Cardinality(A) \in Nat
        BY FS_CardinalityType, Zenon
      <3> HIDE DEF C
      <3> QED BY <2>2, <3>1, <3>2 DEF Ind
    <2> QED BY <2>1, <2>2, Zenon
  <1>2. IsFiniteSet(B) /\ Cardinality(B) = Cardinality(C) + Ind(a, B)
    <2>1. CASE a \in B
      <3>1. B = C \union {a} /\ a \notin C
        BY <2>1, Zenon DEF OnlyAt
      <3> HIDE DEF C
      <3> QED BY <1>1, <2>1, <3>1, FS_AddElement, Zenon DEF Ind
    <2>2. CASE a \notin B
      <3>1. C = B
        BY <2>2, Zenon DEF OnlyAt
      <3>2. Cardinality(C) \in Nat
        BY <1>1, FS_CardinalityType, Zenon
      <3> QED BY <1>1, <2>2, <3>1, <3>2 DEF Ind
    <2> QED BY <2>1, <2>2, Zenon
  <1>3. Cardinality(A) \in Nat /\ Cardinality(B) \in Nat /\ Cardinality(C) \in Nat
    BY <1>1, <1>2, FS_CardinalityType, Zenon
  <1> HIDE DEF C
  <1> QED BY <1>1, <1>2, <1>3 DEF Ind

\* To differ at most in one element.
LEMMA SameElsewhere ==
    ASSUME NEW S, NEW A, A \subseteq S, NEW B, B \subseteq S, NEW a,
           \A x \in S : x # a => (x \in A <=> x \in B)
    PROVE  OnlyAt(A, B, a)
  BY Zenon DEF OnlyAt

\* The references to an object, as numbers.
LEMMA CountsTyped ==
    ASSUME NEW o
    PROVE  /\ IsFiniteSet(OpenRefs(o)) /\ IsFiniteSet(IpRefs(o))
           /\ Cardinality(OpenRefs(o)) \in Nat /\ Cardinality(IpRefs(o)) \in Nat
  <1>1. OpenRefs(o) \subseteq Thread /\ IpRefs(o) \subseteq Thread
    BY Zenon DEF OpenRefs, IpRefs
  <1>2. IsFiniteSet(OpenRefs(o)) /\ IsFiniteSet(IpRefs(o))
    BY <1>1, InodeAssumption, FS_Subset, Zenon
  <1> QED BY <1>2, FS_CardinalityType, Zenon

\* The counts follow when the step of a process pays for its own references.
LEMMA PaidCount ==
    ASSUME CountInv, TypeOK, NEW t \in Thread, Only(t),
           \A o \in Object : Pays(t, o)
    PROVE  CountInv'
  <1>1. SUFFICES ASSUME NEW o \in Object
                 PROVE  rc'[o] = Cardinality(OpenRefs(o)') + Cardinality(IpRefs(o)') + (IF o = root THEN 1 ELSE 0)
    BY Zenon DEF CountInv
  <1>2. rc[o] = Cardinality(OpenRefs(o)) + Cardinality(IpRefs(o)) + (IF o = root THEN 1 ELSE 0)
    BY Zenon DEF CountInv
  <1>3. OnlyAt(OpenRefs(o), OpenRefs(o)', t) /\ OnlyAt(IpRefs(o), IpRefs(o)', t)
    <2>1. /\ OpenRefs(o) \subseteq Thread /\ OpenRefs(o)' \subseteq Thread
          /\ IpRefs(o) \subseteq Thread /\ IpRefs(o)' \subseteq Thread
      BY Zenon DEF OpenRefs, IpRefs
    <2>2. \A u \in Thread : u # t => /\ u \in OpenRefs(o) <=> u \in OpenRefs(o)'
                                     /\ u \in IpRefs(o) <=> u \in IpRefs(o)'
      BY Zenon DEF OpenRefs, IpRefs, Only
    <2> QED BY <2>1, <2>2, SameElsewhere, Zenon
  <1>4. /\ Ind(t, OpenRefs(o)) = One(open[t] = o) /\ Ind(t, OpenRefs(o)') = One(open'[t] = o)
        /\ Ind(t, IpRefs(o)) = One(ip[t] = o) /\ Ind(t, IpRefs(o)') = One(ip'[t] = o)
    BY Zenon DEF Ind, One, OpenRefs, IpRefs
  <1>5. IsFiniteSet(OpenRefs(o)) /\ IsFiniteSet(IpRefs(o))
    BY CountsTyped, Zenon
  <1> DEFINE A == OpenRefs(o)
             B == OpenRefs(o)'
             C == IpRefs(o)
             D == IpRefs(o)'
  <1> HIDE DEF A, B, C, D
  <1>6. /\ Cardinality(A) \in Nat /\ Cardinality(B) \in Nat /\ Ind(t, A) \in Nat /\ Ind(t, B) \in Nat
        /\ Cardinality(B) + Ind(t, A) = Cardinality(A) + Ind(t, B)
    <2>1. IsFiniteSet(A) /\ OnlyAt(A, B, t)
      BY <1>3, <1>5, Zenon DEF A, B
    <2> QED BY ONLY <2>1, OneChange
  <1>7. /\ Cardinality(C) \in Nat /\ Cardinality(D) \in Nat /\ Ind(t, C) \in Nat /\ Ind(t, D) \in Nat
        /\ Cardinality(D) + Ind(t, C) = Cardinality(C) + Ind(t, D)
    <2>1. IsFiniteSet(C) /\ OnlyAt(C, D, t)
      BY <1>3, <1>5, Zenon DEF C, D
    <2> QED BY ONLY <2>1, OneChange
  <1>8. rc'[o] \in Nat /\ rc'[o] + Ind(t, A) + Ind(t, C) = rc[o] + Ind(t, B) + Ind(t, D)
    BY <1>4, Zenon DEF A, B, C, D, Pays
  <1>9. rc[o] = Cardinality(A) + Cardinality(C) + (IF o = root THEN 1 ELSE 0)
    BY <1>2, Zenon DEF A, C
  <1>10. rc'[o] = Cardinality(B) + Cardinality(D) + (IF o = root THEN 1 ELSE 0)
    BY ONLY <1>6, <1>7, <1>8, <1>9
  <1> QED BY <1>10, Zenon DEF B, D

\* What the counts say of a process: its objects are in use, and when one has
\* a single reference nobody else has it.
LEMMA OneUserCount ==
    ASSUME CountInv, TypeOK, NEW t \in Thread, NEW o \in Object, open[t] = o \/ ip[t] = o
    PROVE  rc[o] > 0
  <1>1. rc[o] = Cardinality(OpenRefs(o)) + Cardinality(IpRefs(o)) + (IF o = root THEN 1 ELSE 0)
    BY Zenon DEF CountInv
  <1>2. /\ IsFiniteSet(OpenRefs(o)) /\ IsFiniteSet(IpRefs(o))
        /\ Cardinality(OpenRefs(o)) \in Nat /\ Cardinality(IpRefs(o)) \in Nat
    BY CountsTyped, Zenon
  <1>3. OpenRefs(o) # {} \/ IpRefs(o) # {}
    BY Zenon DEF OpenRefs, IpRefs
  <1>4. Cardinality(OpenRefs(o)) # 0 \/ Cardinality(IpRefs(o)) # 0
    BY <1>2, <1>3, FS_EmptySet, Zenon
  <1> QED BY ONLY <1>1, <1>2, <1>4

\* Two elements make a cardinality of at least two.
LEMMA TwoElements ==
    ASSUME NEW S, IsFiniteSet(S), NEW a \in S, NEW b \in S, a # b
    PROVE  Cardinality(S) > 1
  <1>1. {a, b} \subseteq S
    BY Zenon
  <1>2. Cardinality({a, b}) <= Cardinality(S)
    BY <1>1, FS_Subset, Zenon
  <1>3. IsFiniteSet({b}) /\ Cardinality({b}) = 1
    BY FS_Singleton, Zenon
  <1>4. Cardinality({b} \union {a}) = 2
    <2>1. a \notin {b}
      BY Zenon
    <2>2. Cardinality({b} \union {a}) = Cardinality({b}) + 1
      BY <1>3, <2>1, FS_AddElement, Zenon
    <2> QED BY ONLY <1>3, <2>2
  <1>5. {b} \union {a} = {a, b}
    BY Zenon
  <1>6. Cardinality(S) \in Nat
    BY FS_CardinalityType, Zenon
  <1> QED BY ONLY <1>2, <1>4, <1>5, <1>6

\* An object that a second open file or process uses is counted twice at least.
LEMMA TwoUserCount ==
    ASSUME CountInv, TypeOK, NEW t \in Thread, NEW u \in Thread, NEW o \in Object, ip[t] = o,
           open[u] = o \/ (ip[u] = o /\ u # t)
    PROVE  rc[o] > 1
  <1>1. rc[o] = Cardinality(OpenRefs(o)) + Cardinality(IpRefs(o)) + (IF o = root THEN 1 ELSE 0)
    BY Zenon DEF CountInv
  <1>2. /\ IsFiniteSet(OpenRefs(o)) /\ IsFiniteSet(IpRefs(o))
        /\ Cardinality(OpenRefs(o)) \in Nat /\ Cardinality(IpRefs(o)) \in Nat
    BY CountsTyped, Zenon
  <1>3. t \in IpRefs(o)
    BY Zenon DEF IpRefs
  <1>4. CASE open[u] = o
    <2>1. u \in OpenRefs(o)
      BY <1>4, Zenon DEF OpenRefs
    <2>2. Cardinality(OpenRefs(o)) # 0 /\ Cardinality(IpRefs(o)) # 0
      BY <1>2, <1>3, <2>1, FS_EmptySet, Zenon
    <2> QED BY ONLY <1>1, <1>2, <2>2
  <1>5. CASE ip[u] = o /\ u # t
    <2>1. u \in IpRefs(o)
      BY <1>5, Zenon DEF IpRefs
    <2>2. Cardinality(IpRefs(o)) > 1
      BY <1>2, <1>3, <1>5, <2>1, TwoElements, Zenon
    <2> QED BY ONLY <1>1, <1>2, <2>2
  <1> QED BY <1>4, <1>5, Zenon

\* An object in use has a user.
LEMMA SomeUser ==
    ASSUME CountInv, NEW o \in Object, rc[o] > 0, o # root
    PROVE  \E t \in Thread : open[t] = o \/ ip[t] = o
  <1>1. rc[o] = Cardinality(OpenRefs(o)) + Cardinality(IpRefs(o)) + 0
    BY Zenon DEF CountInv
  <1>2. SUFFICES ASSUME OpenRefs(o) = {}, IpRefs(o) = {} PROVE FALSE
    BY Zenon DEF OpenRefs, IpRefs
  <1>3. Cardinality(OpenRefs(o)) = 0 /\ Cardinality(IpRefs(o)) = 0
    BY <1>2, FS_EmptySet, Zenon
  <1> QED BY ONLY <1>1, <1>3, rc[o] > 0

\* The root is always in use.
LEMMA RootCount ==
    ASSUME CountInv
    PROVE  rc[root] > 0
  <1>1. rc[root] = Cardinality(OpenRefs(root)) + Cardinality(IpRefs(root)) + 1
    BY InodeAssumption, Zenon DEF CountInv
  <1>2. Cardinality(OpenRefs(root)) \in Nat /\ Cardinality(IpRefs(root)) \in Nat
    BY CountsTyped, Zenon
  <1> QED BY ONLY <1>1, <1>2

\* There is memory for one object per inode.
LEMMA FreeObject ==
    ASSUME TypeOK, InoInv, NEW i \in Ino, Cached(i) = {}
    PROVE  \E o \in Object : rc[o] = 0
  <1>1. SUFFICES ASSUME \A o \in Object : rc[o] # 0 PROVE FALSE
    BY Zenon
  <1>2. \A o \in Object : rc[o] > 0
    BY <1>1, Typed
  <1>3. \A o \in Object : ino[o] \in Ino \ {i}
    <2>1. \A o \in Object : ino[o] # i
      BY <1>2, Zenon DEF Cached
    <2> QED BY <1>2, <2>1, Zenon DEF InoInv
  <1>4. ino \in Injection(Object, Ino \ {i})
    <2>1. ino \in [Object -> Ino \ {i}]
      BY <1>3, Zenon DEF TypeOK
    <2>2. \A a, b \in Object : ino[a] = ino[b] => a = b
      BY <1>2, Zenon DEF InoInv, OneObjectPerInode
    <2> QED BY <2>1, <2>2, Zenon DEF Injection, IsInjective
  <1>5. IsFiniteSet(Ino) /\ Cardinality(Ino) = NINODES /\ IsFiniteSet(Object) /\ Cardinality(Object) >= NINODES
    <2>1. NINODES \in Nat \ {0, 1} /\ 1 \in Int /\ NINODES \in Int
      BY InodeAssumption
    <2>2. IsFiniteSet(1 .. NINODES) /\ Cardinality(1 .. NINODES) = IF 1 > NINODES THEN 0 ELSE NINODES - 1 + 1
      BY <2>1, FS_Interval
    <2>3. Cardinality(1 .. NINODES) = NINODES
      BY <2>1, <2>2
    <2> QED BY <2>2, <2>3, InodeAssumption, Zenon DEF Ino
  <1>6. IsFiniteSet(Ino \ {i}) /\ Cardinality(Ino \ {i}) = NINODES - 1
    BY <1>5, FS_RemoveElement, Zenon
  <1>7. Cardinality(Object) <= Cardinality(Ino \ {i})
    BY <1>4, <1>5, <1>6, FS_Injection, Zenon
  <1>8. NINODES \in Nat /\ Cardinality(Object) \in Nat
    BY InodeAssumption, <1>5, FS_CardinalityType, Zenon
  <1> QED BY ONLY <1>5, <1>6, <1>7, <1>8

\* The directories in the root, and what a name more or less does to them.
LEMMA SubDirsFinite ==
    ASSUME TypeOK
    PROVE  IsFiniteSet(SubDirs) /\ Cardinality(SubDirs) \in Nat
  <1>1. SubDirs \subseteq Ino
    BY Zenon DEF SubDirs, TypeOK
  <1>2. IsFiniteSet(Ino)
    BY InodeAssumption, FS_Interval DEF Ino
  <1>3. IsFiniteSet(SubDirs)
    BY <1>1, <1>2, FS_Subset, Zenon
  <1> QED BY <1>3, FS_CardinalityType, Zenon

\* The invariant gives the steps what they use of it.
LEMMA TallyHolds ==
    ASSUME TypeOK, CountInv, InoInv PROVE Tally
  <1>1. rc[root] > 0
    BY RootCount, Zenon
  <1>2. \A t \in Thread, o \in Object : open[t] = o \/ ip[t] = o => rc[o] > 0
    BY OneUserCount, Zenon
  <1>3. \A t, u \in Thread, o \in Object : ip[t] = o /\ (open[u] = o \/ (ip[u] = o /\ u # t)) => rc[o] > 1
    BY TwoUserCount, Zenon
  <1>4. \A i \in Ino : Cached(i) = {} => \E o \in Object : rc[o] = 0
    BY FreeObject, Zenon
  <1>5. \A t \in Thread : Only(t) /\ (\A o \in Object : Pays(t, o)) => CountInv'
    BY PaidCount, Zenon
  <1>6. IsFiniteSet(SubDirs) /\ Cardinality(SubDirs) \in Nat
    BY SubDirsFinite, Zenon
  <1>7. \A i \in Ino \ SubDirs : Cardinality(SubDirs \union {i}) = Cardinality(SubDirs) + 1
    BY <1>6, FS_AddElement, Zenon
  <1>8. \A i \in SubDirs : Cardinality(SubDirs \ {i}) = Cardinality(SubDirs) - 1
    BY <1>6, FS_RemoveElement, Zenon
  <1> QED BY <1>1, <1>2, <1>3, <1>4, <1>5, <1>6, <1>7, <1>8, Zenon DEF Tally

-----------------------------------------------------------------------------
(* The invariant holds *)

\* It holds when init_inodes has taken the root.
LEMMA InitInv ==
    ASSUME Init PROVE IInv
  <1>1. 1 \in Ino /\ 2 \in Ino \ {1} /\ root \in Object /\ None \notin Thread \union Cpu \union Object
    BY InodeAssumption DEF Ino
  <1>2. TypeOK
    <2>1. NoEntry \in Entry /\ [type |-> "dir", links |-> 1] \in Entry /\ [type |-> "file", links |-> 1] \in Entry
      BY DEF Entry, NoEntry
    <2>2. disk \in [Ino -> Entry] /\ names \subseteq Ino \ {1}
      BY <1>1, <2>1 DEF Init
    <2>3. ino \in [Object -> Ino \union {0}] /\ rc \in [Object -> Nat] /\ valid \in [Object -> BOOLEAN]
      BY <1>1 DEF Init
    <2>4. entry \in [Object -> Entry]
      BY <2>1, Zenon DEF Init
    <2>5. /\ lock \in [Object -> Cpu \union {None}] /\ owner \in [Object -> Thread \union {None}]
          /\ treeOwner \in Thread \union {None} /\ cpu \in [Thread -> Cpu \union {None}]
          /\ ip \in [Thread -> Object \union {None}] /\ open \in [Thread -> Object \union {None}]
      BY Zenon DEF Init
    <2>6. /\ pc \in [Thread -> Pc] /\ call \in [Thread -> {"open", "unlink", "close"} \union CreateTypes]
          /\ failed \in {"no", "type", "not_held", "already_held", "inode_zero", "full"}
      BY Zenon DEF Init, Pc
    <2> QED BY <2>2, <2>3, <2>4, <2>5, <2>6, Zenon DEF TypeOK
  <1>3. \A t \in Thread : pc[t] = "user" /\ ip[t] = None /\ open[t] = None /\ call[t] = "close"
    BY Zenon DEF Init
  <1>4. LockInv
    BY <1>3, Zenon DEF Init, LockInv, HoldsRoot, HoldsIp
  <1>5. ThreadInv
    BY <1>1, <1>3, Zenon DEF ThreadInv, CallAt, RefAt, Before
  <1>6. CountInv
    <2>1. SUFFICES ASSUME NEW o \in Object
                   PROVE  rc[o] = Cardinality(OpenRefs(o)) + Cardinality(IpRefs(o)) + (IF o = root THEN 1 ELSE 0)
      BY Zenon DEF CountInv
    <2>2. OpenRefs(o) = {} /\ IpRefs(o) = {}
      BY <1>1, <1>3, <2>1, Zenon DEF OpenRefs, IpRefs
    <2>3. Cardinality(OpenRefs(o)) = 0 /\ Cardinality(IpRefs(o)) = 0
      BY <2>2, FS_EmptySet, Zenon
    <2>4. rc[o] = IF o = root THEN 1 ELSE 0
      BY <2>1, Zenon DEF Init
    <2> QED BY ONLY <2>3, <2>4
  <1>7. InoInv
    <2>1. \A o \in Object : rc[o] > 0 => o = root
      BY DEF Init
    <2>2. ino[root] = 1
      BY <1>1, Zenon DEF Init
    <2> QED BY <1>1, <2>1, <2>2, Zenon DEF InoInv, OneObjectPerInode
  <1>8. EntryInv
    BY Zenon DEF EntryInv, Live, Init
  <1>9. disk[1] = [type |-> "dir", links |-> 1] /\ disk[2] = [type |-> "file", links |-> 1]
        /\ \A i \in Ino : i # 1 /\ i # 2 => disk[i] = NoEntry
    BY <1>1 DEF Init
  <1>10. RootInv
    <2>1. SubDirs = {}
      BY <1>9 DEF SubDirs, Init
    <2>2. Cardinality(SubDirs) = 0
      BY <2>1, FS_EmptySet, Zenon
    <2>3. entry[root] = [type |-> "dir", links |-> 1]
      BY <1>1, Zenon DEF Init
    <2> QED BY <1>9, <2>2, <2>3 DEF RootInv
  <1>11. NameInv /\ AllocInv
    <2>1. names = {2}
      BY Zenon DEF Init
    <2>2. disk[2].type # "none" /\ disk[2].links = 1 /\ NoEntry.type = "none"
      BY <1>9 DEF NoEntry
    <2> QED BY <1>9, <2>1, <2>2, Zenon DEF NameInv, AllocInv
  <1>12. ASSUME NEW t \in Thread PROVE UseAt(t)
    <2>1. LiveAt(t) /\ UnlinkAt(t)
      BY <1>3, Zenon DEF LiveAt, HasEntry, UnlinkAt, Unlinking
    <2>2. CreateAt(t) /\ SoleAt(t) /\ DeadAt(t)
      BY <1>3, Zenon DEF CreateAt, SoleAt, DeadAt, Freed
    <2> QED BY <2>1, <2>2, Zenon DEF UseAt
  <1> QED BY <1>2, <1>4, <1>5, <1>6, <1>7, <1>8, <1>10, <1>11, <1>12, Zenon DEF IInv, Base, Core

\* Nothing happens.
LEMMA StutterStep ==
    ASSUME IInv, UNCHANGED vars PROVE IInv'
  <1>1. /\ Still /\ Same /\ lock' = lock /\ owner' = owner /\ treeOwner' = treeOwner /\ pc' = pc /\ failed' = failed
        /\ cpu' = cpu
    BY Zenon DEF vars, objectVars, threadVars, Still, Same
  <1>2. cpu' \in [Thread -> Cpu \union {None}]
    BY <1>1, Parts, Zenon DEF TypeOK
  <1> QED BY <1>1, <1>2, CpuStep, Zenon

\* It is inductive.
LEMMA NextInv ==
    ASSUME IInv, [Next]_vars PROVE IInv'
  <1> Tally
    BY Parts, TallyHolds, Zenon
  <1>1. CASE UNCHANGED vars
    BY <1>1, StutterStep, Zenon
  <1>2. ASSUME NEW t \in Thread, sleep(t) \/ resume(t) PROVE IInv'
    BY <1>2, SleepStep, Zenon
  <1>3. ASSUME NEW t \in Thread, NEW what \in {"open", "unlink"} \union CreateTypes, begin_call(t, what) PROVE IInv'
    BY <1>3, BeginCallStep, Zenon
  <1>4. ASSUME NEW t \in Thread, begin_close(t) PROVE IInv'
    BY <1>4, BeginCloseStep, Zenon
  <1>5. ASSUME NEW t \in Thread, lock_dp(t) PROVE IInv'
    BY <1>5, LockDpStep, Zenon
  <1>6. ASSUME NEW t \in Thread, acquire_panics(t) \/ create_panics(t) PROVE IInv'
    BY <1>6, StopStep, Zenon
  <1>7. ASSUME NEW t \in Thread, lookup_found(t) PROVE IInv'
    BY <1>7, LookupFoundStep, Zenon
  <1>8. ASSUME NEW t \in Thread, lookup_fails(t) PROVE IInv'
    BY <1>8, LookupFailsStep, Zenon
  <1>9. ASSUME NEW t \in Thread, inode_alloc(t) PROVE IInv'
    BY <1>9, InodeAllocStep, Zenon
  <1>10. ASSUME NEW t \in Thread, lock_ip(t) PROVE IInv'
    BY <1>10, LockIpStep, Zenon
  <1>11. ASSUME NEW t \in Thread, load(t) PROVE IInv'
    BY <1>11, LoadStep, Zenon
  <1>12. ASSUME NEW t \in Thread, link(t) PROVE IInv'
    BY <1>12, LinkStep, Zenon
  <1>13. ASSUME NEW t \in Thread, remove(t) PROVE IInv'
    BY <1>13, RemoveStep, Zenon
  <1>14. ASSUME NEW t \in Thread, unlock_dp(t) PROVE IInv'
    BY <1>14, UnlockDpStep, Zenon
  <1>15. ASSUME NEW t \in Thread, unlink(t) PROVE IInv'
    BY <1>15, UnlinkStep, Zenon
  <1>16. ASSUME NEW t \in Thread, unlock_ip(t) PROVE IInv'
    BY <1>16, UnlockIpStep, Zenon
  <1>17. ASSUME NEW t \in Thread, put(t) PROVE IInv'
    BY <1>17, PutStep, Zenon
  <1>18. ASSUME NEW t \in Thread, put_last(t) PROVE IInv'
    BY <1>18, PutLastStep, Zenon
  <1>19. ASSUME NEW t \in Thread, put_lock(t) PROVE IInv'
    BY <1>19, PutLockStep, Zenon
  <1>20. ASSUME NEW t \in Thread, put_clear(t) PROVE IInv'
    BY <1>20, PutClearStep, Zenon
  <1>21. ASSUME NEW t \in Thread, put_unlock(t) PROVE IInv'
    BY <1>21, PutUnlockStep, Zenon
  <1>22. ASSUME NEW t \in Thread, put_drop(t) PROVE IInv'
    BY <1>22, PutDropStep, Zenon
  <1>23. CASE halted
    BY <1>1, <1>23, Zenon DEF halted
  <1> QED BY <1>1, <1>2, <1>3, <1>4, <1>5, <1>6, <1>7, <1>8, <1>9, <1>10, <1>11, <1>12, <1>13,
             <1>14, <1>15, <1>16, <1>17, <1>18, <1>19, <1>20, <1>21, <1>22, <1>23, Zenon DEF Next

\* IInv holds in every state that the system calls of fs/inode.c,
\* core/sysfile.c and fs/file.c reach.
THEOREM InodeInvariant == Spec => []IInv
  BY InitInv, NextInv, PTL DEF Spec

\* inode_get makes no second object for an inode that is in memory.
THEOREM OneObjectPerInodeHolds == Spec => []OneObjectPerInode
  <1>1. IInv => OneObjectPerInode
    BY Zenon DEF IInv, Base, InoInv
  <1> QED BY <1>1, InodeInvariant, PTL

\* Who is between inode_lock and inode_unlock owns the lock, for every number
\* of CPUs and also for a process that sleeps with a spinlock.
THEOREM LockOwnedHolds == Spec => []LockOwned
  <1>1. IInv => LockOwned
    BY Zenon DEF IInv, Base, LockInv, HoldsRoot, HoldsIp, LockOwned
  <1> QED BY <1>1, InodeInvariant, PTL

\* The reference count that increment_rc and decrement_rc keep is the number
\* of open files and system calls that use the object.
THEOREM RefsCountedHolds == Spec => []RefsCounted
  <1>1. IInv => RefsCounted
    BY Zenon DEF IInv, Base, CountInv, OpenRefs, IpRefs, RefsCounted
  <1> QED BY <1>1, InodeInvariant, PTL

\* inode_put frees an inode on disk with its last use and not before.
THEOREM FreedWithLastUseHolds == Spec => []FreedWithLastUse
  <1> DEFINE Used == {1} \union names \union {ino[o] : o \in {open[t] : t \in Thread} \ {None}}
  <1>1. ASSUME IInv, failed = "no", NEW i \in Used PROVE disk[i].type # "none"
    <2>1. CASE i = 1
      <3>1. disk[1].type = "dir"
        BY <1>1, Parts, Zenon DEF RootInv
      <3> QED BY <2>1, <3>1
    <2>2. CASE i \in names
      BY <1>1, <2>2, Parts, Zenon DEF NameInv
    <2>3. ASSUME NEW t \in Thread, open[t] # None, i = ino[open[t]] PROVE disk[i].type # "none"
      <3>0. Tally
        BY <1>1, Parts, TallyHolds, Zenon
      <3>1. open[t] \in Object /\ open[t] # root /\ rc[open[t]] > 0
        BY <1>1, <2>3, <3>0, InUseAt, Zenon
      <3>2. Live(open[t])
        BY <1>1, <2>3, PartsAt, Zenon DEF LiveAt
      <3>3. entry[open[t]] = disk[i]
        BY <1>1, <2>3, <3>1, <3>2, Parts, Zenon DEF EntryInv
      <3> QED BY <3>2, <3>3, Zenon DEF Live
    <2> QED BY <1>1, <2>1, <2>2, <2>3, Zenon
  <1>2. ASSUME IInv, failed = "no", \A t \in Thread : pc[t] = "user", NEW i \in Ino \ Used
        PROVE  disk[i].type = "none"
    <2>1. SUFFICES ASSUME disk[i].type # "none" PROVE FALSE
      BY Zenon
    <2>2. AllocInv /\ InoInv /\ CountInv
      BY <1>2, Parts, Zenon
    <2>3. i \in Ino \ {1} /\ i \notin names
      BY <1>2, Zenon
    <2>4. PICK o \in Object : rc[o] > 0 /\ ino[o] = i
      BY <2>1, <2>2, <2>3, Zenon DEF AllocInv
    <2>5. o # root
      BY <2>2, <2>3, <2>4, Zenon DEF InoInv
    <2>6. PICK t \in Thread : open[t] = o \/ ip[t] = o
      BY <2>2, <2>4, <2>5, SomeUser, Zenon
    <2>7. ip[t] = None /\ o # None
      BY <1>2, PartsAt, InodeAssumption, Zenon DEF RefAt, Before
    <2> QED BY <1>2, <2>4, <2>6, <2>7, Zenon
  <1>3. IInv => FreedWithLastUse
    BY <1>1, <1>2, Zenon DEF FreedWithLastUse
  <1> QED BY <1>3, InodeInvariant, PTL

\* Every change of an entry is on disk when the lock of the inode is free.
THEOREM EntryWrittenHolds == Spec => []EntryWritten
  <1>1. IInv => EntryWritten
    BY Zenon DEF IInv, Base, EntryInv, Live, EntryWritten
  <1> QED BY <1>1, InodeInvariant, PTL
=============================================================================
