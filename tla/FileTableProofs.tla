-------------------------- MODULE FileTableProofs --------------------------
(***************************************************************************)
(* Theorems about open files (module FileTable), for every number of       *)
(* processes, table slots, descriptors and inodes.                         *)
(*                                                                         *)
(* The counts are the hard part: a reference count is an equation between  *)
(* a number and the sizes of sets.  A step changes at most one descriptor, *)
(* one slot, one working directory and the variables of one process, so    *)
(* RefStep and InodeStep reduce the equations to what the step does to     *)
(* those.  What the steps need to know about the sizes of sets is the      *)
(* assumption Counting of their lemmas, which CountingHolds proves.        *)
(***************************************************************************)
EXTENDS FileTable, TLAPS

-----------------------------------------------------------------------------
(* The inductive invariant *)

Opening == {"open_fd", "open_undo", "open_fill"}
HasFile == Opening \union {"dup_ref", "close_file", "lock", "move"}
HasInode == Opening \union {"open_file", "put", "chdir_put", "exit_put"}

Named(p, x) == \E d \in Fd : ofile[p][d] = x
Twice(p, x) == \E d, e \in Fd : d # e /\ ofile[p][d] = x /\ ofile[p][e] = x

\* What a process has in hand at which place, and what it has left when it is
\* no longer, or not yet, running.
PlaceAt(p) ==
    /\ pc[p] # "user" => state[p] = "running"
    /\ pc[p] \in HasFile <=> f[p] # 0
    /\ pc[p] \in HasInode <=> ip[p] # None
    /\ state[p] = "running" <=> cwd[p] # None
    /\ \A d \in Fd :
          (\/ state[p] \in {"unused", "zombie"}
           \/ pc[p] \in {"exit_file", "exit_put"} /\ d < fd[p]
           \/ pc[p] = "exit_cwd") => ofile[p][d] = 0

PlaceInv == \A p \in Proc : PlaceAt(p)

\* fork's child belongs to it, and has no descriptor that is still to be copied.
ForkInv ==
    /\ \A p \in Proc : pc[p] = "fork_fd" =>
          /\ child[p] \in Proc /\ state[child[p]] = "embryo"
          /\ \A d \in Fd : d >= fd[p] => ofile[child[p]][d] = 0
    /\ \A p, q \in Proc :
          pc[p] = "fork_fd" /\ pc[q] = "fork_fd" /\ child[p] = child[q] => p = q

\* Who uses a file has a descriptor for it; between the two halves of dup two.
UseInv ==
    \A p \in Proc :
        /\ pc[p] \in {"open_fill", "lock", "move"} => Named(p, f[p])
        /\ pc[p] = "dup_ref" => Twice(p, f[p])
        /\ pc[p] \in {"lock", "move"} => omode[p] \in {"r", "w"}

\* The slot that open fills is nobody else's.
OpenInv ==
    \A p \in Proc : pc[p] \in Opening =>
        /\ type[f[p]] = "none"
        /\ \A q \in Proc : q # p => f[q] # f[p] /\ ~Named(q, f[p])
        /\ pc[p] # "open_fill" => ~Named(p, f[p])

\* A slot that is in use and not being opened is complete.
SlotInv ==
    \A x \in File :
        /\ type[x] = "inode" => ref[x] > 0 /\ fip[x] \in Inode /\ off[x] <= size[fip[x]]
        /\ ref[x] > 0 /\ type[x] = "none" => \E p \in Proc : pc[p] \in Opening /\ f[p] = x

\* Who works on an inode has its lock.
LockInv ==
    \A p \in Proc :
        /\ pc[p] \in {"open_file", "open_fd", "open_undo"} => ilock[ip[p]] = p
        /\ pc[p] = "move" => ilock[fip[f[p]]] = p

FInv ==
    /\ ~panicked /\ RefsExact /\ InodeRefsExact /\ TransferAtOffset
    /\ PlaceInv /\ ForkInv /\ UseInv /\ OpenInv /\ SlotInv /\ LockInv

-----------------------------------------------------------------------------
(* What counting tells the steps *)

One(b) == IF b THEN 1 ELSE 0

Ind(a, S) == IF a \in S THEN 1 ELSE 0
OnlyAt(A, B, a) == A \ {a} = B \ {a}

\* To differ at most in one element.
LEMMA SameElsewhere ==
    ASSUME NEW S, NEW A, A \subseteq S, NEW B, B \subseteq S, NEW a,
           \A x \in S : x # a => (x \in A <=> x \in B)
    PROVE  OnlyAt(A, B, a)
  BY Zenon DEF OnlyAt

\* To have two entries each in a table.
EachTwice(D, T) ==
    /\ T \subseteq Proc \X Fd /\ D \subseteq Proc
    /\ \A p \in D : \E d, e \in Fd : d # e /\ <<p, d>> \in T /\ <<p, e>> \in T

\* What the steps use of the sizes of sets: what is counted is finite; sets
\* that differ in one element; processes with two entries each in a table are
\* fewer than the entries; the least number of a set is one of them.  The
\* lemmas about the steps assume it; CountingHolds proves it.
Counting ==
    /\ \A S : S \subseteq Proc \/ S \subseteq File \/ S \subseteq Proc \X Fd => IsFiniteSet(S)
    /\ \A S : IsFiniteSet(S) => Cardinality(S) \in Nat /\ (Cardinality(S) = 0 <=> S = {})
    /\ \A a : Cardinality({a}) = 1
    /\ \A A, B, a : IsFiniteSet(A) /\ OnlyAt(A, B, a) =>
          /\ Cardinality(A) \in Nat /\ Cardinality(B) \in Nat
          /\ Cardinality(B) + Ind(a, A) = Cardinality(A) + Ind(a, B)
    /\ \A D, T : EachTwice(D, T) =>
          Cardinality(D) <= Cardinality(T) /\ (T # {} => Cardinality(D) < Cardinality(T))
    /\ \A S : S \subseteq Nat /\ S # {} => Min(S) \in S /\ \A x \in S : Min(S) <= x

\* Everything that is counted is finite.
LEMMA Finite ==
    ASSUME Counting
    PROVE  /\ \A S : S \subseteq Proc => IsFiniteSet(S)
           /\ \A S : S \subseteq File => IsFiniteSet(S)
           /\ \A S : S \subseteq Proc \X Fd => IsFiniteSet(S)
  BY Zenon DEF Counting

\* The size of a finite set.
LEMMA Size ==
    ASSUME Counting, NEW S, IsFiniteSet(S)
    PROVE  Cardinality(S) \in Nat /\ (Cardinality(S) = 0 <=> S = {})
  BY Zenon DEF Counting

\* Sets that differ in one element.
LEMMA OneChange ==
    ASSUME Counting, NEW A, NEW B, NEW a, IsFiniteSet(A), OnlyAt(A, B, a)
    PROVE  /\ Cardinality(A) \in Nat /\ Cardinality(B) \in Nat
           /\ Ind(a, A) \in Nat /\ Ind(a, B) \in Nat
           /\ Cardinality(B) + Ind(a, A) = Cardinality(A) + Ind(a, B)
  <1>1. Ind(a, A) \in Nat /\ Ind(a, B) \in Nat
    BY DEF Ind
  <1> QED BY <1>1, Zenon DEF Counting

\* Processes with two entries each in a table are fewer than the entries.
LEMMA TwoEach ==
    ASSUME Counting, NEW T, NEW D, EachTwice(D, T)
    PROVE  /\ Cardinality(D) \in Nat /\ Cardinality(T) \in Nat
           /\ Cardinality(D) <= Cardinality(T)
           /\ T # {} => Cardinality(D) < Cardinality(T)
  <1>1. IsFiniteSet(D) /\ IsFiniteSet(T)
    BY Finite, Zenon DEF EachTwice
  <1>2. Cardinality(D) \in Nat /\ Cardinality(T) \in Nat
    BY <1>1, Size, Zenon
  <1> QED BY <1>2, Zenon DEF Counting

\* The least element of a set of numbers is one of them.
LEMMA MinInSet ==
    ASSUME Counting, NEW S, S \subseteq Nat, S # {}
    PROVE  Min(S) \in S /\ \A x \in S : Min(S) <= x
  BY Zenon DEF Counting

Taking == {"open_fd", "open_undo", "close_file"}

\* A slot that a descriptor names, or that a process is about to give back, is
\* counted; a slot that is not counted is nobody's.
LEMMA Counted ==
    ASSUME Counting, FInv, NEW x \in File
    PROVE  /\ \A p \in Proc : Named(p, x) => ref[x] > 0
           /\ \A p \in Proc : f[p] = x => ref[x] > 0
  <1> DEFINE T == InTable(x)
             D == InHand(x, {"dup_ref"})
             H == InHand(x, Taking)
  <1>1. T \subseteq Proc \X Fd /\ D \subseteq Proc /\ H \subseteq Proc
    BY Zenon DEF InTable, InHand
  <1>2. ref[x] + Cardinality(D) = Cardinality(T) + Cardinality(H) /\ ref[x] \in Nat
    BY Zenon DEF FInv, RefsExact, TypeOK, Taking
  <1>3. \A p \in D : \E d, e \in Fd : d # e /\ <<p, d>> \in T /\ <<p, e>> \in T
    <2> SUFFICES ASSUME NEW p \in D PROVE \E d, e \in Fd : d # e /\ <<p, d>> \in T /\ <<p, e>> \in T
      BY Zenon
    <2>1. pc[p] = "dup_ref" /\ f[p] = x /\ p \in Proc
      BY Zenon DEF InHand
    <2>2. PICK d \in Fd, e \in Fd : d # e /\ ofile[p][d] = x /\ ofile[p][e] = x
      BY <2>1, Zenon DEF FInv, UseInv, Twice
    <2>3. <<p, d>> \in T /\ <<p, e>> \in T
      BY <2>1, <2>2, Zenon DEF InTable
    <2> QED BY <2>2, <2>3, Zenon
  <1> HIDE DEF T, D, H
  <1>4. /\ Cardinality(D) \in Nat /\ Cardinality(T) \in Nat /\ Cardinality(D) <= Cardinality(T)
        /\ T # {} => Cardinality(D) < Cardinality(T)
    BY <1>1, <1>3, TwoEach, Zenon DEF EachTwice
  <1>5. IsFiniteSet(H) /\ Cardinality(H) \in Nat /\ (H # {} => Cardinality(H) # 0)
    BY <1>1, Finite, Size, Zenon
  <1>6. T # {} \/ H # {} => ref[x] > 0
    BY <1>2, <1>4, <1>5
  <1>7. ASSUME NEW p \in Proc, Named(p, x) PROVE ref[x] > 0
    <2>1. PICK d \in Fd : ofile[p][d] = x
      BY <1>7, Zenon DEF Named
    <2>2. <<p, d>> \in T
      BY <2>1, Zenon DEF T, InTable
    <2> QED BY <1>6, <2>2, Zenon
  <1>8. ASSUME NEW p \in Proc, f[p] = x PROVE ref[x] > 0
    <2>1. pc[p] \in HasFile
      BY <1>8, FileAssumption DEF FInv, PlaceInv, PlaceAt, File
    <2>2. CASE pc[p] \in Taking
      <3>1. p \in H
        BY <1>8, <2>2, Zenon DEF H, InHand
      <3> QED BY <1>6, <3>1, Zenon
    <2>3. CASE pc[p] \notin Taking
      <3>1. Named(p, x)
        BY <1>8, <2>1, <2>3, Zenon DEF FInv, UseInv, HasFile, Opening, Taking, Named, Twice
      <3> QED BY <1>7, <3>1, Zenon
    <2> QED BY <2>2, <2>3, Zenon
  <1> QED BY <1>7, <1>8, Zenon

\* What a descriptor names is complete, unless its process is just opening it.
LEMMA Complete ==
    ASSUME Counting, FInv, NEW p \in Proc, NEW x \in File, Named(p, x), pc[p] # "open_fill"
    PROVE  type[x] = "inode" /\ ref[x] > 0 /\ fip[x] \in Inode /\ off[x] <= size[fip[x]]
  <1>1. ref[x] > 0
    BY Counted, Zenon
  <1>2. type[x] # "none"
    <2> SUFFICES ASSUME type[x] = "none" PROVE FALSE
      BY Zenon
    <2>1. PICK q \in Proc : pc[q] \in Opening /\ f[q] = x
      BY <1>1, Zenon DEF FInv, SlotInv
    <2> QED BY <2>1, Zenon DEF FInv, OpenInv, Opening
  <1>3. type[x] = "inode"
    BY <1>2, Zenon DEF FInv, RefsExact, TypeOK
  <1> QED BY <1>1, <1>3, Zenon DEF FInv, SlotInv

\* The inode that a process has in hand or works in is counted.
LEMMA InodeCounted ==
    ASSUME Counting, FInv, NEW p \in Proc, NEW i \in Inode, ip[p] = i \/ cwd[p] = i
    PROVE  iref[i] \in Nat /\ iref[i] > 0
  <1> DEFINE A == {x \in File : type[x] = "inode" /\ fip[x] = i}
             B == {q \in Proc : cwd[q] = i}
             C == {q \in Proc : ip[q] = i}
  <1>1. iref[i] = Cardinality(A) + Cardinality(B) + Cardinality(C)
    BY Zenon DEF FInv, InodeRefsExact
  <1>2. A \subseteq File /\ B \subseteq Proc /\ C \subseteq Proc /\ (B # {} \/ C # {})
    BY Zenon
  <1> HIDE DEF A, B, C
  <1>3. /\ Cardinality(A) \in Nat /\ Cardinality(B) \in Nat /\ Cardinality(C) \in Nat
        /\ (B # {} => Cardinality(B) # 0) /\ (C # {} => Cardinality(C) # 0)
    BY <1>2, Finite, Size, Zenon
  <1> QED BY <1>1, <1>2, <1>3

-----------------------------------------------------------------------------
(* The counts over one step *)

\* The variables of a process that a step of another one leaves alone.
Steady(q) ==
    /\ pc'[q] = pc[q] /\ f'[q] = f[q] /\ fd'[q] = fd[q] /\ ip'[q] = ip[q]
    /\ omode'[q] = omode[q] /\ left'[q] = left[q] /\ start'[q] = start[q] /\ child'[q] = child[q]

\* RefsExact over a step of process p that changes at most descriptor d of c.
LEMMA RefStep ==
    ASSUME Counting, RefsExact, TypeOK', NEW p \in Proc, NEW c \in Proc, NEW d \in Fd,
           \A q \in Proc : q # p => Steady(q),
           \A q \in Proc, e \in Fd : <<q, e>> # <<c, d>> => ofile'[q][e] = ofile[q][e],
           \A x \in File :
               ref'[x] + One(f'[p] = x /\ pc'[p] = "dup_ref")
                       + One(ofile[c][d] = x) + One(f[p] = x /\ pc[p] \in Taking)
               = ref[x] + One(f[p] = x /\ pc[p] = "dup_ref")
                        + One(ofile'[c][d] = x) + One(f'[p] = x /\ pc'[p] \in Taking)
    PROVE  RefsExact'
  <1> SUFFICES ASSUME NEW x \in File
               PROVE  ref'[x] + Cardinality(InHand(x, {"dup_ref"})')
                        = Cardinality(InTable(x)') + Cardinality(InHand(x, Taking)')
    BY Zenon DEF RefsExact, Taking
  <1> DEFINE T == InTable(x)  U == InTable(x)'
             D == InHand(x, {"dup_ref"})  E == InHand(x, {"dup_ref"})'
             H == InHand(x, Taking)  G == InHand(x, Taking)'
  <1>1. T \subseteq Proc \X Fd /\ D \subseteq Proc /\ H \subseteq Proc
    BY Zenon DEF InTable, InHand
  <1>2. OnlyAt(T, U, <<c, d>>)
    <2> SUFFICES ASSUME NEW t \in Proc \X Fd, t # <<c, d>> PROVE t \in T <=> t \in U
      BY Zenon DEF InTable, OnlyAt
    <2>1. t[1] \in Proc /\ t[2] \in Fd /\ t = <<t[1], t[2]>>
      OBVIOUS
    <2>2. ofile'[t[1]][t[2]] = ofile[t[1]][t[2]]
      BY <2>1, ZenonT(40)
    <2> QED BY <2>2, Zenon DEF InTable
  <1>3. OnlyAt(D, E, p) /\ OnlyAt(H, G, p)
    <2>1. \A q \in Proc : q # p => pc'[q] = pc[q] /\ f'[q] = f[q]
      BY Zenon DEF Steady
    <2>2. ASSUME NEW q \in Proc, q # p
          PROVE  (q \in D <=> q \in E) /\ (q \in H <=> q \in G)
      BY <2>1, <2>2, Zenon DEF InHand
    <2>3. D \subseteq Proc /\ E \subseteq Proc /\ H \subseteq Proc /\ G \subseteq Proc
      BY Zenon DEF InHand
    <2> HIDE DEF D, E, H, G
    <2> QED BY <2>2, <2>3, SameElsewhere, Zenon
  <1>4. /\ <<c, d>> \in T <=> ofile[c][d] = x
        /\ <<c, d>> \in U <=> ofile'[c][d] = x
    BY Zenon DEF InTable
  <1>5. /\ p \in D <=> f[p] = x /\ pc[p] = "dup_ref"
        /\ p \in E <=> f'[p] = x /\ pc'[p] = "dup_ref"
        /\ p \in H <=> f[p] = x /\ pc[p] \in Taking
        /\ p \in G <=> f'[p] = x /\ pc'[p] \in Taking
    BY Zenon DEF InHand
  <1>6. ref[x] + Cardinality(D) = Cardinality(T) + Cardinality(H)
    BY Zenon DEF RefsExact, Taking
  <1>7. ref[x] \in Nat /\ ref'[x] \in Nat
    BY DEF RefsExact, TypeOK
  <1> HIDE DEF T, U, D, E, H, G
  <1>8. IsFiniteSet(T) /\ IsFiniteSet(D) /\ IsFiniteSet(H)
    BY <1>1, Finite, Zenon
  <1>9. ref'[x] + Ind(p, E) + Ind(<<c, d>>, T) + Ind(p, H)
        = ref[x] + Ind(p, D) + Ind(<<c, d>>, U) + Ind(p, G)
    BY <1>4, <1>5, Zenon DEF One, Ind
  <1>10. ref'[x] + Cardinality(E) = Cardinality(U) + Cardinality(G)
    <2>1. /\ Cardinality(T) \in Nat /\ Cardinality(U) \in Nat
          /\ Ind(<<c, d>>, T) \in Nat /\ Ind(<<c, d>>, U) \in Nat
          /\ Cardinality(U) + Ind(<<c, d>>, T) = Cardinality(T) + Ind(<<c, d>>, U)
      BY ONLY Zenon, Counting, <1>2, <1>8, OneChange
    <2>2. /\ Cardinality(D) \in Nat /\ Cardinality(E) \in Nat /\ Ind(p, D) \in Nat /\ Ind(p, E) \in Nat
          /\ Cardinality(E) + Ind(p, D) = Cardinality(D) + Ind(p, E)
      BY ONLY Zenon, Counting, <1>3, <1>8, OneChange
    <2>3. /\ Cardinality(H) \in Nat /\ Cardinality(G) \in Nat /\ Ind(p, H) \in Nat /\ Ind(p, G) \in Nat
          /\ Cardinality(G) + Ind(p, H) = Cardinality(H) + Ind(p, G)
      BY ONLY Zenon, Counting, <1>3, <1>8, OneChange
    <2> QED BY ONLY <1>6, <1>7, <1>9, <2>1, <2>2, <2>3, SMTT(60)
  <1> QED BY <1>10, Zenon DEF E, U, G

IsOf(x, i) == type[x] = "inode" /\ fip[x] = i

\* InodeRefsExact over a step of process p that changes at most slot y and the
\* working directory of c.
LEMMA InodeStep ==
    ASSUME Counting, InodeRefsExact, TypeOK, TypeOK', NEW p \in Proc, NEW c \in Proc, NEW y \in File,
           \A q \in Proc : q # p => Steady(q),
           \A q \in Proc : q # c => cwd'[q] = cwd[q],
           \A x \in File : x # y => type'[x] = type[x] /\ fip'[x] = fip[x],
           \A i \in Inode :
               iref'[i] + One(IsOf(y, i)) + One(cwd[c] = i) + One(ip[p] = i)
               = iref[i] + One(IsOf(y, i)') + One(cwd'[c] = i) + One(ip'[p] = i)
    PROVE  InodeRefsExact'
  <1> SUFFICES ASSUME NEW i \in Inode
               PROVE  iref'[i] = Cardinality({x \in File : IsOf(x, i)}')
                          + Cardinality({q \in Proc : cwd[q] = i}')
                          + Cardinality({q \in Proc : ip[q] = i}')
    BY Zenon DEF InodeRefsExact, IsOf
  <1> DEFINE A == {x \in File : IsOf(x, i)}  X == {x \in File : IsOf(x, i)}'
             B == {q \in Proc : cwd[q] = i}  Y == {q \in Proc : cwd[q] = i}'
             C == {q \in Proc : ip[q] = i}  Z == {q \in Proc : ip[q] = i}'
  <1>1. A \subseteq File /\ B \subseteq Proc /\ C \subseteq Proc
    BY Zenon
  <1>2. OnlyAt(A, X, y) /\ OnlyAt(B, Y, c) /\ OnlyAt(C, Z, p)
    <2>1. \A q \in Proc : q # p => ip'[q] = ip[q]
      BY Zenon DEF Steady
    <2>2. \A x \in File : x # y => (x \in A <=> x \in X)
      BY Zenon DEF IsOf
    <2>3. \A q \in Proc : q # c => (q \in B <=> q \in Y)
      BY Zenon
    <2>4. \A q \in Proc : q # p => (q \in C <=> q \in Z)
      BY <2>1, Zenon
    <2>5. X \subseteq File /\ Y \subseteq Proc /\ Z \subseteq Proc
      BY Zenon
    <2> HIDE DEF A, X, B, Y, C, Z
    <2> QED BY <1>1, <2>2, <2>3, <2>4, <2>5, SameElsewhere, Zenon
  <1>3. /\ y \in A <=> IsOf(y, i)
        /\ y \in X <=> IsOf(y, i)'
        /\ c \in B <=> cwd[c] = i
        /\ c \in Y <=> cwd'[c] = i
        /\ p \in C <=> ip[p] = i
        /\ p \in Z <=> ip'[p] = i
    BY Zenon
  <1>4. iref[i] = Cardinality(A) + Cardinality(B) + Cardinality(C)
    BY Zenon DEF InodeRefsExact, IsOf
  <1>5. iref[i] \in Nat /\ iref'[i] \in Nat
    BY DEF TypeOK
  <1> HIDE DEF A, B, C, X, Y, Z
  <1>6. IsFiniteSet(A) /\ IsFiniteSet(B) /\ IsFiniteSet(C)
    BY <1>1, Finite, Zenon
  <1>7. iref'[i] + Ind(y, A) + Ind(c, B) + Ind(p, C)
        = iref[i] + Ind(y, X) + Ind(c, Y) + Ind(p, Z)
    BY <1>3, Zenon DEF One, Ind
  <1>8. iref'[i] = Cardinality(X) + Cardinality(Y) + Cardinality(Z)
    <2>1. /\ Cardinality(A) \in Nat /\ Cardinality(X) \in Nat /\ Ind(y, A) \in Nat /\ Ind(y, X) \in Nat
          /\ Cardinality(X) + Ind(y, A) = Cardinality(A) + Ind(y, X)
      BY ONLY Zenon, Counting, <1>2, <1>6, OneChange
    <2>2. /\ Cardinality(B) \in Nat /\ Cardinality(Y) \in Nat /\ Ind(c, B) \in Nat /\ Ind(c, Y) \in Nat
          /\ Cardinality(Y) + Ind(c, B) = Cardinality(B) + Ind(c, Y)
      BY ONLY Zenon, Counting, <1>2, <1>6, OneChange
    <2>3. /\ Cardinality(C) \in Nat /\ Cardinality(Z) \in Nat /\ Ind(p, C) \in Nat /\ Ind(p, Z) \in Nat
          /\ Cardinality(Z) + Ind(p, C) = Cardinality(C) + Ind(p, Z)
      BY ONLY Zenon, Counting, <1>2, <1>6, OneChange
    <2> QED BY ONLY <1>4, <1>5, <1>7, <2>1, <2>2, <2>3, SMTT(60)
  <1> QED BY <1>8, Zenon DEF X, Y, Z

-----------------------------------------------------------------------------
(* Steps that touch no file *)

\* What the place of a process says about its variables.
LEMMA Place ==
    ASSUME FInv, NEW p \in Proc
    PROVE  /\ TypeOK /\ 0 \notin File /\ 0 \in Fd /\ None \notin Inode /\ 1 \in File
           /\ pc[p] \in HasFile => f[p] \in File
           /\ pc[p] \notin HasFile => f[p] = 0
           /\ pc[p] \in HasInode => ip[p] \in Inode
           /\ pc[p] \notin HasInode => ip[p] = None
           /\ state[p] = "running" => cwd[p] \in Inode
           /\ state[p] # "running" => cwd[p] = None
  <1>1. TypeOK
    BY Zenon DEF FInv, RefsExact
  <1>2. 0 \notin File /\ 0 \in Fd /\ None \notin Inode /\ 1 \in File
    BY FileAssumption DEF File, Fd
  <1> QED BY <1>1, <1>2 DEF FInv, PlaceInv, PlaceAt, TypeOK

FileParts ==
    ~panicked /\ RefsExact /\ TransferAtOffset /\ UseInv /\ OpenInv /\ SlotInv

\* A step of a process that has no file in hand, before and after, and that
\* leaves the files and the descriptors alone.
LEMMA NoFile ==
    ASSUME Counting, FInv, TypeOK', NEW p \in Proc, \A q \in Proc : q # p => Steady(q),
           UNCHANGED <<fileVars, size, ofile, panicked>>,
           pc[p] \notin HasFile, pc'[p] \notin HasFile, f'[p] = 0
    PROVE  FileParts'
  <1>1. f[p] = 0 /\ 0 \notin File /\ 0 \in Fd /\ TypeOK
    BY Place, Zenon
  <1>2. \A q \in Proc : \A x : (Named(q, x)' <=> Named(q, x)) /\ (Twice(q, x)' <=> Twice(q, x))
    BY Zenon DEF Named, Twice
  <1>3. UNCHANGED <<ref, type, fip, off, mode>>
    BY Zenon DEF fileVars
  <1>4. RefsExact'
    <2>1. \A x \in File : ~(f[p] = x) /\ ~(f'[p] = x)
      BY <1>1, Zenon
    <2>2. RefsExact
      BY Zenon DEF FInv
    <2>3. \A x \in File :
               ref'[x] + One(f'[p] = x /\ pc'[p] = "dup_ref")
                       + One(ofile[p][0] = x) + One(f[p] = x /\ pc[p] \in Taking)
               = ref[x] + One(f[p] = x /\ pc[p] = "dup_ref")
                        + One(ofile'[p][0] = x) + One(f'[p] = x /\ pc'[p] \in Taking)
      BY <1>3, <2>1, Zenon DEF One
    <2>4. \A q \in Proc : q # p => pc'[q] = pc[q] /\ f'[q] = f[q]
      BY Zenon DEF Steady
    <2>5. \A q \in Proc, e \in Fd : <<q, e>> # <<p, 0>> => ofile'[q][e] = ofile[q][e]
      BY Zenon
    <2> QED BY <1>1, <2>2, <2>3, <2>4, <2>5, RefStep, ZenonT(40)
  <1>5. TransferAtOffset'
    BY <1>3 DEF FInv, TransferAtOffset, Steady, HasFile
  <1>6. UseInv'
    BY <1>2, Zenon DEF FInv, UseInv, Steady, HasFile, Opening
  <1>7. OpenInv'
    BY <1>1, <1>2, <1>3 DEF FInv, OpenInv, Steady, HasFile, Opening, TypeOK, PlaceInv, PlaceAt
  <1>8. SlotInv'
    BY <1>1, <1>3 DEF FInv, SlotInv, Steady, HasFile
  <1> QED BY <1>4, <1>5, <1>6, <1>7, <1>8, Zenon DEF FileParts, FInv

\* A step that changes no reference to an inode.
LEMMA NoInode ==
    ASSUME FInv, UNCHANGED <<type, fip, iref, cwd, ip>>
    PROVE  InodeRefsExact'
  BY Zenon DEF FInv, InodeRefsExact

\* inodes.put, and the other steps at which p takes or drops one reference:
\* the count follows what it has in hand.
LEMMA InHandStep ==
    ASSUME Counting, FInv, TypeOK', NEW p \in Proc, UNCHANGED <<type, fip, cwd>>,
           \A q \in Proc : q # p => Steady(q),
           \A i \in Inode : iref'[i] + One(ip[p] = i) = iref[i] + One(ip'[p] = i)
    PROVE  InodeRefsExact'
  <1>1. TypeOK /\ 1 \in File /\ InodeRefsExact
    BY Place, Zenon DEF FInv
  <1>2. \A i \in Inode :
            iref'[i] + One(IsOf(1, i)) + One(cwd[p] = i) + One(ip[p] = i)
            = iref[i] + One(IsOf(1, i)') + One(cwd'[p] = i) + One(ip'[p] = i)
    <2> TAKE i \in Inode
    <2>1. iref[i] \in Nat /\ iref'[i] \in Nat
      BY <1>1, ZenonT(40) DEF TypeOK
    <2>2. IsOf(1, i)' <=> IsOf(1, i)
      BY Zenon DEF IsOf
    <2>3. iref'[i] + One(ip[p] = i) = iref[i] + One(ip'[p] = i)
      BY Zenon
    <2> QED BY ONLY <2>1, <2>2, <2>3, UNCHANGED cwd DEF One
  <1> QED BY <1>1, <1>2, InodeStep, ZenonT(40)

\* A descriptor in use names a slot.
LEMMA Descriptor ==
    ASSUME TypeOK, NEW p \in Proc, NEW d \in Fd, ofile[p][d] # 0
    PROVE  ofile[p][d] \in File
  <1>1. ofile \in [Proc -> [Fd -> File \union {0}]]
    BY Zenon DEF TypeOK
  <1> QED BY <1>1, Zenon

\* The steps that change no descriptor: the count of a file follows what p has
\* in hand.
LEMMA RefKeep ==
    ASSUME Counting, FInv, TypeOK', NEW p \in Proc, \A q \in Proc : q # p => Steady(q), UNCHANGED ofile,
           \A y \in File :
               ref'[y] + One(f'[p] = y /\ pc'[p] = "dup_ref") + One(f[p] = y /\ pc[p] \in Taking)
               = ref[y] + One(f[p] = y /\ pc[p] = "dup_ref") + One(f'[p] = y /\ pc'[p] \in Taking)
    PROVE  RefsExact'
  <1>1. 0 \in Fd /\ TypeOK /\ RefsExact
    BY Place, Zenon DEF FInv
  <1>2. ASSUME NEW y \in File
        PROVE  ref'[y] + One(f'[p] = y /\ pc'[p] = "dup_ref")
                       + One(ofile[p][0] = y) + One(f[p] = y /\ pc[p] \in Taking)
               = ref[y] + One(f[p] = y /\ pc[p] = "dup_ref")
                        + One(ofile'[p][0] = y) + One(f'[p] = y /\ pc'[p] \in Taking)
    <2>1. ref[y] \in Nat /\ ref'[y] \in Nat /\ ofile'[p][0] = ofile[p][0]
      BY <1>1, Zenon DEF TypeOK
    <2>2. ref'[y] + One(f'[p] = y /\ pc'[p] = "dup_ref") + One(f[p] = y /\ pc[p] \in Taking)
          = ref[y] + One(f[p] = y /\ pc[p] = "dup_ref") + One(f'[p] = y /\ pc'[p] \in Taking)
      BY Zenon
    <2> QED BY ONLY <2>1, <2>2 DEF One
  <1>3. \A q \in Proc, e \in Fd : <<q, e>> # <<p, 0>> => ofile'[q][e] = ofile[q][e]
    BY Zenon
  <1>4. \A y \in File :
               ref'[y] + One(f'[p] = y /\ pc'[p] = "dup_ref")
                       + One(ofile[p][0] = y) + One(f[p] = y /\ pc[p] \in Taking)
               = ref[y] + One(f[p] = y /\ pc[p] = "dup_ref")
                        + One(ofile'[p][0] = y) + One(f'[p] = y /\ pc'[p] \in Taking)
    BY <1>2, Zenon
  <1> QED BY <1>1, <1>3, <1>4, RefStep, Zenon

\* The steps at which no file gets or loses its inode.
LEMMA InodeCwdStep ==
    ASSUME Counting, FInv, TypeOK', NEW p \in Proc, NEW c \in Proc, UNCHANGED <<type, fip>>,
           \A q \in Proc : q # p => Steady(q), \A q \in Proc : q # c => cwd'[q] = cwd[q],
           \A i \in Inode : iref'[i] + One(cwd[c] = i) + One(ip[p] = i)
                             = iref[i] + One(cwd'[c] = i) + One(ip'[p] = i)
    PROVE  InodeRefsExact'
  <1>1. TypeOK /\ 1 \in File
    BY Place, Zenon
  <1>2. ASSUME NEW i \in Inode
        PROVE  iref'[i] + One(IsOf(1, i)) + One(cwd[c] = i) + One(ip[p] = i)
               = iref[i] + One(IsOf(1, i)') + One(cwd'[c] = i) + One(ip'[p] = i)
    <2>1. iref[i] \in Nat /\ iref'[i] \in Nat
      <3>1. iref \in [Inode -> Nat]
        BY <1>1, Zenon DEF TypeOK
      <3>2. iref' \in [Inode -> Nat]
        BY Zenon DEF TypeOK
      <3> QED BY <3>1, <3>2, Zenon
    <2>2. IsOf(1, i)' <=> IsOf(1, i)
      BY Zenon DEF IsOf
    <2>3. iref'[i] + One(cwd[c] = i) + One(ip[p] = i) = iref[i] + One(cwd'[c] = i) + One(ip'[p] = i)
      BY Zenon
    <2> QED BY ONLY <2>1, <2>2, <2>3 DEF One
  <1>3. \A x \in File : x # 1 => type'[x] = type[x] /\ fip'[x] = fip[x]
    BY Zenon
  <1>4. \A i \in Inode : iref'[i] + One(IsOf(1, i)) + One(cwd[c] = i) + One(ip[p] = i)
                          = iref[i] + One(IsOf(1, i)') + One(cwd'[c] = i) + One(ip'[p] = i)
    BY <1>2, Zenon
  <1>5. InodeRefsExact /\ TypeOK /\ 1 \in File
    BY <1>1, Zenon DEF FInv
  <1> QED BY <1>3, <1>4, <1>5, InodeStep, ZenonT(40)

\* p takes a reference to an inode.
LEMMA InHandTake ==
    ASSUME Counting, FInv, TypeOK', NEW p \in Proc, UNCHANGED <<type, fip, cwd>>,
           \A q \in Proc : q # p => Steady(q), NEW i \in Inode,
           iref' = [iref EXCEPT ![i] = @ + 1], ip[p] = None, ip'[p] = i
    PROVE  InodeRefsExact'
  <1>1. iref \in [Inode -> Nat] /\ None \notin Inode
    BY Place, Zenon DEF TypeOK
  <1>2. \A j \in Inode : iref'[j] = iref[j] + One(i = j)
    <2>1. iref' = [iref EXCEPT ![i] = @ + 1]
      BY Zenon
    <2> QED BY ONLY <1>1, <2>1 DEF One
  <1>3. ASSUME NEW j \in Inode PROVE iref'[j] + One(ip[p] = j) = iref[j] + One(ip'[p] = j)
    <2>1. iref[j] \in Nat /\ ip[p] # j /\ ip'[p] = i /\ iref'[j] = iref[j] + One(i = j)
      BY <1>1, <1>2, Zenon
    <2> QED BY ONLY <2>1 DEF One
  <1>4. \A j \in Inode : iref'[j] + One(ip[p] = j) = iref[j] + One(ip'[p] = j)
    BY <1>3, Zenon
  <1> QED BY <1>4, InHandStep, Zenon

\* p drops the reference it has.
LEMMA InHandDrop ==
    ASSUME Counting, FInv, TypeOK', NEW p \in Proc, UNCHANGED <<type, fip, cwd>>,
           \A q \in Proc : q # p => Steady(q), ip[p] \in Inode, iref[ip[p]] > 0,
           iref' = [iref EXCEPT ![ip[p]] = @ - 1], ip'[p] = None
    PROVE  InodeRefsExact'
  <1>1. iref \in [Inode -> Nat] /\ None \notin Inode
    BY Place, Zenon DEF TypeOK
  <1>2. \A j \in Inode : iref'[j] + One(ip[p] = j) = iref[j]
    <2>1. PICK i \in Inode : i = ip[p] /\ iref[i] > 0 /\ iref' = [iref EXCEPT ![i] = @ - 1]
      BY Zenon
    <2> QED BY ONLY <1>1, <2>1 DEF One
  <1>3. ASSUME NEW j \in Inode PROVE iref'[j] + One(ip[p] = j) = iref[j] + One(ip'[p] = j)
    <2>1. iref[j] \in Nat /\ ip'[p] # j /\ iref'[j] + One(ip[p] = j) = iref[j]
      BY <1>1, <1>2, Zenon
    <2> QED BY ONLY <2>1 DEF One
  <1>4. \A j \in Inode : iref'[j] + One(ip[p] = j) = iref[j] + One(ip'[p] = j)
    BY <1>3, Zenon
  <1> QED BY <1>4, InHandStep, Zenon

\* The file that a transfer uses is complete.
LEMMA Using ==
    ASSUME Counting, FInv, NEW p \in Proc, pc[p] \in {"lock", "move"}
    PROVE  /\ f[p] \in File /\ type[f[p]] = "inode" /\ ref[f[p]] > 0
           /\ fip[f[p]] \in Inode /\ off[f[p]] <= size[fip[f[p]]]
  <1>1. f[p] \in File
    BY Place, Zenon DEF HasFile
  <1>2. Named(p, f[p])
    BY Zenon DEF FInv, UseInv
  <1> QED BY <1>1, <1>2, Complete, Zenon

\* Steps at which p takes or drops the lock of inode i, if any.
LEMMA LockStep ==
    ASSUME Counting, FInv, NEW p \in Proc, NEW i \in Inode, \A q \in Proc : q # p => Steady(q),
           ilock[i] \in {None, p}, \A j \in Inode : j # i => ilock'[j] = ilock[j],
           \A q \in Proc : q # p /\ pc[q] = "move" => fip'[f[q]] = fip[f[q]],
           pc'[p] \in {"open_file", "open_fd", "open_undo"} => ilock'[ip'[p]] = p,
           pc'[p] = "move" => ilock'[fip'[f'[p]]] = p
    PROVE  LockInv'
  <1>1. None \notin Proc
    BY FileAssumption, Zenon
  <1>2. ASSUME NEW q \in Proc, q # p, pc[q] \in {"open_file", "open_fd", "open_undo"}
        PROVE  ilock'[ip'[q]] = q
    <2>1. ip[q] \in Inode
      BY <1>2, Place, Zenon DEF HasInode, Opening
    <2>2. ilock[ip[q]] = q
      BY <1>2, Zenon DEF FInv, LockInv
    <2>3. ip[q] # i
      BY <1>1, <1>2, <2>2, Zenon
    <2> QED BY <1>2, <2>1, <2>2, <2>3, Zenon DEF Steady
  <1>3. ASSUME NEW q \in Proc, q # p, pc[q] = "move"
        PROVE  ilock'[fip'[f'[q]]] = q
    <2>1. fip[f[q]] \in Inode
      BY <1>3, Using, Zenon
    <2>2. ilock[fip[f[q]]] = q
      BY <1>3, Zenon DEF FInv, LockInv
    <2>3. fip[f[q]] # i
      BY <1>1, <1>3, <2>2, Zenon
    <2> QED BY <1>3, <2>1, <2>2, <2>3 DEF Steady
  <1>4. \A q \in Proc : q # p => pc'[q] = pc[q]
    BY Zenon DEF Steady
  <1> QED BY <1>2, <1>3, <1>4, Zenon DEF LockInv

\* A process that a step leaves alone.
LEMMA PlaceSame ==
    ASSUME FInv, NEW q \in Proc, Steady(q), state'[q] = state[q], cwd'[q] = cwd[q],
           \A d \in Fd : ofile'[q][d] = ofile[q][d]
    PROVE  PlaceAt(q)'
  <1>1. PlaceAt(q)
    BY Zenon DEF FInv, PlaceInv
  <1>2. pc'[q] = pc[q] /\ f'[q] = f[q] /\ fd'[q] = fd[q] /\ ip'[q] = ip[q]
    BY Zenon DEF Steady
  <1> QED BY <1>1, <1>2 DEF PlaceAt

\* A step of a running process p changes its own place and its descriptors.
LEMMA PlaceFrame ==
    ASSUME FInv, NEW p \in Proc, \A q \in Proc : q # p => Steady(q),
           state' = state, \A q \in Proc : q # p => cwd'[q] = cwd[q],
           \A q \in Proc : q # p => \A d \in Fd : ofile'[q][d] = ofile[q][d],
           state[p] = "running", cwd'[p] = cwd[p] \/ cwd'[p] # None,
           pc'[p] \in HasFile <=> f'[p] # 0, pc'[p] \in HasInode <=> ip'[p] # None,
           \A d \in Fd : pc'[p] \in {"exit_file", "exit_put"} /\ d < fd'[p] => ofile'[p][d] = 0,
           pc'[p] = "exit_cwd" => \A d \in Fd : ofile'[p][d] = 0
    PROVE  PlaceInv'
  <1>1. ASSUME NEW q \in Proc, q # p PROVE PlaceAt(q)'
    BY <1>1, PlaceSame, Zenon
  <1>2. PlaceAt(p)
    BY Zenon DEF FInv, PlaceInv
  <1>3. PlaceAt(p)'
    BY <1>2, Zenon DEF PlaceAt
  <1> QED BY <1>1, <1>3, Zenon DEF PlaceInv

\* The same when it changes no descriptor, and goes through no further
\* descriptor in exit.
LEMMA PlaceKeep ==
    ASSUME FInv, NEW p \in Proc, \A q \in Proc : q # p => Steady(q),
           UNCHANGED <<state, ofile, cwd>>, state[p] = "running",
           pc'[p] \in HasFile <=> f'[p] # 0, pc'[p] \in HasInode <=> ip'[p] # None,
           pc'[p] # "exit_cwd",
           pc'[p] \in {"exit_file", "exit_put"} => pc[p] = "exit_put" /\ fd'[p] = fd[p]
    PROVE  PlaceInv'
  <1>1. ASSUME NEW d \in Fd, pc'[p] \in {"exit_file", "exit_put"}, d < fd'[p] PROVE ofile'[p][d] = 0
    <2>1. pc[p] \in {"exit_file", "exit_put"} /\ fd'[p] = fd[p] /\ ofile' = ofile
      BY <1>1, Zenon
    <2>2. d < fd[p]
      BY <1>1, <2>1, Zenon
    <2>3. ofile[p][d] = 0
      BY <2>1, <2>2, Zenon DEF FInv, PlaceInv, PlaceAt
    <2> QED BY <2>1, <2>3, Zenon
  <1>2. \A d \in Fd : pc'[p] \in {"exit_file", "exit_put"} /\ d < fd'[p] => ofile'[p][d] = 0
    BY <1>1, Zenon
  <1>3. /\ \A q \in Proc : q # p => cwd'[q] = cwd[q]
        /\ \A q \in Proc : q # p => \A d \in Fd : ofile'[q][d] = ofile[q][d]
        /\ state' = state /\ cwd'[p] = cwd[p] /\ (pc'[p] = "exit_cwd" => \A d \in Fd : ofile'[p][d] = 0)
    BY Zenon
  <1> QED BY <1>2, <1>3, PlaceFrame, Zenon

\* A step of a process that is not in fork afterwards, and leaves the children
\* of the others alone.
LEMMA ForkFrame ==
    ASSUME FInv, NEW p \in Proc, \A q \in Proc : q # p => Steady(q), pc'[p] # "fork_fd",
           \A c \in Proc : state[c] = "embryo" /\ (pc[p] = "fork_fd" => child[p] # c)
                               => state'[c] = "embryo" /\ \A d \in Fd : ofile'[c][d] = ofile[c][d]
    PROVE  ForkInv'
  <1>1. ASSUME NEW q \in Proc, pc'[q] = "fork_fd"
        PROVE  /\ q # p /\ pc[q] = "fork_fd" /\ child'[q] = child[q] /\ fd'[q] = fd[q]
               /\ child[q] \in Proc /\ state[child[q]] = "embryo"
               /\ \A d \in Fd : d >= fd[q] => ofile[child[q]][d] = 0
    <2>1. q # p
      BY <1>1, Zenon
    <2>2. pc[q] = "fork_fd" /\ child'[q] = child[q] /\ fd'[q] = fd[q]
      BY <1>1, <2>1, Zenon DEF Steady
    <2> QED BY <2>1, <2>2, Zenon DEF FInv, ForkInv
  <1>2. ASSUME NEW q \in Proc, pc'[q] = "fork_fd"
        PROVE  /\ child'[q] \in Proc /\ state'[child'[q]] = "embryo"
               /\ \A d \in Fd : d >= fd'[q] => ofile'[child'[q]][d] = 0
    <2>1. PICK c \in Proc : c = child[q]
      BY <1>1, <1>2, Zenon
    <2>2. /\ child'[q] = c /\ fd'[q] = fd[q] /\ state[c] = "embryo" /\ q # p /\ pc[q] = "fork_fd"
          /\ \A d \in Fd : d >= fd[q] => ofile[c][d] = 0
      BY <1>1, <1>2, <2>1, Zenon
    <2>3. pc[p] = "fork_fd" => child[p] # c
      BY <2>1, <2>2, Zenon DEF FInv, ForkInv
    <2>4. state'[c] = "embryo" /\ \A d \in Fd : ofile'[c][d] = ofile[c][d]
      BY <2>2, <2>3, Zenon
    <2>5. \A d \in Fd : d >= fd'[q] => ofile'[c][d] = 0
      BY <2>2, <2>4, Zenon
    <2> QED BY <2>2, <2>4, <2>5, Zenon
  <1>3. ASSUME NEW q \in Proc, NEW r \in Proc,
               pc'[q] = "fork_fd", pc'[r] = "fork_fd", child'[q] = child'[r]
        PROVE  q = r
    <2>1. pc[q] = "fork_fd" /\ child'[q] = child[q]
      BY <1>1, <1>3, Zenon
    <2>2. pc[r] = "fork_fd" /\ child'[r] = child[r]
      BY <1>1, <1>3, Zenon
    <2>3. child[q] = child[r]
      BY <1>3, <2>1, <2>2, Zenon
    <2> QED BY <2>1, <2>2, <2>3, Zenon DEF FInv, ForkInv
  <1> QED BY <1>2, <1>3, Zenon DEF ForkInv

\* A step that ends at no transfer leaves the transfers of the others alone.
LEMMA TransferFrame ==
    ASSUME FInv, NEW p \in Proc, \A q \in Proc : q # p => Steady(q),
           pc'[p] # "move", UNCHANGED <<off, fip, size>>
    PROVE  TransferAtOffset'
  <1> SUFFICES ASSUME NEW q \in Proc, pc'[q] = "move"
               PROVE  start'[q] = off'[f'[q]] /\ start'[q] <= size'[fip'[f'[q]]]
    BY Zenon DEF TransferAtOffset
  <1>1. pc[q] = "move" /\ f'[q] = f[q] /\ start'[q] = start[q]
    BY Zenon DEF Steady
  <1> QED BY <1>1, Zenon DEF FInv, TransferAtOffset

\* A step of a process that ends outside open, and has in hand what it had, or
\* what it has a descriptor for, or nothing.
LEMMA OpenFrame ==
    ASSUME FInv, NEW p \in Proc, \A q \in Proc : q # p => Steady(q),
           pc'[p] \notin Opening, f'[p] = 0 \/ f'[p] = f[p] \/ Named(p, f'[p]),
           \A y \in File : type[y] = "none" /\ y # f[p] /\ ~Named(p, y) => type'[y] = "none",
           \A q \in Proc, y \in File : Named(q, y)' => Named(q, y)
    PROVE  OpenInv'
  <1> SUFFICES ASSUME NEW q \in Proc, pc'[q] \in Opening
               PROVE  /\ type'[f'[q]] = "none"
                      /\ \A r \in Proc : r # q => f'[r] # f'[q] /\ ~Named(r, f[q])'
                      /\ pc'[q] # "open_fill" => ~Named(q, f[q])'
    BY Zenon DEF OpenInv
  <1>1. q # p /\ pc'[q] = pc[q] /\ f'[q] = f[q] /\ pc[q] \in Opening
    BY Zenon DEF Steady
  <1>2. PICK x \in File : x = f[q]
    BY <1>1, Place, Zenon DEF HasFile
  <1>3. /\ type[x] = "none" /\ (pc[q] # "open_fill" => ~Named(q, x))
        /\ \A r \in Proc : r # q => f[r] # x /\ ~Named(r, x)
    BY <1>1, <1>2, Zenon DEF FInv, OpenInv
  <1>4. f'[p] # x /\ type'[x] = "none" /\ 0 \notin File
    BY <1>1, <1>2, <1>3, Place, ZenonT(40)
  <1>5. \A r \in Proc : r # q => f'[r] # x
    BY <1>3, <1>4, Zenon DEF Steady
  <1>6. (pc[q] # "open_fill" => ~Named(q, x)') /\ \A r \in Proc : r # q => ~Named(r, x)'
    BY <1>3, Zenon
  <1>7. f'[q] = x
    BY <1>1, <1>2, Zenon
  <1> QED BY <1>1, <1>4, <1>5, <1>6, <1>7, Zenon DEF Named

\* The files that processes use and have twice, when no other process loses one.
LEMMA UseFrame ==
    ASSUME FInv, NEW p \in Proc, \A q \in Proc : q # p => Steady(q),
           \A q \in Proc : q # p => \A y : (Named(q, y) => Named(q, y)') /\ (Twice(q, y) => Twice(q, y)'),
           (pc[p] \in {"open_fill", "lock", "move"} => Named(p, f[p]))',
           (pc[p] = "dup_ref" => Twice(p, f[p]))',
           pc'[p] \in {"lock", "move"} => omode'[p] \in {"r", "w"}
    PROVE  UseInv'
  <1>1. ASSUME NEW q \in Proc, q # p
        PROVE  /\ (pc[q] \in {"open_fill", "lock", "move"} => Named(q, f[q]))'
               /\ (pc[q] = "dup_ref" => Twice(q, f[q]))'
               /\ pc'[q] \in {"lock", "move"} => omode'[q] \in {"r", "w"}
    <2>1. PICK x : x = f[q]
      BY Zenon
    <2>2. pc'[q] = pc[q] /\ f'[q] = x /\ omode'[q] = omode[q]
      BY <1>1, <2>1, Zenon DEF Steady
    <2>3. /\ pc[q] \in {"open_fill", "lock", "move"} => Named(q, x)
          /\ pc[q] = "dup_ref" => Twice(q, x)
          /\ pc[q] \in {"lock", "move"} => omode[q] \in {"r", "w"}
      BY <2>1, Zenon DEF FInv, UseInv
    <2>4. /\ pc'[q] \in {"open_fill", "lock", "move"} => Named(q, x)'
          /\ pc'[q] = "dup_ref" => Twice(q, x)'
      BY <1>1, <2>2, <2>3, Zenon
    <2>5. /\ pc'[q] \in {"open_fill", "lock", "move"} => \E d \in Fd : ofile'[q][d] = f'[q]
          /\ pc'[q] = "dup_ref" => \E d, e \in Fd : d # e /\ ofile'[q][d] = f'[q] /\ ofile'[q][e] = f'[q]
      BY <2>2, <2>4, Zenon DEF Named, Twice
    <2> QED BY <2>2, <2>3, <2>5, Zenon DEF Named, Twice
  <1> QED BY <1>1, Zenon DEF UseInv

\* A step at which no file becomes complete and none in use loses its type.
LEMMA SlotFrame ==
    ASSUME FInv, NEW p \in Proc, \A q \in Proc : q # p => Steady(q),
           UNCHANGED <<fip, off, size>>,
           \A y \in File : type'[y] = "inode" => type[y] = "inode" /\ (ref[y] > 0 => ref'[y] > 0),
           \A y \in File : ref'[y] > 0 /\ type'[y] = "none" =>
                                \/ ref[y] > 0 /\ type[y] = "none"
                                \/ pc'[p] \in Opening /\ f'[p] = y,
           \A y \in File : pc[p] \in Opening /\ f[p] = y => \/ pc'[p] \in Opening /\ f'[p] = y
                                                        \/ ~(ref'[y] > 0 /\ type'[y] = "none")
    PROVE  SlotInv'
  <1> SUFFICES ASSUME NEW y \in File
               PROVE  /\ type'[y] = "inode" => ref'[y] > 0 /\ fip'[y] \in Inode /\ off'[y] <= size'[fip'[y]]
                      /\ ref'[y] > 0 /\ type'[y] = "none" => \E q \in Proc : pc'[q] \in Opening /\ f'[q] = y
    BY Zenon DEF SlotInv
  <1>1. type[y] = "inode" => ref[y] > 0 /\ fip[y] \in Inode /\ off[y] <= size[fip[y]]
    BY Zenon DEF FInv, SlotInv
  <1>2. ASSUME ref[y] > 0, type[y] = "none", ref'[y] > 0, type'[y] = "none"
        PROVE  \E q \in Proc : pc'[q] \in Opening /\ f'[q] = y
    <2>1. PICK q \in Proc : pc[q] \in Opening /\ f[q] = y
      BY <1>2, Zenon DEF FInv, SlotInv
    <2>2. CASE q = p
      BY <1>2, <2>1, <2>2, Zenon
    <2>3. CASE q # p
      BY <2>1, <2>3, Zenon DEF Steady
    <2> QED BY <2>2, <2>3, Zenon
  <1> QED BY <1>1, <1>2, Zenon

\* A step that changes no lock and no file's inode.
LEMMA LockKeep ==
    ASSUME FInv, NEW p \in Proc, \A q \in Proc : q # p => Steady(q),
           UNCHANGED <<ilock, fip>>, pc'[p] # "move",
           pc'[p] \in {"open_file", "open_fd", "open_undo"} => ilock[ip'[p]] = p
    PROVE  LockInv'
  <1>1. ASSUME NEW q \in Proc, q # p
        PROVE  /\ pc'[q] \in {"open_file", "open_fd", "open_undo"} => ilock'[ip'[q]] = q
               /\ pc'[q] = "move" => ilock'[fip'[f'[q]]] = q
    <2>1. pc'[q] = pc[q] /\ ip'[q] = ip[q] /\ f'[q] = f[q] /\ ilock' = ilock /\ fip' = fip
      BY <1>1, Zenon DEF Steady
    <2>2. /\ pc[q] \in {"open_file", "open_fd", "open_undo"} => ilock[ip[q]] = q
          /\ pc[q] = "move" => ilock[fip[f[q]]] = q
      BY Zenon DEF FInv, LockInv
    <2> QED BY <2>1, <2>2, Zenon
  <1> QED BY <1>1, Zenon DEF LockInv

-----------------------------------------------------------------------------
(* Paths and working directories *)

\* namei and inodes.lock at the start of open.
LEMMA OpenStep ==
    ASSUME Counting, FInv, NEW p \in Proc, NEW i \in Inode, NEW m \in Mode, open(p, i, m)
    PROVE  FInv'
  <1> USE DEF At, Goto, procVars, localVars, inodeVars
  <1>1. /\ TypeOK /\ None \notin Inode \union Proc /\ state[p] = "running" /\ pc[p] = "user"
        /\ f[p] = 0 /\ ip[p] = None /\ ilock[i] = None
    BY Place, FileAssumption, Zenon DEF open, HasFile, HasInode, Opening
  <1>2. TypeOK'
    <2>1. iref \in [Inode -> Nat] /\ iref' = [iref EXCEPT ![i] = @ + 1]
      BY <1>1, Zenon DEF open, TypeOK
    <2>2. iref' \in [Inode -> Nat]
      BY ONLY <2>1
    <2> QED BY <1>1, <2>2, Zenon DEF open, TypeOK, fileVars, Pc
  <1>3. /\ \A q \in Proc : q # p => Steady(q)
        /\ pc'[p] = "open_file" /\ f'[p] = 0 /\ ip'[p] = i /\ UNCHANGED <<fileVars, size, procVars, panicked>>
        /\ \A j \in Inode : j # i => iref'[j] = iref[j] /\ ilock'[j] = ilock[j]
        /\ iref'[i] = iref[i] + 1 /\ ilock'[i] = p
    BY <1>1, Zenon DEF open, TypeOK, Steady
  <1>4. FileParts'
    BY <1>1, <1>2, <1>3, NoFile, Zenon DEF HasFile, Opening
  <1>5. InodeRefsExact'
    <2>1. iref' = [iref EXCEPT ![i] = @ + 1]
      BY Zenon DEF open
    <2> QED BY <1>1, <1>2, <1>3, <2>1, InHandTake, Zenon DEF fileVars
  <1>6. PlaceInv'
    BY <1>1, <1>3, PlaceKeep, Zenon DEF HasFile, HasInode, Opening
  <1>7. ForkInv'
    BY <1>1, <1>3, ForkFrame, Zenon
  <1>8. LockInv'
    BY <1>1, <1>3, LockStep, Zenon DEF fileVars
  <1> QED BY <1>4, <1>5, <1>6, <1>7, <1>8, Zenon DEF FInv, FileParts

\* inodes.put at the end of fileclose, in close and in exit.
LEMMA PutStep ==
    ASSUME Counting, FInv, NEW p \in Proc, put(p) \/ exit_put(p)
    PROVE  FInv'
  <1> USE DEF At, Goto, procVars, localVars, inodeVars
  <1>1. /\ TypeOK /\ None \notin Inode \union Proc /\ state[p] = "running"
        /\ pc[p] \in {"put", "exit_put"} /\ f[p] = 0 /\ ip[p] \in Inode
    BY Place, FileAssumption, Zenon DEF put, exit_put, HasFile, HasInode, Opening
  <1>2. iref[ip[p]] \in Nat /\ iref[ip[p]] > 0
    BY <1>1, InodeCounted, Zenon
  <1>3. TypeOK'
    <2>1. iref' = [iref EXCEPT ![ip[p]] = @ - 1] /\ iref \in [Inode -> Nat] /\ ip[p] \in Inode
      BY <1>1, Zenon DEF put, exit_put, TypeOK
    <2>2. iref' \in [Inode -> Nat]
      BY ONLY <1>2, <2>1
    <2>3. ip' \in [Proc -> Inode \union {None}] /\ pc' \in [Proc -> Pc]
      BY <1>1, Zenon DEF put, exit_put, TypeOK, Pc
    <2> QED BY <1>1, <2>2, <2>3, Zenon DEF put, exit_put, TypeOK, fileVars
  <1>4. /\ \A q \in Proc : q # p => Steady(q)
        /\ pc'[p] = (IF pc[p] = "put" THEN "user" ELSE "exit_file")
        /\ f'[p] = 0 /\ fd'[p] = fd[p] /\ ip'[p] = None
        /\ UNCHANGED <<fileVars, size, ilock, procVars, panicked>>
        /\ \A j \in Inode : j # ip[p] => iref'[j] = iref[j]
        /\ iref'[ip[p]] = iref[ip[p]] - 1
    BY <1>1, ZenonT(40) DEF put, exit_put, TypeOK, Steady
  <1>5. FileParts'
    BY <1>1, <1>3, <1>4, NoFile, Zenon DEF HasFile, Opening
  <1>6. InodeRefsExact'
    <2>1. iref' = [iref EXCEPT ![ip[p]] = @ - 1]
      BY Zenon DEF put, exit_put
    <2> QED BY <1>1, <1>2, <1>3, <1>4, <2>1, InHandDrop, Zenon DEF fileVars
  <1>7. PlaceInv'
    BY <1>1, <1>4, PlaceKeep, Zenon DEF HasFile, HasInode, Opening
  <1>8. ForkInv'
    BY <1>1, <1>4, ForkFrame, Zenon
  <1>9. LockInv'
    BY <1>1, <1>4, LockKeep, Zenon DEF fileVars
  <1> QED BY <1>5, <1>6, <1>7, <1>8, <1>9, Zenon DEF FInv, FileParts

\* namei in chdir.
LEMMA ChdirStep ==
    ASSUME Counting, FInv, NEW p \in Proc, NEW i \in Inode, chdir(p, i)
    PROVE  FInv'
  <1> USE DEF At, Goto, procVars, localVars, inodeVars
  <1>1. /\ TypeOK /\ None \notin Inode \union Proc /\ state[p] = "running" /\ pc[p] = "user"
        /\ f[p] = 0 /\ ip[p] = None
    BY Place, FileAssumption, Zenon DEF chdir, HasFile, HasInode, Opening
  <1>2. TypeOK'
    <2>1. iref \in [Inode -> Nat] /\ iref' = [iref EXCEPT ![i] = @ + 1]
      BY <1>1, Zenon DEF chdir, TypeOK
    <2>2. iref' \in [Inode -> Nat]
      BY ONLY <2>1
    <2> QED BY <1>1, <2>2, Zenon DEF chdir, TypeOK, fileVars, Pc
  <1>3. /\ \A q \in Proc : q # p => Steady(q)
        /\ pc'[p] = "chdir_put" /\ f'[p] = 0 /\ ip'[p] = i
        /\ UNCHANGED <<fileVars, size, ilock, procVars, panicked>>
        /\ \A j \in Inode : j # i => iref'[j] = iref[j]
        /\ iref'[i] = iref[i] + 1
    BY <1>1, Zenon DEF chdir, TypeOK, Steady
  <1>4. FileParts'
    BY <1>1, <1>2, <1>3, NoFile, Zenon DEF HasFile, Opening
  <1>5. InodeRefsExact'
    <2>1. iref' = [iref EXCEPT ![i] = @ + 1]
      BY Zenon DEF chdir
    <2> QED BY <1>1, <1>2, <1>3, <2>1, InHandTake, Zenon DEF fileVars
  <1>6. PlaceInv'
    BY <1>1, <1>3, PlaceKeep, Zenon DEF HasFile, HasInode, Opening
  <1>7. ForkInv'
    BY <1>1, <1>3, ForkFrame, Zenon
  <1>8. LockInv'
    BY <1>1, <1>3, LockKeep, Zenon DEF fileVars
  <1> QED BY <1>4, <1>5, <1>6, <1>7, <1>8, Zenon DEF FInv, FileParts

\* The end of chdir: the reference in hand becomes that of the working
\* directory, whose old reference goes, or goes itself.
LEMMA ChdirPutStep ==
    ASSUME Counting, FInv, NEW p \in Proc, chdir_put(p)
    PROVE  FInv'
  <1> USE DEF At, Goto, procVars, localVars, inodeVars
  <1> DEFINE i == IF ip[p] \in Dir THEN cwd[p] ELSE ip[p]
  <1>1. /\ TypeOK /\ None \notin Inode \union Proc /\ state[p] = "running" /\ pc[p] = "chdir_put"
        /\ f[p] = 0 /\ ip[p] \in Inode /\ cwd[p] \in Inode /\ i \in Inode /\ 1 \in File
    BY Place, FileAssumption, Zenon DEF chdir_put, HasFile, HasInode, Opening
  <1>2. iref[i] \in Nat /\ iref[i] > 0
    BY <1>1, InodeCounted, Zenon
  <1>3. TypeOK'
    <2>1. iref' = [iref EXCEPT ![i] = @ - 1] /\ iref \in [Inode -> Nat] /\ i \in Inode
      BY <1>1, Zenon DEF chdir_put, TypeOK
    <2> HIDE DEF i
    <2>2. iref' \in [Inode -> Nat]
      BY ONLY <1>2, <2>1
    <2> QED BY <1>1, <2>2, Zenon DEF chdir_put, TypeOK, fileVars, Pc
  <1>4. /\ \A q \in Proc : q # p => Steady(q) /\ cwd'[q] = cwd[q]
        /\ pc'[p] = "user" /\ f'[p] = 0 /\ ip'[p] = None
        /\ cwd'[p] = (IF ip[p] \in Dir THEN ip[p] ELSE cwd[p])
        /\ UNCHANGED <<fileVars, size, ilock, state, ofile, panicked>>
        /\ \A j \in Inode : j # i => iref'[j] = iref[j]
        /\ iref'[i] = iref[i] - 1
    BY <1>1, Zenon DEF chdir_put, TypeOK, Steady
  <1>5. FileParts'
    BY <1>1, <1>3, <1>4, NoFile, Zenon DEF HasFile, Opening
  <1>6. InodeRefsExact'
    <2>1. ASSUME NEW j \in Inode
          PROVE  iref'[j] + One(cwd[p] = j) + One(ip[p] = j) = iref[j] + One(cwd'[p] = j) + One(ip'[p] = j)
      <3>1. iref[j] \in Nat /\ ip'[p] # j
        BY <1>1, <1>4, Zenon DEF TypeOK
      <3>2. (i = cwd[p] /\ cwd'[p] = ip[p]) \/ (i = ip[p] /\ cwd'[p] = cwd[p])
        <4>1. CASE ip[p] \in Dir
          <5>1. i = cwd[p]
            BY <4>1, Zenon
          <5>2. cwd'[p] = ip[p]
            BY <1>4, <4>1, Zenon
          <5> QED BY <5>1, <5>2, Zenon
        <4>2. CASE ip[p] \notin Dir
          <5>1. i = ip[p]
            BY <4>2, Zenon
          <5>2. cwd'[p] = cwd[p]
            BY <1>4, <4>2, Zenon
          <5> QED BY <5>1, <5>2, Zenon
        <4> QED BY <4>1, <4>2, Zenon
      <3>3. (j # i => iref'[j] = iref[j]) /\ iref'[i] = iref[i] - 1
        BY <1>4, Zenon
      <3> HIDE DEF i
      <3> QED BY ONLY <3>1, <3>2, <3>3 DEF One
    <2>2. \A j \in Inode :
              iref'[j] + One(cwd[p] = j) + One(ip[p] = j) = iref[j] + One(cwd'[p] = j) + One(ip'[p] = j)
      BY <2>1, Zenon
    <2>3. type' = type /\ fip' = fip /\ \A q \in Proc : q # p => cwd'[q] = cwd[q]
      BY <1>4, Zenon DEF fileVars
    <2> QED BY <1>3, <1>4, <2>2, <2>3, InodeCwdStep, Zenon
  <1>7. PlaceInv'
    <2>1. /\ state' = state /\ (\A q \in Proc : q # p => cwd'[q] = cwd[q])
          /\ \A q \in Proc : q # p => \A d \in Fd : ofile'[q][d] = ofile[q][d]
      BY <1>4, Zenon
    <2>2. /\ cwd'[p] # None /\ (pc'[p] \in HasFile <=> f'[p] # 0) /\ (pc'[p] \in HasInode <=> ip'[p] # None)
          /\ pc'[p] # "exit_cwd" /\ pc'[p] \notin {"exit_file", "exit_put"}
      BY <1>1, <1>4, Zenon DEF HasFile, HasInode, Opening
    <2> QED BY <1>1, <1>4, <2>1, <2>2, PlaceFrame, Zenon
  <1>8. ForkInv'
    BY <1>1, <1>4, ForkFrame, Zenon
  <1>9. LockInv'
    BY <1>1, <1>4, LockKeep, Zenon DEF fileVars
  <1> QED BY <1>5, <1>6, <1>7, <1>8, <1>9, Zenon DEF FInv, FileParts

-----------------------------------------------------------------------------
(* fork, exit and wait, as far as they touch no file *)

\* fork takes a free process.
LEMMA ForkStep ==
    ASSUME Counting, FInv, NEW p \in Proc, NEW c \in Proc, fork(p, c)
    PROVE  FInv'
  <1> USE DEF At, Goto, procVars, localVars, inodeVars
  <1>1. /\ TypeOK /\ None \notin Inode \union Proc /\ state[p] = "running" /\ pc[p] = "user"
        /\ f[p] = 0 /\ ip[p] = None /\ state[c] = "unused" /\ c # p
    BY Place, FileAssumption, Zenon DEF fork, HasFile, HasInode, Opening
  <1>2. TypeOK'
    BY <1>1, Zenon DEF fork, TypeOK, fileVars, Pc
  <1>3. /\ \A q \in Proc : q # p => Steady(q)
        /\ \A q \in Proc : q # c => state'[q] = state[q]
        /\ pc'[p] = "fork_fd" /\ f'[p] = 0 /\ ip'[p] = None /\ fd'[p] = 0 /\ child'[p] = c
        /\ state'[c] = "embryo"
        /\ UNCHANGED <<fileVars, inodeVars, ofile, cwd, ip, panicked>>
    BY <1>1, Zenon DEF fork, TypeOK, Steady
  <1>4. FileParts'
    BY <1>1, <1>2, <1>3, NoFile, Zenon DEF HasFile, Opening
  <1>5. InodeRefsExact'
    BY <1>3, NoInode, Zenon DEF fileVars
  <1>6. PlaceInv'
    <2>1. PlaceAt(p) /\ PlaceAt(c)
      BY Zenon DEF FInv, PlaceInv
    <2>2. ASSUME NEW q \in Proc, q # p, q # c PROVE PlaceAt(q)'
      BY <1>3, <2>2, PlaceSame, Zenon
    <2>3. PlaceAt(p)'
      BY <1>1, <1>3, <2>1, Zenon DEF PlaceAt, HasFile, HasInode, Opening
    <2>4. PlaceAt(c)'
      BY <1>1, <1>3, <2>1, Zenon DEF PlaceAt, Steady
    <2> QED BY <2>2, <2>3, <2>4, Zenon DEF PlaceInv
  <1>7. ForkInv'
    <2>1. \A d \in Fd : ofile[c][d] = 0
      BY <1>1, Zenon DEF FInv, PlaceInv, PlaceAt
    <2>2. ASSUME NEW q \in Proc, q # p, pc'[q] = "fork_fd"
          PROVE  /\ pc[q] = "fork_fd" /\ child'[q] = child[q] /\ child[q] \in Proc \ {c}
                 /\ state'[child[q]] = "embryo" /\ \A d \in Fd : d >= fd'[q] => ofile'[child[q]][d] = 0
      <3>1. pc[q] = "fork_fd" /\ child'[q] = child[q] /\ fd'[q] = fd[q]
        BY <1>3, <2>2, Zenon DEF Steady
      <3>2. /\ child[q] \in Proc /\ state[child[q]] = "embryo"
            /\ \A d \in Fd : d >= fd[q] => ofile[child[q]][d] = 0
        BY <3>1, Zenon DEF FInv, ForkInv
      <3>3. child[q] # c
        BY <1>1, <3>2, Zenon
      <3> QED BY <1>3, <3>1, <3>2, <3>3, Zenon
    <2>3. ASSUME NEW q \in Proc, NEW r \in Proc, pc'[q] = "fork_fd", pc'[r] = "fork_fd", child'[q] = child'[r]
          PROVE  q = r
      <3>1. CASE q # p /\ r # p
        <4>1. pc[q] = "fork_fd" /\ pc[r] = "fork_fd" /\ child[q] = child[r]
          BY <2>2, <2>3, <3>1, Zenon
        <4> QED BY <4>1, Zenon DEF FInv, ForkInv
      <3>2. CASE q = p /\ r # p
        <4>1. child'[r] # c
          BY <2>2, <2>3, <3>2, Zenon
        <4> QED BY <1>3, <2>3, <3>2, <4>1, Zenon
      <3>3. CASE q # p /\ r = p
        <4>1. child'[q] # c
          BY <2>2, <2>3, <3>3, Zenon
        <4> QED BY <1>3, <2>3, <3>3, <4>1, Zenon
      <3> QED BY <3>1, <3>2, <3>3, Zenon
    <2>4. /\ child'[p] \in Proc /\ state'[child'[p]] = "embryo"
          /\ \A d \in Fd : d >= fd'[p] => ofile'[child'[p]][d] = 0
      BY <1>3, <2>1, Zenon
    <2>5. ASSUME NEW q \in Proc, pc'[q] = "fork_fd"
          PROVE  /\ child'[q] \in Proc /\ state'[child'[q]] = "embryo"
                 /\ \A d \in Fd : d >= fd'[q] => ofile'[child'[q]][d] = 0
      <3>1. CASE q = p
        BY <2>4, <3>1, Zenon
      <3>2. CASE q # p
        <4>1. PICK r \in Proc : r = child[q]
          BY <2>2, <2>5, <3>2, Zenon
        <4>2. /\ child'[q] = r /\ state'[r] = "embryo"
              /\ \A d \in Fd : d >= fd'[q] => ofile'[r][d] = 0
          BY <2>2, <2>5, <3>2, <4>1, Zenon
        <4> QED BY <4>2, Zenon
      <3> QED BY <3>1, <3>2, Zenon
    <2> QED BY <2>3, <2>5, Zenon DEF ForkInv
  <1>8. LockInv'
    BY <1>1, <1>3, LockKeep, Zenon DEF fileVars
  <1> QED BY <1>4, <1>5, <1>6, <1>7, <1>8, Zenon DEF FInv, FileParts

\* exit starts with the first descriptor.
LEMMA ExitStep ==
    ASSUME Counting, FInv, NEW p \in Proc, exit(p)
    PROVE  FInv'
  <1> USE DEF At, Goto, procVars, localVars, inodeVars
  <1>1. /\ TypeOK /\ None \notin Inode \union Proc /\ state[p] = "running" /\ pc[p] = "user"
        /\ f[p] = 0 /\ ip[p] = None
    BY Place, FileAssumption, Zenon DEF exit, HasFile, HasInode, Opening
  <1>2. TypeOK'
    BY <1>1, Zenon DEF exit, TypeOK, fileVars, Pc
  <1>3. /\ \A q \in Proc : q # p => Steady(q)
        /\ pc'[p] = "exit_file" /\ f'[p] = 0 /\ ip'[p] = None /\ fd'[p] = 0
        /\ UNCHANGED <<fileVars, inodeVars, procVars, ip, panicked>>
    BY <1>1, Zenon DEF exit, TypeOK, Steady
  <1>4. FileParts'
    BY <1>1, <1>2, <1>3, NoFile, Zenon DEF HasFile, Opening
  <1>5. InodeRefsExact'
    BY <1>3, NoInode, Zenon DEF fileVars
  <1>6. PlaceInv'
    <2>1. \A d \in Fd : ~(d < 0)
      BY FileAssumption DEF Fd
    <2>2. /\ state' = state /\ (\A q \in Proc : q # p => cwd'[q] = cwd[q])
          /\ \A q \in Proc : q # p => \A d \in Fd : ofile'[q][d] = ofile[q][d]
      BY <1>3, Zenon
    <2>3. \A d \in Fd : pc'[p] \in {"exit_file", "exit_put"} /\ d < fd'[p] => ofile'[p][d] = 0
      BY <1>3, <2>1, Zenon
    <2>4. /\ cwd'[p] = cwd[p] /\ (pc'[p] \in HasFile <=> f'[p] # 0) /\ (pc'[p] \in HasInode <=> ip'[p] # None)
          /\ pc'[p] # "exit_cwd"
      BY <1>3, Zenon DEF HasFile, HasInode, Opening
    <2> QED BY <1>1, <1>3, <2>2, <2>3, <2>4, PlaceFrame, Zenon
  <1>7. ForkInv'
    BY <1>1, <1>3, ForkFrame, Zenon
  <1>8. LockInv'
    BY <1>1, <1>3, LockKeep, Zenon DEF fileVars
  <1> QED BY <1>4, <1>5, <1>6, <1>7, <1>8, Zenon DEF FInv, FileParts

\* exit puts the working directory; the process is a zombie.
LEMMA ExitCwdStep ==
    ASSUME Counting, FInv, NEW p \in Proc, exit_cwd(p)
    PROVE  FInv'
  <1> USE DEF At, Goto, procVars, localVars, inodeVars
  <1>1. /\ TypeOK /\ None \notin Inode \union Proc /\ state[p] = "running" /\ pc[p] = "exit_cwd"
        /\ f[p] = 0 /\ ip[p] = None /\ cwd[p] \in Inode /\ 1 \in File
    BY Place, FileAssumption, Zenon DEF exit_cwd, HasFile, HasInode, Opening
  <1>2. iref[cwd[p]] \in Nat /\ iref[cwd[p]] > 0
    BY <1>1, InodeCounted, Zenon
  <1>3. TypeOK'
    <2>1. iref' = [iref EXCEPT ![cwd[p]] = @ - 1] /\ iref \in [Inode -> Nat] /\ cwd[p] \in Inode
      BY <1>1, Zenon DEF exit_cwd, TypeOK
    <2>2. iref' \in [Inode -> Nat]
      BY ONLY <1>2, <2>1
    <2>3. fd' \in [Proc -> Nat]
      BY <1>1, Zenon DEF exit_cwd, TypeOK
    <2> QED BY <1>1, <2>2, <2>3, Zenon DEF exit_cwd, TypeOK, fileVars, Pc
  <1>4. /\ \A q \in Proc : q # p => Steady(q) /\ cwd'[q] = cwd[q] /\ state'[q] = state[q]
        /\ pc'[p] = "user" /\ f'[p] = 0 /\ ip'[p] = None /\ cwd'[p] = None /\ state'[p] = "zombie"
        /\ UNCHANGED <<fileVars, size, ilock, ofile, ip, panicked>>
        /\ \A j \in Inode : j # cwd[p] => iref'[j] = iref[j]
        /\ iref'[cwd[p]] = iref[cwd[p]] - 1
    BY <1>1, Zenon DEF exit_cwd, TypeOK, Steady
  <1>5. FileParts'
    BY <1>1, <1>3, <1>4, NoFile, Zenon DEF HasFile, Opening
  <1>6. InodeRefsExact'
    <2>1. ASSUME NEW j \in Inode
          PROVE  iref'[j] + One(cwd[p] = j) + One(ip[p] = j) = iref[j] + One(cwd'[p] = j) + One(ip'[p] = j)
      <3>1. iref[j] \in Nat /\ ip'[p] # j /\ ip[p] # j /\ cwd'[p] # j
        BY <1>1, <1>4, ZenonT(40) DEF TypeOK
      <3>2. (j # cwd[p] => iref'[j] = iref[j]) /\ iref'[cwd[p]] = iref[cwd[p]] - 1
        BY <1>4, Zenon
      <3> QED BY ONLY <3>1, <3>2 DEF One
    <2>2. \A j \in Inode :
              iref'[j] + One(cwd[p] = j) + One(ip[p] = j) = iref[j] + One(cwd'[p] = j) + One(ip'[p] = j)
      BY <2>1, Zenon
    <2>3. type' = type /\ fip' = fip /\ \A q \in Proc : q # p => cwd'[q] = cwd[q]
      BY <1>4, Zenon DEF fileVars
    <2> QED BY <1>3, <1>4, <2>2, <2>3, InodeCwdStep, Zenon
  <1>7. PlaceInv'
    <2>1. ASSUME NEW q \in Proc, q # p PROVE PlaceAt(q)'
      BY <1>4, <2>1, PlaceSame, Zenon
    <2>2. PlaceAt(p)
      BY Zenon DEF FInv, PlaceInv
    <2>3. \A d \in Fd : ofile'[p][d] = 0
      BY <1>1, <1>4, <2>2, Zenon DEF PlaceAt
    <2>4. PlaceAt(p)'
      BY <1>4, <2>3, Zenon DEF PlaceAt, HasFile, HasInode, Opening
    <2> QED BY <2>1, <2>4, Zenon DEF PlaceInv
  <1>8. ForkInv'
    BY <1>1, <1>4, ForkFrame, Zenon
  <1>9. LockInv'
    BY <1>1, <1>4, LockKeep, Zenon DEF fileVars
  <1> QED BY <1>5, <1>6, <1>7, <1>8, <1>9, Zenon DEF FInv, FileParts

\* wait frees a zombie.
LEMMA WaitStep ==
    ASSUME Counting, FInv, NEW p \in Proc, wait(p)
    PROVE  FInv'
  <1> USE DEF procVars, localVars, inodeVars
  <1>1. /\ TypeOK /\ state[p] = "zombie" /\ pc[p] = "user" /\ f[p] = 0
    BY Place, Zenon DEF wait, HasFile, Opening, FInv, PlaceInv, PlaceAt
  <1>2. TypeOK'
    BY <1>1, Zenon DEF wait, TypeOK, fileVars
  <1>3. /\ \A q \in Proc : Steady(q)
        /\ \A q \in Proc : q # p => state'[q] = state[q]
        /\ state'[p] = "unused" /\ UNCHANGED <<fileVars, inodeVars, ofile, cwd, pc, f, fd, ip, child, panicked>>
    BY <1>1, Zenon DEF wait, TypeOK, Steady
  <1>4. FileParts'
    BY <1>1, <1>2, <1>3, NoFile, Zenon DEF HasFile, Opening
  <1>5. InodeRefsExact'
    BY <1>3, NoInode, Zenon DEF fileVars
  <1>6. PlaceInv'
    <2>1. ASSUME NEW q \in Proc, q # p PROVE PlaceAt(q)'
      BY <1>3, <2>1, PlaceSame, Zenon
    <2>2. PlaceAt(p)
      BY Zenon DEF FInv, PlaceInv
    <2>3. PlaceAt(p)'
      BY <1>1, <1>3, <2>2, Zenon DEF PlaceAt
    <2> QED BY <2>1, <2>3, Zenon DEF PlaceInv
  <1>7. ForkInv'
    BY <1>1, <1>3, Zenon DEF FInv, ForkInv
  <1>8. LockInv'
    BY <1>1, <1>3, Zenon DEF fileVars, FInv, LockInv
  <1> QED BY <1>4, <1>5, <1>6, <1>7, <1>8, Zenon DEF FInv, FileParts

-----------------------------------------------------------------------------
(* open *)

\* Nobody names or holds a slot that is not counted.
LEMMA FreeSlot ==
    ASSUME Counting, FInv, NEW x \in File, ref[x] = 0
    PROVE  type[x] = "none" /\ \A q \in Proc : f[q] # x /\ ~Named(q, x)
  <1>1. \A q \in Proc : f[q] # x /\ ~Named(q, x)
    BY Counted
  <1>2. type[x] \in {"none", "inode"}
    BY Zenon DEF FInv, RefsExact, TypeOK
  <1>3. ~(ref[x] > 0)
    OBVIOUS
  <1> QED BY <1>1, <1>2, <1>3, Zenon DEF FInv, SlotInv

\* The table is full: open drops the inode.
LEMMA GiveUpStep ==
    ASSUME Counting, FInv, NEW p \in Proc, open_file(p), FreeFiles = {}
    PROVE  FInv'
  <1> USE DEF At, Goto, procVars, localVars, inodeVars
  <1>1. /\ TypeOK /\ None \notin Inode \union Proc /\ state[p] = "running" /\ pc[p] = "open_file"
        /\ f[p] = 0 /\ ip[p] \in Inode /\ ilock[ip[p]] = p
    BY Place, FileAssumption, Zenon DEF open_file, HasFile, HasInode, Opening, FInv, LockInv
  <1>2. iref[ip[p]] \in Nat /\ iref[ip[p]] > 0
    BY <1>1, InodeCounted, Zenon
  <1>3. /\ give_up(p) /\ UNCHANGED <<ref, f>>
        /\ UNCHANGED <<type, fip, off, mode, size, procVars, fd, omode, left, start, child, panicked>>
    BY Zenon DEF open_file
  <1>4. TypeOK'
    <2>1. iref' = [iref EXCEPT ![ip[p]] = @ - 1] /\ iref \in [Inode -> Nat] /\ ip[p] \in Inode
      BY <1>1, <1>3, Zenon DEF give_up, TypeOK
    <2>2. iref' \in [Inode -> Nat]
      BY ONLY <1>2, <2>1
    <2> QED BY <1>1, <1>3, <2>2, Zenon DEF give_up, TypeOK, Pc
  <1>5. /\ \A q \in Proc : q # p => Steady(q)
        /\ pc'[p] = "user" /\ f'[p] = 0 /\ ip'[p] = None
        /\ UNCHANGED <<fileVars, size, procVars, panicked>>
        /\ \A j \in Inode : j # ip[p] => iref'[j] = iref[j] /\ ilock'[j] = ilock[j]
        /\ iref'[ip[p]] = iref[ip[p]] - 1
    BY <1>1, <1>3, Zenon DEF give_up, TypeOK, Steady, fileVars
  <1>6. FileParts'
    BY <1>1, <1>4, <1>5, NoFile, Zenon DEF HasFile, Opening
  <1>7. InodeRefsExact'
    <2>1. iref' = [iref EXCEPT ![ip[p]] = @ - 1]
      BY <1>3, Zenon DEF give_up
    <2> QED BY <1>1, <1>2, <1>4, <1>5, <2>1, InHandDrop, Zenon DEF fileVars
  <1>8. PlaceInv'
    BY <1>1, <1>5, PlaceKeep, Zenon DEF HasFile, HasInode, Opening
  <1>9. ForkInv'
    BY <1>1, <1>5, ForkFrame, Zenon
  <1>10. LockInv'
    BY <1>1, <1>5, LockStep, Zenon DEF fileVars
  <1> QED BY <1>6, <1>7, <1>8, <1>9, <1>10, Zenon DEF FInv, FileParts

\* filealloc takes a slot that is not counted.
LEMMA FileallocStep ==
    ASSUME Counting, FInv, NEW p \in Proc, open_file(p), FreeFiles # {}
    PROVE  FInv'
  <1> USE DEF At, Goto, procVars, localVars, inodeVars
  <1>1. /\ TypeOK /\ None \notin Inode \union Proc /\ state[p] = "running" /\ pc[p] = "open_file"
        /\ f[p] = 0 /\ ip[p] \in Inode /\ ilock[ip[p]] = p /\ 0 \notin File /\ 0 \in Fd
    BY Place, FileAssumption, Zenon DEF open_file, HasFile, HasInode, Opening, FInv, LockInv
  <1>2. PICK x \in File : x = Min(FreeFiles) /\ ref[x] = 0
    <2>1. FreeFiles \subseteq Nat
      BY FileAssumption DEF FreeFiles, File
    <2>2. Min(FreeFiles) \in FreeFiles
      BY <2>1, MinInSet, Zenon
    <2> QED BY <2>2, Zenon DEF FreeFiles
  <1>3. /\ ref' = [ref EXCEPT ![x] = 1] /\ f' = [f EXCEPT ![p] = x] /\ Goto(p, "open_fd")
        /\ UNCHANGED <<ip, iref, ilock>>
        /\ UNCHANGED <<type, fip, off, mode, size, procVars, fd, omode, left, start, child, panicked>>
    BY <1>2, Zenon DEF open_file
  <1>4. type[x] = "none" /\ \A q \in Proc : f[q] # x /\ ~Named(q, x)
    BY <1>2, FreeSlot, Zenon
  <1>5. TypeOK'
    BY <1>1, <1>2, <1>3, Zenon DEF TypeOK, Pc
  <1>6. /\ \A q \in Proc : q # p => Steady(q)
        /\ pc'[p] = "open_fd" /\ f'[p] = x /\ ip'[p] = ip[p]
        /\ UNCHANGED <<type, fip, off, mode, inodeVars, procVars, ip, panicked>>
        /\ \A y \in File : y # x => ref'[y] = ref[y]
        /\ ref'[x] = 1
    BY <1>1, <1>2, <1>3, Zenon DEF TypeOK, Steady
  <1>7. \A q \in Proc : \A y : (Named(q, y)' <=> Named(q, y)) /\ (Twice(q, y)' <=> Twice(q, y))
    BY <1>6, Zenon DEF Named, Twice
  <1>8. RefsExact'
    <2>1. \A y \in File :
               ref'[y] + One(f'[p] = y /\ pc'[p] = "dup_ref") + One(f[p] = y /\ pc[p] \in Taking)
               = ref[y] + One(f[p] = y /\ pc[p] = "dup_ref") + One(f'[p] = y /\ pc'[p] \in Taking)
      <3> TAKE y \in File
      <3>1. /\ ref[y] \in Nat /\ f'[p] = x /\ f[p] # y
            /\ pc'[p] # "dup_ref" /\ pc'[p] \in Taking /\ (y # x => ref'[y] = ref[y])
        BY <1>1, <1>6, Zenon DEF Taking, TypeOK
      <3>2. ref[x] = 0 /\ ref'[x] = 1
        BY <1>2, <1>6, Zenon
      <3> QED BY ONLY <3>1, <3>2 DEF One
    <2> QED BY <1>5, <1>6, <2>1, RefKeep, Zenon
  <1>9. InodeRefsExact'
    BY <1>6, NoInode, Zenon
  <1>10. TransferAtOffset'
    BY <1>6, TransferFrame, Zenon
  <1>11. PlaceInv'
    BY <1>1, <1>2, <1>6, PlaceKeep, Zenon DEF HasFile, HasInode, Opening
  <1>12. ForkInv'
    BY <1>1, <1>6, ForkFrame, Zenon
  <1>13. UseInv'
    BY <1>6, <1>7, UseFrame, Zenon
  <1>14. OpenInv'
    <2> SUFFICES ASSUME NEW q \in Proc, pc'[q] \in Opening
                 PROVE  /\ type'[f'[q]] = "none"
                        /\ \A r \in Proc : r # q => f'[r] # f'[q] /\ ~Named(r, f[q])'
                        /\ pc'[q] # "open_fill" => ~Named(q, f[q])'
      BY Zenon DEF OpenInv
    <2>1. CASE q = p
      <3>1. ASSUME NEW r \in Proc, r # p PROVE f'[r] # x
        <4>1. f'[r] = f[r]
          BY <1>6, <3>1, Zenon DEF Steady
        <4> QED BY <1>4, <4>1, Zenon
      <3>2. \A r \in Proc : ~Named(r, x)'
        BY <1>4, <1>7, Zenon
      <3>3. \A r \in Proc : ~Named(r, f[q])'
        BY <1>6, <2>1, <3>2, Zenon DEF Named
      <3> QED BY <1>4, <1>6, <2>1, <3>1, <3>3, Zenon
    <2>2. CASE q # p
      <3>1. PICK y : y = f[q]
        BY Zenon
      <3>2. pc[q] \in Opening /\ pc'[q] = pc[q] /\ f'[q] = y
        BY <1>6, <2>2, <3>1, Zenon DEF Steady
      <3>3. /\ type[y] = "none" /\ (pc[q] # "open_fill" => ~Named(q, y))
            /\ \A r \in Proc : r # q => f[r] # y /\ ~Named(r, y)
        BY <3>1, <3>2, Zenon DEF FInv, OpenInv
      <3>4. (pc[q] # "open_fill" => ~Named(q, y)') /\ \A r \in Proc : r # q => ~Named(r, y)'
        BY <1>7, <3>3, Zenon
      <3>5. \A r \in Proc : r # q => f'[r] # y
        <4> SUFFICES ASSUME NEW r \in Proc, r # q PROVE f'[r] # y
          BY Zenon
        <4>1. CASE r = p
          BY <1>4, <1>6, <3>1, <4>1, Zenon
        <4>2. CASE r # p
          BY <1>6, <3>3, <4>2, Zenon DEF Steady
        <4> QED BY <4>1, <4>2, Zenon
      <3> QED BY <1>6, <3>2, <3>3, <3>4, <3>5, Zenon DEF Named
    <2> QED BY <2>1, <2>2, Zenon
  <1>15. SlotInv'
    <2>1. \A y \in File : type'[y] = "inode" => type[y] = "inode" /\ (ref[y] > 0 => ref'[y] > 0)
      BY <1>4, <1>6, Zenon
    <2>2. \A y \in File : ref'[y] > 0 /\ type'[y] = "none" =>
                               \/ ref[y] > 0 /\ type[y] = "none"
                               \/ pc'[p] \in Opening /\ f'[p] = y
      BY <1>6, Zenon DEF Opening
    <2>3. pc[p] \notin Opening
      BY <1>1, Zenon DEF Opening
    <2> QED BY <1>6, <2>1, <2>2, <2>3, SlotFrame, Zenon
  <1>16. LockInv'
    BY <1>1, <1>6, LockKeep, Zenon
  <1> QED BY <1>6, <1>8, <1>9, <1>10, <1>11, <1>12, <1>13, <1>14, <1>15, <1>16, Zenon DEF FInv

\* Who names what when descriptor d of p changes.
LEMMA NameStep ==
    ASSUME NEW p \in Proc, NEW d \in Fd,
           \A q \in Proc, e \in Fd : <<q, e>> # <<p, d>> => ofile'[q][e] = ofile[q][e]
    PROVE  /\ \A q \in Proc : q # p => \A y : (Named(q, y)' <=> Named(q, y)) /\ (Twice(q, y)' <=> Twice(q, y))
           /\ \A y : Named(p, y) /\ ofile[p][d] # y => Named(p, y)'
           /\ \A y : Named(p, y)' /\ ofile'[p][d] # y => Named(p, y)
           /\ \A y : ofile'[p][d] = y => Named(p, y)'
  <1>1. \A q \in Proc : q # p => \A e \in Fd : ofile'[q][e] = ofile[q][e]
    BY Zenon
  <1>2. \A e \in Fd : e # d => ofile'[p][e] = ofile[p][e]
    BY Zenon
  <1>3. \A q \in Proc : q # p => \A y : (Named(q, y)' <=> Named(q, y)) /\ (Twice(q, y)' <=> Twice(q, y))
    BY <1>1, Zenon DEF Named, Twice
  <1>4. \A y : Named(p, y) /\ ofile[p][d] # y => Named(p, y)'
    BY <1>2, Zenon DEF Named
  <1>5. \A y : Named(p, y)' /\ ofile'[p][d] # y => Named(p, y)
    BY <1>2, Zenon DEF Named
  <1>6. \A y : ofile'[p][d] = y => Named(p, y)'
    BY Zenon DEF Named
  <1> QED BY <1>3, <1>4, <1>5, <1>6, Zenon

\* The slot that open holds has exactly one reference until it has a descriptor.
LEMMA OpenedOnce ==
    ASSUME Counting, FInv, NEW p \in Proc, pc[p] \in {"open_fd", "open_undo"}
    PROVE  f[p] \in File /\ ref[f[p]] = 1
  <1> DEFINE x == f[p]
  <1>1. x \in File
    BY Place, Zenon DEF HasFile, Opening
  <1>2. \A q \in Proc : (q # p => f[q] # x) /\ ~Named(q, x)
    BY Zenon DEF FInv, OpenInv, Opening
  <1>3. InTable(x) = {}
    <2> SUFFICES ASSUME NEW t \in InTable(x) PROVE FALSE
      BY Zenon
    <2>1. t[1] \in Proc /\ t[2] \in Fd /\ ofile[t[1]][t[2]] = x
      BY Zenon DEF InTable
    <2> QED BY <1>2, <2>1, Zenon DEF Named
  <1>4. InHand(x, {"dup_ref"}) = {}
    BY <1>2, Zenon DEF InHand
  <1>5. InHand(x, Taking) = {p}
    BY <1>2, Zenon DEF InHand, Taking
  <1>6. ref[x] + Cardinality(InHand(x, {"dup_ref"})) = Cardinality(InTable(x)) + Cardinality(InHand(x, Taking))
    BY <1>1, Zenon DEF FInv, RefsExact, Taking
  <1>7. ref[x] \in Nat
    BY <1>1, Zenon DEF FInv, RefsExact, TypeOK
  <1>8. Cardinality({}) = 0 /\ Cardinality({p}) = 1
    <2>1. {} \subseteq Proc
      BY Zenon
    <2>2. Cardinality({}) = 0
      BY <2>1, Finite, Size, Zenon
    <2> QED BY <2>2, Zenon DEF Counting
  <1> HIDE DEF x
  <1>9. ref[x] = 1
    BY <1>3, <1>4, <1>5, <1>6, <1>7, <1>8
  <1> QED BY <1>1, <1>9, Zenon DEF x

\* fdalloc finds no descriptor.
LEMMA NoFdStep ==
    ASSUME Counting, FInv, NEW p \in Proc, open_fd(p), FreeFds(p) = {}
    PROVE  FInv'
  <1> USE DEF At, Goto, procVars, localVars, inodeVars
  <1>1. /\ TypeOK /\ None \notin Inode \union Proc /\ state[p] = "running" /\ pc[p] = "open_fd"
        /\ f[p] \in File /\ ip[p] \in Inode /\ 0 \notin File /\ 0 \in Fd
    BY Place, FileAssumption, Zenon DEF open_fd, HasFile, HasInode, Opening
  <1>2. /\ Goto(p, "open_undo")
        /\ UNCHANGED <<fileVars, inodeVars, procVars, localVars, panicked>>
    BY Zenon DEF open_fd
  <1>3. TypeOK'
    BY <1>1, <1>2, Zenon DEF TypeOK, Pc, fileVars
  <1>4. /\ \A q \in Proc : q # p => Steady(q)
        /\ pc'[p] = "open_undo"
        /\ UNCHANGED <<ref, type, fip, off, mode, inodeVars, procVars, localVars, panicked>>
    BY <1>1, <1>2, Zenon DEF TypeOK, fileVars, Steady
  <1>5. \A q \in Proc : \A y : (Named(q, y)' <=> Named(q, y)) /\ (Twice(q, y)' <=> Twice(q, y))
    BY <1>4, Zenon DEF Named, Twice
  <1>6. RefsExact'
    <2>1. \A y \in File :
               ref'[y] + One(f'[p] = y /\ pc'[p] = "dup_ref") + One(f[p] = y /\ pc[p] \in Taking)
               = ref[y] + One(f[p] = y /\ pc[p] = "dup_ref") + One(f'[p] = y /\ pc'[p] \in Taking)
      BY <1>1, <1>4, Zenon DEF One, Taking, TypeOK
    <2> QED BY <1>3, <1>4, <2>1, RefKeep, Zenon
  <1>7. InodeRefsExact'
    BY <1>4, NoInode, Zenon
  <1>8. TransferAtOffset'
    BY <1>4, TransferFrame, Zenon
  <1>9. PlaceInv'
    <2>1. (pc'[p] \in HasFile <=> f'[p] # 0) /\ (pc'[p] \in HasInode <=> ip'[p] # None)
      BY <1>1, <1>4, Zenon DEF HasFile, HasInode, Opening
    <2> QED BY <1>1, <1>4, <2>1, PlaceKeep, Zenon
  <1>10. ForkInv'
    BY <1>1, <1>4, ForkFrame, Zenon
  <1>11. UseInv'
    BY <1>4, <1>5, UseFrame, Zenon
  <1>12. OpenInv'
    <2>1. \A q \in Proc : pc'[q] \in Opening => pc[q] \in Opening /\ (pc'[q] # "open_fill" => pc[q] # "open_fill")
      BY <1>1, <1>4, Zenon DEF Opening, Steady
    <2>2. f' = f /\ type' = type /\ ofile' = ofile
      BY <1>4, Zenon
    <2> QED BY <2>1, <2>2, ZenonT(40) DEF FInv, OpenInv, Named
  <1>13. SlotInv'
    <2>1. pc'[p] \in Opening /\ f'[p] = f[p]
      BY <1>4, Zenon DEF Opening
    <2> QED BY <1>4, <2>1, SlotFrame, Zenon
  <1>14. LockInv'
    <2>1. ilock[ip'[p]] = p
      BY <1>1, <1>4, Zenon DEF FInv, LockInv
    <2> QED BY <1>4, <2>1, LockKeep, Zenon
  <1> QED BY <1>4, <1>6, <1>7, <1>8, <1>9, <1>10, <1>11, <1>12, <1>13, <1>14, Zenon DEF FInv

\* A free descriptor.
LEMMA FreeFd ==
    ASSUME Counting, NEW p \in Proc, FreeFds(p) # {}
    PROVE  Min(FreeFds(p)) \in Fd /\ ofile[p][Min(FreeFds(p))] = 0
  <1>1. FreeFds(p) \subseteq Nat
    BY FileAssumption DEF FreeFds, Fd
  <1>2. Min(FreeFds(p)) \in FreeFds(p)
    BY <1>1, MinInSet, Zenon
  <1> QED BY <1>2, Zenon DEF FreeFds

\* fdalloc: the reference in hand becomes the descriptor's.
LEMMA FdallocStep ==
    ASSUME Counting, FInv, NEW p \in Proc, open_fd(p), FreeFds(p) # {}
    PROVE  FInv'
  <1> USE DEF At, Goto, procVars, localVars, inodeVars
  <1>0. PICK x \in File : x = f[p]
    BY Place, Zenon DEF open_fd, HasFile, Opening
  <1>1. /\ TypeOK /\ None \notin Inode \union Proc /\ state[p] = "running" /\ pc[p] = "open_fd"
        /\ f[p] = x /\ ip[p] \in Inode /\ ilock[ip[p]] = p /\ 0 \notin File
    BY <1>0, Place, FileAssumption, Zenon DEF open_fd, HasFile, HasInode, Opening, FInv, LockInv
  <1>2. PICK d \in Fd : d = Min(FreeFds(p)) /\ ofile[p][d] = 0
    BY FreeFd, Zenon
  <1>3. /\ ofile' = [ofile EXCEPT ![p][d] = x] /\ ilock' = [ilock EXCEPT ![ip[p]] = None]
        /\ Goto(p, "open_fill")
        /\ UNCHANGED <<fileVars, iref, size, state, cwd, localVars, panicked>>
    BY <1>0, <1>2, Zenon DEF open_fd
  <1>4. TypeOK'
    BY <1>1, <1>2, <1>3, Zenon DEF TypeOK, Pc, fileVars
  <1>5. /\ \A q \in Proc : q # p => Steady(q)
        /\ pc'[p] = "open_fill"
        /\ \A j \in Inode : j # ip[p] => ilock'[j] = ilock[j]
        /\ \A q \in Proc, e \in Fd : <<q, e>> # <<p, d>> => ofile'[q][e] = ofile[q][e]
        /\ ofile'[p][d] = x
        /\ UNCHANGED <<ref, type, fip, off, mode, iref, size, state, cwd, localVars, panicked>>
    BY <1>1, <1>2, <1>3, ZenonT(40) DEF TypeOK, fileVars, Steady
  <1>6. /\ \A q \in Proc : q # p => \A y : (Named(q, y)' <=> Named(q, y)) /\ (Twice(q, y)' <=> Twice(q, y))
        /\ \A y : Named(p, y)' /\ x # y => Named(p, y)
        /\ Named(p, x)'
    BY <1>2, <1>5, NameStep, ZenonT(40)
  <1>7. RefsExact'
    <2>1. \A y \in File :
               ref'[y] + One(f'[p] = y /\ pc'[p] = "dup_ref")
                       + One(ofile[p][d] = y) + One(f[p] = y /\ pc[p] \in Taking)
               = ref[y] + One(f[p] = y /\ pc[p] = "dup_ref")
                        + One(ofile'[p][d] = y) + One(f'[p] = y /\ pc'[p] \in Taking)
      <3> TAKE y \in File
      <3>1. /\ ref[y] \in Nat /\ ref'[y] = ref[y] /\ f'[p] = x /\ f[p] = x /\ ofile'[p][d] = x
            /\ ofile[p][d] # y /\ pc[p] # "dup_ref" /\ pc'[p] # "dup_ref"
            /\ pc[p] \in Taking /\ pc'[p] \notin Taking
        BY <1>1, <1>2, <1>5, Zenon DEF Taking, TypeOK
      <3> QED BY ONLY <3>1 DEF One
    <2>2. RefsExact
      BY Zenon DEF FInv
    <2>3. \A q \in Proc, e \in Fd : <<q, e>> # <<p, d>> => ofile'[q][e] = ofile[q][e]
      BY <1>5, Zenon
    <2> QED BY <1>1, <1>4, <1>5, <2>1, <2>2, <2>3, RefStep, ZenonT(40)
  <1>8. InodeRefsExact'
    BY <1>5, NoInode, Zenon
  <1>9. TransferAtOffset'
    BY <1>5, TransferFrame, Zenon
  <1>10. PlaceInv'
    <2>1. \A q \in Proc : q # p => \A c \in Fd : ofile'[q][c] = ofile[q][c]
      BY <1>5, Zenon
    <2>2. /\ cwd' = cwd /\ (pc'[p] \in HasFile <=> f'[p] # 0) /\ (pc'[p] \in HasInode <=> ip'[p] # None)
          /\ pc'[p] # "exit_cwd" /\ pc'[p] \notin {"exit_file", "exit_put"}
      BY <1>1, <1>5, Zenon DEF HasFile, HasInode, Opening
    <2> QED BY <1>1, <1>5, <2>1, <2>2, PlaceFrame, Zenon
  <1>11. ForkInv'
    <2>1. \A q \in Proc : q # p => \A c \in Fd : ofile'[q][c] = ofile[q][c]
      BY <1>5, Zenon
    <2> QED BY <1>1, <1>5, <2>1, ForkFrame, Zenon
  <1>12. UseInv'
    <2>1. (pc[p] \in {"open_fill", "lock", "move"} => Named(p, f[p]))'
      BY <1>1, <1>5, <1>6, Zenon DEF Named
    <2> QED BY <1>5, <1>6, <2>1, UseFrame, Zenon
  <1>13. OpenInv'
    <2> SUFFICES ASSUME NEW q \in Proc, pc'[q] \in Opening
                 PROVE  /\ type'[f'[q]] = "none"
                        /\ \A r \in Proc : r # q => f'[r] # f'[q] /\ ~Named(r, f[q])'
                        /\ pc'[q] # "open_fill" => ~Named(q, f[q])'
      BY Zenon DEF OpenInv
    <2>1. PICK y : y = f[q]
      BY Zenon
    <2>2. pc[q] \in Opening /\ f' = f /\ type' = type /\ (q # p => pc'[q] = pc[q])
      BY <1>1, <1>5, Zenon DEF Steady, Opening
    <2>3. /\ type[y] = "none" /\ (pc[q] # "open_fill" => ~Named(q, y))
          /\ \A r \in Proc : r # q => f[r] # y /\ ~Named(r, y)
      BY <2>1, <2>2, Zenon DEF FInv, OpenInv
    <2>4. \A r \in Proc : r # q => ~Named(r, y)'
      <3> SUFFICES ASSUME NEW r \in Proc, r # q, Named(r, y)' PROVE FALSE
        BY Zenon
      <3>1. CASE r = p
        BY <1>1, <1>6, <2>1, <2>3, <3>1, Zenon
      <3>2. CASE r # p
        BY <1>6, <2>3, <3>2, Zenon
      <3> QED BY <3>1, <3>2, Zenon
    <2>5. pc'[q] # "open_fill" => ~Named(q, y)'
      BY <1>5, <1>6, <2>2, <2>3, Zenon
    <2> QED BY <2>1, <2>2, <2>3, <2>4, <2>5, Zenon DEF Named
  <1>14. SlotInv'
    <2>1. pc'[p] \in Opening /\ f'[p] = f[p]
      BY <1>5, Zenon DEF Opening
    <2> QED BY <1>5, <2>1, SlotFrame, Zenon
  <1>15. LockInv'
    BY <1>1, <1>5, LockStep, Zenon
  <1> QED BY <1>5, <1>7, <1>8, <1>9, <1>10, <1>11, <1>12, <1>13, <1>14, <1>15, Zenon DEF FInv

\* open fails after filealloc: the slot and the inode go, and no other inode is
\* put, since the slot has no type.
LEMMA OpenUndoStep ==
    ASSUME Counting, FInv, NEW p \in Proc, open_undo(p)
    PROVE  FInv'
  <1> USE DEF At, Goto, procVars, localVars, inodeVars
  <1>0. PICK x \in File : x = f[p]
    BY Place, Zenon DEF open_undo, HasFile, Opening
  <1>1. /\ TypeOK /\ None \notin Inode \union Proc /\ state[p] = "running" /\ pc[p] = "open_undo"
        /\ f[p] = x /\ ip[p] \in Inode /\ ilock[ip[p]] = p /\ 0 \notin File /\ 0 \in Fd
        /\ type[x] = "none" /\ ref[x] = 1
        /\ \A q \in Proc : (q # p => f[q] # x) /\ ~Named(q, x)
    <2>1. /\ TypeOK /\ None \notin Inode \union Proc /\ state[p] = "running" /\ pc[p] = "open_undo"
          /\ ip[p] \in Inode /\ 0 \notin File /\ 0 \in Fd
      BY Place, FileAssumption, Zenon DEF open_undo, HasInode, Opening
    <2>2. ilock[ip[p]] = p
      BY <2>1, Zenon DEF FInv, LockInv
    <2>3. ref[x] = 1
      BY <1>0, <2>1, OpenedOnce, Zenon
    <2>4. type[x] = "none" /\ \A q \in Proc : (q # p => f[q] # x) /\ ~Named(q, x)
      BY <1>0, <2>1, Zenon DEF FInv, OpenInv, Opening
    <2> QED BY <1>0, <2>1, <2>2, <2>3, <2>4, Zenon
  <1>2. iref[ip[p]] \in Nat /\ iref[ip[p]] > 0
    BY <1>1, InodeCounted, Zenon
  <1>3. /\ close_slot(x) /\ UNCHANGED panicked
        /\ iref' = [i \in Inode |-> iref[i] - (IF i = ip[p] THEN 1 ELSE 0)]
        /\ ilock' = [ilock EXCEPT ![ip[p]] = None]
        /\ ip' = [ip EXCEPT ![p] = None] /\ f' = [f EXCEPT ![p] = 0]
        /\ Goto(p, "user")
        /\ UNCHANGED <<fip, off, mode, size, procVars, fd, omode, left, start, child>>
    <2>1. ~(ref[x] < 1) /\ ~LastOfInode(x)
      BY <1>1 DEF LastOfInode
    <2>2. \A i \in Inode : iref[i] \in Nat /\ i # None
      BY <1>1, Zenon DEF TypeOK
    <2>3. iref' = [i \in Inode |-> iref[i] - (IF i = ip[p] THEN 1 ELSE 0) - (IF i = None THEN 1 ELSE 0)]
      BY <1>1, <2>1, Zenon DEF open_undo
    <2>4. iref' = [i \in Inode |-> iref[i] - (IF i = ip[p] THEN 1 ELSE 0)]
      BY ONLY <2>2, <2>3
    <2> QED BY <1>1, <2>1, <2>4, Zenon DEF open_undo
  <1>4. TypeOK'
    <2>1. iref \in [Inode -> Nat] /\ ref \in [File -> Nat] /\ ip[p] \in Inode
      BY <1>1, Zenon DEF TypeOK
    <2>2. iref' = [i \in Inode |-> iref[i] - (IF i = ip[p] THEN 1 ELSE 0)] /\ ref' = [ref EXCEPT ![x] = 0]
      BY <1>3, Zenon DEF close_slot
    <2>3. iref' \in [Inode -> Nat] /\ ref' \in [File -> Nat]
      BY ONLY <1>2, <2>1, <2>2
    <2> QED BY <1>1, <1>3, <2>3, Zenon DEF TypeOK, Pc, close_slot
  <1>5. /\ \A q \in Proc : q # p => Steady(q)
        /\ pc'[p] = "user" /\ f'[p] = 0 /\ ip'[p] = None /\ ref'[x] = 0 /\ type'[x] = "none"
        /\ \A j \in Inode : j # ip[p] => iref'[j] = iref[j] /\ ilock'[j] = ilock[j]
        /\ iref'[ip[p]] = iref[ip[p]] - 1
        /\ \A y \in File : y # x => ref'[y] = ref[y] /\ type'[y] = type[y]
        /\ UNCHANGED <<fip, off, mode, size, procVars, panicked>>
    <2>1. \A j \in Inode : iref[j] \in Nat /\ iref'[j] = iref[j] - (IF j = ip[p] THEN 1 ELSE 0)
      BY <1>1, <1>3, Zenon DEF TypeOK
    <2>2. (\A j \in Inode : j # ip[p] => iref'[j] = iref[j]) /\ (ip[p] \in Inode => iref'[ip[p]] = iref[ip[p]] - 1)
      BY ONLY <2>1
    <2>3. \A q \in Proc : q # p => Steady(q)
      BY <1>1, <1>3, Zenon DEF TypeOK, Steady
    <2>4. /\ pc'[p] = "user" /\ f'[p] = 0 /\ ip'[p] = None /\ ref'[x] = 0 /\ type'[x] = "none"
          /\ \A j \in Inode : j # ip[p] => ilock'[j] = ilock[j]
          /\ \A y \in File : y # x => ref'[y] = ref[y] /\ type'[y] = type[y]
          /\ UNCHANGED <<fip, off, mode, size, procVars, panicked>>
      BY <1>1, <1>3, Zenon DEF TypeOK, close_slot
    <2> QED BY <1>1, <2>2, <2>3, <2>4, Zenon
  <1>6. \A q \in Proc : \A y : (Named(q, y)' <=> Named(q, y)) /\ (Twice(q, y)' <=> Twice(q, y))
    BY <1>5, Zenon DEF Named, Twice
  <1>7. RefsExact'
    <2>1. \A y \in File :
               ref'[y] + One(f'[p] = y /\ pc'[p] = "dup_ref") + One(f[p] = y /\ pc[p] \in Taking)
               = ref[y] + One(f[p] = y /\ pc[p] = "dup_ref") + One(f'[p] = y /\ pc'[p] \in Taking)
      <3> TAKE y \in File
      <3>1. /\ ref[y] \in Nat /\ f[p] = x /\ f'[p] # y /\ pc[p] # "dup_ref" /\ pc[p] \in Taking
            /\ ref[x] = 1 /\ ref'[x] = 0 /\ (y # x => ref'[y] = ref[y])
        BY <1>1, <1>5, Zenon DEF Taking, TypeOK
      <3> QED BY ONLY <3>1 DEF One
    <2> QED BY <1>4, <1>5, <2>1, RefKeep, Zenon
  <1>8. InodeRefsExact'
    <2>1. \A j \in Inode : iref'[j] + One(ip[p] = j) = iref[j] + One(ip'[p] = j)
      <3> TAKE j \in Inode
      <3>1. /\ iref[j] \in Nat /\ ip'[p] # j /\ (j # ip[p] => iref'[j] = iref[j])
            /\ iref'[ip[p]] = iref[ip[p]] - 1
        BY <1>1, <1>5, Zenon DEF TypeOK
      <3> QED BY ONLY <3>1 DEF One
    <2>2. type' = type
      <3>1. type \in [File -> {"none", "inode"}] /\ type' \in [File -> {"none", "inode"}]
        BY <1>1, <1>4, Zenon DEF TypeOK
      <3>2. \A y \in File : type'[y] = type[y]
        BY <1>1, <1>5, Zenon
      <3> QED BY ONLY <3>1, <3>2
    <2> QED BY <1>4, <1>5, <2>1, <2>2, InHandStep, Zenon
  <1>9. TransferAtOffset'
    BY <1>5, TransferFrame, Zenon
  <1>10. PlaceInv'
    BY <1>1, <1>5, PlaceKeep, Zenon DEF HasFile, HasInode, Opening
  <1>11. ForkInv'
    BY <1>1, <1>5, ForkFrame, Zenon
  <1>12. UseInv'
    BY <1>5, <1>6, UseFrame, Zenon
  <1>13. OpenInv'
    <2>1. \A y \in File : type[y] = "none" => type'[y] = "none"
      BY <1>5, Zenon
    <2>2. pc'[p] \notin Opening
      BY <1>5, Zenon DEF Opening
    <2> QED BY <1>5, <1>6, <2>1, <2>2, OpenFrame, Zenon
  <1>14. SlotInv'
    <2>1. ~(ref'[x] > 0)
      BY <1>5
    <2>2. \A y \in File : type'[y] = "inode" => type[y] = "inode" /\ (ref[y] > 0 => ref'[y] > 0)
      BY <1>5, Zenon
    <2>3. \A y \in File : ref'[y] > 0 /\ type'[y] = "none" => ref[y] > 0 /\ type[y] = "none"
      BY <1>5, <2>1, Zenon
    <2>4. \A y \in File : f[p] = y => ~(ref'[y] > 0)
      BY <1>1, <2>1, Zenon
    <2> QED BY <1>5, <2>2, <2>3, <2>4, SlotFrame, Zenon
  <1>15. LockInv'
    BY <1>1, <1>5, LockStep, Zenon
  <1> QED BY <1>5, <1>7, <1>8, <1>9, <1>10, <1>11, <1>12, <1>13, <1>14, <1>15, Zenon DEF FInv

\* The fields of the file: the inode in hand becomes the file's.
LEMMA OpenFillStep ==
    ASSUME Counting, FInv, NEW p \in Proc, open_fill(p)
    PROVE  FInv'
  <1> USE DEF At, Goto, procVars, localVars, inodeVars
  <1>0. PICK x \in File : x = f[p]
    BY Place, Zenon DEF open_fill, HasFile, Opening
  <1>1. /\ TypeOK /\ None \notin Inode \union Proc /\ state[p] = "running" /\ pc[p] = "open_fill"
        /\ f[p] = x /\ ip[p] \in Inode /\ 0 \notin File /\ 0 \in Fd /\ type[x] = "none" /\ ref[x] > 0
        /\ \A q \in Proc : q # p => f[q] # x /\ ~Named(q, x)
    BY <1>0, Place, Counted, FileAssumption, Zenon DEF open_fill, HasFile, HasInode, Opening, FInv, OpenInv
  <1>2. TypeOK'
    BY <1>1, Zenon DEF open_fill, TypeOK, Pc, Mode
  <1>3. /\ \A q \in Proc : q # p => Steady(q)
        /\ pc'[p] = "user" /\ f'[p] = 0 /\ ip'[p] = None
        /\ type'[x] = "inode" /\ fip'[x] = ip[p] /\ off'[x] = 0
        /\ \A y \in File : y # x => type'[y] = type[y] /\ fip'[y] = fip[y] /\ off'[y] = off[y]
        /\ UNCHANGED <<ref, inodeVars, procVars, panicked>>
    BY <1>1, Zenon DEF open_fill, TypeOK, Steady
  <1>4. \A q \in Proc : \A y : (Named(q, y)' <=> Named(q, y)) /\ (Twice(q, y)' <=> Twice(q, y))
    BY <1>3, Zenon DEF Named, Twice
  <1>5. RefsExact'
    <2>1. \A y \in File :
               ref'[y] + One(f'[p] = y /\ pc'[p] = "dup_ref") + One(f[p] = y /\ pc[p] \in Taking)
               = ref[y] + One(f[p] = y /\ pc[p] = "dup_ref") + One(f'[p] = y /\ pc'[p] \in Taking)
      BY <1>1, <1>3, Zenon DEF One, Taking, TypeOK
    <2> QED BY <1>2, <1>3, <2>1, RefKeep, Zenon
  <1>6. InodeRefsExact'
    <2>1. \A j \in Inode :
              iref'[j] + One(IsOf(x, j)) + One(cwd[p] = j) + One(ip[p] = j)
              = iref[j] + One(IsOf(x, j)') + One(cwd'[p] = j) + One(ip'[p] = j)
      <3> TAKE j \in Inode
      <3>1. iref[j] \in Nat /\ iref'[j] = iref[j] /\ ~IsOf(x, j) /\ ip'[p] # j /\ cwd'[p] = cwd[p]
        BY <1>1, <1>3, Zenon DEF TypeOK, IsOf
      <3>2. (type'[x] = "inode" /\ fip'[x] = j) <=> ip[p] = j
        BY <1>3, Zenon
      <3> QED BY <3>1, <3>2 DEF One, IsOf
    <2>2. InodeRefsExact
      BY Zenon DEF FInv
    <2>3. /\ \A q \in Proc : q # p => cwd'[q] = cwd[q]
          /\ \A y \in File : y # x => type'[y] = type[y] /\ fip'[y] = fip[y]
          /\ \A q \in Proc : q # p => Steady(q)
      BY <1>3, Zenon
    <2>4. TypeOK
      BY <1>1, Zenon
    <2> QED BY <1>2, <2>1, <2>2, <2>3, <2>4, InodeStep, ZenonT(40)
  <1>7. TransferAtOffset'
    <2> SUFFICES ASSUME NEW q \in Proc, pc'[q] = "move"
                 PROVE  start'[q] = off'[f'[q]] /\ start'[q] <= size'[fip'[f'[q]]]
      BY Zenon DEF TransferAtOffset
    <2>1. q # p /\ pc[q] = "move" /\ f[q] # x /\ f'[q] = f[q] /\ start'[q] = start[q]
      BY <1>1, <1>3, Zenon DEF Steady
    <2>2. f[q] \in File /\ start[q] = off[f[q]] /\ start[q] <= size[fip[f[q]]]
      BY <2>1, Using, Zenon DEF FInv, TransferAtOffset
    <2> QED BY <1>3, <2>1, <2>2, Zenon
  <1>8. PlaceInv'
    BY <1>1, <1>3, PlaceKeep, Zenon DEF HasFile, HasInode, Opening
  <1>9. ForkInv'
    BY <1>1, <1>3, ForkFrame, Zenon
  <1>10. UseInv'
    BY <1>3, <1>4, UseFrame, Zenon
  <1>11. OpenInv'
    <2>1. \A y \in File : type[y] = "none" /\ y # f[p] => type'[y] = "none"
      BY <1>1, <1>3, Zenon
    <2>2. pc'[p] \notin Opening
      BY <1>3, Zenon DEF Opening
    <2> QED BY <1>3, <1>4, <2>1, <2>2, OpenFrame, Zenon
  <1>12. SlotInv'
    <2> SUFFICES ASSUME NEW y \in File
                 PROVE  /\ type'[y] = "inode" => ref'[y] > 0 /\ fip'[y] \in Inode /\ off'[y] <= size'[fip'[y]]
                        /\ ref'[y] > 0 /\ type'[y] = "none" => \E q \in Proc : pc'[q] \in Opening /\ f'[q] = y
      BY Zenon DEF SlotInv
    <2>1. CASE y = x
      <3>1. size[ip[p]] \in Nat /\ off'[x] = 0 /\ fip'[x] = ip[p] /\ size' = size
        BY <1>1, <1>3, Zenon DEF TypeOK
      <3>2. off'[x] <= size[ip[p]]
        BY ONLY <3>1
      <3> QED BY <1>1, <1>3, <2>1, <3>1, <3>2, Zenon
    <2>2. CASE y # x
      <3>1. type'[y] = type[y] /\ fip'[y] = fip[y] /\ off'[y] = off[y] /\ ref' = ref /\ size' = size
        BY <1>3, <2>2, Zenon
      <3>2. type[y] = "inode" => ref[y] > 0 /\ fip[y] \in Inode /\ off[y] <= size[fip[y]]
        BY Zenon DEF FInv, SlotInv
      <3>3. ASSUME ref[y] > 0, type[y] = "none" PROVE \E q \in Proc : pc'[q] \in Opening /\ f'[q] = y
        <4>1. PICK q \in Proc : pc[q] \in Opening /\ f[q] = y
          BY <3>3, Zenon DEF FInv, SlotInv
        <4>2. pc'[q] = pc[q] /\ f'[q] = f[q]
          BY <1>1, <1>3, <2>2, <4>1, Zenon DEF Steady
        <4> QED BY <4>1, <4>2, Zenon
      <3> QED BY <3>1, <3>2, <3>3, Zenon
    <2> QED BY <2>1, <2>2, Zenon
  <1>13. LockInv'
    <2>1. ASSUME NEW q \in Proc, pc'[q] = "move" PROVE ilock'[fip'[f'[q]]] = q
      <3>1. q # p /\ pc[q] = "move" /\ f[q] # x /\ f'[q] = f[q] /\ f[q] \in File
        BY <1>1, <1>3, <2>1, Using, Zenon DEF Steady
      <3>2. fip'[f[q]] = fip[f[q]] /\ ilock' = ilock
        BY <1>3, <3>1, Zenon
      <3> QED BY <3>1, <3>2, Zenon DEF FInv, LockInv
    <2>2. ASSUME NEW q \in Proc, pc'[q] \in {"open_file", "open_fd", "open_undo"} PROVE ilock'[ip'[q]] = q
      <3>1. q # p
        BY <1>3, <2>2, Zenon
      <3>2. pc'[q] = pc[q] /\ ip'[q] = ip[q] /\ ilock' = ilock
        BY <1>3, <3>1, Zenon DEF Steady
      <3> QED BY <2>2, <3>2, Zenon DEF FInv, LockInv
    <2> QED BY <2>1, <2>2, Zenon DEF LockInv
  <1> QED BY <1>3, <1>5, <1>6, <1>7, <1>8, <1>9, <1>10, <1>11, <1>12, <1>13, Zenon DEF FInv

-----------------------------------------------------------------------------
(* dup and close *)

\* dup: the process has the file twice before it is counted twice.
LEMMA DupStep ==
    ASSUME Counting, FInv, NEW p \in Proc, NEW e \in Fd, dup(p, e)
    PROVE  FInv'
  <1> USE DEF At, Goto, procVars, localVars, inodeVars
  <1>1. /\ TypeOK /\ state[p] = "running" /\ pc[p] = "user"
        /\ f[p] = 0 /\ 0 \notin File /\ ofile[p][e] # 0 /\ FreeFds(p) # {}
    BY Place, Zenon DEF dup, HasFile, Opening
  <1>2. PICK x \in File : x = ofile[p][e]
    BY <1>1, Descriptor, Zenon
  <1>3. PICK d \in Fd : d = Min(FreeFds(p)) /\ ofile[p][d] = 0
    BY <1>1, FreeFd, Zenon
  <1>4. /\ ofile' = [ofile EXCEPT ![p][d] = x] /\ f' = [f EXCEPT ![p] = x] /\ Goto(p, "dup_ref")
        /\ UNCHANGED <<fileVars, inodeVars, state, cwd, fd, ip, omode, left, start, child, panicked>>
    BY <1>2, <1>3, Zenon DEF dup
  <1>5. TypeOK'
    BY <1>1, <1>4, Zenon DEF TypeOK, Pc, fileVars
  <1>6. /\ \A q \in Proc : q # p => Steady(q)
        /\ pc'[p] = "dup_ref" /\ f'[p] = x
        /\ \A q \in Proc, c \in Fd : <<q, c>> # <<p, d>> => ofile'[q][c] = ofile[q][c]
        /\ ofile'[p][d] = x
        /\ UNCHANGED <<ref, type, fip, off, mode, inodeVars, state, cwd, ip, panicked>>
    BY <1>1, <1>4, ZenonT(40) DEF TypeOK, fileVars, Steady
  <1>7. Named(p, x) /\ d # e /\ ofile'[p][e] = x
    BY <1>1, <1>2, <1>3, <1>6, Zenon DEF Named
  <1>8. /\ \A q \in Proc : q # p => \A y : (Named(q, y)' <=> Named(q, y)) /\ (Twice(q, y)' <=> Twice(q, y))
        /\ \A y : Named(p, y)' => Named(p, y)
        /\ Twice(p, x)'
    <2>1. \A q \in Proc : q # p => \A y : (Named(q, y)' <=> Named(q, y)) /\ (Twice(q, y)' <=> Twice(q, y))
      BY <1>6, NameStep, Zenon
    <2>2. \A y : Named(p, y)' => Named(p, y)
      BY <1>6, <1>7, NameStep, Zenon
    <2>3. Twice(p, x)'
      BY <1>6, <1>7, Zenon DEF Twice
    <2> QED BY <2>1, <2>2, <2>3, Zenon
  <1>9. RefsExact'
    <2>1. \A y \in File :
               ref'[y] + One(f'[p] = y /\ pc'[p] = "dup_ref")
                       + One(ofile[p][d] = y) + One(f[p] = y /\ pc[p] \in Taking)
               = ref[y] + One(f[p] = y /\ pc[p] = "dup_ref")
                        + One(ofile'[p][d] = y) + One(f'[p] = y /\ pc'[p] \in Taking)
      <3> TAKE y \in File
      <3>1. /\ ref[y] \in Nat /\ ref'[y] = ref[y] /\ f'[p] = x /\ f[p] # y /\ ofile'[p][d] = x
            /\ ofile[p][d] # y /\ pc'[p] = "dup_ref" /\ pc'[p] \notin Taking
        BY <1>1, <1>3, <1>6, Zenon DEF Taking, TypeOK
      <3> QED BY ONLY <3>1 DEF One
    <2>2. RefsExact
      BY Zenon DEF FInv
    <2>3. /\ \A q \in Proc : q # p => Steady(q)
          /\ \A q \in Proc, c \in Fd : <<q, c>> # <<p, d>> => ofile'[q][c] = ofile[q][c]
      BY <1>6, Zenon
    <2>4. TypeOK
      BY <1>1, Zenon
    <2> QED BY <1>5, <2>1, <2>2, <2>3, <2>4, RefStep, ZenonT(40)
  <1>10. InodeRefsExact'
    BY <1>6, NoInode, Zenon
  <1>11. TransferAtOffset'
    BY <1>6, TransferFrame, Zenon
  <1>12. PlaceInv'
    <2>1. \A q \in Proc : q # p => \A c \in Fd : ofile'[q][c] = ofile[q][c]
      BY <1>6, Zenon
    <2>2. /\ cwd' = cwd /\ (pc'[p] \in HasFile <=> f'[p] # 0) /\ (pc'[p] \in HasInode <=> ip'[p] # None)
          /\ pc'[p] # "exit_cwd" /\ pc'[p] \notin {"exit_file", "exit_put"}
      <3>1. ip[p] = None
        BY <1>1, Place, Zenon DEF HasInode, Opening
      <3> QED BY <1>1, <1>6, <3>1, Zenon DEF HasFile, HasInode, Opening
    <2> QED BY <1>1, <1>6, <2>1, <2>2, PlaceFrame, Zenon
  <1>13. ForkInv'
    <2>1. \A q \in Proc : q # p => \A c \in Fd : ofile'[q][c] = ofile[q][c]
      BY <1>6, Zenon
    <2> QED BY <1>1, <1>6, <2>1, ForkFrame, Zenon
  <1>14. UseInv'
    <2>1. (pc[p] = "dup_ref" => Twice(p, f[p]))'
      <3>1. Twice(p, x)' /\ f'[p] = x
        BY <1>6, <1>8, Zenon
      <3> QED BY <3>1, Zenon DEF Twice
    <2> QED BY <1>6, <1>8, <2>1, UseFrame, Zenon
  <1>15. OpenInv'
    <2>1. pc'[p] \notin Opening /\ Named(p, f'[p]) /\ \A q \in Proc, y \in File : Named(q, y)' => Named(q, y)
      BY <1>6, <1>7, <1>8, Zenon DEF Opening
    <2> QED BY <1>6, <2>1, OpenFrame, Zenon
  <1>16. SlotInv'
    <2>1. pc[p] \notin Opening
      BY <1>1, Zenon DEF Opening
    <2> QED BY <1>6, <2>1, SlotFrame, Zenon
  <1>17. LockInv'
    BY <1>1, <1>6, LockKeep, Zenon
  <1> QED BY <1>6, <1>9, <1>10, <1>11, <1>12, <1>13, <1>14, <1>15, <1>16, <1>17, ZenonT(40) DEF FInv

\* filedup at the end of dup.
LEMMA DupRefStep ==
    ASSUME Counting, FInv, NEW p \in Proc, dup_ref(p)
    PROVE  FInv'
  <1> USE DEF At, Goto, procVars, localVars, inodeVars
  <1>1. /\ TypeOK /\ state[p] = "running" /\ pc[p] = "dup_ref" /\ 0 \notin File /\ 0 \in Fd
    BY Place, Zenon DEF dup_ref
  <1>2. PICK x \in File : x = f[p]
    BY <1>1, Place, Zenon DEF HasFile
  <1>3. ref[x] > 0 /\ ref[x] \in Nat
    BY <1>1, <1>2, Counted, Zenon DEF TypeOK
  <1>4. /\ ref' = [ref EXCEPT ![x] = @ + 1] /\ f' = [f EXCEPT ![p] = 0] /\ Goto(p, "user")
        /\ UNCHANGED <<type, fip, off, mode, inodeVars, procVars, fd, ip, omode, left, start, child, panicked>>
    <2>1. ~(ref[x] < 1)
      BY ONLY <1>3
    <2> QED BY <1>2, <2>1, Zenon DEF dup_ref, filedup
  <1>5. TypeOK'
    <2>1. ref \in [File -> Nat] /\ ref' = [ref EXCEPT ![x] = @ + 1]
      BY <1>1, <1>4, Zenon DEF TypeOK
    <2>2. ref' \in [File -> Nat]
      BY ONLY <2>1
    <2> QED BY <1>1, <1>4, <2>2, Zenon DEF TypeOK, Pc
  <1>6. /\ \A q \in Proc : q # p => Steady(q)
        /\ pc'[p] = "user" /\ f'[p] = 0 /\ ref'[x] = ref[x] + 1
        /\ \A y \in File : y # x => ref'[y] = ref[y]
        /\ UNCHANGED <<type, fip, off, mode, inodeVars, procVars, ip, panicked>>
    BY <1>1, <1>4, Zenon DEF TypeOK, Steady
  <1>7. \A q \in Proc : \A y : (Named(q, y)' <=> Named(q, y)) /\ (Twice(q, y)' <=> Twice(q, y))
    BY <1>6, Zenon DEF Named, Twice
  <1>8. RefsExact'
    <2>1. \A y \in File :
               ref'[y] + One(f'[p] = y /\ pc'[p] = "dup_ref") + One(f[p] = y /\ pc[p] \in Taking)
               = ref[y] + One(f[p] = y /\ pc[p] = "dup_ref") + One(f'[p] = y /\ pc'[p] \in Taking)
      <3> TAKE y \in File
      <3>1. /\ ref[y] \in Nat /\ f[p] = x /\ f'[p] # y /\ pc[p] = "dup_ref" /\ pc[p] \notin Taking
            /\ ref'[x] = ref[x] + 1 /\ (y # x => ref'[y] = ref[y])
        BY <1>1, <1>2, <1>6, Zenon DEF Taking, TypeOK
      <3> QED BY ONLY <3>1 DEF One
    <2> QED BY <1>5, <1>6, <2>1, RefKeep, Zenon
  <1>9. InodeRefsExact'
    BY <1>6, NoInode, Zenon
  <1>10. TransferAtOffset'
    BY <1>6, TransferFrame, Zenon
  <1>11. PlaceInv'
    <2>1. ip[p] = None
      BY <1>1, Place, Zenon DEF HasInode, Opening
    <2> QED BY <1>1, <1>6, <2>1, PlaceKeep, Zenon DEF HasFile, HasInode, Opening
  <1>12. ForkInv'
    BY <1>1, <1>6, ForkFrame, Zenon
  <1>13. UseInv'
    BY <1>6, <1>7, UseFrame, Zenon
  <1>14. OpenInv'
    <2>1. pc'[p] \notin Opening
      BY <1>6, Zenon DEF Opening
    <2> QED BY <1>6, <1>7, <2>1, OpenFrame, Zenon
  <1>15. SlotInv'
    <2>1. ref'[x] > 0
      BY ONLY <1>3, <1>6
    <2>2. \A y \in File : (ref[y] > 0 => ref'[y] > 0) /\ (ref'[y] > 0 => ref[y] > 0)
      BY <1>3, <1>6, <2>1, Zenon
    <2>3. pc[p] \notin Opening
      BY <1>1, Zenon DEF Opening
    <2> QED BY <1>6, <2>2, <2>3, SlotFrame, Zenon
  <1>16. LockInv'
    BY <1>1, <1>6, LockKeep, Zenon
  <1> QED BY <1>6, <1>8, <1>9, <1>10, <1>11, <1>12, <1>13, <1>14, <1>15, <1>16, Zenon DEF FInv

\* close: the reference of the descriptor is in the hand of the process.
LEMMA CloseStep ==
    ASSUME Counting, FInv, NEW p \in Proc, NEW d \in Fd, close(p, d)
    PROVE  FInv'
  <1> USE DEF At, Goto, procVars, localVars, inodeVars
  <1>1. /\ TypeOK /\ state[p] = "running" /\ pc[p] = "user"
        /\ f[p] = 0 /\ 0 \notin File /\ ofile[p][d] # 0
    BY Place, Zenon DEF close, HasFile, Opening
  <1>2. PICK x \in File : x = ofile[p][d]
    BY <1>1, Descriptor, Zenon
  <1>3. Named(p, x)
    BY <1>2, Zenon DEF Named
  <1>4. TypeOK'
    BY <1>1, <1>2, Zenon DEF close, TypeOK, Pc, fileVars
  <1>5. /\ \A q \in Proc : q # p => Steady(q)
        /\ pc'[p] = "close_file" /\ f'[p] = x
        /\ \A q \in Proc, c \in Fd : <<q, c>> # <<p, d>> => ofile'[q][c] = ofile[q][c]
        /\ ofile'[p][d] = 0
        /\ UNCHANGED <<ref, type, fip, off, mode, inodeVars, state, cwd, ip, panicked>>
    BY <1>1, <1>2, Zenon DEF close, TypeOK, fileVars, Steady
  <1>6. /\ \A q \in Proc : q # p => \A y : (Named(q, y)' <=> Named(q, y)) /\ (Twice(q, y)' <=> Twice(q, y))
        /\ \A y : Named(p, y)' /\ y # 0 => Named(p, y)
    BY <1>5, NameStep, Zenon
  <1>7. RefsExact'
    <2>1. \A y \in File :
               ref'[y] + One(f'[p] = y /\ pc'[p] = "dup_ref")
                       + One(ofile[p][d] = y) + One(f[p] = y /\ pc[p] \in Taking)
               = ref[y] + One(f[p] = y /\ pc[p] = "dup_ref")
                        + One(ofile'[p][d] = y) + One(f'[p] = y /\ pc'[p] \in Taking)
      <3> TAKE y \in File
      <3>1. /\ ref[y] \in Nat /\ ref'[y] = ref[y] /\ f'[p] = x /\ f[p] # y /\ ofile[p][d] = x
            /\ ofile'[p][d] # y /\ pc'[p] # "dup_ref" /\ pc'[p] \in Taking
        BY <1>1, <1>2, <1>5, Zenon DEF Taking, TypeOK
      <3> QED BY ONLY <3>1 DEF One
    <2>2. RefsExact
      BY Zenon DEF FInv
    <2>3. /\ \A q \in Proc : q # p => Steady(q)
          /\ \A q \in Proc, c \in Fd : <<q, c>> # <<p, d>> => ofile'[q][c] = ofile[q][c]
      BY <1>5, Zenon
    <2>4. TypeOK
      BY <1>1, Zenon
    <2> QED BY <1>4, <2>1, <2>2, <2>3, <2>4, RefStep, Zenon
  <1>8. InodeRefsExact'
    BY <1>5, NoInode, Zenon
  <1>9. TransferAtOffset'
    BY <1>5, TransferFrame, Zenon
  <1>10. PlaceInv'
    <2>1. \A q \in Proc : q # p => \A c \in Fd : ofile'[q][c] = ofile[q][c]
      BY <1>5, Zenon
    <2>2. /\ cwd' = cwd /\ (pc'[p] \in HasFile <=> f'[p] # 0) /\ (pc'[p] \in HasInode <=> ip'[p] # None)
          /\ pc'[p] # "exit_cwd" /\ pc'[p] \notin {"exit_file", "exit_put"}
      <3>1. ip[p] = None
        BY <1>1, Place, Zenon DEF HasInode, Opening
      <3> QED BY <1>1, <1>5, <3>1, Zenon DEF HasFile, HasInode, Opening
    <2> QED BY <1>1, <1>5, <2>1, <2>2, PlaceFrame, Zenon
  <1>11. ForkInv'
    <2>1. \A q \in Proc : q # p => \A c \in Fd : ofile'[q][c] = ofile[q][c]
      BY <1>5, Zenon
    <2> QED BY <1>1, <1>5, <2>1, ForkFrame, Zenon
  <1>12. UseInv'
    BY <1>5, <1>6, UseFrame, Zenon
  <1>13. OpenInv'
    <2>1. pc'[p] \notin Opening /\ Named(p, f'[p])
      BY <1>3, <1>5, Zenon DEF Opening
    <2>2. \A q \in Proc, y \in File : Named(q, y)' => Named(q, y)
      BY <1>1, <1>6, Zenon
    <2> QED BY <1>5, <2>1, <2>2, OpenFrame, Zenon
  <1>14. SlotInv'
    <2>1. pc[p] \notin Opening
      BY <1>1, Zenon DEF Opening
    <2> QED BY <1>5, <2>1, SlotFrame, Zenon
  <1>15. LockInv'
    BY <1>1, <1>5, LockKeep, Zenon
  <1> QED BY <1>5, <1>7, <1>8, <1>9, <1>10, <1>11, <1>12, <1>13, <1>14, <1>15, Zenon DEF FInv

\* What fileclose(x) leaves: p is at a if it dropped the last reference, with
\* the inode in hand, and else at b.
Closed(p, x, a, b) ==
    /\ ref' \in [File -> Nat] /\ type' \in [File -> {"none", "inode"}]
    /\ ip' \in [Proc -> Inode \union {None}] /\ pc' \in [Proc -> Pc] /\ panicked' = panicked
    /\ ref'[x] = ref[x] - 1 /\ type'[x] = (IF ref[x] = 1 THEN "none" ELSE "inode")
    /\ \A y \in File : y # x => ref'[y] = ref[y] /\ type'[y] = type[y]
    /\ pc'[p] = (IF ref[x] = 1 THEN a ELSE b) /\ ip'[p] = (IF ref[x] = 1 THEN fip[x] ELSE ip[p])
    /\ \A q \in Proc : q # p => pc'[q] = pc[q] /\ ip'[q] = ip[q]

\* fileclose of a complete file: one reference less, and with the last one the
\* inode goes into the hand of the process.
LEMMA FilecloseEffect ==
    ASSUME TypeOK, NEW p \in Proc, NEW x \in File, NEW a \in Pc, NEW b \in Pc,
           ref[x] > 0, type[x] = "inode", fip[x] \in Inode, fileclose(p, x, a, b)
    PROVE  Closed(p, x, a, b)
  <1> USE DEF Closed
  <1>1. ref[x] \in Nat /\ ~(ref[x] < 1) /\ (ref[x] > 1 <=> ref[x] # 1)
    <2>1. ref[x] \in Nat
      BY Zenon DEF TypeOK
    <2> QED BY <2>1
  <1>t. /\ ref \in [File -> Nat] /\ type \in [File -> {"none", "inode"}]
        /\ ip \in [Proc -> Inode \union {None}] /\ pc \in [Proc -> Pc]
    BY Zenon DEF TypeOK
  <1>2. CASE ref[x] = 1
    <2>1. /\ ref' = [ref EXCEPT ![x] = 0] /\ type' = [type EXCEPT ![x] = "none"]
          /\ ip' = [ip EXCEPT ![p] = fip[x]] /\ pc' = [pc EXCEPT ![p] = a] /\ panicked' = panicked
      BY <1>1, <1>2, Zenon DEF fileclose, Shared, LastOfInode, close_slot, Goto
    <2>2. ref' \in [File -> Nat] /\ ref'[x] = ref[x] - 1
      BY ONLY <1>2, <1>t, <2>1
    <2> QED BY <1>2, <1>t, <2>1, <2>2, Zenon
  <1>3. CASE ref[x] # 1
    <2>1. /\ ref' = [ref EXCEPT ![x] = @ - 1] /\ type' = type
          /\ ip' = ip /\ pc' = [pc EXCEPT ![p] = b] /\ panicked' = panicked
      BY <1>1, <1>3, Zenon DEF fileclose, Shared, LastOfInode, close_slot, Goto
    <2>2. ref' \in [File -> Nat] /\ ref'[x] = ref[x] - 1
      BY ONLY <1>1, <1>3, <1>t, <2>1
    <2> QED BY <1>3, <1>t, <2>1, <2>2, Zenon
  <1> QED BY <1>2, <1>3, Zenon

\* fileclose at the end of close.
LEMMA CloseFileStep ==
    ASSUME Counting, FInv, NEW p \in Proc, close_file(p)
    PROVE  FInv'
  <1> USE DEF At, Goto, procVars, localVars, inodeVars
  <1>1. /\ TypeOK /\ state[p] = "running" /\ pc[p] = "close_file" /\ 0 \notin File /\ 0 \in Fd
        /\ ip[p] = None /\ None \notin Inode
    BY Place, Zenon DEF close_file, HasInode, Opening
  <1>2. PICK x \in File : x = f[p]
    BY <1>1, Place, Zenon DEF HasFile
  <1>3. ref[x] > 0 /\ ref[x] \in Nat /\ type[x] = "inode" /\ fip[x] \in Inode
    <2>1. ref[x] > 0 /\ ref[x] \in Nat /\ type[x] \in {"none", "inode"}
      BY <1>1, <1>2, Counted, Zenon DEF TypeOK
    <2>2. type[x] # "none"
      <3> SUFFICES ASSUME type[x] = "none" PROVE FALSE
        BY Zenon
      <3>1. PICK q \in Proc : pc[q] \in Opening /\ f[q] = x
        BY <2>1, Zenon DEF FInv, SlotInv
      <3>2. q # p
        BY <1>1, <3>1, Zenon DEF Opening
      <3> QED BY <1>2, <3>1, <3>2, Zenon DEF FInv, OpenInv
    <2> QED BY <2>1, <2>2, Zenon DEF FInv, SlotInv
  <1>4. /\ fileclose(p, x, "put", "user") /\ f' = [f EXCEPT ![p] = 0]
        /\ UNCHANGED <<fip, off, mode, inodeVars, procVars, fd, omode, left, start, child>>
    BY <1>2, Zenon DEF close_file
  <1>5. "put" \in Pc /\ "user" \in Pc
    BY Zenon DEF Pc
  <1>6. /\ ref' \in [File -> Nat] /\ type' \in [File -> {"none", "inode"}]
        /\ ip' \in [Proc -> Inode \union {None}] /\ pc' \in [Proc -> Pc] /\ panicked' = panicked
        /\ ref'[x] = ref[x] - 1 /\ type'[x] = (IF ref[x] = 1 THEN "none" ELSE "inode")
        /\ \A y \in File : y # x => ref'[y] = ref[y] /\ type'[y] = type[y]
        /\ pc'[p] = (IF ref[x] = 1 THEN "put" ELSE "user") /\ ip'[p] = (IF ref[x] = 1 THEN fip[x] ELSE ip[p])
        /\ \A q \in Proc : q # p => pc'[q] = pc[q] /\ ip'[q] = ip[q]
    <2>1. TypeOK
      BY <1>1, Zenon
    <2>2. Closed(p, x, "put", "user")
      BY <1>3, <1>4, <1>5, <2>1, FilecloseEffect, Zenon
    <2> QED BY <2>2, Zenon DEF Closed
  <1>7. TypeOK'
    BY <1>1, <1>4, <1>6, Zenon DEF TypeOK
  <1>8. /\ \A q \in Proc : q # p => Steady(q)
        /\ f'[p] = 0 /\ UNCHANGED <<fip, off, mode, inodeVars, procVars>>
    BY <1>1, <1>4, <1>6, Zenon DEF TypeOK, Steady
  <1>9. \A q \in Proc : \A y : (Named(q, y)' <=> Named(q, y)) /\ (Twice(q, y)' <=> Twice(q, y))
    BY <1>8, Zenon DEF Named, Twice
  <1>10. RefsExact'
    <2>1. \A y \in File :
               ref'[y] + One(f'[p] = y /\ pc'[p] = "dup_ref") + One(f[p] = y /\ pc[p] \in Taking)
               = ref[y] + One(f[p] = y /\ pc[p] = "dup_ref") + One(f'[p] = y /\ pc'[p] \in Taking)
      <3> TAKE y \in File
      <3>1. /\ ref[y] \in Nat /\ f'[p] # y /\ f[p] = x /\ pc[p] # "dup_ref" /\ pc[p] \in Taking
            /\ ref'[x] = ref[x] - 1 /\ (y # x => ref'[y] = ref[y])
        BY <1>1, <1>2, <1>6, <1>8, Zenon DEF TypeOK, Taking
      <3> QED BY ONLY <3>1 DEF One
    <2> QED BY <1>7, <1>8, <2>1, RefKeep, Zenon
  <1>11. InodeRefsExact'
    <2>1. \A j \in Inode :
              iref'[j] + One(IsOf(x, j)) + One(cwd[p] = j) + One(ip[p] = j)
              = iref[j] + One(IsOf(x, j)') + One(cwd'[p] = j) + One(ip'[p] = j)
      <3> TAKE j \in Inode
      <3>1. iref[j] \in Nat /\ iref'[j] = iref[j] /\ ip[p] # j /\ cwd'[p] = cwd[p] /\ None # j
        BY <1>1, <1>3, <1>6, <1>8, Zenon DEF TypeOK
      <3>2. (type'[x] = "inode" /\ fip'[x] = j) <=> (ref[x] # 1 /\ fip[x] = j)
        BY <1>1, <1>3, <1>6, <1>8, Zenon
      <3>3. ip'[p] = j <=> (ref[x] = 1 /\ fip[x] = j)
        BY <1>1, <1>3, <1>6, <1>8, <3>1, Zenon
      <3>4. IsOf(x, j) <=> fip[x] = j
        BY <1>1, <1>3, <1>6, <1>8, Zenon DEF IsOf
      <3> QED BY ONLY <3>1, <3>2, <3>3, <3>4 DEF One, IsOf
    <2>2. InodeRefsExact
      BY Zenon DEF FInv
    <2>3. /\ \A q \in Proc : q # p => cwd'[q] = cwd[q]
          /\ \A y \in File : y # x => type'[y] = type[y] /\ fip'[y] = fip[y]
          /\ \A q \in Proc : q # p => Steady(q)
      BY <1>6, <1>8, Zenon
    <2>4. TypeOK
      BY <1>1, Zenon
    <2> QED BY <1>7, <2>1, <2>2, <2>3, <2>4, InodeStep, Zenon
  <1>12. TransferAtOffset'
    <2>1. pc'[p] # "move"
      BY <1>6, Zenon
    <2> QED BY <1>8, <2>1, TransferFrame, Zenon
  <1>13. PlaceInv'
    BY <1>1, <1>3, <1>6, <1>8, PlaceKeep, Zenon DEF HasFile, HasInode, Opening
  <1>14. ForkInv'
    BY <1>1, <1>6, <1>8, ForkFrame, Zenon
  <1>15. UseInv'
    BY <1>6, <1>8, <1>9, UseFrame, Zenon
  <1>16. OpenInv'
    <2>1. pc'[p] \notin Opening
      BY <1>6, Zenon DEF Opening
    <2>2. \A y \in File : type[y] = "none" => type'[y] = "none"
      BY <1>3, <1>6, Zenon
    <2> QED BY <1>8, <1>9, <2>1, <2>2, OpenFrame, Zenon
  <1>17. SlotInv'
    <2>1. (ref[x] # 1 => ref'[x] > 0) /\ (ref[x] = 1 => ~(ref'[x] > 0))
      <3>1. ref'[x] = ref[x] - 1
        BY <1>6, Zenon
      <3> QED BY ONLY <1>3, <3>1
    <2>2. \A y \in File : type'[y] = "inode" => type[y] = "inode" /\ (ref[y] > 0 => ref'[y] > 0)
      BY <1>3, <1>6, <2>1, Zenon
    <2>3. \A y \in File : ref'[y] > 0 /\ type'[y] = "none" => ref[y] > 0 /\ type[y] = "none"
      BY <1>6, <2>1, Zenon
    <2>4. pc[p] \notin Opening
      BY <1>1, Zenon DEF Opening
    <2> QED BY <1>8, <2>2, <2>3, <2>4, SlotFrame, ZenonT(40)
  <1>18. LockInv'
    BY <1>1, <1>6, <1>8, LockKeep, Zenon
  <1> QED BY <1>6, <1>10, <1>11, <1>12, <1>13, <1>14, <1>15, <1>16, <1>17, <1>18, Zenon DEF FInv

-----------------------------------------------------------------------------
(* The descriptors of fork and exit *)

\* fork copies one descriptor; its file gets a reference.
LEMMA ForkCopyStep ==
    ASSUME Counting, FInv, NEW p \in Proc, fork_fd(p), fd[p] < NOFILE, ofile[p][fd[p]] # 0
    PROVE  FInv'
  <1> USE DEF At, Goto, procVars, localVars, inodeVars
  <1>1. /\ TypeOK /\ state[p] = "running" /\ pc[p] = "fork_fd" /\ 0 \notin File /\ f[p] = 0
        /\ fd[p] \in Nat
    BY Place, Zenon DEF fork_fd, HasFile, Opening, TypeOK
  <1>2. PICK d \in Fd : d = fd[p]
    BY <1>1, FileAssumption DEF Fd
  <1>3. PICK x \in File : x = ofile[p][d]
    BY <1>1, <1>2, Descriptor, Zenon
  <1>4. PICK c \in Proc : c = child[p] /\ state[c] = "embryo" /\ \A e \in Fd : e >= d => ofile[c][e] = 0
    BY <1>1, <1>2, Zenon DEF FInv, ForkInv
  <1>5. c # p /\ pc[c] = "user" /\ ofile[c][d] = 0 /\ Named(p, x) /\ d \in Nat
    <2>1. d >= d /\ d \in Nat
      BY <1>1, <1>2
    <2> QED BY <1>1, <1>3, <1>4, <2>1, Zenon DEF FInv, PlaceInv, PlaceAt, Named
  <1>6. ref[x] > 0 /\ ref[x] \in Nat
    BY <1>1, <1>5, Counted, Zenon DEF TypeOK
  <1>7. /\ ref' = [ref EXCEPT ![x] = @ + 1] /\ ofile' = [ofile EXCEPT ![c][d] = x]
        /\ fd' = [fd EXCEPT ![p] = d + 1]
        /\ UNCHANGED <<iref, state, cwd, pc, child, panicked>>
        /\ UNCHANGED <<type, fip, off, mode, size, ilock, f, ip, omode, left, start>>
    <2>1. ~(ref[x] < 1)
      BY ONLY <1>6
    <2> QED BY <1>2, <1>3, <1>4, <2>1, Zenon DEF fork_fd, filedup
  <1>8. TypeOK'
    <2>1. /\ ref \in [File -> Nat] /\ fd \in [Proc -> Nat] /\ ofile \in [Proc -> [Fd -> File \union {0}]]
          /\ d \in Nat /\ ref' = [ref EXCEPT ![x] = @ + 1]
          /\ ofile' = [ofile EXCEPT ![c][d] = x] /\ fd' = [fd EXCEPT ![p] = d + 1]
      BY <1>1, <1>5, <1>7, Zenon DEF TypeOK
    <2>2. ref' \in [File -> Nat] /\ fd' \in [Proc -> Nat] /\ ofile' \in [Proc -> [Fd -> File \union {0}]]
      BY ONLY <2>1
    <2> QED BY <1>1, <1>7, <2>2, Zenon DEF TypeOK
  <1>9. /\ \A q \in Proc : q # p => Steady(q)
        /\ fd'[p] = d + 1 /\ ref'[x] = ref[x] + 1 /\ ofile'[c][d] = x
        /\ \A y \in File : y # x => ref'[y] = ref[y]
        /\ \A q \in Proc, e \in Fd : <<q, e>> # <<c, d>> => ofile'[q][e] = ofile[q][e]
        /\ UNCHANGED <<type, fip, off, mode, inodeVars, state, cwd, pc, f, ip, omode, left, start, child, panicked>>
    <2>1. \A q \in Proc : q # p => Steady(q)
      BY <1>1, <1>7, Zenon DEF TypeOK, Steady
    <2>2. /\ fd'[p] = d + 1 /\ ref'[x] = ref[x] + 1 /\ ofile'[c][d] = x
          /\ \A y \in File : y # x => ref'[y] = ref[y]
      BY <1>1, <1>7, Zenon DEF TypeOK
    <2>3. ASSUME NEW q \in Proc, NEW e \in Fd, <<q, e>> # <<c, d>> PROVE ofile'[q][e] = ofile[q][e]
      BY <1>1, <1>7, <2>3, Zenon DEF TypeOK
    <2> QED BY <1>7, <2>1, <2>2, <2>3, Zenon
  <1>10. /\ \A q \in Proc : q # c => \A y : (Named(q, y)' <=> Named(q, y)) /\ (Twice(q, y)' <=> Twice(q, y))
         /\ \A y : Named(c, y)' /\ y # x => Named(c, y)
    <2>1. \A q \in Proc, e \in Fd : <<q, e>> # <<c, d>> => ofile'[q][e] = ofile[q][e]
      BY <1>9, Zenon
    <2>2. /\ \A q \in Proc : q # c => \A y : (Named(q, y)' <=> Named(q, y)) /\ (Twice(q, y)' <=> Twice(q, y))
          /\ \A y : Named(c, y)' /\ ofile'[c][d] # y => Named(c, y)
      BY <2>1, NameStep, Zenon
    <2> QED BY <1>9, <2>2, Zenon
  <1>11. RefsExact'
    <2>1. \A y \in File :
               ref'[y] + One(f'[p] = y /\ pc'[p] = "dup_ref")
                       + One(ofile[c][d] = y) + One(f[p] = y /\ pc[p] \in Taking)
               = ref[y] + One(f[p] = y /\ pc[p] = "dup_ref")
                        + One(ofile'[c][d] = y) + One(f'[p] = y /\ pc'[p] \in Taking)
      <3> TAKE y \in File
      <3>1. /\ ref[y] \in Nat /\ f[p] # y /\ f'[p] # y /\ ofile[c][d] # y /\ ofile'[c][d] = x
            /\ ref'[x] = ref[x] + 1 /\ (y # x => ref'[y] = ref[y])
        BY <1>1, <1>5, <1>9, Zenon DEF TypeOK
      <3> QED BY ONLY <3>1 DEF One
    <2>2. RefsExact
      BY Zenon DEF FInv
    <2>4. /\ \A q \in Proc : q # p => Steady(q)
          /\ \A q \in Proc, e \in Fd : <<q, e>> # <<c, d>> => ofile'[q][e] = ofile[q][e]
      BY <1>9, Zenon
    <2> QED BY <1>8, <2>1, <2>2, <2>4, RefStep, ZenonT(40)
  <1>12. InodeRefsExact'
    BY <1>9, NoInode, Zenon
  <1>13. TransferAtOffset'
    <2>1. pc'[p] # "move"
      BY <1>1, <1>9, Zenon
    <2> QED BY <1>9, <2>1, TransferFrame, Zenon
  <1>14. PlaceInv'
    <2>1. ASSUME NEW q \in Proc, q # p, q # c PROVE PlaceAt(q)'
      <3>1. \A e \in Fd : ofile'[q][e] = ofile[q][e]
        BY <1>9, <2>1, Zenon
      <3> QED BY <1>9, <2>1, <3>1, PlaceSame, Zenon
    <2>2. PlaceAt(p) /\ PlaceAt(c)
      BY Zenon DEF FInv, PlaceInv
    <2>3. UNCHANGED <<state, cwd, pc, f, ip>>
      BY <1>9, Zenon
    <2>4. PlaceAt(p)'
      BY <1>1, <2>2, <2>3, Zenon DEF PlaceAt
    <2>5. PlaceAt(c)'
      BY <1>4, <1>5, <2>2, <2>3, Zenon DEF PlaceAt
    <2> QED BY <2>1, <2>4, <2>5, Zenon DEF PlaceInv
  <1>15. ForkInv'
    <2>1. ASSUME NEW q \in Proc, pc[q] = "fork_fd", NEW e \in Fd, e >= fd'[q]
          PROVE  ofile'[child[q]][e] = 0
      <3>1. CASE q = p
        <4>1. d + 1 \in Nat /\ e \in Nat /\ d \in Nat /\ e >= d + 1
          BY <1>5, <1>9, <2>1, <3>1, FileAssumption DEF Fd
        <4>2. e >= d /\ e # d
          BY ONLY <4>1
        <4> QED BY <1>4, <1>9, <3>1, <4>2, ZenonT(40)
      <3>2. CASE q # p
        <4>1. child[q] \in Proc /\ child[q] # c /\ fd'[q] = fd[q]
          <5>1. child[q] \in Proc
            BY <2>1, Zenon DEF FInv, ForkInv
          <5>2. child[q] # c
            BY <1>1, <1>4, <2>1, <3>2, Zenon DEF FInv, ForkInv
          <5>3. fd'[q] = fd[q]
            BY <1>9, <3>2, Zenon DEF Steady
          <5> QED BY <5>1, <5>2, <5>3, Zenon
        <4>2. e >= fd[q]
          BY <2>1, <4>1, Zenon
        <4>3. ofile[child[q]][e] = 0
          BY <2>1, <4>2, Zenon DEF FInv, ForkInv
        <4>4. ofile'[child[q]][e] = ofile[child[q]][e]
          BY <1>9, <4>1, Zenon
        <4> QED BY <4>3, <4>4, Zenon
      <3> QED BY <3>1, <3>2, Zenon
    <2>2. pc' = pc /\ child' = child /\ state' = state
      BY <1>9, Zenon
    <2> QED BY <2>1, <2>2, Zenon DEF FInv, ForkInv
  <1>16. UseInv'
    <2>1. \A q \in Proc : pc[q] # "user" => q # c
      BY <1>5, Zenon
    <2>2. ASSUME NEW q \in Proc
          PROVE  /\ (pc[q] \in {"open_fill", "lock", "move"} => Named(q, f[q]))'
                 /\ (pc[q] = "dup_ref" => Twice(q, f[q]))'
                 /\ pc'[q] \in {"lock", "move"} => omode'[q] \in {"r", "w"}
      <3>1. PICK y : y = f[q]
        BY Zenon
      <3>2. pc' = pc /\ f'[q] = y /\ omode' = omode
        BY <1>9, <3>1, Zenon
      <3>3. /\ pc[q] \in {"open_fill", "lock", "move"} => Named(q, y)
            /\ pc[q] = "dup_ref" => Twice(q, y)
            /\ pc[q] \in {"lock", "move"} => omode[q] \in {"r", "w"}
        BY <3>1, Zenon DEF FInv, UseInv
      <3>4. /\ pc'[q] \in {"open_fill", "lock", "move"} => Named(q, y)'
            /\ pc'[q] = "dup_ref" => Twice(q, y)'
        BY <1>10, <2>1, <3>2, <3>3, Zenon
      <3>5. /\ pc'[q] \in {"open_fill", "lock", "move"} => \E a \in Fd : ofile'[q][a] = f'[q]
            /\ pc'[q] = "dup_ref" => \E a, e \in Fd : a # e /\ ofile'[q][a] = f'[q] /\ ofile'[q][e] = f'[q]
        BY <3>2, <3>4, Zenon DEF Named, Twice
      <3> QED BY <3>2, <3>3, <3>5, Zenon DEF Named, Twice
    <2> QED BY <2>2, Zenon DEF UseInv
  <1>17. OpenInv'
    <2> SUFFICES ASSUME NEW q \in Proc, pc[q] \in Opening
                 PROVE  /\ \A r \in Proc : r # q => ~Named(r, f[q])'
                        /\ pc[q] # "open_fill" => ~Named(q, f[q])'
      BY <1>9, Zenon DEF FInv, OpenInv
    <2>1. q # p /\ q # c /\ f[q] # x /\ f'[q] = f[q]
      BY <1>1, <1>5, <1>9, Zenon DEF FInv, OpenInv, Opening
    <2> QED BY <1>9, <1>10, <2>1, ZenonT(40) DEF FInv, OpenInv
  <1>18. SlotInv'
    <2>1. ref'[x] > 0
      BY ONLY <1>6, <1>9
    <2>2. \A y \in File : (ref[y] > 0 => ref'[y] > 0) /\ (ref'[y] > 0 => ref[y] > 0)
      BY <1>6, <1>9, <2>1, Zenon
    <2>3. pc[p] \notin Opening
      BY <1>1, Zenon DEF Opening
    <2> QED BY <1>9, <2>2, <2>3, SlotFrame, Zenon
  <1>19. LockInv'
    <2>1. pc'[p] = "fork_fd"
      BY <1>1, <1>9, Zenon
    <2> QED BY <1>9, <2>1, LockKeep, Zenon
  <1> QED BY <1>9, <1>11, <1>12, <1>13, <1>14, <1>15, <1>16, <1>17, <1>18, <1>19, Zenon DEF FInv

\* fork skips a descriptor that is not in use.
LEMMA ForkSkipStep ==
    ASSUME Counting, FInv, NEW p \in Proc, fork_fd(p), fd[p] < NOFILE, ofile[p][fd[p]] = 0
    PROVE  FInv'
  <1> USE DEF At, Goto, procVars, localVars, inodeVars
  <1>1. /\ TypeOK /\ state[p] = "running" /\ pc[p] = "fork_fd" /\ f[p] = 0 /\ fd[p] \in Nat
    BY Place, Zenon DEF fork_fd, HasFile, Opening, TypeOK
  <1>2. /\ fd' = [fd EXCEPT ![p] = fd[p] + 1]
        /\ UNCHANGED <<fileVars, inodeVars, procVars, pc, f, ip, omode, left, start, child, panicked>>
    BY Zenon DEF fork_fd, fileVars
  <1>3. TypeOK'
    <2>1. fd \in [Proc -> Nat] /\ fd' = [fd EXCEPT ![p] = fd[p] + 1]
      BY <1>1, <1>2, Zenon DEF TypeOK
    <2>2. fd' \in [Proc -> Nat]
      BY ONLY <2>1
    <2> QED BY <1>1, <1>2, <2>2, Zenon DEF TypeOK, fileVars
  <1>4. /\ \A q \in Proc : q # p => Steady(q)
        /\ fd'[p] = fd[p] + 1 /\ UNCHANGED <<fileVars, inodeVars, procVars, pc, f, ip, child, panicked>>
    BY <1>1, <1>2, Zenon DEF TypeOK, Steady
  <1>5. FileParts'
    BY <1>1, <1>3, <1>4, NoFile, Zenon DEF HasFile, Opening
  <1>6. InodeRefsExact'
    BY <1>4, NoInode, Zenon DEF fileVars
  <1>7. PlaceInv'
    <2>1. (pc'[p] \in HasFile <=> f'[p] # 0) /\ (pc'[p] \in HasInode <=> ip'[p] # None)
      BY <1>4, Zenon DEF FInv, PlaceInv, PlaceAt
    <2>2. pc'[p] = "fork_fd"
      BY <1>1, <1>4, Zenon
    <2> QED BY <1>1, <1>4, <2>1, <2>2, PlaceKeep, Zenon
  <1>8. ForkInv'
    <2>1. \A e \in Fd : e >= fd[p] + 1 => e >= fd[p]
      BY <1>1, FileAssumption DEF Fd
    <2>2. ASSUME NEW q \in Proc, pc[q] = "fork_fd", NEW e \in Fd, e >= fd'[q]
          PROVE  ofile[child[q]][e] = 0
      <3>1. e >= fd[q]
        <4>1. CASE q = p
          BY <1>4, <2>1, <2>2, <4>1, Zenon
        <4>2. CASE q # p
          BY <1>4, <2>2, <4>2, Zenon DEF Steady
        <4> QED BY <4>1, <4>2, Zenon
      <3> QED BY <2>2, <3>1, Zenon DEF FInv, ForkInv
    <2>3. UNCHANGED <<pc, child, state, ofile>>
      BY <1>4, Zenon
    <2> QED BY <2>2, <2>3, Zenon DEF FInv, ForkInv
  <1>9. LockInv'
    BY <1>4, Zenon DEF FInv, LockInv, fileVars
  <1> QED BY <1>5, <1>6, <1>7, <1>8, <1>9, Zenon DEF FInv, FileParts

\* The end of fork: the child has the working directory too, and runs.
LEMMA ForkEndStep ==
    ASSUME Counting, FInv, NEW p \in Proc, fork_fd(p), ~(fd[p] < NOFILE)
    PROVE  FInv'
  <1> USE DEF At, Goto, procVars, localVars, inodeVars
  <1>1. /\ TypeOK /\ state[p] = "running" /\ pc[p] = "fork_fd" /\ f[p] = 0 /\ ip[p] = None
        /\ None \notin Inode \union Proc /\ cwd[p] \in Inode /\ 1 \in File
    BY Place, FileAssumption, Zenon DEF fork_fd, HasFile, HasInode, Opening
  <1>2. PICK c \in Proc : c = child[p] /\ state[c] = "embryo"
    BY <1>1, Zenon DEF FInv, ForkInv
  <1>3. c # p /\ cwd[c] = None /\ pc[c] = "user"
    BY <1>1, <1>2, Zenon DEF FInv, PlaceInv, PlaceAt
  <1>4. /\ iref' = [iref EXCEPT ![cwd[p]] = @ + 1] /\ cwd' = [cwd EXCEPT ![c] = cwd[p]]
        /\ state' = [state EXCEPT ![c] = "running"]
        /\ child' = [child EXCEPT ![p] = None] /\ fd' = [fd EXCEPT ![p] = 0] /\ Goto(p, "user")
        /\ UNCHANGED <<fileVars, size, ilock, ofile, f, ip, omode, left, start, panicked>>
    BY <1>2, Zenon DEF fork_fd, fileVars
  <1>5. TypeOK'
    <2>1. /\ iref \in [Inode -> Nat] /\ cwd[p] \in Inode
          /\ iref' = [iref EXCEPT ![cwd[p]] = iref[cwd[p]] + 1]
      BY <1>1, <1>4, Zenon DEF TypeOK
    <2>2. iref' \in [Inode -> Nat]
      BY ONLY <2>1
    <2>3. fd' \in [Proc -> Nat]
      BY <1>1, <1>4, Zenon DEF TypeOK
    <2> QED BY <1>1, <1>4, <2>2, <2>3, Zenon DEF TypeOK, fileVars, Pc
  <1>6. /\ \A q \in Proc : q # p => Steady(q)
        /\ \A q \in Proc : q # c => state'[q] = state[q] /\ cwd'[q] = cwd[q]
        /\ state'[c] = "running" /\ cwd'[c] = cwd[p] /\ pc'[p] = "user" /\ f'[p] = 0
        /\ \A j \in Inode : j # cwd[p] => iref'[j] = iref[j]
        /\ iref'[cwd[p]] = iref[cwd[p]] + 1
        /\ UNCHANGED <<fileVars, size, ilock, ofile, ip, panicked>>
    BY <1>1, <1>4, ZenonT(40) DEF TypeOK, Steady
  <1>7. FileParts'
    BY <1>1, <1>5, <1>6, NoFile, Zenon DEF HasFile, Opening
  <1>8. InodeRefsExact'
    <2>1. ASSUME NEW j \in Inode
          PROVE  iref'[j] + One(cwd[c] = j) + One(ip[p] = j) = iref[j] + One(cwd'[c] = j) + One(ip'[p] = j)
      <3>1. iref[j] \in Nat /\ ip'[p] # j /\ ip[p] # j /\ cwd[c] # j /\ cwd'[c] = cwd[p]
        <4>1. j # None /\ iref[j] \in Nat
          BY <1>1, Zenon DEF TypeOK
        <4>2. cwd[c] = None /\ ip[p] = None /\ ip' = ip /\ cwd'[c] = cwd[p]
          BY <1>1, <1>3, <1>6, Zenon
        <4> QED BY <4>1, <4>2, Zenon
      <3>2. (j # cwd[p] => iref'[j] = iref[j]) /\ iref'[cwd[p]] = iref[cwd[p]] + 1
        BY <1>6, Zenon
      <3> QED BY ONLY <3>1, <3>2 DEF One
    <2>2. \A j \in Inode :
              iref'[j] + One(cwd[c] = j) + One(ip[p] = j) = iref[j] + One(cwd'[c] = j) + One(ip'[p] = j)
      BY <2>1, Zenon
    <2>3. type' = type /\ fip' = fip /\ \A q \in Proc : q # c => cwd'[q] = cwd[q]
      BY <1>6, Zenon DEF fileVars
    <2>4. \A q \in Proc : q # p => Steady(q)
      BY <1>6, Zenon
    <2> QED BY <1>5, <2>2, <2>3, <2>4, InodeCwdStep, Zenon
  <1>9. PlaceInv'
    <2>1. ASSUME NEW q \in Proc, q # p, q # c PROVE PlaceAt(q)'
      BY <1>6, <2>1, PlaceSame, Zenon
    <2>2. PlaceAt(p) /\ PlaceAt(c)
      BY Zenon DEF FInv, PlaceInv
    <2>3. PlaceAt(p)'
      BY <1>1, <1>3, <1>6, <2>2, Zenon DEF PlaceAt, HasFile, HasInode, Opening
    <2>4. pc'[c] = "user" /\ f'[c] = f[c] /\ ip' = ip /\ state'[c] = "running" /\ cwd'[c] # None
      BY <1>1, <1>3, <1>6, Zenon DEF Steady
    <2>5. PlaceAt(c)'
      BY <1>3, <2>2, <2>4, Zenon DEF PlaceAt
    <2> QED BY <2>1, <2>3, <2>5, Zenon DEF PlaceInv
  <1>10. ForkInv'
    BY <1>1, <1>2, <1>6, ForkFrame, Zenon
  <1>11. LockInv'
    BY <1>6, LockKeep, Zenon DEF fileVars
  <1> QED BY <1>7, <1>8, <1>9, <1>10, <1>11, Zenon DEF FInv, FileParts

\* exit skips a descriptor that is not in use, or goes on to the working directory.
LEMMA ExitSkipStep ==
    ASSUME Counting, FInv, NEW p \in Proc, exit_file(p), fd[p] < NOFILE => ofile[p][fd[p]] = 0
    PROVE  FInv'
  <1> USE DEF At, Goto, procVars, localVars, inodeVars
  <1>1. /\ TypeOK /\ state[p] = "running" /\ pc[p] = "exit_file" /\ f[p] = 0 /\ ip[p] = None
        /\ fd[p] \in Nat
    BY Place, Zenon DEF exit_file, HasFile, HasInode, Opening, TypeOK
  <1>2. /\ IF fd[p] < NOFILE THEN fd' = [fd EXCEPT ![p] = @ + 1] /\ pc' = pc
                             ELSE pc' = [pc EXCEPT ![p] = "exit_cwd"] /\ fd' = fd
        /\ UNCHANGED <<fileVars, inodeVars, procVars, f, ip, omode, left, start, child, panicked>>
    BY Zenon DEF exit_file, fileVars
  <1>3. TypeOK'
    <2>1. fd \in [Proc -> Nat] /\ (fd' = [fd EXCEPT ![p] = @ + 1] \/ fd' = fd)
      BY <1>1, <1>2, Zenon DEF TypeOK
    <2>2. fd' \in [Proc -> Nat]
      BY ONLY <2>1
    <2>3. pc' \in [Proc -> Pc]
      BY <1>1, <1>2, Zenon DEF TypeOK, Pc
    <2> QED BY <1>1, <1>2, <2>2, <2>3, Zenon DEF TypeOK, fileVars
  <1>4. /\ \A q \in Proc : q # p => Steady(q)
        /\ IF fd[p] < NOFILE THEN fd'[p] = fd[p] + 1 /\ pc'[p] = "exit_file" ELSE pc'[p] = "exit_cwd"
        /\ UNCHANGED <<fileVars, inodeVars, procVars, f, ip, panicked>>
    BY <1>1, <1>2, Zenon DEF TypeOK, Steady
  <1>5. FileParts'
    BY <1>1, <1>3, <1>4, NoFile, Zenon DEF HasFile, Opening
  <1>6. InodeRefsExact'
    BY <1>4, NoInode, Zenon DEF fileVars
  <1>7. PlaceInv'
    <2>1. \A e \in Fd : (fd[p] < NOFILE /\ e < fd[p] + 1) \/ ~(fd[p] < NOFILE) => e < fd[p] \/ e = fd[p]
      BY <1>1, FileAssumption DEF Fd
    <2>2. \A e \in Fd : (fd[p] < NOFILE /\ e < fd[p] + 1) \/ ~(fd[p] < NOFILE) => ofile[p][e] = 0
      <3> SUFFICES ASSUME NEW e \in Fd, (fd[p] < NOFILE /\ e < fd[p] + 1) \/ ~(fd[p] < NOFILE)
                   PROVE  ofile[p][e] = 0
        BY Zenon
      <3>1. CASE e < fd[p]
        BY <1>1, <3>1, Zenon DEF FInv, PlaceInv, PlaceAt
      <3>2. CASE e = fd[p]
        <4>1. fd[p] < NOFILE
          BY <3>2, FileAssumption DEF Fd
        <4> QED BY <3>2, <4>1, Zenon
      <3> QED BY <2>1, <3>1, <3>2, Zenon
    <2>3. /\ state' = state /\ cwd' = cwd /\ ofile' = ofile
          /\ (pc'[p] \in HasFile <=> f'[p] # 0) /\ (pc'[p] \in HasInode <=> ip'[p] # None)
      BY <1>1, <1>4, Zenon DEF HasFile, HasInode, Opening
    <2>4. \A d \in Fd : pc'[p] \in {"exit_file", "exit_put"} /\ d < fd'[p] => ofile'[p][d] = 0
      BY <1>4, <2>2, <2>3, Zenon
    <2>5. pc'[p] = "exit_cwd" => \A d \in Fd : ofile'[p][d] = 0
      BY <1>4, <2>2, <2>3, Zenon
    <2> QED BY <1>1, <1>4, <2>3, <2>4, <2>5, PlaceFrame, Zenon
  <1>8. ForkInv'
    BY <1>1, <1>4, ForkFrame, Zenon
  <1>9. LockInv'
    BY <1>4, LockKeep, Zenon DEF fileVars
  <1> QED BY <1>5, <1>6, <1>7, <1>8, <1>9, Zenon DEF FInv, FileParts

\* exit closes a descriptor.
LEMMA ExitCloseStep ==
    ASSUME Counting, FInv, NEW p \in Proc, exit_file(p), fd[p] < NOFILE, ofile[p][fd[p]] # 0
    PROVE  FInv'
  <1> USE DEF At, Goto, procVars, localVars, inodeVars
  <1>1. /\ TypeOK /\ state[p] = "running" /\ pc[p] = "exit_file" /\ f[p] = 0 /\ ip[p] = None
        /\ fd[p] \in Nat /\ 0 \notin File /\ None \notin Inode
    BY Place, Zenon DEF exit_file, HasFile, HasInode, Opening, TypeOK
  <1>2. PICK d \in Fd : d = fd[p]
    BY <1>1, FileAssumption DEF Fd
  <1>3. PICK x \in File : x = ofile[p][d]
    BY <1>1, <1>2, Descriptor, Zenon
  <1>4. Named(p, x) /\ ref[x] > 0 /\ ref[x] \in Nat /\ type[x] = "inode" /\ fip[x] \in Inode
    <2>1. Named(p, x)
      BY <1>3, Zenon DEF Named
    <2> QED BY <1>1, <2>1, Complete, Zenon DEF TypeOK
  <1>5. /\ fileclose(p, x, "exit_put", "exit_file") /\ ofile' = [ofile EXCEPT ![p][d] = 0]
        /\ fd' = [fd EXCEPT ![p] = @ + 1]
        /\ UNCHANGED <<fip, off, mode, inodeVars, state, cwd, f, omode, left, start, child>>
    BY <1>2, <1>3, Zenon DEF exit_file
  <1>6. "exit_put" \in Pc /\ "exit_file" \in Pc
    BY Zenon DEF Pc
  <1>7. /\ ref' \in [File -> Nat] /\ type' \in [File -> {"none", "inode"}]
        /\ ip' \in [Proc -> Inode \union {None}] /\ pc' \in [Proc -> Pc] /\ panicked' = panicked
        /\ ref'[x] = ref[x] - 1 /\ type'[x] = (IF ref[x] = 1 THEN "none" ELSE "inode")
        /\ \A y \in File : y # x => ref'[y] = ref[y] /\ type'[y] = type[y]
        /\ pc'[p] = (IF ref[x] = 1 THEN "exit_put" ELSE "exit_file")
        /\ ip'[p] = (IF ref[x] = 1 THEN fip[x] ELSE ip[p])
        /\ \A q \in Proc : q # p => pc'[q] = pc[q] /\ ip'[q] = ip[q]
    <2>1. TypeOK
      BY <1>1, Zenon
    <2>2. ref[x] > 0 /\ type[x] = "inode" /\ fip[x] \in Inode
      BY <1>4, Zenon
    <2>3. Closed(p, x, "exit_put", "exit_file")
      BY <1>5, <1>6, <2>1, <2>2, FilecloseEffect, Zenon
    <2> QED BY <2>3, Zenon DEF Closed
  <1>8. TypeOK'
    <2>1. ofile' \in [Proc -> [Fd -> File \union {0}]] /\ fd' \in [Proc -> Nat]
      <3>1. ofile \in [Proc -> [Fd -> File \union {0}]] /\ fd \in [Proc -> Nat]
        BY <1>1, Zenon DEF TypeOK
      <3>2. ofile' = [ofile EXCEPT ![p][d] = 0] /\ fd' = [fd EXCEPT ![p] = @ + 1]
        BY <1>5, Zenon
      <3> QED BY ONLY <3>1, <3>2
    <2> QED BY <1>1, <1>5, <1>7, <2>1, Zenon DEF TypeOK
  <1>9. /\ \A q \in Proc : q # p => Steady(q)
        /\ f'[p] = 0 /\ fd'[p] = fd[p] + 1 /\ ofile'[p][d] = 0
        /\ \A q \in Proc, c \in Fd : <<q, c>> # <<p, d>> => ofile'[q][c] = ofile[q][c]
        /\ UNCHANGED <<fip, off, mode, inodeVars, state, cwd>>
    <2>1. \A q \in Proc : q # p => Steady(q)
      BY <1>1, <1>5, <1>7, Zenon DEF TypeOK, Steady
    <2>2. /\ f'[p] = 0 /\ fd'[p] = fd[p] + 1 /\ ofile'[p][d] = 0
          /\ UNCHANGED <<fip, off, mode, inodeVars, state, cwd>>
      BY <1>1, <1>5, ZenonT(40) DEF TypeOK
    <2>3. ASSUME NEW q \in Proc, NEW c \in Fd, <<q, c>> # <<p, d>> PROVE ofile'[q][c] = ofile[q][c]
      BY <1>1, <1>5, <2>3, ZenonT(40) DEF TypeOK
    <2> QED BY <2>1, <2>2, <2>3, Zenon
  <1>10. /\ \A q \in Proc : q # p => \A y : (Named(q, y)' <=> Named(q, y)) /\ (Twice(q, y)' <=> Twice(q, y))
         /\ \A y : Named(p, y)' /\ y # 0 => Named(p, y)
    BY <1>9, NameStep, Zenon
  <1>11. RefsExact'
    <2>1. \A y \in File :
               ref'[y] + One(f'[p] = y /\ pc'[p] = "dup_ref")
                       + One(ofile[p][d] = y) + One(f[p] = y /\ pc[p] \in Taking)
               = ref[y] + One(f[p] = y /\ pc[p] = "dup_ref")
                        + One(ofile'[p][d] = y) + One(f'[p] = y /\ pc'[p] \in Taking)
      <3> TAKE y \in File
      <3>1. /\ ref[y] \in Nat /\ f'[p] # y /\ f[p] # y /\ ofile'[p][d] # y /\ ofile[p][d] = x
            /\ ref'[x] = ref[x] - 1 /\ (y # x => ref'[y] = ref[y])
        BY <1>1, <1>3, <1>7, <1>9, Zenon DEF TypeOK
      <3> QED BY ONLY <3>1 DEF One
    <2>2. RefsExact
      BY Zenon DEF FInv
    <2>3. TypeOK
      BY <1>1, Zenon
    <2> QED BY <1>8, <1>9, <2>1, <2>2, <2>3, RefStep, Zenon
  <1>12. InodeRefsExact'
    <2>1. \A j \in Inode :
              iref'[j] + One(IsOf(x, j)) + One(cwd[p] = j) + One(ip[p] = j)
              = iref[j] + One(IsOf(x, j)') + One(cwd'[p] = j) + One(ip'[p] = j)
      <3> TAKE j \in Inode
      <3>1. iref[j] \in Nat /\ iref'[j] = iref[j] /\ ip[p] # j /\ cwd'[p] = cwd[p] /\ None # j
        BY <1>1, <1>4, <1>7, <1>9, Zenon DEF TypeOK
      <3>2. (type'[x] = "inode" /\ fip'[x] = j) <=> (ref[x] # 1 /\ fip[x] = j)
        BY <1>1, <1>4, <1>7, <1>9, Zenon
      <3>3. ip'[p] = j <=> (ref[x] = 1 /\ fip[x] = j)
        BY <1>1, <1>4, <1>7, <1>9, <3>1, Zenon
      <3>4. IsOf(x, j) <=> fip[x] = j
        BY <1>1, <1>4, <1>7, <1>9, Zenon DEF IsOf
      <3> QED BY ONLY <3>1, <3>2, <3>3, <3>4 DEF One, IsOf
    <2>2. InodeRefsExact
      BY Zenon DEF FInv
    <2>3. /\ \A q \in Proc : q # p => cwd'[q] = cwd[q]
          /\ \A y \in File : y # x => type'[y] = type[y] /\ fip'[y] = fip[y]
          /\ \A q \in Proc : q # p => Steady(q)
      BY <1>7, <1>9, Zenon
    <2>4. TypeOK
      BY <1>1, Zenon
    <2> QED BY <1>8, <2>1, <2>2, <2>3, <2>4, InodeStep, ZenonT(40)
  <1>13. TransferAtOffset'
    <2>1. pc'[p] # "move"
      BY <1>7, Zenon
    <2> QED BY <1>9, <2>1, TransferFrame, Zenon
  <1>14. PlaceInv'
    <2>1. \A e \in Fd : e < fd[p] + 1 => ofile'[p][e] = 0
      <3> SUFFICES ASSUME NEW e \in Fd, e < fd[p] + 1, e # d PROVE ofile'[p][e] = 0
        BY <1>9, Zenon
      <3>1. e < fd[p]
        BY <1>1, <1>2, FileAssumption DEF Fd
      <3>2. ofile[p][e] = 0
        BY <1>1, <3>1, Zenon DEF FInv, PlaceInv, PlaceAt
      <3> QED BY <1>9, <3>2, Zenon
    <2>2. /\ \A q \in Proc : q # p => \A c \in Fd : ofile'[q][c] = ofile[q][c]
          /\ state' = state /\ cwd' = cwd
      BY <1>9, Zenon
    <2>3. /\ (pc'[p] \in HasFile <=> f'[p] # 0) /\ (pc'[p] \in HasInode <=> ip'[p] # None)
          /\ pc'[p] # "exit_cwd"
      BY <1>1, <1>4, <1>7, <1>9, Zenon DEF HasFile, HasInode, Opening
    <2>4. \A e \in Fd : pc'[p] \in {"exit_file", "exit_put"} /\ e < fd'[p] => ofile'[p][e] = 0
      BY <1>9, <2>1, Zenon
    <2> QED BY <1>1, <1>9, <2>2, <2>3, <2>4, PlaceFrame, Zenon
  <1>15. ForkInv'
    <2>1. \A q \in Proc : q # p => \A c \in Fd : ofile'[q][c] = ofile[q][c]
      BY <1>9, Zenon
    <2>2. pc'[p] # "fork_fd" /\ state' = state
      BY <1>7, <1>9, Zenon
    <2> QED BY <1>1, <1>9, <2>1, <2>2, ForkFrame, Zenon
  <1>16. UseInv'
    <2>1. pc'[p] \notin {"open_fill", "lock", "move", "dup_ref"}
      BY <1>7, Zenon
    <2> QED BY <1>9, <1>10, <2>1, UseFrame, Zenon
  <1>17. OpenInv'
    <2>1. pc'[p] \notin Opening
      BY <1>7, Zenon DEF Opening
    <2>2. \A y \in File : type[y] = "none" => type'[y] = "none"
      BY <1>4, <1>7, Zenon
    <2>3. \A q \in Proc, y \in File : Named(q, y)' => Named(q, y)
      BY <1>1, <1>10, Zenon
    <2> QED BY <1>9, <2>1, <2>2, <2>3, OpenFrame, Zenon
  <1>18. SlotInv'
    <2>1. (ref[x] # 1 => ref'[x] > 0) /\ (ref[x] = 1 => ~(ref'[x] > 0))
      <3>1. ref'[x] = ref[x] - 1
        BY <1>7, Zenon
      <3> QED BY ONLY <1>4, <3>1
    <2>2. \A y \in File : type'[y] = "inode" => type[y] = "inode" /\ (ref[y] > 0 => ref'[y] > 0)
      BY <1>4, <1>7, <2>1, Zenon
    <2>3. \A y \in File : ref'[y] > 0 /\ type'[y] = "none" => ref[y] > 0 /\ type[y] = "none"
      BY <1>7, <2>1, Zenon
    <2>4. pc[p] \notin Opening
      BY <1>1, Zenon DEF Opening
    <2> QED BY <1>9, <2>2, <2>3, <2>4, SlotFrame, ZenonT(40)
  <1>19. LockInv'
    BY <1>1, <1>7, <1>9, LockKeep, Zenon
  <1> QED BY <1>7, <1>11, <1>12, <1>13, <1>14, <1>15, <1>16, <1>17, <1>18, <1>19, Zenon DEF FInv

-----------------------------------------------------------------------------
(* fileread and filewrite *)

\* The start of a transfer, through a descriptor of the process.
LEMMA TransferStep ==
    ASSUME Counting, FInv, NEW p \in Proc, NEW d \in Fd, NEW m \in {"r", "w"}, NEW n \in Nat,
           transfer(p, d, m, n)
    PROVE  FInv'
  <1> USE DEF At, Goto, procVars, localVars, inodeVars
  <1>1. /\ TypeOK /\ state[p] = "running" /\ pc[p] = "user" /\ f[p] = 0 /\ 0 \notin File
        /\ ofile[p][d] # 0 /\ 0 \in Fd /\ ip[p] = None
    BY Place, Zenon DEF transfer, HasFile, HasInode, Opening
  <1>2. PICK x \in File : x = ofile[p][d]
    BY <1>1, Descriptor, Zenon
  <1>3. Named(p, x) /\ type[x] = "inode"
    <2>1. Named(p, x)
      BY <1>2, Zenon DEF Named
    <2> QED BY <1>1, <2>1, Complete, Zenon
  <1>4. /\ f' = [f EXCEPT ![p] = x] /\ omode' = [omode EXCEPT ![p] = m] /\ left' = [left EXCEPT ![p] = n]
        /\ Goto(p, "lock")
        /\ UNCHANGED <<fileVars, inodeVars, procVars, fd, ip, start, child, panicked>>
    BY <1>2, <1>3, Zenon DEF transfer
  <1>5. TypeOK'
    BY <1>1, <1>4, Zenon DEF TypeOK, Pc, Mode, fileVars
  <1>6. /\ \A q \in Proc : q # p => Steady(q)
        /\ pc'[p] = "lock" /\ f'[p] = x /\ omode'[p] = m
        /\ UNCHANGED <<ref, type, fip, off, mode, inodeVars, procVars, ip, panicked>>
    BY <1>1, <1>4, Zenon DEF TypeOK, Steady, fileVars
  <1>7. \A q \in Proc : \A y : (Named(q, y)' <=> Named(q, y)) /\ (Twice(q, y)' <=> Twice(q, y))
    BY <1>6, Zenon DEF Named, Twice
  <1>8. RefsExact'
    <2>1. \A y \in File :
               ref'[y] + One(f'[p] = y /\ pc'[p] = "dup_ref") + One(f[p] = y /\ pc[p] \in Taking)
               = ref[y] + One(f[p] = y /\ pc[p] = "dup_ref") + One(f'[p] = y /\ pc'[p] \in Taking)
      BY <1>1, <1>6, Zenon DEF One, Taking, TypeOK
    <2> QED BY <1>5, <1>6, <2>1, RefKeep, Zenon
  <1>9. InodeRefsExact'
    BY <1>6, NoInode, Zenon
  <1>10. TransferAtOffset'
    <2>1. pc'[p] # "move"
      BY <1>6, Zenon
    <2> QED BY <1>6, <2>1, TransferFrame, Zenon
  <1>11. PlaceInv'
    <2>1. (pc'[p] \in HasFile <=> f'[p] # 0) /\ (pc'[p] \in HasInode <=> ip'[p] # None)
      BY <1>1, <1>6, Zenon DEF HasFile, HasInode, Opening
    <2>2. pc'[p] \notin {"exit_cwd", "exit_file", "exit_put"}
      BY <1>6, Zenon
    <2> QED BY <1>1, <1>6, <2>1, <2>2, PlaceKeep, Zenon
  <1>12. ForkInv'
    BY <1>1, <1>6, ForkFrame, Zenon
  <1>13. UseInv'
    <2>1. \E e \in Fd : ofile'[p][e] = f'[p]
      BY <1>3, <1>6, Zenon DEF Named
    <2>2. (pc[p] \in {"open_fill", "lock", "move"} => Named(p, f[p]))'
      BY <2>1, Zenon DEF Named
    <2>3. (pc[p] = "dup_ref" => Twice(p, f[p]))'
      BY <1>6, Zenon
    <2> QED BY <1>6, <1>7, <2>2, <2>3, UseFrame, Zenon
  <1>14. OpenInv'
    <2>1. pc'[p] \notin Opening /\ Named(p, f'[p])
      BY <1>3, <1>6, Zenon DEF Opening
    <2>2. \A y \in File : type[y] = "none" /\ y # f[p] /\ ~Named(p, y) => type'[y] = "none"
      BY <1>6, Zenon
    <2> QED BY <1>6, <1>7, <2>1, <2>2, OpenFrame, Zenon
  <1>15. SlotInv'
    <2>1. pc[p] \notin Opening
      BY <1>1, Zenon DEF Opening
    <2> QED BY <1>6, <2>1, SlotFrame, Zenon
  <1>16. LockInv'
    BY <1>1, <1>6, LockKeep, Zenon
  <1> QED BY <1>6, <1>8, <1>9, <1>10, <1>11, <1>12, <1>13, <1>14, <1>15, <1>16, Zenon DEF FInv

\* The lock of the inode, and the offset under it, which is not beyond the end.
LEMMA LockFileStep ==
    ASSUME Counting, FInv, NEW p \in Proc, lock(p)
    PROVE  FInv'
  <1> USE DEF At, Goto, procVars, localVars, inodeVars
  <1>1. /\ TypeOK /\ state[p] = "running" /\ pc[p] = "lock" /\ 0 \notin File /\ 0 \in Fd
        /\ ip[p] = None
    BY Place, Zenon DEF lock, HasInode, Opening
  <1>2. PICK x \in File : x = f[p] /\ fip[x] \in Inode /\ off[x] <= size[fip[x]]
    BY <1>1, Using, Zenon
  <1>3. PICK i \in Inode : i = fip[x] /\ ilock[i] = None
    BY <1>2, Zenon DEF lock
  <1>4. off[x] \in Nat /\ size[i] \in Nat /\ off[x] <= size[i] /\ ~(off[x] > size[i])
    <2>1. off[x] \in Nat /\ size[i] \in Nat /\ off[x] <= size[i]
      BY <1>1, <1>2, <1>3, Zenon DEF TypeOK
    <2> QED BY ONLY <2>1
  <1>5. /\ ilock' = [ilock EXCEPT ![i] = p] /\ start' = [start EXCEPT ![p] = off[x]] /\ ~panicked'
        /\ Goto(p, "move")
        /\ UNCHANGED <<fileVars, iref, size, procVars, f, fd, ip, omode, left, child>>
    BY <1>2, <1>3, <1>4, Zenon DEF lock
  <1>6. TypeOK'
    <2>1. panicked' \in BOOLEAN
      BY DEF lock
    <2>2. ilock' \in [Inode -> Proc \union {None}] /\ start' \in [Proc -> Nat] /\ pc' \in [Proc -> Pc]
      BY <1>1, <1>4, <1>5, Zenon DEF TypeOK, Pc
    <2> QED BY <1>1, <1>5, <2>1, <2>2, ZenonT(40) DEF TypeOK, fileVars
  <1>7. /\ \A q \in Proc : q # p => Steady(q)
        /\ pc'[p] = "move" /\ f'[p] = x /\ start'[p] = off[x] /\ omode'[p] = omode[p] /\ ilock'[i] = p
        /\ \A j \in Inode : j # i => ilock'[j] = ilock[j]
        /\ UNCHANGED <<ref, type, fip, off, mode, iref, size, procVars, f, ip, fd, child>>
    BY <1>1, <1>2, <1>5, Zenon DEF TypeOK, Steady, fileVars
  <1>8. \A q \in Proc : \A y : (Named(q, y)' <=> Named(q, y)) /\ (Twice(q, y)' <=> Twice(q, y))
    BY <1>7, Zenon DEF Named, Twice
  <1>9. RefsExact'
    <2>1. \A y \in File :
               ref'[y] + One(f'[p] = y /\ pc'[p] = "dup_ref") + One(f[p] = y /\ pc[p] \in Taking)
               = ref[y] + One(f[p] = y /\ pc[p] = "dup_ref") + One(f'[p] = y /\ pc'[p] \in Taking)
      BY <1>1, <1>7, Zenon DEF One, Taking, TypeOK
    <2> QED BY <1>6, <1>7, <2>1, RefKeep, Zenon
  <1>10. InodeRefsExact'
    BY <1>7, NoInode, Zenon
  <1>11. TransferAtOffset'
    <2> SUFFICES ASSUME NEW q \in Proc, pc'[q] = "move"
                 PROVE  start'[q] = off'[f'[q]] /\ start'[q] <= size'[fip'[f'[q]]]
      BY Zenon DEF TransferAtOffset
    <2>1. CASE q = p
      <3>1. start'[p] = off[x] /\ f'[p] = x /\ off' = off /\ size' = size /\ fip' = fip
        BY <1>7, Zenon
      <3> QED BY <1>2, <2>1, <3>1, Zenon
    <2>2. CASE q # p
      <3>1. /\ pc[q] = "move" /\ start'[q] = start[q] /\ f'[q] = f[q] /\ off' = off
            /\ size' = size /\ fip' = fip
        BY <1>7, <2>2, Zenon DEF Steady
      <3> QED BY <3>1, Zenon DEF FInv, TransferAtOffset
    <2> QED BY <2>1, <2>2, Zenon
  <1>12. PlaceInv'
    <2>1. (pc'[p] \in HasFile <=> f'[p] # 0) /\ (pc'[p] \in HasInode <=> ip'[p] # None)
      BY <1>1, <1>7, Zenon DEF HasFile, HasInode, Opening
    <2>2. pc'[p] \notin {"exit_cwd", "exit_file", "exit_put"}
      BY <1>7, Zenon
    <2> QED BY <1>1, <1>7, <2>1, <2>2, PlaceKeep, Zenon
  <1>13. ForkInv'
    BY <1>1, <1>7, ForkFrame, Zenon
  <1>14. UseInv'
    <2>1. Named(p, x) /\ omode[p] \in {"r", "w"}
      BY <1>1, <1>2, Zenon DEF FInv, UseInv
    <2>2. \E e \in Fd : ofile'[p][e] = f'[p]
      BY <1>7, <2>1, Zenon DEF Named
    <2>3. (pc[p] \in {"open_fill", "lock", "move"} => Named(p, f[p]))'
      BY <2>2, Zenon DEF Named
    <2>4. (pc[p] = "dup_ref" => Twice(p, f[p]))'
      BY <1>7, Zenon
    <2> QED BY <1>7, <1>8, <2>1, <2>3, <2>4, UseFrame, Zenon
  <1>15. OpenInv'
    <2>1. pc'[p] \notin Opening /\ f'[p] = f[p]
      BY <1>2, <1>7, Zenon DEF Opening
    <2>2. \A y \in File : type[y] = "none" /\ y # f[p] /\ ~Named(p, y) => type'[y] = "none"
      BY <1>7, Zenon
    <2> QED BY <1>7, <1>8, <2>1, <2>2, OpenFrame, Zenon
  <1>16. SlotInv'
    <2>1. pc[p] \notin Opening
      BY <1>1, Zenon DEF Opening
    <2> QED BY <1>7, <2>1, SlotFrame, Zenon
  <1>17. LockInv'
    BY <1>3, <1>7, LockStep, Zenon
  <1> QED BY <1>5, <1>9, <1>10, <1>11, <1>12, <1>13, <1>14, <1>15, <1>16, <1>17, Zenon DEF FInv

\* The larger of two numbers.
LEMMA MaxOfTwo ==
    ASSUME NEW a \in Nat, NEW b \in Nat
    PROVE  Max({a, b}) \in Nat /\ Max({a, b}) >= a /\ Max({a, b}) >= b
  <1>1. \E x \in {a, b} : \A y \in {a, b} : x >= y
    <2>1. CASE a >= b
      BY <2>1
    <2>2. CASE b >= a
      BY <2>2
    <2> QED BY <2>1, <2>2
  <1>2. Max({a, b}) \in {a, b} /\ \A y \in {a, b} : Max({a, b}) >= y
    BY <1>1, Zenon DEF Max
  <1> QED BY <1>2, Zenon

\* The smaller of two numbers.
LEMMA MinOfTwo ==
    ASSUME Counting, NEW a \in Nat, NEW b \in Nat
    PROVE  Min({a, b}) \in Nat /\ Min({a, b}) <= a /\ Min({a, b}) <= b
  <1>1. {a, b} \subseteq Nat /\ {a, b} # {}
    BY Zenon
  <1>2. Min({a, b}) \in {a, b} /\ \A y \in {a, b} : Min({a, b}) <= y
    BY <1>1, MinInSet, Zenon
  <1> QED BY <1>2, Zenon

\* The end of a transfer: whoever else transfers has the lock of another inode,
\* so that neither its offset nor its size moves.
LEMMA MoveStep ==
    ASSUME Counting, FInv, NEW p \in Proc, move(p)
    PROVE  FInv'
  <1> USE DEF At, Goto, procVars, localVars, inodeVars
  <1>1. /\ TypeOK /\ state[p] = "running" /\ pc[p] = "move" /\ 0 \notin File /\ 0 \in Fd
        /\ ip[p] = None
    BY Place, Zenon DEF move, HasInode, Opening
  <1>2. PICK x \in File : x = f[p] /\ fip[x] \in Inode /\ type[x] = "inode"
    BY <1>1, Using, Zenon
  <1>3. PICK i \in Inode : i = fip[x] /\ ilock[i] = p
    BY <1>1, <1>2, Zenon DEF FInv, LockInv
  <1>4. /\ off[x] \in Nat /\ size[i] \in Nat /\ start[p] = off[x] /\ off[x] <= size[i]
        /\ left[p] \in Nat /\ ChunkMax \in Nat /\ omode[p] \in {"r", "w"}
    BY <1>1, <1>2, <1>3, FileAssumption, Zenon DEF TypeOK, FInv, TransferAtOffset, UseInv
  <1>5. PICK k \in Nat : k = Step(p) /\ (omode[p] = "r" => off[x] + k <= size[i])
    <2>1. CASE omode[p] = "r"
      <3>1. size[i] - start[p] \in Nat
        BY ONLY <1>4
      <3>2. /\ Min({left[p], size[i] - start[p]}) \in Nat
            /\ Min({left[p], size[i] - start[p]}) <= size[i] - start[p]
        BY <1>4, <3>1, MinOfTwo, Zenon
      <3>3. Step(p) = Min({left[p], size[i] - start[p]})
        BY <1>2, <1>3, <2>1, Zenon DEF Step
      <3>4. off[x] + Step(p) <= size[i]
        BY ONLY <1>4, <3>2, <3>3
      <3> QED BY <3>2, <3>3, <3>4, Zenon
    <2>2. CASE omode[p] = "w"
      <3>1. Min({left[p], ChunkMax}) \in Nat
        BY <1>4, MinOfTwo, Zenon
      <3>2. Step(p) = Min({left[p], ChunkMax})
        BY <2>2, Zenon DEF Step
      <3> QED BY <2>2, <3>1, <3>2, Zenon
    <2> QED BY <1>4, <2>1, <2>2, Zenon
  <1>6. PICK z \in Nat : /\ z = Max({size[i], start[p] + (IF omode[p] = "w" THEN k ELSE 0)})
                         /\ z >= size[i] /\ off[x] + k <= z
    <2> DEFINE e == start[p] + (IF omode[p] = "w" THEN k ELSE 0)
    <2>1. e \in Nat /\ (omode[p] = "w" => e = off[x] + k)
      BY ONLY <1>4, k \in Nat
    <2> HIDE DEF e
    <2>2. Max({size[i], e}) \in Nat /\ Max({size[i], e}) >= size[i] /\ Max({size[i], e}) >= e
      BY <1>4, <2>1, MaxOfTwo, Zenon
    <2>3. off[x] + k <= Max({size[i], e})
      BY ONLY <1>4, <1>5, <2>1, <2>2, k \in Nat
    <2> QED BY <2>2, <2>3, Zenon DEF e
  <1> DEFINE more == omode[p] = "w" /\ left[p] > k
  <1>7. /\ off' = [off EXCEPT ![x] = @ + k] /\ size' = [size EXCEPT ![i] = z]
        /\ ilock' = [ilock EXCEPT ![i] = None] /\ start' = [start EXCEPT ![p] = 0]
        /\ left' = [left EXCEPT ![p] = IF more THEN @ - k ELSE 0]
        /\ f' = IF more THEN f ELSE [f EXCEPT ![p] = 0]
        /\ omode' = IF more THEN omode ELSE [omode EXCEPT ![p] = "r"]
        /\ pc' = [pc EXCEPT ![p] = IF more THEN "lock" ELSE "user"]
        /\ UNCHANGED <<ref, type, fip, mode, iref, procVars, fd, ip, child, panicked>>
    BY <1>1, <1>2, <1>3, <1>5, <1>6, ZenonT(40) DEF move, TypeOK
  <1>8. TypeOK'
    <2>1. off' \in [File -> Nat] /\ size' \in [Inode -> Nat] /\ ilock' \in [Inode -> Proc \union {None}]
      <3>1. /\ off \in [File -> Nat] /\ off' = [off EXCEPT ![x] = off[x] + k]
            /\ size \in [Inode -> Nat] /\ size' = [size EXCEPT ![i] = z]
            /\ ilock \in [Inode -> Proc \union {None}] /\ ilock' = [ilock EXCEPT ![i] = None]
        BY <1>1, <1>7, Zenon DEF TypeOK
      <3>2. off' \in [File -> Nat]
        BY ONLY <3>1, k \in Nat, x \in File
      <3> QED BY <3>1, <3>2, Zenon
    <2>2. start' \in [Proc -> Nat] /\ left' \in [Proc -> Nat]
      <3>1. /\ start \in [Proc -> Nat] /\ left \in [Proc -> Nat]
            /\ start' = [start EXCEPT ![p] = 0]
            /\ \/ left' = [left EXCEPT ![p] = left[p] - k] /\ left[p] > k
               \/ left' = [left EXCEPT ![p] = 0]
        BY <1>1, <1>7, Zenon DEF TypeOK
      <3> QED BY ONLY <3>1, k \in Nat, p \in Proc
    <2>3. f' \in [Proc -> File \union {0}] /\ omode' \in [Proc -> Mode] /\ pc' \in [Proc -> Pc]
      BY <1>1, <1>7, Zenon DEF TypeOK, Mode, Pc
    <2> QED BY <1>1, <1>7, <2>1, <2>2, <2>3, Zenon DEF TypeOK
  <1>9. /\ \A q \in Proc : q # p => Steady(q)
        /\ \/ pc'[p] = "lock" /\ f'[p] = x /\ omode'[p] = omode[p]
           \/ pc'[p] = "user" /\ f'[p] = 0
        /\ off'[x] = off[x] + k /\ \A y \in File : y # x => off'[y] = off[y]
        /\ size'[i] = z /\ \A j \in Inode : j # i => size'[j] = size[j] /\ ilock'[j] = ilock[j]
        /\ UNCHANGED <<ref, type, fip, mode, iref, procVars, ip, panicked>>
    BY <1>1, <1>2, <1>7, Zenon DEF TypeOK, Steady
  <1>10. \A q \in Proc : \A y : (Named(q, y)' <=> Named(q, y)) /\ (Twice(q, y)' <=> Twice(q, y))
    BY <1>9, Zenon DEF Named, Twice
  <1>11. RefsExact'
    <2>1. \A y \in File :
               ref'[y] + One(f'[p] = y /\ pc'[p] = "dup_ref") + One(f[p] = y /\ pc[p] \in Taking)
               = ref[y] + One(f[p] = y /\ pc[p] = "dup_ref") + One(f'[p] = y /\ pc'[p] \in Taking)
      BY <1>1, <1>9, Zenon DEF One, Taking, TypeOK
    <2> QED BY <1>8, <1>9, <2>1, RefKeep, Zenon
  <1>12. InodeRefsExact'
    BY <1>9, NoInode, Zenon
  <1>13. TransferAtOffset'
    <2> SUFFICES ASSUME NEW q \in Proc, pc'[q] = "move"
                 PROVE  start'[q] = off'[f'[q]] /\ start'[q] <= size'[fip'[f'[q]]]
      BY Zenon DEF TransferAtOffset
    <2>1. q # p /\ pc[q] = "move" /\ f'[q] = f[q] /\ start'[q] = start[q]
      BY <1>9, Zenon DEF Steady
    <2>2. /\ f[q] \in File /\ fip[f[q]] \in Inode /\ ilock[fip[f[q]]] = q
          /\ start[q] = off[f[q]] /\ start[q] <= size[fip[f[q]]]
      BY <2>1, Using, Zenon DEF FInv, TransferAtOffset, LockInv
    <2>3. fip[f[q]] # i /\ f[q] # x
      BY <1>3, <2>1, <2>2, Zenon
    <2> QED BY <1>9, <2>1, <2>2, <2>3, Zenon
  <1>14. PlaceInv'
    <2>1. (pc'[p] \in HasFile <=> f'[p] # 0) /\ (pc'[p] \in HasInode <=> ip'[p] # None)
      BY <1>1, <1>9, Zenon DEF HasFile, HasInode, Opening
    <2>2. pc'[p] \notin {"exit_cwd", "exit_file", "exit_put"}
      BY <1>9, Zenon
    <2> QED BY <1>1, <1>9, <2>1, <2>2, PlaceKeep, Zenon
  <1>15. ForkInv'
    BY <1>1, <1>9, ForkFrame, Zenon
  <1>16. UseInv'
    <2>1. Named(p, x) /\ omode[p] \in {"r", "w"}
      BY <1>1, <1>2, Zenon DEF FInv, UseInv
    <2>2. pc'[p] \in {"open_fill", "lock", "move"} => \E e \in Fd : ofile'[p][e] = f'[p]
      BY <1>9, <2>1, Zenon DEF Named
    <2>3. (pc[p] \in {"open_fill", "lock", "move"} => Named(p, f[p]))'
      BY <2>2, Zenon DEF Named
    <2>4. (pc[p] = "dup_ref" => Twice(p, f[p]))'
      BY <1>9, Zenon
    <2>5. pc'[p] \in {"lock", "move"} => omode'[p] \in {"r", "w"}
      BY <1>9, <2>1, Zenon
    <2> QED BY <1>9, <1>10, <2>3, <2>4, <2>5, UseFrame, Zenon
  <1>17. OpenInv'
    <2>1. pc'[p] \notin Opening /\ (f'[p] = 0 \/ f'[p] = f[p])
      BY <1>2, <1>9, Zenon DEF Opening
    <2>2. \A y \in File : type[y] = "none" /\ y # f[p] /\ ~Named(p, y) => type'[y] = "none"
      BY <1>9, Zenon
    <2> QED BY <1>9, <1>10, <2>1, <2>2, OpenFrame, Zenon
  <1>18. SlotInv'
    <2> SUFFICES ASSUME NEW y \in File
                 PROVE  /\ type[y] = "inode" => off'[y] <= size'[fip[y]]
                        /\ ref[y] > 0 /\ type[y] = "none" => \E q \in Proc : pc'[q] \in Opening /\ f'[q] = y
      BY <1>9, Zenon DEF FInv, SlotInv
    <2>1. ASSUME type[y] = "inode" PROVE off'[y] <= size'[fip[y]]
      <3>1. fip[y] \in Inode /\ off[y] <= size[fip[y]] /\ off[y] \in Nat /\ size[fip[y]] \in Nat
        BY <1>1, <2>1, Zenon DEF FInv, SlotInv, TypeOK
      <3>2. CASE y = x
        BY <1>3, <1>6, <1>9, <3>2, Zenon
      <3>3. CASE y # x /\ fip[y] = i
        <4>1. off'[y] = off[y] /\ size'[i] = z /\ z >= size[i] /\ off[y] <= size[i]
          BY <1>6, <1>9, <3>1, <3>3, Zenon
        <4>2. off'[y] \in Nat /\ size'[i] \in Nat /\ size[i] \in Nat
          BY <1>4, <3>1, <4>1, Zenon
        <4>3. off'[y] <= size'[i]
          BY ONLY <4>1, <4>2
        <4> QED BY <3>3, <4>3, Zenon
      <3>4. CASE y # x /\ fip[y] # i
        BY <1>9, <3>1, <3>4, Zenon
      <3> QED BY <3>2, <3>3, <3>4, Zenon
    <2>2. \A q \in Proc : pc[q] \in Opening => pc'[q] \in Opening /\ f'[q] = f[q]
      BY <1>1, <1>9, Zenon DEF Steady, Opening
    <2> QED BY <2>1, <2>2, Zenon DEF FInv, SlotInv
  <1>19. LockInv'
    <2>1. pc'[p] \notin {"open_file", "open_fd", "open_undo", "move"}
      BY <1>9, Zenon
    <2>2. ilock[i] \in {None, p} /\ fip' = fip
      BY <1>3, <1>9, Zenon
    <2> QED BY <1>9, <2>1, <2>2, LockStep, Zenon
  <1> QED BY <1>9, <1>11, <1>12, <1>13, <1>14, <1>15, <1>16, <1>17, <1>18, <1>19, Zenon DEF FInv

-----------------------------------------------------------------------------
(* Counting *)

INSTANCE FiniteSetTheorems

\* Sets that differ in one element.
LEMMA Differ ==
    ASSUME NEW A, NEW B, NEW a, IsFiniteSet(A), OnlyAt(A, B, a)
    PROVE  /\ IsFiniteSet(B) /\ Cardinality(A) \in Nat /\ Cardinality(B) \in Nat
           /\ Ind(a, A) \in Nat /\ Ind(a, B) \in Nat
           /\ Cardinality(B) + Ind(a, A) = Cardinality(A) + Ind(a, B)
  <1> DEFINE C == A \ {a}
  <1>1. IsFiniteSet(C) /\ Cardinality(C) = Cardinality(A) - Ind(a, A)
    <2>1. CASE a \in A
      BY <2>1, FS_RemoveElement, Zenon DEF Ind
    <2>2. CASE a \notin A
      <3>1. C = A
        BY <2>2, Zenon
      <3>2. Cardinality(A) \in Nat
        BY FS_CardinalityType, Zenon
      <3> HIDE DEF C
      <3> QED BY <2>2, <3>1, <3>2 DEF Ind
    <2> QED BY <2>1, <2>2, Zenon
  <1>2. IsFiniteSet(B) /\ Cardinality(B) = Cardinality(C) + Ind(a, B)
    <2>1. CASE a \in B
      <3>1. B = C \union {a} /\ a \notin C
        BY <2>1, Zenon DEF OnlyAt
      <3> HIDE DEF C
      <3> QED BY <1>1, <2>1, <3>1, FS_AddElement, Zenon DEF Ind
    <2>2. CASE a \notin B
      <3>1. C = B
        BY <2>2, Zenon DEF OnlyAt
      <3>2. Cardinality(C) \in Nat
        BY <1>1, FS_CardinalityType, Zenon
      <3> QED BY <1>1, <2>2, <3>1, <3>2 DEF Ind
    <2> QED BY <2>1, <2>2, Zenon
  <1>3. Cardinality(A) \in Nat /\ Cardinality(B) \in Nat /\ Cardinality(C) \in Nat
    BY <1>1, <1>2, FS_CardinalityType, Zenon
  <1> HIDE DEF C
  <1> QED BY <1>1, <1>2, <1>3 DEF Ind

\* Everything that is counted is finite.
LEMMA AllFinite ==
    /\ \A S : S \subseteq Proc => IsFiniteSet(S)
    /\ \A S : S \subseteq File => IsFiniteSet(S)
    /\ \A S : S \subseteq Proc \X Fd => IsFiniteSet(S)
  <1>1. IsFiniteSet(Proc)
    BY FileAssumption, Zenon
  <1>2. NFILE \in Int /\ NOFILE - 1 \in Int
    BY FileAssumption
  <1>3. IsFiniteSet(File) /\ IsFiniteSet(Fd)
    BY <1>2, FS_Interval DEF File, Fd
  <1>4. IsFiniteSet(Proc \X Fd)
    BY <1>1, <1>3, FS_Product, Zenon
  <1> QED BY <1>1, <1>3, <1>4, FS_Subset, Zenon

\* Processes with two entries each in a table are fewer than the entries.
LEMMA FewerThanEntries ==
    ASSUME NEW T, T \subseteq Proc \X Fd, NEW D, D \subseteq Proc,
           \A p \in D : \E d, e \in Fd : d # e /\ <<p, d>> \in T /\ <<p, e>> \in T
    PROVE  /\ Cardinality(D) \in Nat /\ Cardinality(T) \in Nat
           /\ Cardinality(D) <= Cardinality(T)
           /\ T # {} => Cardinality(D) < Cardinality(T)
  <1> DEFINE g == [p \in D |-> <<p, CHOOSE d \in Fd : <<p, d>> \in T>>]
  <1>1. IsFiniteSet(T) /\ IsFiniteSet(D) /\ Cardinality(D) \in Nat /\ Cardinality(T) \in Nat
    BY AllFinite, FS_CardinalityType, Zenon
  <1>2. ASSUME NEW p \in D
        PROVE  /\ g[p] \in T /\ g[p][1] = p
               /\ \E d \in Fd : <<p, d>> \in T /\ <<p, d>> # g[p]
    <2>1. PICK d \in Fd, e \in Fd : d # e /\ <<p, d>> \in T /\ <<p, e>> \in T
      BY Zenon
    <2> DEFINE c == CHOOSE x \in Fd : <<p, x>> \in T
    <2>2. c \in Fd /\ <<p, c>> \in T
      BY <2>1, Zenon
    <2> HIDE DEF c
    <2>3. g[p] = <<p, c>>
      BY Zenon DEF c
    <2>4. c # d \/ c # e
      BY <2>1, Zenon
    <2> QED BY <2>1, <2>2, <2>3, <2>4, Zenon
  <1>3. g \in [D -> T]
    BY <1>2, Zenon
  <1> HIDE DEF g
  <1>4. g \in Injection(D, T)
    <2>1. \A p, q \in D : g[p] = g[q] => p = q
      BY <1>2, Zenon
    <2> QED BY <1>3, <2>1, Zenon DEF Injection, IsInjective
  <1>5. /\ Cardinality(D) <= Cardinality(T)
        /\ Cardinality(D) = Cardinality(T) <=> g \in Surjection(D, T)
    BY <1>1, <1>4, FS_Injection, Zenon
  <1>6. ASSUME T # {}, Cardinality(D) = Cardinality(T) PROVE FALSE
    <2>1. \A t \in T : \E p \in D : g[p] = t
      BY <1>5, <1>6, Zenon DEF Surjection
    <2>2. PICK p \in D : TRUE
      BY <1>6, <2>1, Zenon
    <2>3. PICK d \in Fd : <<p, d>> \in T /\ <<p, d>> # g[p]
      BY <1>2, Zenon
    <2>4. PICK q \in D : g[q] = <<p, d>>
      BY <2>1, <2>3, Zenon
    <2>5. q = p
      BY <1>2, <2>4
    <2> QED BY <2>3, <2>4, <2>5, Zenon
  <1> QED BY <1>1, <1>5, <1>6

\* The least element of a set of numbers is one of them.
LEMMA Least ==
    ASSUME NEW S, S \subseteq Nat, S # {}
    PROVE  Min(S) \in S /\ \A x \in S : Min(S) <= x
  <1> DEFINE Less == {ss \in Nat \X Nat : ss[1] < ss[2]}
  <1>1. IsWellFoundedOn(Less, Nat)
    BY NatLessThanWellFounded, Zenon DEF OpToRel
  <1> HIDE DEF Less
  <1>2. PICK x \in S : \A y \in S : ~(<<y, x>> \in Less)
    BY <1>1, WFMin, Zenon
  <1>3. \A y \in S : x <= y
    <2>1. SUFFICES ASSUME NEW y \in S, y < x PROVE FALSE
      OBVIOUS
    <2>2. <<y, x>> \in Nat \X Nat /\ <<y, x>>[1] < <<y, x>>[2]
      BY <2>1, Zenon
    <2>3. <<y, x>> \in Less
      BY <2>2, Zenon DEF Less
    <2> QED BY <1>2, <2>3, Zenon
  <1> QED BY <1>3, Zenon DEF Min

\* What the lemmas above assume.
LEMMA CountingHolds == Counting
  <1>1. \A S : S \subseteq Proc \/ S \subseteq File \/ S \subseteq Proc \X Fd => IsFiniteSet(S)
    BY AllFinite, Zenon
  <1>2. \A S : IsFiniteSet(S) => Cardinality(S) \in Nat /\ (Cardinality(S) = 0 <=> S = {})
    BY FS_CardinalityType, FS_EmptySet, Zenon
  <1>3. \A a : Cardinality({a}) = 1
    BY FS_Singleton, Zenon
  <1>4. \A A, B, a : IsFiniteSet(A) /\ OnlyAt(A, B, a) =>
          /\ Cardinality(A) \in Nat /\ Cardinality(B) \in Nat
          /\ Cardinality(B) + Ind(a, A) = Cardinality(A) + Ind(a, B)
    BY Differ, Zenon
  <1>5. \A D, T : EachTwice(D, T) =>
          Cardinality(D) <= Cardinality(T) /\ (T # {} => Cardinality(D) < Cardinality(T))
    BY FewerThanEntries, Zenon DEF EachTwice
  <1>6. \A S : S \subseteq Nat /\ S # {} => Min(S) \in S /\ \A x \in S : Min(S) <= x
    BY Least, Zenon
  <1> QED BY <1>1, <1>2, <1>3, <1>4, <1>5, <1>6, Zenon DEF Counting

-----------------------------------------------------------------------------
(* The theorems *)

\* The counts of the first state: one process, in the root directory.
LEMMA InitFInv == Init => FInv
  <1> SUFFICES ASSUME Init PROVE FInv
    BY Zenon
  <1>1. 0 \notin File /\ None \notin Inode \union Proc /\ root \in Inode /\ init \in Proc
    BY FileAssumption DEF File
  <1>2. TypeOK
    BY <1>1, Zenon DEF Init, TypeOK, Mode, Pc
  <1>3. RefsExact
    <2> SUFFICES ASSUME NEW x \in File
                 PROVE  ref[x] + Cardinality(InHand(x, {"dup_ref"}))
                          = Cardinality(InTable(x)) + Cardinality(InHand(x, Taking))
      BY <1>2, Zenon DEF RefsExact, Taking
    <2>1. InHand(x, {"dup_ref"}) = {} /\ InHand(x, Taking) = {}
      BY <1>1, Zenon DEF Init, InHand
    <2>2. InTable(x) = {}
      <3> SUFFICES ASSUME NEW t \in InTable(x) PROVE FALSE
        BY Zenon
      <3>1. t[1] \in Proc /\ t[2] \in Fd /\ ofile[t[1]][t[2]] = x
        BY Zenon DEF InTable
      <3> QED BY <1>1, <3>1, Zenon DEF Init
    <2>3. ref[x] = 0 /\ Cardinality({}) = 0
      BY FS_EmptySet, Zenon DEF Init
    <2> QED BY <2>1, <2>2, <2>3, Zenon
  <1>4. InodeRefsExact
    <2> SUFFICES ASSUME NEW i \in Inode
                 PROVE  iref[i] = Cardinality({x \in File : type[x] = "inode" /\ fip[x] = i})
                          + Cardinality({p \in Proc : cwd[p] = i}) + Cardinality({p \in Proc : ip[p] = i})
      BY Zenon DEF InodeRefsExact
    <2>1. {x \in File : type[x] = "inode" /\ fip[x] = i} = {} /\ {p \in Proc : ip[p] = i} = {}
      BY <1>1, Zenon DEF Init
    <2>2. {p \in Proc : cwd[p] = i} = IF i = root THEN {init} ELSE {}
      BY <1>1, Zenon DEF Init
    <2>3. iref[i] = IF i = root THEN 1 ELSE 0
      BY Zenon DEF Init
    <2>4. Cardinality({}) = 0 /\ Cardinality({init}) = 1
      BY FS_EmptySet, FS_Singleton, Zenon
    <2>5. 0 = 0 + 0 + 0 /\ 1 = 0 + 1 + 0
      OBVIOUS
    <2> QED BY <2>1, <2>2, <2>3, <2>4, <2>5, Zenon
  <1>5. TransferAtOffset /\ ForkInv /\ UseInv /\ OpenInv /\ LockInv /\ ~panicked
    BY Zenon DEF Init, TransferAtOffset, ForkInv, UseInv, OpenInv, LockInv, Opening
  <1>6. PlaceInv
    BY <1>1, Zenon DEF Init, PlaceInv, PlaceAt, HasFile, HasInode, Opening
  <1>7. SlotInv
    <2>1. ~(0 > 0)
      OBVIOUS
    <2> QED BY <2>1, Zenon DEF Init, SlotInv
  <1> QED BY <1>3, <1>4, <1>5, <1>6, <1>7, Zenon DEF FInv

\* Every step preserves the invariant.
LEMMA NextFInv == FInv /\ [Next]_vars => FInv'
  <1> SUFFICES ASSUME FInv, [Next]_vars PROVE FInv'
    BY Zenon
  <1> Counting
    BY CountingHolds, Zenon
  <1>1. CASE UNCHANGED vars
    <2>1. /\ UNCHANGED <<ref, type, fip, off, mode, iref, size, ilock, state, ofile, cwd, pc>>
          /\ UNCHANGED <<f, fd, ip, omode, left, start, child, panicked>>
      BY <1>1, Zenon DEF vars, fileVars, inodeVars, procVars, localVars
    <2>2. RefsExact'
      BY <2>1, ZenonT(40) DEF FInv, RefsExact, TypeOK, InTable, InHand
    <2>3. InodeRefsExact'
      BY <2>1, NoInode, Zenon
    <2>4. TransferAtOffset'
      BY <2>1, Zenon DEF FInv, TransferAtOffset
    <2>5. PlaceInv'
      BY <2>1, Zenon DEF FInv, PlaceInv, PlaceAt
    <2>6. ForkInv'
      BY <2>1, Zenon DEF FInv, ForkInv
    <2>7. SlotInv'
      BY <2>1, Zenon DEF FInv, SlotInv
    <2>8. LockInv'
      BY <2>1, Zenon DEF FInv, LockInv
    <2>9. UseInv'
      BY <2>1, Zenon DEF FInv, UseInv, Named, Twice
    <2>10. OpenInv'
      BY <2>1, Zenon DEF FInv, OpenInv, Named
    <2> QED BY <2>1, <2>2, <2>3, <2>4, <2>5, <2>6, <2>7, <2>8, <2>9, <2>10, Zenon DEF FInv
  <1>2. ASSUME NEW p \in Proc, NEW a \in OpenAs, open(p, a[1], a[2]) PROVE FInv'
    <2>1. a[1] \in Inode /\ a[2] \in Mode
      BY FileAssumption, Zenon DEF Mode
    <2> QED BY <1>2, <2>1, OpenStep, Zenon
  <1>3. ASSUME NEW p \in Proc, open_file(p) PROVE FInv'
    BY <1>3, GiveUpStep, FileallocStep, Zenon
  <1>4. ASSUME NEW p \in Proc, open_fd(p) PROVE FInv'
    BY <1>4, NoFdStep, FdallocStep, Zenon
  <1>5. ASSUME NEW p \in Proc, fork_fd(p) PROVE FInv'
    BY <1>5, ForkCopyStep, ForkSkipStep, ForkEndStep, Zenon
  <1>6. ASSUME NEW p \in Proc, exit_file(p) PROVE FInv'
    BY <1>6, ExitSkipStep, ExitCloseStep, Zenon
  <1>7. ASSUME NEW p \in Proc, NEW d \in Fd, NEW m \in {"r", "w"}, NEW n \in 1 .. CountMax,
               transfer(p, d, m, n)
        PROVE  FInv'
    <2>1. n \in Nat
      BY FileAssumption
    <2> QED BY <1>7, <2>1, TransferStep, Zenon
  <1>8. ASSUME NEW p \in Proc,
               \/ open_undo(p) \/ open_fill(p) \/ dup_ref(p) \/ close_file(p) \/ put(p) \/ chdir_put(p)
               \/ exit(p) \/ exit_put(p) \/ exit_cwd(p) \/ wait(p) \/ lock(p) \/ move(p)
        PROVE  FInv'
    BY <1>8, OpenUndoStep, OpenFillStep, DupRefStep, CloseFileStep, PutStep, ChdirPutStep, ExitStep,
       ExitCwdStep, WaitStep, LockFileStep, MoveStep, Zenon
  <1>9. ASSUME NEW p \in Proc, NEW d \in Fd, dup(p, d) \/ close(p, d) PROVE FInv'
    BY <1>9, DupStep, CloseStep, Zenon
  <1>10. ASSUME NEW p \in Proc, NEW i \in Inode, chdir(p, i) PROVE FInv'
    BY <1>10, ChdirStep, Zenon
  <1>11. ASSUME NEW p \in Proc, NEW c \in Proc, fork(p, c) PROVE FInv'
    BY <1>11, ForkStep, Zenon
  <1> QED BY <1>1, <1>2, <1>3, <1>4, <1>5, <1>6, <1>7, <1>8, <1>9, <1>10, <1>11, Zenon DEF Next

\* The inductive invariant of the file table holds in every reachable state.
THEOREM FileInvariant == Spec => []FInv
  BY InitFInv, NextFInv, PTL DEF Spec

\* The count of an open file is the number of its descriptors, whatever the
\* processes open, dup, close, fork and exit at the same time: no slot of the
\* table leaks, and none is taken while it is in use.
THEOREM RefsExactHolds == Spec => []RefsExact
  <1>1. FInv => RefsExact
    BY Zenon DEF FInv
  <1> QED BY <1>1, FileInvariant, PTL

\* The references to an inode are the open files, the working directories and
\* the system calls that hold it.
THEOREM InodeRefsExactHolds == Spec => []InodeRefsExact
  <1>1. FInv => InodeRefsExact
    BY Zenon DEF FInv
  <1> QED BY <1>1, FileInvariant, PTL

\* A transfer is at the offset of its file until it ends, and not beyond the
\* end of the file, though the file is shared: the lock of the inode is enough.
THEOREM TransferAtOffsetHolds == Spec => []TransferAtOffset
  <1>1. FInv => TransferAtOffset
    BY Zenon DEF FInv
  <1> QED BY <1>1, FileInvariant, PTL

\* The PANICs of filedup, fileclose, fileread and filewrite and the assertion of
\* inode_read are unreachable, and what a running process can use is complete.
THEOREM NeverPanicsHolds == Spec => []NeverPanics
  <1>1. ASSUME FInv PROVE NeverPanics
    <2> SUFFICES ASSUME NEW p \in Proc, NEW d \in Fd, pc[p] = "user", ofile[p][d] # 0
                 PROVE  type[ofile[p][d]] = "inode" /\ ref[ofile[p][d]] > 0
      BY <1>1, Zenon DEF NeverPanics, FInv
    <2>1. ofile[p][d] \in File
      BY <1>1, Place, Descriptor, Zenon
    <2>2. Named(p, ofile[p][d])
      BY Zenon DEF Named
    <2> QED BY <1>1, <2>1, <2>2, CountingHolds, Complete, Zenon
  <1> QED BY <1>1, FileInvariant, PTL
=============================================================================
