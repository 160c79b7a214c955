---------------------------- MODULE BCacheProofs ----------------------------
(***************************************************************************)
(* Theorems about the block cache of fs/cache.c (module BCache), for every *)
(* number of claims, blocks and slots, every EVICTION_THRESHOLD and every  *)
(* bound of the log.                                                       *)
(*                                                                         *)
(* The order of the list only decides which slot is evicted; the proofs    *)
(* need the set of its slots and its length, which the lemmas on           *)
(* MoveToFront and Victim give.                                            *)
(***************************************************************************)
EXTENDS BCache, TLAPS, FiniteSetTheorems, SequenceTheorems, WellFoundedInduction

-----------------------------------------------------------------------------
(* The inductive invariant *)

\* Slots that somebody changed and that are not on disk yet.
Dirty == pinned \union Unsynced

\* A claim inside of acquire ... release has a slot of the list, which it
\* has locked while it owns the block.
SlotInv ==
    \A c \in Claim :
        /\ pc[c] # "idle" => slot[c] \in InList
        /\ Owns(c) => slot[c] \in locked

\* The sleeping lock excludes.
OwnerInv == \A c, u \in Claim : Owns(c) /\ Owns(u) /\ slot[c] = slot[u] => c = u

\* No block has two slots.
LabelInv == \A s, u \in InList : block_no[s] = block_no[u] => s = u

\* A flag is set for a claim that has not released the slot.
FlagInv == acquired \subseteq {slot[u] : u \in {v \in Claim : pc[v] # "idle"}}

\* Until a flag is lost: who uses a slot has its flag set and finds the block it
\* asked for, ...
UseInv ==
    \A c \in Claim :
        /\ Using(c) => slot[c] \in acquired /\ block_no[slot[c]] = want[c]
        /\ pc[c] = "read" => slot[c] \notin valid
        /\ pc[c] \in {"hold", "dirty"} => slot[c] \in valid

\* ... a loaded slot holds what was last stored in its block, and where the disk
\* does not, the block is in a loaded slot that is going to be written.
DataInv ==
    /\ Dirty \subseteq valid
    /\ \A s \in valid : data[s] = content[block_no[s]]
    /\ \A b \in BlockNo : disk[b] # content[b] => \E s \in Dirty : block_no[s] = b

BInv ==
    /\ TypeOK /\ SlotInv /\ OwnerInv /\ LabelInv /\ FlagInv /\ CacheBounded
    /\ ~flagLost => UseInv /\ DataInv

-----------------------------------------------------------------------------
(* The list *)

\* The search for the position of a slot finds it.
LEMMA RemoveFirstAt ==
    ASSUME NEW q \in Seq(Slot), IsInjective(q), NEW k \in 1 .. Len(q)
    PROVE  RemoveFirst(q, q[k]) = RemoveAt(q, k)
  <1>1. \E i \in 1 .. Len(q) : q[i] = q[k]
    BY Zenon
  <1>2. {i \in 1 .. Len(q) : q[i] = q[k]} = {k}
    BY DEF IsInjective
  <1>3. Min({k}) = k
    BY DEF Min
  <1> QED
    BY <1>1, <1>2, <1>3, Zenon DEF RemoveFirst, SelectInSeq

\* A slot that is in the list, taken out of it.
LEMMA RemoveAtFacts ==
    ASSUME NEW q \in Seq(Slot), NEW k \in 1 .. Len(q)
    PROVE  /\ RemoveAt(q, k) \in Seq(Slot) /\ Len(RemoveAt(q, k)) = Len(q) - 1
           /\ \A i \in 1 .. k - 1 : RemoveAt(q, k)[i] = q[i]
           /\ \A i \in k .. Len(q) - 1 : RemoveAt(q, k)[i] = q[i + 1]
  <1> DEFINE a == SubSeq(q, 1, k - 1)
             b == SubSeq(q, k + 1, Len(q))
  <1>1. a \in Seq(Slot) /\ Len(a) = k - 1 /\ \A i \in 1 .. k - 1 : a[i] = q[i]
    OBVIOUS
  <1>2. b \in Seq(Slot) /\ Len(b) = Len(q) - k /\ \A i \in 1 .. Len(q) - k : b[i] = q[k + i]
    OBVIOUS
  <1> HIDE DEF a, b
  <1>3. /\ a \o b \in Seq(Slot) /\ Len(a \o b) = Len(a) + Len(b)
        /\ \A i \in 1 .. Len(a) + Len(b) :
               (a \o b)[i] = IF i <= Len(a) THEN a[i] ELSE b[i - Len(a)]
    BY <1>1, <1>2, ConcatProperties, Zenon
  <1> DEFINE r == a \o b
  <1> HIDE DEF r
  <1>4. ASSUME NEW i \in 1 .. k - 1
        PROVE  r[i] = q[i]
    BY <1>1, <1>2, <1>3 DEF r
  <1>5. ASSUME NEW i \in k .. Len(q) - 1
        PROVE  r[i] = q[i + 1]
    <2>1. i - (k - 1) \in 1 .. Len(q) - k /\ k + (i - (k - 1)) = i + 1 /\ ~(i <= k - 1)
      OBVIOUS
    <2>2. r[i] = b[i - (k - 1)]
      BY <1>1, <1>2, <1>3, <2>1 DEF r
    <2> QED
      BY <1>2, <2>1, <2>2, Zenon
  <1>6. r \in Seq(Slot) /\ Len(r) = Len(q) - 1
    BY <1>1, <1>2, <1>3 DEF r
  <1>7. RemoveAt(q, k) = r
    BY Zenon DEF RemoveAt, r, a, b
  <1> QED
    BY <1>4, <1>5, <1>6, <1>7, Zenon

\* The slots of a list are the ones at its positions.
LEMMA InSet ==
    ASSUME NEW q \in Seq(Slot)
    PROVE  /\ \A i \in 1 .. Len(q) : q[i] \in ToSet(q)
           /\ \A x \in ToSet(q) : \E i \in 1 .. Len(q) : q[i] = x
           /\ ToSet(q) \subseteq Slot
  <1>1. DOMAIN q = 1 .. Len(q) /\ \A i \in 1 .. Len(q) : q[i] \in Slot
    OBVIOUS
  <1> QED
    BY <1>1, Zenon DEF ToSet

\* A new slot in front of the list.
LEMMA ConsFacts ==
    ASSUME NEW r \in Seq(Slot), IsInjective(r), NEW s \in Slot, s \notin ToSet(r),
           NEW m, m = <<s>> \o r
    PROVE  /\ m \in Seq(Slot) /\ IsInjective(m) /\ ToSet(m) = ToSet(r) \union {s}
           /\ Len(m) = Len(r) + 1
  <1> DEFINE h == <<s>>
  <1>1. h \in Seq(Slot) /\ Len(h) = 1 /\ h[1] = s
    OBVIOUS
  <1> HIDE DEF h
  <1>2. /\ h \o r \in Seq(Slot) /\ Len(h \o r) = Len(h) + Len(r)
        /\ \A i \in 1 .. Len(h) + Len(r) :
               (h \o r)[i] = IF i <= Len(h) THEN h[i] ELSE r[i - Len(h)]
    BY <1>1, ConcatProperties, Zenon
  <1>3. m = h \o r
    BY Zenon DEF h
  <1>4. /\ m \in Seq(Slot) /\ Len(m) = Len(r) + 1 /\ m[1] = s
        /\ \A i \in 1 .. Len(r) + 1 : i # 1 => m[i] = r[i - 1]
    BY <1>1, <1>2, <1>3
  <1>5. \A i \in 1 .. Len(r) + 1 : i # 1 => i - 1 \in 1 .. Len(r) /\ m[i] = r[i - 1]
    BY <1>4
  <1>6. \A i \in 1 .. Len(r) : i + 1 \in 1 .. Len(r) + 1 /\ m[i + 1] = r[i]
    <2> SUFFICES ASSUME NEW i \in 1 .. Len(r)
                 PROVE  i + 1 \in 1 .. Len(r) + 1 /\ m[i + 1] = r[i]
      BY Zenon
    <2>1. i + 1 \in 1 .. Len(r) + 1 /\ i + 1 # 1 /\ (i + 1) - 1 = i
      OBVIOUS
    <2> QED
      BY <1>5, <2>1, Zenon
  <1>7. IsInjective(m)
    <2> SUFFICES ASSUME NEW i \in 1 .. Len(r) + 1, NEW j \in 1 .. Len(r) + 1, m[i] = m[j]
                 PROVE  i = j
      BY <1>4 DEF IsInjective
    <2>1. CASE i # 1 /\ j # 1
      <3>1. r[i - 1] = r[j - 1] /\ i - 1 \in 1 .. Len(r) /\ j - 1 \in 1 .. Len(r)
        BY <1>5, <2>1, Zenon
      <3>2. i - 1 = j - 1
        BY <3>1 DEF IsInjective
      <3> QED
        BY <3>2
    <2>2. CASE i = 1 \/ j = 1
      BY <1>4, <1>5, <2>2, InSet
    <2> QED
      BY <2>1, <2>2, Zenon
  <1>8. 1 \in 1 .. Len(r) + 1
    OBVIOUS
  <1>9. ToSet(m) \subseteq ToSet(r) \union {s}
    <2> SUFFICES ASSUME NEW x \in ToSet(m) PROVE x \in ToSet(r) \union {s}
      BY Zenon
    <2>1. PICK i \in 1 .. Len(r) + 1 : m[i] = x
      BY <1>4, InSet, Zenon
    <2> QED
      BY <1>4, <1>5, <2>1, InSet, Zenon
  <1>10. ToSet(r) \union {s} \subseteq ToSet(m)
    <2>1. s \in ToSet(m)
      <3>1. \A i \in 1 .. Len(m) : m[i] \in ToSet(m)
        BY <1>4, InSet, Zenon
      <3>2. 1 \in 1 .. Len(m)
        BY <1>4, <1>8, Zenon
      <3> QED
        BY <1>4, <3>1, <3>2, Zenon
    <2>2. ASSUME NEW x \in ToSet(r) PROVE x \in ToSet(m)
      <3>1. PICK i \in 1 .. Len(r) : r[i] = x
        BY InSet, Zenon
      <3> QED
        BY <1>4, <1>6, <3>1, InSet, Zenon
    <2> QED
      BY <2>1, <2>2, Zenon
  <1> QED
    BY <1>4, <1>7, <1>9, <1>10, Zenon

\* Putting a slot in front leaves each slot in the list once.
LEMMA FrontFacts ==
    ASSUME NEW q \in Seq(Slot), IsInjective(q), NEW s \in Slot,
           NEW m, m = <<s>> \o RemoveFirst(q, s)
    PROVE  /\ m \in Seq(Slot) /\ IsInjective(m) /\ ToSet(m) = ToSet(q) \union {s}
           /\ s \in ToSet(q) => Len(m) = Len(q)
           /\ s \notin ToSet(q) => Len(m) = Len(q) + 1
  <1>1. CASE s \notin ToSet(q)
    <2>1. RemoveFirst(q, s) = q
      BY <1>1, InSet, Zenon DEF RemoveFirst
    <2> QED
      BY <1>1, <2>1, ConsFacts, Zenon
  <1>2. CASE s \in ToSet(q)
    <2>1. PICK k \in 1 .. Len(q) : q[k] = s
      BY <1>2, InSet, Zenon
    <2> DEFINE r == RemoveAt(q, k)
               n == Len(q)
               f(i) == IF i < k THEN i ELSE i + 1
    <2>2. /\ r \in Seq(Slot) /\ Len(r) = n - 1
          /\ \A i \in 1 .. k - 1 : r[i] = q[i]
          /\ \A i \in k .. n - 1 : r[i] = q[i + 1]
      BY RemoveAtFacts, Zenon
    <2>3. m = <<s>> \o r
      BY <2>1, RemoveFirstAt, Zenon
    <2>4. n \in Nat /\ k \in 1 .. n
      OBVIOUS
    <2>5. \A i, j \in 1 .. n : q[i] = q[j] => i = j
      BY DEF IsInjective
    <2> HIDE DEF r, n
    <2>6. ASSUME NEW i \in 1 .. n - 1
          PROVE  f(i) \in 1 .. n /\ f(i) # k /\ r[i] = q[f(i)]
      <3>1. CASE i < k
        BY <2>2, <2>4, <3>1
      <3>2. CASE i >= k
        BY <2>2, <2>4, <3>2
      <3> QED
        BY <2>4, <3>1, <3>2
    <2>7. \A i, j \in 1 .. n - 1 : f(i) = f(j) => i = j
      BY <2>4
    <2>8. ASSUME NEW x \in 1 .. n, x # k PROVE \E i \in 1 .. n - 1 : f(i) = x
      <3>1. CASE x < k
        <4>1. x \in 1 .. n - 1 /\ f(x) = x
          BY <2>4, <3>1
        <4> QED
          BY <4>1, Zenon
      <3>2. CASE x > k
        <4>1. x - 1 \in 1 .. n - 1 /\ f(x - 1) = x
          BY <2>4, <3>2
        <4> QED
          BY <4>1, Zenon
      <3> QED
        BY <2>4, <2>8, <3>1, <3>2
    <2> HIDE DEF f
    <2>9. IsInjective(r)
      <3>1. DOMAIN r = 1 .. n - 1
        BY <2>2
      <3>2. ASSUME NEW i \in 1 .. n - 1, NEW j \in 1 .. n - 1, r[i] = r[j]
            PROVE  i = j
        <4>1. f(i) = f(j)
          BY <2>5, <2>6, <3>2, Zenon
        <4> QED
          BY <2>7, <4>1, Zenon
      <3> QED
        BY <3>1, <3>2, Zenon DEF IsInjective
    <2>10. /\ \A i \in 1 .. n - 1 : r[i] \in ToSet(r)
           /\ \A x \in ToSet(r) : \E i \in 1 .. n - 1 : r[i] = x
           /\ \A i \in 1 .. n : q[i] \in ToSet(q)
           /\ \A x \in ToSet(q) : \E i \in 1 .. n : q[i] = x
      BY <2>2, InSet, ZenonT(40) DEF n
    <2>11. s \notin ToSet(r)
      <3> SUFFICES ASSUME s \in ToSet(r) PROVE FALSE
        BY Zenon
      <3>1. PICK i \in 1 .. n - 1 : r[i] = s
        BY <2>10, Zenon
      <3>2. q[f(i)] = q[k] /\ f(i) \in 1 .. n /\ f(i) # k
        BY <2>1, <2>6, <3>1, Zenon
      <3> QED
        BY <2>4, <2>5, <3>2, Zenon
    <2>12. ASSUME NEW x \in ToSet(r) PROVE x \in ToSet(q)
      <3>1. PICK i \in 1 .. n - 1 : r[i] = x
        BY <2>10, Zenon
      <3> QED
        BY <2>6, <2>10, <3>1, Zenon
    <2>13. ASSUME NEW x \in ToSet(q), x # s PROVE x \in ToSet(r)
      <3>1. PICK j \in 1 .. n : q[j] = x
        BY <2>10, Zenon
      <3>2. PICK i \in 1 .. n - 1 : f(i) = j
        BY <2>1, <2>8, <2>13, <3>1, Zenon
      <3> QED
        BY <2>6, <2>10, <3>1, <3>2, Zenon
    <2>14. ToSet(r) \union {s} = ToSet(q)
      BY <1>2, <2>12, <2>13, Zenon
    <2>15. m \in Seq(Slot) /\ IsInjective(m) /\ ToSet(m) = ToSet(r) \union {s} /\ Len(m) = Len(r) + 1
      BY <2>2, <2>3, <2>9, <2>11, ConsFacts, Zenon
    <2>16. Len(m) = n
      BY <2>2, <2>4, <2>15, SMTT(20)
    <2> QED
      BY <1>2, <2>14, <2>15, <2>16, Zenon DEF n
  <1> QED
    BY <1>1, <1>2, Zenon

\* The length of a list without repetition is the number of its slots.
LEMMA LengthCounts ==
    ASSUME NEW q \in Seq(Slot), IsInjective(q)
    PROVE  IsFiniteSet(ToSet(q)) /\ Cardinality(ToSet(q)) = Len(q)
  <1>1. q \in [1 .. Len(q) -> ToSet(q)]
    BY InSet
  <1>2. \A i, j \in 1 .. Len(q) : q[i] = q[j] => i = j
    BY DEF IsInjective
  <1>3. ExistsBijection(1 .. Len(q), ToSet(q))
    BY <1>1, <1>2, InSet, Zenon DEF ExistsBijection, Bijection, Injection, Surjection, IsInjective
  <1>4. Len(q) \in Nat
    OBVIOUS
  <1>5. IsFiniteSet(1 .. Len(q)) /\ Cardinality(1 .. Len(q)) = Len(q)
    BY <1>4, FS_Interval, SMTT(20)
  <1> QED
    BY <1>3, <1>5, FS_Bijection, Zenon

\* Some slots of the list are finitely many, and all of them are its length.
LEMMA SlotsCount ==
    ASSUME NEW q \in Seq(Slot), IsInjective(q), NEW N, N \subseteq ToSet(q)
    PROVE  Cardinality(N) \in Nat /\ (ToSet(q) \subseteq N => Cardinality(N) = Len(q))
  <1>1. IsFiniteSet(ToSet(q)) /\ Cardinality(ToSet(q)) = Len(q)
    BY LengthCounts, Zenon
  <1>2. IsFiniteSet(N)
    BY <1>1, FS_Subset, Zenon
  <1>3. Cardinality(N) \in Nat
    BY <1>2, FS_CardinalityType, Zenon
  <1>4. ASSUME ToSet(q) \subseteq N PROVE Cardinality(N) = Len(q)
    <2>1. N = ToSet(q)
      BY <1>4, Zenon
    <2> QED
      BY <1>1, <2>1, Zenon
  <1> QED
    BY <1>3, <1>4, Zenon

\* The scan ends with a slot that may be evicted if there is one.
LEMMA VictimFacts ==
    ASSUME lru \in Seq(Slot)
    PROVE  /\ Victim = 0 => Evictable = {}
           /\ Victim # 0 => Victim \in 1 .. Len(lru) /\ lru[Victim] \in Evictable
  <1> DEFINE I == {i \in 1 .. Len(lru) : lru[i] \in Evictable}
  <1>1. Victim = IF I # {} THEN Max(I) ELSE 0
    BY Zenon DEF Victim, SelectLastInSeq
  <1>2. I = {} => Evictable = {}
    BY InSet, Zenon DEF Evictable, InList
  <1>3. ASSUME I # {} PROVE Max(I) \in I
    <2> DEFINE J == {Len(lru) - i : i \in I}
    <2>1. J # {} /\ J \subseteq Nat
      BY <1>3
    <2>2. PICK j \in J : \A k \in J : ~(<<k, j>> \in OpToRel(<, Nat))
      BY <2>1, NatLessThanWellFounded, WFMin, Zenon
    <2>3. PICK x \in I : j = Len(lru) - x
      BY Zenon
    <2>4. \A y \in I : x >= y
      <3> SUFFICES ASSUME NEW y \in I PROVE x >= y
        BY Zenon
      <3>1. Len(lru) - y \in J /\ Len(lru) - y \in Nat /\ j \in Nat
        BY <2>1, Zenon
      <3>2. ~(Len(lru) - y < j)
        BY <2>2, <3>1, Zenon DEF OpToRel
      <3> QED
        BY <2>3, <3>2
    <2>5. \E z \in I : \A y \in I : z >= y
      BY <2>4, Zenon
    <2> HIDE DEF I
    <2> QED
      BY <2>5, Zenon DEF Max
  <1> QED
    BY <1>1, <1>2, <1>3

\* Choosing a slot moves it to the front of the list.
LEMMA ChosenFacts ==
    ASSUME TypeOK, NEW c \in Claim, NEW s \in Slot, Chosen(c, s)
    PROVE  /\ lru' \in Seq(Slot) /\ IsInjective(lru') /\ InList' = InList \union {s}
           /\ s \in InList => Len(lru') = Len(lru)
           /\ s \notin InList => Len(lru') = Len(lru) + 1
           /\ Len(lru) \in Nat
           /\ slot' = [slot EXCEPT ![c] = s] /\ slot' \in [Claim -> Slot]
           /\ acquired' = acquired \union {s}
  <1>1. lru \in Seq(Slot) /\ IsInjective(lru) /\ lru' = <<s>> \o RemoveFirst(lru, s)
    BY Zenon DEF TypeOK, Chosen, MoveToFront
  <1>2. /\ lru' \in Seq(Slot) /\ IsInjective(lru') /\ InList' = InList \union {s}
        /\ s \in InList => Len(lru') = Len(lru)
        /\ s \notin InList => Len(lru') = Len(lru) + 1
    BY <1>1, FrontFacts, Zenon DEF InList
  <1>3. slot' = [slot EXCEPT ![c] = s] /\ slot' \in [Claim -> Slot]
    BY Zenon DEF TypeOK, Chosen
  <1> QED
    BY <1>1, <1>2, <1>3 DEF Chosen

-----------------------------------------------------------------------------
(* cache_acquire *)

\* Whatever the search ends with, the claim gets a slot of the list; a slot
\* that changes its block was not in use; the list grows only where it is below
\* the threshold or every slot is in use.
LEMMA AcquireCases ==
    ASSUME BInv, NEW c \in Claim, NEW b \in BlockNo, cache_acquire(c, b)
    PROVE  \E s \in Slot :
        /\ Chosen(c, s)
        /\ \/ /\ s \in InList /\ block_no[s] = b
              /\ block_no' = block_no /\ valid' = valid /\ data' = data
           \/ /\ \A r \in InList : block_no[r] # b
              /\ block_no' = [block_no EXCEPT ![s] = b]
              /\ s \in InList => s \notin acquired /\ s \notin pinned
              /\ valid' = valid \ {s}
              /\ data' \in [Slot -> Data] /\ \A r \in Slot : r # s => data'[r] = data[r]
              /\ s \notin InList => Len(lru) < Threshold \/ InList \subseteq acquired \union pinned
  <1>1. CASE Hit(c, b)
    BY <1>1 DEF Hit, Hits, InList, BInv, TypeOK, ToSet
  <1>2. CASE Evict(c, b)
    <2> DEFINE s == lru[Victim]
    <2>1. s \in InList /\ s \in Slot /\ s \notin acquired /\ s \notin pinned
      BY <1>2, VictimFacts DEF Evict, Evictable, BInv, TypeOK
    <2>2. /\ Chosen(c, s) /\ Hits(b) = {} /\ valid' = valid \ {s} /\ data' = data
          /\ block_no' = [block_no EXCEPT ![s] = b]
      BY <1>2, Zenon DEF Evict
    <2> HIDE DEF s
    <2> QED
      BY <2>1, <2>2, ZenonT(40) DEF Hits, BInv, TypeOK
  <1>3. CASE Grow(c, b)
    <2> DEFINE s == CHOOSE x \in Slot \ InList : TRUE
    <2>1. s \in Slot /\ s \notin InList
      BY <1>3, Zenon DEF Grow
    <2>2. /\ Chosen(c, s) /\ Hits(b) = {} /\ valid' = valid
          /\ block_no' = [block_no EXCEPT ![s] = b] /\ data' = [data EXCEPT ![s] = AnyData]
      BY <1>3, Zenon DEF Grow
    <2>3. Len(lru) < Threshold \/ InList \subseteq acquired \union pinned
      BY <1>3, VictimFacts, Zenon DEF Grow, Evictable, BInv, TypeOK
    <2>4. AnyData \in Data
      BY CacheAssumption, Zenon DEF AnyData
    <2> HIDE DEF s
    <2>5. data' \in [Slot -> Data] /\ \A r \in Slot : r # s => data'[r] = data[r]
      BY <2>2, <2>4, ZenonT(40) DEF BInv, TypeOK
    <2>6. valid' = valid \ {s} /\ \A r \in InList : block_no[r] # b
      BY <2>1, <2>2, Zenon DEF Hits, BInv, TypeOK
    <2> QED
      BY <2>1, <2>2, <2>3, <2>5, <2>6, ZenonT(40)
  <1> QED
    BY <1>1, <1>2, <1>3, Zenon DEF cache_acquire

\* Claims other than the caller's keep their slot and their place.
LEMMA AcquireFrame ==
    ASSUME BInv, NEW c \in Claim, NEW b \in BlockNo, cache_acquire(c, b),
           NEW s \in Slot, Chosen(c, s)
    PROVE  /\ pc[c] = "idle" /\ pc' = [pc EXCEPT ![c] = "lock"] /\ pc' \in [Claim -> PC]
           /\ \A u \in Claim : u # c => pc'[u] = pc[u] /\ slot'[u] = slot[u] /\ want'[u] = want[u]
           /\ pc'[c] = "lock" /\ slot'[c] = s /\ want'[c] = b /\ want' \in [Claim -> BlockNo]
           /\ \A u \in Claim : Owns(u)' => u # c /\ Owns(u)
           /\ \A u \in Claim : u # c => Using(u)' = Using(u)
           /\ Unsynced' = Unsynced
           /\ peak' = IF Cardinality(Needed') > peak THEN Cardinality(Needed') ELSE peak
           /\ UNCHANGED <<pinned, locked, disk, content, flagLost>>
  <1>1. /\ pc[c] = "idle" /\ pc' = [pc EXCEPT ![c] = "lock"] /\ want' = [want EXCEPT ![c] = b]
        /\ peak' = IF Cardinality(Needed') > peak THEN Cardinality(Needed') ELSE peak
        /\ UNCHANGED <<pinned, locked, disk, content, flagLost>>
    BY Zenon DEF cache_acquire, Goto, Hit, Evict, Grow
  <1>2. slot' = [slot EXCEPT ![c] = s]
    BY Zenon DEF Chosen
  <1>3. /\ \A u \in Claim : u # c => pc'[u] = pc[u] /\ slot'[u] = slot[u] /\ want'[u] = want[u]
        /\ pc'[c] = "lock" /\ slot'[c] = s /\ want'[c] = b /\ want' \in [Claim -> BlockNo]
        /\ pc' \in [Claim -> PC]
    BY <1>1, <1>2, Zenon DEF BInv, TypeOK, PC
  <1>4. \A u \in Claim : Owns(u)' => u # c /\ Owns(u)
    BY <1>3, Zenon DEF Owns
  <1>5. \A u \in Claim : u # c => Using(u)' = Using(u)
    BY <1>3, Zenon DEF Using
  <1>6. Unsynced' = Unsynced
    BY <1>1, <1>3 DEF Unsynced
  <1> QED
    BY <1>1, <1>3, <1>4, <1>5, <1>6, Zenon

\* The search keeps the invariant.
LEMMA AcquireInv ==
    ASSUME BInv, NEW c \in Claim, NEW b \in BlockNo, cache_acquire(c, b)
    PROVE  BInv'
  <1>1. PICK s \in Slot :
        /\ Chosen(c, s)
        /\ \/ /\ s \in InList /\ block_no[s] = b
              /\ block_no' = block_no /\ valid' = valid /\ data' = data
           \/ /\ \A r \in InList : block_no[r] # b
              /\ block_no' = [block_no EXCEPT ![s] = b]
              /\ s \in InList => s \notin acquired /\ s \notin pinned
              /\ valid' = valid \ {s}
              /\ data' \in [Slot -> Data] /\ \A r \in Slot : r # s => data'[r] = data[r]
              /\ s \notin InList => Len(lru) < Threshold \/ InList \subseteq acquired \union pinned
    BY AcquireCases, Zenon
  <1>2. /\ lru' \in Seq(Slot) /\ IsInjective(lru') /\ InList' = InList \union {s}
        /\ s \in InList => Len(lru') = Len(lru)
        /\ s \notin InList => Len(lru') = Len(lru) + 1
        /\ Len(lru) \in Nat
        /\ slot' \in [Claim -> Slot] /\ acquired' = acquired \union {s}
    BY <1>1, ChosenFacts, Zenon DEF BInv
  <1>3. /\ pc[c] = "idle" /\ pc' \in [Claim -> PC]
        /\ \A u \in Claim : u # c => pc'[u] = pc[u] /\ slot'[u] = slot[u] /\ want'[u] = want[u]
        /\ pc'[c] = "lock" /\ slot'[c] = s /\ want'[c] = b /\ want' \in [Claim -> BlockNo]
        /\ \A u \in Claim : Owns(u)' => u # c /\ Owns(u)
        /\ \A u \in Claim : u # c => Using(u)' = Using(u)
        /\ Unsynced' = Unsynced
        /\ peak' = IF Cardinality(Needed') > peak THEN Cardinality(Needed') ELSE peak
        /\ UNCHANGED <<pinned, locked, disk, content, flagLost>>
    BY <1>1, AcquireFrame, Zenon
  <1>4. Dirty' = Dirty /\ InList \subseteq InList' /\ InList \subseteq Slot
    BY <1>2, <1>3, InSet, Zenon DEF Dirty, BInv, TypeOK, InList
  <1>5. block_no' \in [Slot -> BlockNo] /\ data' \in [Slot -> Data] /\ valid' \subseteq valid
    <2>1. /\ block_no' = block_no \/ block_no' = [block_no EXCEPT ![s] = b]
          /\ valid' = valid \/ valid' = valid \ {s}
          /\ data' = data \/ data' \in [Slot -> Data]
      BY <1>1, Zenon
    <2>2. block_no \in [Slot -> BlockNo] /\ data \in [Slot -> Data]
      BY Zenon DEF BInv, TypeOK
    <2>3. [block_no EXCEPT ![s] = b] \in [Slot -> BlockNo]
      BY <2>2, Zenon
    <2> QED
      BY <2>1, <2>2, <2>3, Zenon
  <1>6. SlotInv'
    BY <1>2, <1>3, Zenon DEF BInv, SlotInv
  <1>7. OwnerInv'
    BY <1>3, Zenon DEF BInv, OwnerInv
  <1>8. LabelInv'
    BY <1>1, <1>2, <1>4 DEF BInv, LabelInv, TypeOK
  <1>9. FlagInv'
    BY <1>2, <1>3 DEF BInv, FlagInv
  <1>10. /\ peak \in Nat /\ Cardinality(Needed') \in Nat
         /\ InList' \subseteq Needed' => Cardinality(Needed') = Len(lru')
    <2>1. Needed' \subseteq InList'
      <3>1. pinned' \subseteq InList'
        BY <1>3, <1>4, Zenon DEF BInv, TypeOK
      <3> QED
        BY <1>6, <3>1, Zenon DEF SlotInv, Needed
    <2>2. peak \in Nat
      BY Zenon DEF BInv, TypeOK
    <2> QED
      BY <1>2, <2>1, <2>2, SlotsCount, Zenon DEF InList
  <1>11. TypeOK'
    <2>1. peak' \in Nat
      BY <1>3, <1>10, Zenon
    <2> QED
      BY <1>2, <1>3, <1>4, <1>5, <2>1, Zenon DEF BInv, TypeOK
  <1>12. CacheBounded'
    <2>1. peak' >= peak /\ peak' >= Cardinality(Needed')
      BY <1>3, <1>10
    <2>2. CASE s \in InList
      <3>1. Len(lru) <= Threshold \/ Len(lru) <= peak
        BY Zenon DEF BInv, CacheBounded
      <3>2. peak' \in Nat /\ peak \in Nat /\ peak' >= peak
        BY <1>10, <1>11, <2>1, Zenon DEF TypeOK
      <3>3. Len(lru') = Len(lru) /\ Len(lru) \in Nat
        BY <1>2, <2>2, Zenon
      <3>4. Len(lru) <= peak => Len(lru) <= peak'
        BY <3>2, <3>3
      <3> QED
        BY <3>1, <3>3, <3>4, Zenon DEF CacheBounded
    <2>3. CASE s \notin InList /\ Len(lru) < Threshold
      BY <1>2, <2>3, CacheAssumption DEF CacheBounded
    <2>4. CASE s \notin InList /\ InList \subseteq acquired \union pinned
      <3>1. InList' \subseteq acquired' \union pinned'
        BY <1>2, <1>3, <2>4, Zenon
      <3>2. acquired' \union pinned' \subseteq Needed'
        BY <1>9, Zenon DEF FlagInv, Needed
      <3>3. Cardinality(Needed') = Len(lru')
        BY <1>10, <3>1, <3>2, Zenon
      <3> QED
        BY <2>1, <3>3, Zenon DEF CacheBounded
    <2> QED
      BY <1>1, <2>2, <2>3, <2>4, Zenon
  <1>13. ASSUME ~flagLost' PROVE UseInv' /\ DataInv'
    <2>1. UseInv /\ DataInv
      BY <1>3, <1>13, Zenon DEF BInv
    <2>2. \A u \in Claim : Using(u) => u # c /\ slot[u] \in acquired
      BY <1>3, <2>1, Zenon DEF UseInv, Using
    <2>3. Dirty \subseteq acquired \union pinned /\ Dirty \subseteq InList
      BY <2>2, Zenon DEF Dirty, Unsynced, Using, BInv, TypeOK
    <2>4. \A r \in Slot : r # s => block_no'[r] = block_no[r] /\ data'[r] = data[r]
      BY <1>1, Zenon DEF BInv, TypeOK
    <2>5. block_no'[s] = b
      BY <1>1, Zenon DEF BInv, TypeOK
    <2>6. \A r \in InList : r \in acquired \union pinned => block_no'[r] = block_no[r] /\ (r \in valid' <=> r \in valid)
      BY <1>1, <1>4, <2>4, Zenon
    <2>7. UseInv'
      <3>1. ASSUME NEW u \in Claim, u # c
            PROVE  /\ Using(u)' => slot'[u] \in acquired' /\ block_no'[slot'[u]] = want'[u]
                   /\ pc'[u] = "read" => slot'[u] \notin valid'
                   /\ pc'[u] \in {"hold", "dirty"} => slot'[u] \in valid'
        <4>1. /\ slot'[u] = slot[u] /\ want'[u] = want[u] /\ pc'[u] = pc[u]
              /\ Using(u)' = Using(u)
          BY <1>3, <3>1, Zenon
        <4>2. Using(u) => slot[u] \in acquired /\ slot[u] \in InList
          BY <2>2, Zenon DEF BInv, TypeOK
        <4>3. pc[u] = "read" \/ pc[u] \in {"hold", "dirty"} => Using(u)
          BY Zenon DEF Using
        <4> QED
          BY <1>2, <2>1, <2>6, <4>1, <4>2, <4>3 DEF UseInv
      <3>2. Using(c)' => slot'[c] \in acquired' /\ block_no'[slot'[c]] = want'[c]
        BY <1>2, <1>3, <2>5, Zenon
      <3> QED
        BY <1>3, <3>1, <3>2, Zenon DEF UseInv
    <2>8. Dirty' \subseteq valid'
      BY <1>4, <2>1, <2>3, <2>6, Zenon DEF DataInv
    <2>9. \A r \in valid' : data'[r] = content'[block_no'[r]]
      <3>1. s \in valid' => block_no' = block_no /\ data' = data
        BY <1>1, Zenon
      <3>2. \A r \in valid' : r \in Slot /\ r \in valid
        BY <1>4, <1>5, Zenon DEF BInv, TypeOK
      <3> QED
        BY <1>3, <2>1, <2>4, <3>1, <3>2, ZenonT(40) DEF DataInv
    <2>10. \A x \in BlockNo : disk'[x] # content'[x] => \E r \in Dirty' : block_no'[r] = x
      BY <1>3, <1>4, <2>1, <2>3, <2>6 DEF DataInv
    <2> QED
      BY <2>7, <2>8, <2>9, <2>10, Zenon DEF DataInv
  <1> QED
    BY <1>6, <1>7, <1>8, <1>9, <1>11, <1>12, <1>13, ZenonT(40) DEF BInv

-----------------------------------------------------------------------------
(* The other actions leave list and labels alone *)

\* What a step of claim c leaves alone when the list, the labels and the
\* choices of the other claims stay.
Steady(c) ==
    /\ lru' = lru /\ block_no' = block_no /\ peak' = peak
    /\ pc' \in [Claim -> PC] /\ slot' \in [Claim -> Slot] /\ want' \in [Claim -> BlockNo]
    /\ \A u \in Claim : u # c => pc'[u] = pc[u] /\ slot'[u] = slot[u] /\ want'[u] = want[u]

\* Such a step keeps what speaks of the list only.
LEMMA SteadyFacts ==
    ASSUME BInv, NEW c \in Claim, Steady(c)
    PROVE  /\ InList' = InList /\ LabelInv' /\ CacheBounded'
           /\ \A u \in Claim : u # c => Owns(u)' = Owns(u) /\ Using(u)' = Using(u)
  <1>1. InList' = InList
    BY Zenon DEF Steady, InList
  <1>2. LabelInv'
    BY <1>1, Zenon DEF BInv, LabelInv, Steady
  <1>3. CacheBounded'
    BY Zenon DEF BInv, CacheBounded, Steady
  <1>4. \A u \in Claim : u # c => Owns(u)' = Owns(u) /\ Using(u)' = Using(u)
    BY Zenon DEF Steady, Owns, Using
  <1> QED
    BY <1>1, <1>2, <1>3, <1>4, Zenon

\* Taking the sleeping lock of the slot keeps the invariant.
LEMMA SleeplockInv ==
    ASSUME BInv, NEW c \in Claim, acquire_sleeplock(c)
    PROVE  BInv'
  <1>1. /\ pc[c] = "lock" /\ slot[c] \notin locked /\ locked' = locked \union {slot[c]}
        /\ pc' = [pc EXCEPT ![c] = IF slot[c] \in valid THEN "hold" ELSE "read"]
        /\ UNCHANGED <<lru, block_no, acquired, pinned, valid, data, disk, want, slot, content, flagLost, peak>>
    BY Zenon DEF acquire_sleeplock, Goto, listVars
  <1>2. Steady(c) /\ pc'[c] = IF slot[c] \in valid THEN "hold" ELSE "read"
    BY <1>1, Zenon DEF BInv, TypeOK, PC, Steady
  <1>3. /\ InList' = InList /\ LabelInv' /\ CacheBounded'
        /\ \A u \in Claim : u # c => Owns(u)' = Owns(u) /\ Using(u)' = Using(u)
    BY <1>2, SteadyFacts, Zenon
  <1>4. Unsynced' = Unsynced /\ Dirty' = Dirty
    BY <1>1, <1>2, Zenon DEF Unsynced, Dirty, Steady
  <1>5. slot[c] \in InList /\ Using(c)
    BY <1>1, Zenon DEF BInv, SlotInv, Using
  <1>6. TypeOK'
    BY <1>1, <1>2, <1>3, <1>5, Zenon DEF BInv, TypeOK, Steady
  <1>7. SlotInv'
    BY <1>1, <1>2, <1>3, <1>5, Zenon DEF BInv, SlotInv, Steady
  <1>8. OwnerInv'
    BY <1>1, <1>3, Zenon DEF BInv, SlotInv, OwnerInv
  <1>9. FlagInv'
    BY <1>1, <1>2, Zenon DEF BInv, FlagInv, Steady
  <1>10. ASSUME ~flagLost' PROVE UseInv' /\ DataInv'
    <2>1. UseInv /\ DataInv
      BY <1>1, <1>10, Zenon DEF BInv
    <2>2. UseInv'
      BY <1>1, <1>2, <1>3, <1>5, <2>1, ZenonT(40) DEF UseInv, Steady
    <2>3. DataInv'
      BY <1>1, <1>4, <2>1, Zenon DEF DataInv
    <2> QED
      BY <2>2, <2>3, Zenon
  <1> QED
    BY <1>3, <1>6, <1>7, <1>8, <1>9, <1>10, ZenonT(40) DEF BInv

\* Loading a slot keeps the invariant: a block that the disk does not have up to
\* date is in a loaded slot, so it is not the one that is being read.
LEMMA ReadInv ==
    ASSUME BInv, NEW c \in Claim, device_read(c)
    PROVE  BInv'
  <1>1. /\ pc[c] = "read" /\ valid' = valid \union {slot[c]} /\ pc' = [pc EXCEPT ![c] = "hold"]
        /\ data' = [data EXCEPT ![slot[c]] = disk[block_no[slot[c]]]]
        /\ UNCHANGED <<lru, block_no, acquired, pinned, locked, disk, want, slot, content, flagLost, peak>>
    BY Zenon DEF device_read, Goto, listVars
  <1>2. Steady(c) /\ pc'[c] = "hold"
    BY <1>1, Zenon DEF BInv, TypeOK, PC, Steady
  <1>3. /\ InList' = InList /\ LabelInv' /\ CacheBounded'
        /\ \A u \in Claim : u # c => Owns(u)' = Owns(u) /\ Using(u)' = Using(u)
    BY <1>2, SteadyFacts, Zenon
  <1>4. Unsynced' = Unsynced /\ Dirty' = Dirty
    BY <1>1, <1>2 DEF Unsynced, Dirty, Steady
  <1>5. slot[c] \in InList /\ slot[c] \in Slot /\ Using(c) /\ Owns(c)
    BY <1>1, Zenon DEF BInv, SlotInv, Using, Owns, TypeOK
  <1>6. TypeOK'
    BY <1>1, <1>2, <1>3, <1>5, Zenon DEF BInv, TypeOK, Steady
  <1>7. SlotInv'
    BY <1>1, <1>2, <1>3, <1>5, Zenon DEF BInv, SlotInv, Steady
  <1>8. OwnerInv'
    BY <1>1, <1>3, <1>5, Zenon DEF BInv, OwnerInv
  <1>9. FlagInv'
    BY <1>1, <1>2, ZenonT(40) DEF BInv, FlagInv, Steady
  <1>10. ASSUME ~flagLost' PROVE UseInv' /\ DataInv'
    <2>1. UseInv /\ DataInv
      BY <1>1, <1>10, Zenon DEF BInv
    <2>2. \A u \in Claim : u # c /\ pc[u] = "read" => slot[u] # slot[c]
      BY <1>5, Zenon DEF BInv, OwnerInv, Owns
    <2>3. UseInv'
      BY <1>1, <1>2, <1>3, <1>5, <2>1, <2>2, ZenonT(40) DEF UseInv, Steady
    <2>4. slot[c] \notin valid
      BY <1>1, <2>1, Zenon DEF UseInv
    <2>5. Dirty \subseteq InList
      BY <2>1, Zenon DEF DataInv, BInv, TypeOK
    <2>6. disk[block_no[slot[c]]] = content[block_no[slot[c]]]
      BY <1>5, <2>1, <2>4, <2>5 DEF DataInv, BInv, LabelInv, TypeOK
    <2>7. DataInv'
      BY <1>1, <1>4, <1>5, <2>1, <2>6 DEF DataInv, BInv, TypeOK
    <2> QED
      BY <2>3, <2>7, Zenon
  <1> QED
    BY <1>3, <1>6, <1>7, <1>8, <1>9, <1>10, Zenon DEF BInv

\* Storing keeps the invariant: no other slot has the label of this one.
LEMMA StoreInv ==
    ASSUME BInv, NEW c \in Claim, NEW d \in Data, store(c, d)
    PROVE  BInv'
  <1>1. /\ pc[c] = "hold" /\ pc' = [pc EXCEPT ![c] = "dirty"]
        /\ data' = [data EXCEPT ![slot[c]] = d] /\ content' = [content EXCEPT ![want[c]] = d]
        /\ UNCHANGED <<lru, block_no, acquired, pinned, valid, locked, disk, want, slot, flagLost, peak>>
    BY Zenon DEF store, Goto, listVars
  <1>2. Steady(c) /\ pc'[c] = "dirty"
    BY <1>1, Zenon DEF BInv, TypeOK, PC, Steady
  <1>3. /\ InList' = InList /\ LabelInv' /\ CacheBounded'
        /\ \A u \in Claim : u # c => Owns(u)' = Owns(u) /\ Using(u)' = Using(u)
    BY <1>2, SteadyFacts, Zenon
  <1>4. Unsynced' = Unsynced \union {slot[c]}
    BY <1>1, <1>2, ZenonT(40) DEF Unsynced, Steady
  <1>5. Dirty' = Dirty \union {slot[c]} /\ Dirty' = pinned \union Unsynced \union {slot[c]}
    BY <1>1, <1>4, Zenon DEF Dirty
  <1>6. slot[c] \in InList /\ slot[c] \in Slot /\ Using(c) /\ Owns(c)
    BY <1>1, Zenon DEF BInv, SlotInv, Using, Owns, TypeOK
  <1>7. TypeOK'
    BY <1>1, <1>2, <1>3, <1>6, Zenon DEF BInv, TypeOK, Steady
  <1>8. SlotInv'
    BY <1>1, <1>2, <1>3, <1>6, Zenon DEF BInv, SlotInv, Steady
  <1>9. OwnerInv'
    BY <1>1, <1>3, <1>6, Zenon DEF BInv, OwnerInv
  <1>10. FlagInv'
    BY <1>1, <1>2, Zenon DEF BInv, FlagInv, Steady
  <1>11. ASSUME ~flagLost' PROVE UseInv' /\ DataInv'
    <2>1. UseInv /\ DataInv
      BY <1>1, <1>11, Zenon DEF BInv
    <2>2. UseInv'
      BY <1>1, <1>2, <1>3, <1>6, <2>1, Zenon DEF UseInv, Steady
    <2>3. slot[c] \in valid /\ block_no[slot[c]] = want[c] /\ want[c] \in BlockNo
      BY <1>1, <1>6, <2>1, Zenon DEF UseInv, BInv, TypeOK
    <2>4. Dirty' \subseteq valid'
      BY <1>1, <1>5, <2>1, <2>3, Zenon DEF DataInv
    <2>5. ASSUME NEW s \in valid' PROVE data'[s] = content'[block_no'[s]]
      <3>1. s \in valid /\ s \in InList /\ s \in Slot /\ block_no[s] \in BlockNo
        BY <1>1, InSet, Zenon DEF BInv, TypeOK, InList
      <3>2. CASE s = slot[c]
        BY <1>1, <2>3, <3>1, <3>2, ZenonT(40) DEF BInv, TypeOK
      <3>3. CASE s # slot[c]
        <4>1. block_no[s] # want[c]
          BY <1>6, <2>3, <3>1, <3>3, Zenon DEF BInv, LabelInv
        <4> QED
          BY <1>1, <2>1, <3>1, <3>3, <4>1, ZenonT(40) DEF DataInv, BInv, TypeOK
      <3> QED
        BY <3>2, <3>3, Zenon
    <2>6. \A b \in BlockNo : disk'[b] # content'[b] => \E s \in Dirty' : block_no'[s] = b
      BY <1>1, <1>5, <2>1, <2>3, ZenonT(40) DEF DataInv, BInv, TypeOK
    <2> QED
      BY <2>2, <2>4, <2>5, <2>6, Zenon DEF DataInv
  <1> QED
    BY <1>3, <1>7, <1>8, <1>9, <1>10, <1>11, ZenonT(40) DEF BInv

\* Pinning keeps the invariant: the slot was already counted as changed.
LEMMA SyncInv ==
    ASSUME BInv, NEW c \in Claim, cache_sync(c)
    PROVE  BInv'
  <1>1. /\ pc[c] = "dirty" /\ pc' = [pc EXCEPT ![c] = "hold"] /\ pinned' = pinned \union {slot[c]}
        /\ UNCHANGED <<lru, block_no, acquired, valid, locked, data, disk, want, slot, content, flagLost, peak>>
    BY Zenon DEF cache_sync, Goto, slotVars
  <1>2. Steady(c) /\ pc'[c] = "hold"
    BY <1>1, Zenon DEF BInv, TypeOK, PC, Steady
  <1>3. /\ InList' = InList /\ LabelInv' /\ CacheBounded'
        /\ \A u \in Claim : u # c => Owns(u)' = Owns(u) /\ Using(u)' = Using(u)
    BY <1>2, SteadyFacts, Zenon
  <1>4. Unsynced = Unsynced' \union {slot[c]}
    BY <1>1, <1>2 DEF Unsynced, Steady
  <1>5. Dirty' = Dirty
    BY <1>1, <1>4, Zenon DEF Dirty
  <1>6. slot[c] \in InList /\ Using(c) /\ Owns(c)
    BY <1>1, Zenon DEF BInv, SlotInv, Using, Owns
  <1>7. TypeOK'
    BY <1>1, <1>2, <1>3, <1>6, Zenon DEF BInv, TypeOK, Steady
  <1>8. SlotInv'
    BY <1>1, <1>2, <1>3, <1>6, Zenon DEF BInv, SlotInv, Steady
  <1>9. OwnerInv'
    BY <1>1, <1>3, <1>6, Zenon DEF BInv, OwnerInv
  <1>10. FlagInv'
    BY <1>1, <1>2, Zenon DEF BInv, FlagInv, Steady
  <1>11. ASSUME ~flagLost' PROVE UseInv' /\ DataInv'
    <2>1. UseInv /\ DataInv
      BY <1>1, <1>11, Zenon DEF BInv
    <2>2. UseInv'
      BY <1>1, <1>2, <1>3, <1>6, <2>1, Zenon DEF UseInv, Steady
    <2>3. DataInv'
      BY <1>1, <1>5, <2>1, Zenon DEF DataInv
    <2> QED
      BY <2>2, <2>3, Zenon
  <1> QED
    BY <1>3, <1>7, <1>8, <1>9, <1>10, <1>11, Zenon DEF BInv

\* Writing a block home keeps the invariant.
LEMMA ReplayInv ==
    ASSUME BInv, NEW c \in Claim, replay(c)
    PROVE  BInv'
  <1>1. /\ pc[c] = "hold" /\ slot[c] \in pinned /\ pinned' = pinned \ {slot[c]}
        /\ disk' = [disk EXCEPT ![block_no[slot[c]]] = data[slot[c]]]
        /\ UNCHANGED <<lru, block_no, acquired, valid, locked, data, pc, want, slot, content, flagLost, peak>>
    BY ZenonT(40) DEF replay, slotVars
  <1>2. Steady(c)
    BY <1>1, Zenon DEF BInv, TypeOK, Steady
  <1>3. InList' = InList /\ LabelInv' /\ CacheBounded'
    BY <1>2, SteadyFacts, Zenon
  <1>4. Dirty' \subseteq Dirty /\ Dirty \subseteq Dirty' \union {slot[c]}
    BY <1>1, Zenon DEF Dirty, Unsynced
  <1>5. slot[c] \in InList /\ slot[c] \in Slot
    BY <1>1, Zenon DEF BInv, SlotInv, TypeOK
  <1>6. TypeOK'
    BY <1>1, <1>3, <1>5, Zenon DEF BInv, TypeOK
  <1>7. SlotInv' /\ OwnerInv' /\ FlagInv'
    BY <1>1, <1>3, Zenon DEF BInv, SlotInv, OwnerInv, FlagInv, Owns
  <1>8. ASSUME ~flagLost' PROVE UseInv' /\ DataInv'
    <2>1. UseInv /\ DataInv
      BY <1>1, <1>8, Zenon DEF BInv
    <2>2. UseInv'
      BY <1>1, <2>1, Zenon DEF UseInv, Using
    <2>3. slot[c] \in valid /\ Dirty \subseteq InList
      BY <1>1, <2>1, Zenon DEF UseInv, DataInv, BInv, TypeOK
    <2>4. Dirty' \subseteq valid' /\ \A s \in valid' : data'[s] = content'[block_no'[s]]
      BY <1>1, <1>4, <2>1, ZenonT(40) DEF DataInv
    <2>5. disk'[block_no[slot[c]]] = content[block_no[slot[c]]]
      BY <1>1, <1>5, <2>1, <2>3, Zenon DEF DataInv, BInv, TypeOK
    <2>6. ASSUME NEW b \in BlockNo, disk'[b] # content'[b]
          PROVE  \E s \in Dirty' : block_no'[s] = b
      <3>1. b # block_no[slot[c]] /\ disk[b] # content[b]
        BY <1>1, <1>5, <2>5, <2>6, Zenon DEF BInv, TypeOK
      <3>2. PICK s \in Dirty : block_no[s] = b
        BY <2>1, <3>1, ZenonT(40) DEF DataInv
      <3> QED
        BY <1>1, <1>4, <3>1, <3>2, Zenon
    <2> QED
      BY <2>2, <2>4, <2>6, Zenon DEF DataInv
  <1> QED
    BY <1>3, <1>6, <1>7, <1>8, Zenon DEF BInv

\* The first half of cache_release keeps the invariant.
LEMMA ReleaseLockInv ==
    ASSUME BInv, NEW c \in Claim, release_sleeplock(c)
    PROVE  BInv'
  <1>1. /\ pc[c] = "hold" /\ pc' = [pc EXCEPT ![c] = "drop"] /\ locked' = locked \ {slot[c]}
        /\ UNCHANGED <<lru, block_no, acquired, pinned, valid, data, disk, want, slot, content, flagLost, peak>>
    BY Zenon DEF release_sleeplock, Goto, listVars
  <1>2. Steady(c) /\ pc'[c] = "drop"
    BY <1>1, Zenon DEF BInv, TypeOK, PC, Steady
  <1>3. /\ InList' = InList /\ LabelInv' /\ CacheBounded'
        /\ \A u \in Claim : u # c => Owns(u)' = Owns(u) /\ Using(u)' = Using(u)
    BY <1>2, SteadyFacts, Zenon
  <1>4. Unsynced' = Unsynced /\ Dirty' = Dirty
    BY <1>1, <1>2 DEF Unsynced, Dirty, Steady
  <1>5. slot[c] \in InList /\ Owns(c) /\ ~Owns(c)' /\ ~Using(c)'
    BY <1>1, <1>2, Zenon DEF BInv, SlotInv, Owns, Using
  <1>6. TypeOK'
    BY <1>1, <1>2, <1>3, Zenon DEF BInv, TypeOK, Steady
  <1>7. SlotInv'
    BY <1>1, <1>2, <1>3, <1>5, Zenon DEF BInv, SlotInv, OwnerInv, Steady
  <1>8. OwnerInv'
    BY <1>1, <1>3, <1>5, Zenon DEF BInv, OwnerInv
  <1>9. FlagInv'
    BY <1>1, <1>2, Zenon DEF BInv, FlagInv, Steady
  <1>10. ASSUME ~flagLost' PROVE UseInv' /\ DataInv'
    <2>1. UseInv /\ DataInv
      BY <1>1, <1>10, Zenon DEF BInv
    <2>2. UseInv'
      BY <1>1, <1>2, <1>3, <1>5, <2>1, Zenon DEF UseInv, Steady
    <2>3. DataInv'
      BY <1>1, <1>4, <2>1, Zenon DEF DataInv
    <2> QED
      BY <2>2, <2>3, Zenon
  <1> QED
    BY <1>3, <1>6, <1>7, <1>8, <1>9, <1>10, Zenon DEF BInv

\* The second half of cache_release keeps the invariant; where it clears the flag
\* of another claim the part about flags is no longer claimed.
LEMMA ReleaseInv ==
    ASSUME BInv, NEW c \in Claim, cache_release(c)
    PROVE  BInv'
  <1>1. /\ pc[c] = "drop" /\ pc' = [pc EXCEPT ![c] = "idle"] /\ acquired' = acquired \ {slot[c]}
        /\ want' = [want EXCEPT ![c] = AnyBlock] /\ slot' = [slot EXCEPT ![c] = AnySlot]
        /\ UNCHANGED <<lru, block_no, pinned, valid, locked, data, disk, content, peak>>
    BY Zenon DEF cache_release, Goto, slotVars
  <1>2. AnyBlock \in BlockNo /\ AnySlot \in Slot
    BY CacheAssumption, Zenon DEF AnyBlock, AnySlot
  <1>3. Steady(c) /\ pc'[c] = "idle"
    BY <1>1, <1>2, Zenon DEF BInv, TypeOK, PC, Steady
  <1>4. /\ InList' = InList /\ LabelInv' /\ CacheBounded'
        /\ \A u \in Claim : u # c => Owns(u)' = Owns(u) /\ Using(u)' = Using(u)
    BY <1>3, SteadyFacts, Zenon
  <1>5. Unsynced' = Unsynced /\ Dirty' = Dirty
    BY <1>1, <1>3 DEF Unsynced, Dirty, Steady
  <1>6. ~Owns(c)' /\ ~Using(c)'
    BY <1>3, Zenon DEF Owns, Using
  <1>7. flagLost' \in BOOLEAN
    BY Zenon DEF cache_release
  <1>8. TypeOK'
    BY <1>1, <1>3, <1>4, <1>7, Zenon DEF BInv, TypeOK, Steady
  <1>9. SlotInv'
    BY <1>1, <1>3, <1>4, <1>6, Zenon DEF BInv, SlotInv, Steady
  <1>10. OwnerInv'
    BY <1>3, <1>4, <1>6, Zenon DEF BInv, OwnerInv, Steady
  <1>11. FlagInv'
    BY <1>1, <1>3 DEF BInv, FlagInv, Steady
  <1>12. ASSUME ~flagLost' PROVE UseInv' /\ DataInv'
    <2>1. ~flagLost /\ \A u \in Claim : Using(u) => slot[u] # slot[c]
      BY <1>12, Zenon DEF cache_release
    <2>2. UseInv /\ DataInv
      BY <2>1, Zenon DEF BInv
    <2>3. UseInv'
      BY <1>1, <1>3, <1>4, <1>6, <2>1, <2>2, ZenonT(40) DEF UseInv, Steady
    <2>4. DataInv'
      BY <1>1, <1>5, <2>2, Zenon DEF DataInv
    <2> QED
      BY <2>3, <2>4, Zenon
  <1> QED
    BY <1>4, <1>8, <1>9, <1>10, <1>11, <1>12, ZenonT(40) DEF BInv

-----------------------------------------------------------------------------
(* The theorems *)

\* The empty cache satisfies the invariant.
LEMMA InitBInv == Init => BInv
  <1> SUFFICES ASSUME Init PROVE BInv
    BY Zenon
  <1>1. /\ AnyBlock \in BlockNo /\ AnySlot \in Slot /\ AnyData \in Data
        /\ Threshold \in Nat
    BY CacheAssumption, Zenon DEF AnyBlock, AnySlot, AnyData
  <1>2. lru \in Seq(Slot) /\ IsInjective(lru) /\ InList = {} /\ Len(lru) = 0
    BY DEF Init, IsInjective, InList, ToSet
  <1>3. TypeOK
    BY <1>1, <1>2, ZenonT(40) DEF Init, TypeOK, PC
  <1>4. SlotInv /\ OwnerInv /\ LabelInv /\ FlagInv /\ CacheBounded
    BY <1>1, <1>2 DEF Init, SlotInv, OwnerInv, LabelInv, FlagInv, CacheBounded, Owns
  <1>5. Dirty = {}
    BY Zenon DEF Init, Dirty, Unsynced
  <1>6. UseInv /\ DataInv
    BY <1>5, Zenon DEF Init, UseInv, DataInv, Using
  <1> QED
    BY <1>3, <1>4, <1>6, Zenon DEF BInv

\* Every step keeps the invariant.
LEMMA NextBInv == BInv /\ [Next]_vars => BInv'
  <1> SUFFICES ASSUME BInv, [Next]_vars PROVE BInv'
    BY Zenon
  <1>1. CASE UNCHANGED vars
    BY <1>1 DEF vars, listVars, slotVars, BInv, TypeOK, SlotInv, OwnerInv, LabelInv, FlagInv,
                CacheBounded, UseInv, DataInv, Dirty, Unsynced, Owns, Using, InList
  <1>2. CASE Next
    <2>1. PICK c \in Claim :
              \/ \E b \in BlockNo : cache_acquire(c, b)
              \/ acquire_sleeplock(c)
              \/ device_read(c)
              \/ \E d \in Data : store(c, d)
              \/ cache_sync(c)
              \/ replay(c)
              \/ release_sleeplock(c)
              \/ cache_release(c)
      BY <1>2, Zenon DEF Next
    <2> QED
      BY <2>1, AcquireInv, SleeplockInv, ReadInv, StoreInv, SyncInv, ReplayInv, ReleaseLockInv,
         ReleaseInv, Zenon
  <1> QED
    BY <1>1, <1>2, Zenon

\* The inductive invariant holds in every reachable state of the cache.
THEOREM CacheInvariant == Spec => []BInv
  <1> QED
    BY InitBInv, NextBInv, PTL DEF Spec

\* Until a cache_release clears the flag of another claim, the flags of cache.c
\* keep every slot that is in use in the list and with the block that was asked
\* for.
THEOREM FlagKeepsSlotHolds == Spec => []FlagKeepsSlot
  <1>1. BInv => FlagKeepsSlot
    <2> SUFFICES ASSUME BInv, ~flagLost PROVE HeldSlotKept
      BY Zenon DEF FlagKeepsSlot
    <2>1. UseInv /\ acquired \subseteq InList
      BY Zenon DEF BInv, TypeOK
    <2> QED
      BY <2>1, Zenon DEF UseInv, HeldSlotKept
  <1> QED
    BY <1>1, CacheInvariant, PTL

\* Under the same condition whoever holds a block sees what was last stored in
\* it, through any evictions, reloads and write-backs of cache.c in between.
THEOREM ReadsLastStoreHolds == Spec => []ReadsLastStore
  <1>1. BInv => ReadsLastStore
    <2> SUFFICES ASSUME BInv, ~flagLost, NEW c \in Claim, pc[c] \in {"hold", "dirty"}
                 PROVE  data[slot[c]] = content[want[c]]
      BY Zenon DEF ReadsLastStore
    <2>1. UseInv /\ DataInv
      BY Zenon DEF BInv
    <2>2. slot[c] \in valid /\ block_no[slot[c]] = want[c]
      BY <2>1, ZenonT(40) DEF UseInv, Using
    <2> QED
      BY <2>1, <2>2, Zenon DEF DataInv
  <1> QED
    BY <1>1, CacheInvariant, PTL

\* No two slots of the list of cache.c hold one block, and no two claims own one
\* slot, whether or not a flag was lost.
THEOREM OneSlotPerBlockHolds == Spec => []OneSlotPerBlock
  <1>1. BInv => OneSlotPerBlock
    <2> SUFFICES ASSUME BInv PROVE OneSlotPerBlock
      BY Zenon
    <2>1. lru \in Seq(Slot) /\ \A i, j \in DOMAIN lru : lru[i] = lru[j] => i = j
      BY Zenon DEF BInv, TypeOK, IsInjective
    <2>2. DOMAIN lru = 1 .. Len(lru) /\ \A i \in 1 .. Len(lru) : lru[i] \in InList
      BY <2>1, InSet DEF InList
    <2>3. \A i, j \in DOMAIN lru : block_no[lru[i]] = block_no[lru[j]] => i = j
      BY <2>1, <2>2, Zenon DEF BInv, LabelInv
    <2> QED
      BY <2>3, Zenon DEF BInv, OneSlotPerBlock, OwnerInv
  <1> QED
    BY <1>1, CacheInvariant, PTL

\* The list of cache.c outgrows EVICTION_THRESHOLD only as far as the largest
\* number of blocks that were claimed or pinned at once makes it, for any number
\* of blocks that one thread holds.
THEOREM CacheBoundedHolds == Spec => []CacheBounded
  <1>1. BInv => CacheBounded
    BY Zenon DEF BInv
  <1> QED
    BY <1>1, CacheInvariant, PTL
=============================================================================
