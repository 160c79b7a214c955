----------------------------- MODULE ArenaProofs -----------------------------
(***************************************************************************)
(* Theorems about the circular lists of common/list.c (module CList) and   *)
(* the arenas of core/arena.c that keep their pages in one (module Arena), *)
(* for every set of pages and every number of objects in a page.           *)
(***************************************************************************)
EXTENDS Arena, TLAPS, FiniteSetTheorems, SequenceTheorems, WellFoundedInduction

-----------------------------------------------------------------------------
(* What the list operations promise, on any set of nodes *)

\* The links that init_list_node leaves.
LEMMA InitLinks ==
    ASSUME NEW l \in Links, NEW a \in Page
    PROVE  /\ init_list_node(l, a) \in Links /\ Single(init_list_node(l, a), a)
           /\ \A n \in Page : n # a => /\ init_list_node(l, a).next[n] = l.next[n]
                                       /\ init_list_node(l, a).prev[n] = l.prev[n]
  <1>1. l.next \in [Page -> Page] /\ l.prev \in [Page -> Page]
    BY DEF Links
  <1>2. init_list_node(l, a) = [next |-> [l.next EXCEPT ![a] = a], prev |-> [l.prev EXCEPT ![a] = a]]
    BY DEF init_list_node, SetNext, SetPrev
  <1> QED BY <1>1, <1>2 DEF Links, Single

\* The links merge_list leaves: the two crossing pairs of its diagram, and
\* every other link as it was.
Merged(l, a, b, m) ==
    /\ m \in Links
    /\ \A n \in Page :
         /\ m.next[n] = IF n = l.prev[b] THEN l.next[a] ELSE IF n = a THEN b ELSE l.next[n]
         /\ m.prev[n] = IF n = l.next[a] THEN l.prev[b] ELSE IF n = b THEN a ELSE l.prev[n]

\* merge_list does that, whatever its arguments have to do with each other.
LEMMA MergeLinks ==
    ASSUME NEW l \in Links, NEW a \in Page, NEW b \in Page
    PROVE  Merged(l, a, b, merge_list(l, a, b))
  <1>1. l.next \in [Page -> Page] /\ l.prev \in [Page -> Page]
    BY DEF Links
  <1>2. l.next[a] \in Page /\ l.prev[b] \in Page
    BY <1>1
  <1>3. merge_list(l, a, b) = [next |-> [l.next EXCEPT ![a] = b, ![l.prev[b]] = l.next[a]],
                              prev |-> [l.prev EXCEPT ![b] = a, ![l.next[a]] = l.prev[b]]]
    BY DEF merge_list, SetNext, SetPrev
  <1>4. /\ [l.next EXCEPT ![a] = b, ![l.prev[b]] = l.next[a]] \in [Page -> Page]
        /\ [l.prev EXCEPT ![b] = a, ![l.next[a]] = l.prev[b]] \in [Page -> Page]
    BY <1>1, <1>2
  <1> QED BY <1>1, <1>2, <1>3, <1>4 DEF Links, Merged

\* merge_list keeps the rings well formed and establishes what list.h
\* guarantees: the two links of every node agree, and node1->next == node2.
THEOREM MergeKeepsRings ==
    ASSUME NEW l \in Links, IsRing(l), NEW a \in Page, NEW b \in Page
    PROVE  /\ merge_list(l, a, b) \in Links
           /\ IsRing(merge_list(l, a, b))
           /\ merge_list(l, a, b).next[a] = b
  <1> DEFINE m == merge_list(l, a, b)
  <1>1. /\ m \in Links
        /\ \A n \in Page :
             /\ m.next[n] = IF n = l.prev[b] THEN l.next[a] ELSE IF n = a THEN b ELSE l.next[n]
             /\ m.prev[n] = IF n = l.next[a] THEN l.prev[b] ELSE IF n = b THEN a ELSE l.prev[n]
    BY MergeLinks DEF Merged
  <1> HIDE DEF m
  <1>2. l.next \in [Page -> Page] /\ l.prev \in [Page -> Page] BY DEF Links
  <1>3. \A n \in Page : l.next[l.prev[n]] = n /\ l.prev[l.next[n]] = n BY DEF IsRing
  <1>4. ASSUME NEW n \in Page PROVE m.next[m.prev[n]] = n /\ m.prev[m.next[n]] = n
    BY <1>1, <1>2, <1>3, <1>4
  <1>5. m.next[a] = b BY <1>1, <1>2, <1>3
  <1> QED BY <1>1, <1>4, <1>5 DEF IsRing, m

\* Merging joins the two lists and nothing else: nodes of either list stay
\* among the nodes of the two (list.h: "merge the list containing `node1' and
\* the list containing `node2' into one list").
THEOREM MergeJoins ==
    ASSUME NEW l \in Links, IsRing(l), NEW a \in Page, NEW b \in Page,
           NEW S \in SUBSET Page, NEW T \in SUBSET Page,
           Closed(l, S), Closed(l, T), a \in S, b \in T
    PROVE  Closed(merge_list(l, a, b), S \union T)
  <1> DEFINE m == merge_list(l, a, b)
  <1>1. /\ \A n \in Page :
             /\ m.next[n] = IF n = l.prev[b] THEN l.next[a] ELSE IF n = a THEN b ELSE l.next[n]
             /\ m.prev[n] = IF n = l.next[a] THEN l.prev[b] ELSE IF n = b THEN a ELSE l.prev[n]
    BY MergeLinks DEF Merged
  <1> HIDE DEF m
  <1>2. l.next \in [Page -> Page] /\ l.prev \in [Page -> Page] BY DEF Links
  <1>3. ASSUME NEW n \in S \union T PROVE m.next[n] \in S \union T /\ m.prev[n] \in S \union T
    BY <1>1, <1>2, <1>3 DEF Closed
  <1> QED BY <1>3 DEF Closed, m

\* The links detach_from_list leaves: the neighbours of the node point at each
\* other and the node at itself.
LEMMA DetachLinks ==
    ASSUME NEW l \in Links, NEW n \in Page
    PROVE  /\ detach_from_list(l, n) \in Links
           /\ detach_from_list(l, n).next = [l.next EXCEPT ![l.prev[n]] = l.next[n], ![n] = n]
           /\ detach_from_list(l, n).prev = [l.prev EXCEPT ![l.next[n]] = l.prev[n], ![n] = n]
  <1>1. l.next \in [Page -> Page] /\ l.prev \in [Page -> Page] BY DEF Links
  <1>2. l.next[n] \in Page /\ l.prev[n] \in Page BY <1>1
  <1>3. [l.next EXCEPT ![l.prev[n]] = l.next[n]][n] = l.next[n]
    BY <1>1, <1>2
  <1>4. detach_from_list(l, n) = [next |-> [l.next EXCEPT ![l.prev[n]] = l.next[n], ![n] = n],
                                 prev |-> [l.prev EXCEPT ![l.next[n]] = l.prev[n], ![n] = n]]
    BY <1>3 DEF detach_from_list, init_list_node, SetNext, SetPrev
  <1>5. /\ [l.next EXCEPT ![l.prev[n]] = l.next[n], ![n] = n] \in [Page -> Page]
        /\ [l.prev EXCEPT ![l.next[n]] = l.prev[n], ![n] = n] \in [Page -> Page]
    BY <1>1, <1>2
  <1> QED BY <1>4, <1>5 DEF Links

\* detach_from_list leaves the node alone on a ring of its own, and the other
\* nodes of its list in their order (list.h: "remove `node' from the list, and
\* then `node' becomes a single node list").
THEOREM DetachKeepsRings ==
    ASSUME NEW l \in Links, IsRing(l), NEW n \in Page
    PROVE  /\ detach_from_list(l, n) \in Links
           /\ IsRing(detach_from_list(l, n))
           /\ Single(detach_from_list(l, n), n)
           /\ \A m \in Page \ {n} :
                detach_from_list(l, n).next[m] = IF l.next[m] = n THEN l.next[n] ELSE l.next[m]
  <1> DEFINE r == detach_from_list(l, n)
  <1>1. /\ r \in Links
        /\ r.next = [l.next EXCEPT ![l.prev[n]] = l.next[n], ![n] = n]
        /\ r.prev = [l.prev EXCEPT ![l.next[n]] = l.prev[n], ![n] = n]
    BY DetachLinks
  <1> HIDE DEF r
  <1>2. l.next \in [Page -> Page] /\ l.prev \in [Page -> Page] BY DEF Links
  <1>3. \A m \in Page : l.next[l.prev[m]] = m /\ l.prev[l.next[m]] = m BY DEF IsRing
  <1>4. ASSUME NEW m \in Page PROVE r.next[r.prev[m]] = m /\ r.prev[r.next[m]] = m
    BY <1>1, <1>2, <1>3, <1>4
  <1>5. Single(r, n) BY <1>1, <1>2 DEF Single
  <1>6. \A m \in Page \ {n} : r.next[m] = IF l.next[m] = n THEN l.next[n] ELSE l.next[m]
    BY <1>1, <1>2, <1>3
  <1> QED BY <1>1, <1>4, <1>5, <1>6 DEF IsRing, r

\* Moving a block to the front of the cache's list, the last thing
\* cache_acquire does with it: it directly follows the head, and the other
\* blocks keep their order (cache.c:138-140).  This is what the sequence `lru'
\* of BCache stands for.
THEOREM MoveToFrontLinks ==
    ASSUME NEW l \in Links, IsRing(l), NEW h \in Page, NEW n \in Page, h # n
    PROVE  LET m == merge_list(detach_from_list(l, n), h, n)
               after(x) == IF l.next[x] = n THEN l.next[n] ELSE l.next[x]
           IN  /\ IsRing(m)
               /\ m.next[h] = n
               /\ m.next[n] = after(h)
               /\ \A x \in Page \ {h, n} : m.next[x] = after(x)
  <1> DEFINE after(x) == IF l.next[x] = n THEN l.next[n] ELSE l.next[x]
  <1>1. PICK r \in Links :
          /\ r = detach_from_list(l, n)
          /\ IsRing(r) /\ Single(r, n)
          /\ \A x \in Page \ {n} : r.next[x] = after(x)
    BY DetachKeepsRings
  <1> HIDE DEF after
  <1>2. PICK m \in Links : m = merge_list(r, h, n) /\ IsRing(m)
    BY <1>1, MergeKeepsRings
  <1>3. \A x \in Page : m.next[x] = IF x = r.prev[n] THEN r.next[h] ELSE IF x = h THEN n ELSE r.next[x]
    <2>1. Merged(r, h, n, m)
      BY <1>1, <1>2, MergeLinks, Zenon
    <2> QED BY <2>1, Zenon DEF Merged
  <1>4. r.prev[n] = n BY <1>1 DEF Single
  <1>5. r.next \in [Page -> Page] BY DEF Links
  <1>6. m.next[h] = n /\ m.next[n] = r.next[h] /\ \A x \in Page \ {h, n} : m.next[x] = r.next[x]
    BY <1>3, <1>4, <1>5
  <1> QED BY <1>1, <1>2, <1>6 DEF after

-----------------------------------------------------------------------------
(* One list among nodes whose links may mean nothing *)

\* S is the list of node h: its links agree, and do not leave it, and every set
\* of nodes with h that the links do not leave contains it.
IsListOf(l, h, S) ==
    /\ h \in S /\ Closed(l, S)
    /\ \A n \in S : l.next[l.prev[n]] = n /\ l.prev[l.next[n]] = n
    /\ \A T \in SUBSET Page : h \in T /\ Closed(l, T) => S \subseteq T

\* A list is the same from each of its nodes.
LEMMA AnyHead ==
    ASSUME NEW l \in Links, NEW h, NEW S \in SUBSET Page, IsListOf(l, h, S), NEW g \in S
    PROVE  IsListOf(l, g, S)
  <1>1. ASSUME NEW T \in SUBSET Page, g \in T, Closed(l, T)
        PROVE  S \subseteq T
    <2>1. CASE h \in T
      BY <1>1, <2>1, Zenon DEF IsListOf
    <2>2. CASE h \notin T
      <3>1. h \in S \ T
        BY <2>2, Zenon DEF IsListOf
      <3>2. ASSUME NEW n \in S \ T PROVE l.next[n] \in S \ T /\ l.prev[n] \in S \ T
        <4>1. l.next[n] \in S /\ l.prev[n] \in S /\ l.next[l.prev[n]] = n /\ l.prev[l.next[n]] = n
          BY Zenon DEF IsListOf, Closed
        <4>2. l.next[n] \in T => n \in T
          BY <1>1, <4>1, Zenon DEF Closed
        <4>3. l.prev[n] \in T => n \in T
          BY <1>1, <4>1, Zenon DEF Closed
        <4> QED BY <4>1, <4>2, <4>3, Zenon
      <3>3. Closed(l, S \ T)
        BY <3>2, Zenon DEF Closed
      <3>4. S \subseteq S \ T
        BY <3>1, <3>3, Zenon DEF IsListOf
      <3> QED BY <1>1, <3>4, Zenon
    <2> QED BY <2>1, <2>2, Zenon
  <1> QED BY <1>1, Zenon DEF IsListOf

\* A list does not depend on the links of other nodes.
LEMMA SameList ==
    ASSUME NEW l \in Links, NEW m \in Links, NEW h, NEW S \in SUBSET Page, IsListOf(l, h, S),
           \A n \in S : m.next[n] = l.next[n] /\ m.prev[n] = l.prev[n]
    PROVE  IsListOf(m, h, S)
  <1>1. \A n \in S : l.next[n] \in S /\ l.prev[n] \in S
    BY Zenon DEF IsListOf, Closed
  <1>2. Closed(m, S) /\ \A n \in S : m.next[m.prev[n]] = n /\ m.prev[m.next[n]] = n
    BY <1>1, Zenon DEF IsListOf, Closed
  <1>3. ASSUME NEW T \in SUBSET Page, h \in T, Closed(m, T)
        PROVE  S \subseteq T
    <2>1. Closed(l, S \intersect T)
      BY <1>1, <1>3, Zenon DEF Closed
    <2>2. h \in S \intersect T
      BY <1>3, Zenon DEF IsListOf
    <2>3. S \subseteq S \intersect T
      BY <2>1, <2>2, Zenon DEF IsListOf
    <2> QED BY <2>3, Zenon
  <1> QED BY <1>2, <1>3, Zenon DEF IsListOf

\* From l to m, node p has joined the list S of h, in front of h.
Joined(l, h, S, p, m) ==
    /\ m \in Links /\ IsListOf(m, p, S \union {p}) /\ m.next[p] = h
    /\ \A n \in S : m.next[n] = IF n = l.prev[h] THEN p ELSE l.next[n]

\* insert_page into a list: a single node joins it in front of the head.
LEMMA MergeList ==
    ASSUME NEW l \in Links, NEW h, NEW S \in SUBSET Page, IsListOf(l, h, S),
           NEW p \in Page, p \notin S, Single(l, p),
           NEW m, m = merge_list(l, p, h)
    PROVE  Joined(l, h, S, p, m)
  <1>1. /\ h \in Page /\ h \in S /\ l.next[p] = p /\ l.prev[p] = p /\ l.prev[h] \in S
        /\ l.next[l.prev[h]] = h
    BY Zenon DEF IsListOf, Single, Closed
  <1>2. \A n \in S : l.next[n] \in S /\ l.prev[n] \in S /\ l.next[l.prev[n]] = n /\ l.prev[l.next[n]] = n
    BY Zenon DEF IsListOf, Closed
  <1>3. /\ m \in Links
        /\ \A n \in Page : /\ m.next[n] = IF n = l.prev[h] THEN p ELSE IF n = p THEN h ELSE l.next[n]
                           /\ m.prev[n] = IF n = p THEN l.prev[h] ELSE IF n = h THEN p ELSE l.prev[n]
    <2>1. Merged(l, p, h, m)
      BY <1>1, MergeLinks, Zenon
    <2> QED BY <1>1, <2>1, Zenon DEF Merged
  <1>4. m.next[p] = h /\ m.prev[p] = l.prev[h] /\ m.prev[h] = p /\ m.next[l.prev[h]] = p
    BY <1>1, <1>3, Zenon
  <1>5. \A n \in S : /\ m.next[n] = IF n = l.prev[h] THEN p ELSE l.next[n]
                     /\ m.prev[n] = IF n = h THEN p ELSE l.prev[n]
    BY <1>3, Zenon
  <1>6. Closed(m, S \union {p})
    BY <1>1, <1>2, <1>4, <1>5, Zenon DEF Closed
  <1>7. ASSUME NEW n \in S \union {p} PROVE m.next[m.prev[n]] = n /\ m.prev[m.next[n]] = n
    <2>1. CASE n = p
      BY <1>4, <2>1, Zenon
    <2>2. CASE n = h
      <3>1. m.next[m.prev[h]] = h
        BY <1>4, Zenon
      <3>2. CASE h = l.prev[h]
        BY <1>4, <2>2, <3>1, <3>2, Zenon
      <3>3. CASE h # l.prev[h]
        <4>1. m.next[h] = l.next[h] /\ l.next[h] \in S /\ l.prev[l.next[h]] = h
          BY <1>1, <1>2, <1>5, <3>3, Zenon
        <4>2. l.next[h] # h
          BY <3>3, <4>1, Zenon
        <4> QED BY <1>5, <2>2, <3>1, <4>1, <4>2, Zenon
      <3> QED BY <3>2, <3>3, Zenon
    <2>3. CASE n # p /\ n # h
      <3>0. n \in S
        BY <2>3, Zenon
      <3>1. m.prev[n] = l.prev[n] /\ l.prev[n] \in S /\ l.next[l.prev[n]] = n /\ l.prev[n] # l.prev[h]
        BY <1>1, <1>2, <1>5, <2>3, <3>0, Zenon
      <3>2. m.next[m.prev[n]] = n
        BY <1>5, <3>1, Zenon
      <3>3. CASE n = l.prev[h]
        BY <1>4, <3>2, <3>3, Zenon
      <3>4. CASE n # l.prev[h]
        <4>1. m.next[n] = l.next[n] /\ l.next[n] \in S /\ l.prev[l.next[n]] = n /\ l.next[n] # h
          BY <1>1, <1>2, <1>5, <3>0, <3>4, Zenon
        <4> QED BY <1>5, <3>2, <4>1, Zenon
      <3> QED BY <3>3, <3>4, Zenon
    <2> QED BY <2>1, <2>2, <2>3, Zenon
  <1>8. ASSUME NEW T \in SUBSET Page, p \in T, Closed(m, T)
        PROVE  S \union {p} \subseteq T
    <2>1. h \in S \intersect T /\ l.prev[h] \in T
      BY <1>1, <1>4, <1>8, Zenon DEF Closed
    <2>2. ASSUME NEW n \in S \intersect T
          PROVE  l.next[n] \in S \intersect T /\ l.prev[n] \in S \intersect T
      <3>1. m.next[n] \in T /\ m.prev[n] \in T
        BY <1>8, Zenon DEF Closed
      <3>2. l.next[n] \in T
        BY <1>1, <1>5, <2>1, <3>1, Zenon
      <3>3. l.prev[n] \in T
        BY <1>5, <2>1, <3>1, Zenon
      <3> QED BY <1>2, <3>2, <3>3, Zenon
    <2>3. Closed(l, S \intersect T)
      BY <2>2, Zenon DEF Closed
    <2>4. S \subseteq S \intersect T
      BY <2>1, <2>3, Zenon DEF IsListOf
    <2> QED BY <1>8, <2>4, Zenon
  <1> QED BY <1>3, <1>4, <1>5, <1>6, <1>7, <1>8, Zenon DEF IsListOf, Joined

\* From l to r, node p has left the list S of h and is alone.
Left(l, h, S, p, r) ==
    /\ r \in Links /\ IsListOf(r, h, S \ {p}) /\ Single(r, p)
    /\ \A n \in S \ {p} : r.next[n] = IF l.next[n] = p THEN l.next[p] ELSE l.next[n]

\* detach_from_list of a page that is not the head: the others stay a list.
LEMMA DetachList ==
    ASSUME NEW l \in Links, NEW h, NEW S \in SUBSET Page, IsListOf(l, h, S),
           NEW p \in S, p # h, NEW r, r = detach_from_list(l, p)
    PROVE  Left(l, h, S, p, r)
  <1> DEFINE a == l.prev[p]
             b == l.next[p]
  <1>1. \A n \in S : l.next[n] \in S /\ l.prev[n] \in S /\ l.next[l.prev[n]] = n /\ l.prev[l.next[n]] = n
    BY Zenon DEF IsListOf, Closed
  <1>2. /\ r \in Links /\ r.next = [l.next EXCEPT ![a] = b, ![p] = p]
        /\ r.prev = [l.prev EXCEPT ![b] = a, ![p] = p]
    BY DetachLinks, Zenon
  <1>3. /\ a \in S /\ b \in S /\ l.next[a] = p /\ l.prev[b] = p /\ h \in S
        /\ a \in Page /\ b \in Page /\ p \in Page
    BY <1>1, Zenon DEF IsListOf
  <1>4. \A n \in Page : /\ r.next[n] = IF n = p THEN p ELSE IF n = a THEN b ELSE l.next[n]
                        /\ r.prev[n] = IF n = p THEN p ELSE IF n = b THEN a ELSE l.prev[n]
    <2>1. l.next \in [Page -> Page] /\ l.prev \in [Page -> Page]
      BY Zenon DEF Links
    <2> HIDE DEF a, b
    <2> QED BY <1>2, <1>3, <2>1
  <1> HIDE DEF a, b
  <1>5. a # p /\ b # p
    <2>1. SUFFICES ASSUME a = p \/ b = p PROVE FALSE
      BY Zenon
    <2>2. l.next[p] = p /\ l.prev[p] = p
      BY <1>3, <2>1, Zenon DEF a, b
    <2>3. Closed(l, S \ {p})
      <3>1. ASSUME NEW n \in S \ {p} PROVE l.next[n] # p /\ l.prev[n] # p
        BY <1>1, <2>2, Zenon
      <3> QED BY <1>1, <3>1, Zenon DEF Closed
    <2>4. S \subseteq S \ {p}
      BY <1>3, <2>3, Zenon DEF IsListOf
    <2> QED BY <2>4, Zenon
  <1>6. \A n \in S \ {p} : /\ r.next[n] = IF n = a THEN b ELSE l.next[n]
                           /\ r.prev[n] = IF n = b THEN a ELSE l.prev[n]
                           /\ (n = a <=> l.next[n] = p) /\ (n = b <=> l.prev[n] = p)
    <2>1. \A n \in S : (n = a <=> l.next[n] = p) /\ (n = b <=> l.prev[n] = p)
      BY <1>1, <1>3, Zenon DEF a, b
    <2> QED BY <1>4, <2>1, Zenon
  <1>7. Closed(r, S \ {p})
    <2>1. ASSUME NEW n \in S \ {p} PROVE r.next[n] \in S \ {p}
      <3>1. CASE n = a
        BY <1>3, <1>5, <1>6, <2>1, <3>1, Zenon
      <3>2. CASE n # a
        BY <1>1, <1>6, <2>1, <3>2, Zenon
      <3> QED BY <3>1, <3>2, Zenon
    <2>2. ASSUME NEW n \in S \ {p} PROVE r.prev[n] \in S \ {p}
      <3>1. CASE n = b
        BY <1>3, <1>5, <1>6, <2>2, <3>1, Zenon
      <3>2. CASE n # b
        BY <1>1, <1>6, <2>2, <3>2, Zenon
      <3> QED BY <3>1, <3>2, Zenon
    <2> QED BY <2>1, <2>2, Zenon DEF Closed
  <1>8. ASSUME NEW n \in S \ {p} PROVE r.next[r.prev[n]] = n /\ r.prev[r.next[n]] = n
    <2>1. r.next[n] \in S \ {p} /\ r.prev[n] \in S \ {p}
      BY <1>7, Zenon DEF Closed
    <2>2. r.next[r.prev[n]] = n
      <3>1. CASE n = b
        BY <1>6, <2>1, <3>1, Zenon
      <3>2. CASE n # b
        <4>1. r.prev[n] = l.prev[n] /\ l.next[l.prev[n]] = n
          BY <1>1, <1>6, <3>2, Zenon
        <4>2. l.prev[n] # a
          BY <1>3, <4>1, Zenon
        <4> QED BY <1>6, <2>1, <4>1, <4>2, Zenon
      <3> QED BY <3>1, <3>2, Zenon
    <2>3. r.prev[r.next[n]] = n
      <3>1. CASE n = a
        BY <1>6, <2>1, <3>1, Zenon
      <3>2. CASE n # a
        <4>1. r.next[n] = l.next[n] /\ l.prev[l.next[n]] = n
          BY <1>1, <1>6, <3>2, Zenon
        <4>2. l.next[n] # b
          BY <1>3, <4>1, Zenon
        <4> QED BY <1>6, <2>1, <4>1, <4>2, Zenon
      <3> QED BY <3>1, <3>2, Zenon
    <2> QED BY <2>2, <2>3, Zenon
  <1>9. ASSUME NEW T \in SUBSET Page, h \in T, Closed(r, T)
        PROVE  S \ {p} \subseteq T
    <2>0. \A n \in T : r.next[n] \in T /\ r.prev[n] \in T
      BY <1>9, Zenon DEF Closed
    <2>1. CASE a \in T
      <3>1. b \in T
        <4>1. r.next[a] = b
          BY <1>3, <1>5, <1>6, Zenon
        <4> QED BY <2>0, <2>1, <4>1, Zenon
      <3>2. ASSUME NEW n \in (S \intersect T) \union {p}
            PROVE  /\ l.next[n] \in (S \intersect T) \union {p}
                   /\ l.prev[n] \in (S \intersect T) \union {p}
        <4>1. CASE n = p
          BY <1>3, <2>1, <3>1, <4>1, Zenon DEF a, b
        <4>2. CASE n # p
          <5>1. n \in S \ {p} /\ r.next[n] \in T /\ r.prev[n] \in T
            BY <2>0, <4>2, Zenon
          <5> QED BY <1>1, <1>6, <5>1, Zenon
        <4> QED BY <4>1, <4>2, Zenon
      <3>3. Closed(l, (S \intersect T) \union {p})
        BY <3>2, Zenon DEF Closed
      <3>4. S \subseteq (S \intersect T) \union {p}
        BY <1>3, <1>9, <3>3, Zenon DEF IsListOf
      <3> QED BY <3>4, Zenon
    <2>2. CASE a \notin T
      <3>1. b \notin T
        BY <1>3, <1>5, <1>6, <2>0, <2>2, Zenon
      <3>2. ASSUME NEW n \in (S \intersect T) \ {p}
            PROVE  l.next[n] \in (S \intersect T) \ {p} /\ l.prev[n] \in (S \intersect T) \ {p}
        <4>1. n \in S \ {p} /\ r.next[n] \in T /\ r.prev[n] \in T /\ n # a /\ n # b
          BY <2>0, <2>2, <3>1, Zenon
        <4> QED BY <1>1, <1>6, <4>1, Zenon
      <3>3. Closed(l, (S \intersect T) \ {p})
        BY <3>2, Zenon DEF Closed
      <3>4. S \subseteq (S \intersect T) \ {p}
        BY <1>3, <1>9, <3>3, Zenon DEF IsListOf
      <3> QED BY <3>4, Zenon
    <2> QED BY <2>1, <2>2, Zenon
  <1>10. Single(r, p)
    BY <1>3, <1>4, Zenon DEF Single
  <1>11. h \in S \ {p}
    BY <1>3, Zenon
  <1>12. IsListOf(r, h, S \ {p})
    BY <1>7, <1>8, <1>9, <1>11, Zenon DEF IsListOf
  <1> QED BY <1>2, <1>6, <1>10, <1>12, Zenon DEF b, Left

\* A set with the head in it that following `next' does not leave is the whole
\* list: the step from a node to the next cannot lose one of finitely many.
LEMMA WholeList ==
    ASSUME NEW l \in Links, NEW h, NEW S \in SUBSET Page, IsListOf(l, h, S), IsFiniteSet(S),
           NEW F \in SUBSET S, h \in F, \A n \in F : l.next[n] \in F
    PROVE  F = S
  <1> DEFINE g == [n \in F |-> l.next[n]]
  <1>1. IsFiniteSet(F)
    BY FS_Subset, Zenon
  <1>2. \A n \in S : l.next[n] \in S /\ l.prev[n] \in S /\ l.next[l.prev[n]] = n /\ l.prev[l.next[n]] = n
    BY Zenon DEF IsListOf, Closed
  <1>3. g \in [F -> F] /\ \A n, k \in F : g[n] = g[k] => n = k
    BY <1>2, Zenon
  <1> HIDE DEF g
  <1>4. g \in Injection(F, F)
    BY <1>3, Zenon DEF Injection, IsInjective
  <1>5. g \in Surjection(F, F)
    BY <1>1, <1>4, FS_Injection, Zenon
  <1>6. ASSUME NEW n \in F PROVE l.prev[n] \in F
    <2>1. PICK k \in F : g[k] = n
      BY <1>5, Zenon DEF Surjection
    <2>2. l.next[k] = n
      BY <2>1, Zenon DEF g
    <2> QED BY <1>2, <2>2, Zenon
  <1>7. Closed(l, F)
    BY <1>6, Zenon DEF Closed
  <1> QED BY <1>7, Zenon DEF IsListOf

-----------------------------------------------------------------------------
(* The free list *)

\* The elements of a sequence are the ones at its positions.
LEMMA InSet ==
    ASSUME NEW q \in Seq(Page)
    PROVE  /\ \A i \in 1 .. Len(q) : q[i] \in ToSet(q)
           /\ \A x \in ToSet(q) : \E i \in 1 .. Len(q) : q[i] = x
           /\ ToSet(q) \subseteq Page /\ DOMAIN q = 1 .. Len(q) /\ Len(q) \in Nat
  <1>1. DOMAIN q = 1 .. Len(q) /\ Len(q) \in Nat
    BY LenProperties, Zenon
  <1>2. \A i \in 1 .. Len(q) : q[i] \in Page
    BY ElementOfSeq, Zenon
  <1> QED BY <1>1, <1>2, Zenon DEF ToSet

\* Two sequences without repetition that have no element in common.
LEMMA ConcatFacts ==
    ASSUME NEW u \in Seq(Page), IsInjective(u), NEW v \in Seq(Page), IsInjective(v),
           ToSet(u) \intersect ToSet(v) = {}
    PROVE  u \o v \in Seq(Page) /\ IsInjective(u \o v) /\ ToSet(u \o v) = ToSet(u) \union ToSet(v)
  <1> DEFINE w == u \o v
  <1>1. /\ w \in Seq(Page) /\ Len(w) = Len(u) + Len(v)
        /\ \A i \in 1 .. Len(u) + Len(v) : w[i] = IF i <= Len(u) THEN u[i] ELSE v[i - Len(u)]
    BY ConcatProperties, Zenon
  <1> HIDE DEF w
  <1>2. Len(u) \in Nat /\ Len(v) \in Nat /\ DOMAIN u = 1 .. Len(u) /\ DOMAIN v = 1 .. Len(v) /\ DOMAIN w = 1 .. Len(w)
    BY <1>1, InSet, Zenon
  <1>3. ASSUME NEW i \in 1 .. Len(w)
        PROVE  \/ i \in 1 .. Len(u) /\ w[i] = u[i] /\ w[i] \in ToSet(u)
               \/ ~(i <= Len(u)) /\ i - Len(u) \in 1 .. Len(v) /\ w[i] = v[i - Len(u)] /\ w[i] \in ToSet(v)
    <2>1. CASE i <= Len(u)
      <3>1. i \in 1 .. Len(u)
        BY <1>1, <1>2, <2>1
      <3> QED BY <1>1, <2>1, <3>1, InSet, Zenon
    <2>2. CASE ~(i <= Len(u))
      <3>1. i - Len(u) \in 1 .. Len(v)
        BY <1>1, <1>2, <2>2
      <3> QED BY <1>1, <2>2, <3>1, InSet, Zenon
    <2> QED BY <2>1, <2>2, Zenon
  <1>4. ASSUME NEW i \in 1 .. Len(w), NEW j \in 1 .. Len(w), w[i] = w[j]
        PROVE  i = j
    <2>1. CASE i \in 1 .. Len(u) /\ w[i] = u[i] /\ j \in 1 .. Len(u) /\ w[j] = u[j]
      BY <1>2, <1>4, <2>1, Zenon DEF IsInjective
    <2>2. CASE /\ i - Len(u) \in 1 .. Len(v) /\ w[i] = v[i - Len(u)]
               /\ j - Len(u) \in 1 .. Len(v) /\ w[j] = v[j - Len(u)]
      <3>1. i - Len(u) = j - Len(u)
        BY <1>2, <1>4, <2>2, Zenon DEF IsInjective
      <3> QED BY <1>1, <1>2, <3>1
    <2> QED BY <1>3, <1>4, <2>1, <2>2, Zenon
  <1>5. IsInjective(w)
    BY <1>2, <1>4, Zenon DEF IsInjective
  <1>6. ToSet(w) \subseteq ToSet(u) \union ToSet(v)
    <2> SUFFICES ASSUME NEW x \in ToSet(w) PROVE x \in ToSet(u) \union ToSet(v)
      BY Zenon
    <2>1. PICK i \in 1 .. Len(w) : w[i] = x
      BY <1>1, InSet, Zenon
    <2> QED BY <1>3, <2>1, Zenon
  <1>7. ASSUME NEW x \in ToSet(u) PROVE x \in ToSet(w)
    <2>1. PICK i \in 1 .. Len(u) : u[i] = x
      BY InSet, Zenon
    <2>2. i \in 1 .. Len(w) /\ i \in 1 .. Len(u) + Len(v) /\ i <= Len(u)
      BY <1>1, <1>2
    <2>3. w[i] = x
      BY <1>1, <2>1, <2>2, Zenon
    <2> QED BY <1>1, <2>2, <2>3, InSet, Zenon
  <1>8. ASSUME NEW x \in ToSet(v) PROVE x \in ToSet(w)
    <2>1. PICK i \in 1 .. Len(v) : v[i] = x
      BY InSet, Zenon
    <2>2. PICK k \in 1 .. Len(w) : k \in 1 .. Len(u) + Len(v) /\ ~(k <= Len(u)) /\ k - Len(u) = i
      <3>1. /\ i + Len(u) \in 1 .. Len(w) /\ i + Len(u) \in 1 .. Len(u) + Len(v)
            /\ ~(i + Len(u) <= Len(u)) /\ (i + Len(u)) - Len(u) = i
        BY <1>1, <1>2
      <3> QED BY <3>1, Zenon
    <2>3. w[k] = x
      BY <1>1, <2>1, <2>2, Zenon
    <2> QED BY <1>1, <2>3, InSet, Zenon
  <1> QED BY <1>1, <1>5, <1>6, <1>7, <1>8, Zenon DEF w

\* kalloc takes the first page.
LEMMA TailFacts ==
    ASSUME NEW q \in Seq(Page), IsInjective(q), q # <<>>
    PROVE  /\ Head(q) \in Page /\ Head(q) \in ToSet(q)
           /\ Tail(q) \in Seq(Page) /\ IsInjective(Tail(q)) /\ ToSet(Tail(q)) = ToSet(q) \ {Head(q)}
  <1> DEFINE r == Tail(q)
  <1>1. /\ Head(q) \in Page /\ r \in Seq(Page) /\ Len(r) = Len(q) - 1
        /\ \A i \in 1 .. Len(r) : r[i] = q[i + 1]
    BY HeadTailProperties, Zenon
  <1>2. Head(q) = q[1] /\ 1 \in 1 .. Len(q)
    OBVIOUS
  <1> HIDE DEF r
  <1>3. Len(q) \in Nat /\ DOMAIN q = 1 .. Len(q) /\ DOMAIN r = 1 .. Len(r)
    BY <1>1, InSet, Zenon
  <1>4. \A i \in 1 .. Len(r) : i + 1 \in 1 .. Len(q) /\ i + 1 # 1
    BY <1>1, <1>3
  <1>5. ASSUME NEW i \in 1 .. Len(r), NEW j \in 1 .. Len(r), r[i] = r[j]
        PROVE  i = j
    <2>1. i + 1 = j + 1
      BY <1>1, <1>3, <1>4, <1>5, Zenon DEF IsInjective
    <2> QED BY <2>1
  <1>6. IsInjective(r)
    BY <1>3, <1>5, Zenon DEF IsInjective
  <1>7. ASSUME NEW i \in 1 .. Len(r) PROVE r[i] \in ToSet(q) \ {Head(q)}
    <2>1. r[i] = q[i + 1] /\ q[i + 1] # q[1]
      BY <1>1, <1>2, <1>3, <1>4, Zenon DEF IsInjective
    <2> QED BY <1>2, <1>4, <2>1, InSet, Zenon
  <1>8. ASSUME NEW x \in ToSet(q), x # Head(q) PROVE x \in ToSet(r)
    <2>1. PICK i \in 1 .. Len(q) : q[i] = x
      BY InSet, Zenon
    <2>2. i # 1
      BY <1>2, <1>8, <2>1, Zenon
    <2>3. PICK k \in 1 .. Len(r) : k + 1 = i
      <3>1. i - 1 \in 1 .. Len(r) /\ (i - 1) + 1 = i
        BY <1>1, <1>3, <2>2
      <3> QED BY <3>1, Zenon
    <2>4. r[k] = x
      BY <1>1, <2>1, <2>3, Zenon
    <2> QED BY <1>1, <2>4, InSet, Zenon
  <1>9. ToSet(r) = ToSet(q) \ {Head(q)}
    <2>1. ASSUME NEW x \in ToSet(r) PROVE x \in ToSet(q) \ {Head(q)}
      <3>1. PICK i \in 1 .. Len(r) : r[i] = x
        BY <1>1, InSet, Zenon
      <3> QED BY <1>7, <3>1, Zenon
    <2> QED BY <1>8, <2>1, Zenon
  <1>10. Head(q) \in ToSet(q)
    BY <1>2, InSet, Zenon
  <1> QED BY <1>1, <1>6, <1>9, <1>10, Zenon DEF r

\* A sequence of the elements of a set, each once, in both directions.
LEMMA SeqOfSet ==
    ASSUME NEW S \in SUBSET Page, NEW q \in [1 .. Cardinality(S) -> S],
           \A i, j \in 1 .. Cardinality(S) : i # j => q[i] # q[j]
    PROVE  /\ q \in Seq(Page) /\ IsInjective(q) /\ ToSet(q) = S
           /\ Reverse(q) \in Seq(Page) /\ IsInjective(Reverse(q)) /\ ToSet(Reverse(q)) = S
  <1> DEFINE N == Cardinality(S)
             r == Reverse(q)
  <1>1. IsFiniteSet(S) /\ N \in Nat /\ IsFiniteSet(1 .. N) /\ Cardinality(1 .. N) = N
    <2>1. IsFiniteSet(S) /\ N \in Nat
      BY ArenaAssumption, FS_Subset, FS_CardinalityType, Zenon
    <2>2. 1 \in Int /\ N \in Int /\ (IF 1 > N THEN 0 ELSE N - 1 + 1) = N
      BY <2>1
    <2> QED BY <2>1, <2>2, FS_Interval, Zenon
  <1>2. q \in Injection(1 .. N, S)
    BY Zenon DEF Injection, IsInjective
  <1>3. q \in Surjection(1 .. N, S)
    BY <1>1, <1>2, FS_Injection, Zenon
  <1>4. \A x \in S : \E i \in 1 .. N : q[i] = x
    BY <1>3, Zenon DEF Surjection
  <1>5. DOMAIN q = 1 .. N /\ \A i \in 1 .. N : q[i] \in S /\ q[i] \in Page
    BY Zenon
  <1>6. \A i, j \in 1 .. N : q[i] = q[j] => i = j
    BY Zenon
  <1> HIDE DEF N
  <1>7. q \in Seq(Page) /\ Len(q) = N
    BY <1>1, <1>5 DEF N
  <1>8. IsInjective(q) /\ ToSet(q) = S
    <2>1. IsInjective(q)
      BY <1>5, <1>6, Zenon DEF IsInjective
    <2>2. ASSUME NEW x \in S PROVE x \in ToSet(q)
      BY <1>4, <1>5, Zenon DEF ToSet
    <2>3. ASSUME NEW x \in ToSet(q) PROVE x \in S
      BY <1>5, Zenon DEF ToSet
    <2> QED BY <2>1, <2>2, <2>3, Zenon
  <1>9. /\ r = [i \in 1 .. N |-> q[(N - i) + 1]]
        /\ \A i \in 1 .. N : (N - i) + 1 \in 1 .. N /\ (N - ((N - i) + 1)) + 1 = i
        /\ \A i, j \in 1 .. N : (N - i) + 1 = (N - j) + 1 => i = j
    <2>1. r = [i \in 1 .. N |-> q[(N - i) + 1]]
      BY <1>7, Zenon DEF Reverse
    <2>2. /\ \A i \in 1 .. N : (N - i) + 1 \in 1 .. N /\ (N - ((N - i) + 1)) + 1 = i
          /\ \A i, j \in 1 .. N : (N - i) + 1 = (N - j) + 1 => i = j
      BY <1>1
    <2> QED BY <2>1, <2>2, Zenon
  <1> HIDE DEF r
  <1>10. DOMAIN r = 1 .. N /\ \A i \in 1 .. N : r[i] = q[(N - i) + 1] /\ r[i] \in Page
    BY <1>5, <1>9, Zenon
  <1>11. r \in Seq(Page)
    <2>1. r \in [1 .. N -> Page]
      BY <1>5, <1>9, Zenon
    <2> QED BY <1>1, <2>1
  <1>12. IsInjective(r)
    <2>1. ASSUME NEW i \in 1 .. N, NEW j \in 1 .. N, r[i] = r[j] PROVE i = j
      <3>1. (N - i) + 1 = (N - j) + 1
        BY <1>6, <1>9, <1>10, <2>1, Zenon
      <3> QED BY <1>9, <3>1, Zenon
    <2> QED BY <1>10, <2>1, Zenon DEF IsInjective
  <1>13. ToSet(r) = S
    <2>1. ASSUME NEW x \in S PROVE x \in ToSet(r)
      <3>1. PICK i \in 1 .. N : q[i] = x
        BY <1>4, Zenon DEF N
      <3>2. PICK j \in 1 .. N : (N - j) + 1 = i
        BY <1>9, Zenon
      <3> QED BY <1>10, <3>1, <3>2, Zenon DEF ToSet
    <2>2. ASSUME NEW x \in ToSet(r) PROVE x \in S
      <3>1. PICK i \in 1 .. N : r[i] = x
        BY <1>10, Zenon DEF ToSet
      <3> QED BY <1>5, <1>9, <1>10, <3>1, Zenon
    <2> QED BY <2>1, <2>2, Zenon
  <1> QED BY <1>7, <1>8, <1>11, <1>12, <1>13, Zenon DEF r

\* init_memory_manager: all pages are in the free list.
LEMMA AllPages ==
    SetToSeq(Page) \in Seq(Page) /\ IsInjective(SetToSeq(Page)) /\ ToSet(SetToSeq(Page)) = Page
  <1> DEFINE N == Cardinality(Page)
  <1>1. ExistsBijection(1 .. N, Page)
    BY ArenaAssumption, FS_CardinalityType, Zenon
  <1>2. \E g \in [1 .. N -> Page] : IsInjective(g)
    BY <1>1, Zenon DEF ExistsBijection, Bijection, Injection
  <1>3. SetToSeq(Page) \in [1 .. N -> Page] /\ IsInjective(SetToSeq(Page))
    BY <1>2, Zenon DEF SetToSeq
  <1> DEFINE q == SetToSeq(Page)
  <1>4. \A i, j \in 1 .. N : i # j => q[i] # q[j]
    BY <1>3, Zenon DEF IsInjective
  <1>5. Page \in SUBSET Page
    BY Zenon
  <1> QED BY <1>3, <1>4, <1>5, SeqOfSet, Zenon

-----------------------------------------------------------------------------
(* The inductive invariant *)

\* The pages of the arena are the list of the head.
ListInv == pages # NULL => IsListOf(links, pages, ArenaPages)

\* Behind a full page there are only full pages, up to the head.
OrderInv ==
    \A p \in ArenaPages : count[p] = MaxCount /\ links.next[p] # pages => count[links.next[p]] = MaxCount

\* add_page has failed because there was neither a free slot nor a free page.
FailInv == failed => NeedsPage /\ freelist = <<>>

AInv == PagesPartitioned /\ CountsExact /\ ListInv /\ OrderInv /\ FailInv

\* The list of the head is what RingOf finds.
LEMMA ListIsRing ==
    ASSUME NEW h \in Page, NEW S \in SUBSET Page, IsListOf(links, h, S)
    PROVE  RingOf(h) = S
  <1>1. S \subseteq RingOf(h)
    BY Zenon DEF RingOf, IsListOf
  <1>2. RingOf(h) \subseteq S
    BY Zenon DEF RingOf, IsListOf
  <1> QED BY <1>1, <1>2, Zenon

\* A set of numbers has a least one.
LEMMA LeastOf ==
    ASSUME NEW S, S \subseteq Nat, S # {}
    PROVE  \E x \in S : \A y \in S : x <= y
  <1> DEFINE Less == {ss \in Nat \X Nat : ss[1] < ss[2]}
  <1>1. IsWellFoundedOn(Less, Nat)
    BY NatLessThanWellFounded, Zenon DEF OpToRel
  <1> HIDE DEF Less
  <1>2. PICK x \in S : \A y \in S : ~(<<y, x>> \in Less)
    BY <1>1, WFMin, ZenonT(40)
  <1>3. \A y \in S : x <= y
    <2>1. SUFFICES ASSUME NEW y \in S, y < x PROVE FALSE
      OBVIOUS
    <2>2. <<y, x>> \in Nat \X Nat /\ <<y, x>>[1] < <<y, x>>[2]
      BY <2>1
    <2> QED BY <1>2, <2>2, Zenon DEF Less
  <1> QED BY <1>3, Zenon

\* A page has MaxCount slots.
LEMMA FiniteIndex == IsFiniteSet(Index) /\ Cardinality(Index) = MaxCount
  <1>1. 0 \in Int /\ MaxCount - 1 \in Int /\ (IF 0 > MaxCount - 1 THEN 0 ELSE (MaxCount - 1) - 0 + 1) = MaxCount
    BY ArenaAssumption
  <1> QED BY <1>1, FS_Interval, Zenon DEF Index

\* The first clear bit of a bitmap that is not full.
LEMMA FirstFreeClear ==
    ASSUME NEW bits \in SUBSET Index, Cardinality(bits) < MaxCount
    PROVE  FirstFree(bits) \in Index /\ FirstFree(bits) \notin bits
  <1>1. Cardinality(Index) = MaxCount
    BY FiniteIndex, Zenon
  <1>2. Index \ bits # {}
    <2>1. SUFFICES ASSUME Index \ bits = {} PROVE FALSE
      BY Zenon
    <2>2. bits = Index
      BY <2>1, Zenon
    <2> QED BY <1>1, <2>2, ArenaAssumption
  <1>3. Index \ bits \subseteq Nat
    BY DEF Index
  <1>4. PICK i \in Index \ bits : \A j \in Index \ bits : i <= j
    BY <1>2, <1>3, LeastOf, Zenon
  <1>5. FirstFree(bits) \in Index \ bits
    BY <1>4, Zenon DEF FirstFree
  <1> QED BY <1>5, Zenon
\* After a step, too, the arena's pages are the list of the head.
LEMMA NewRing ==
    ASSUME pages' \in Page, NEW S \in SUBSET Page, IsListOf(links', pages', S)
    PROVE  ArenaPages' = S /\ ListInv'
  <1>1. S \subseteq RingOf(pages)'
    BY Zenon DEF RingOf, IsListOf
  <1>2. RingOf(pages)' \subseteq S
    BY Zenon DEF RingOf, IsListOf
  <1>3. pages' # NULL
    BY ArenaAssumption, Zenon
  <1>4. ArenaPages' = S
    BY <1>1, <1>2, <1>3, Zenon DEF ArenaPages
  <1> QED BY <1>4, Zenon DEF ListInv

-----------------------------------------------------------------------------
(* The objects handed out *)

\* The slots that the bitmaps u of the pages A mark.
Marked(A, u) == {o \in Page \X Index : o[1] \in A /\ o[2] \in u[o[1]]}

LEMMA MarkedPairs ==
    ASSUME NEW A, NEW u
    PROVE  /\ Marked(A, u) \in SUBSET (Page \X Index)
           /\ \A p \in Page, i \in Index : <<p, i>> \in Marked(A, u) <=> p \in A /\ i \in u[p]
  <1>1. Marked(A, u) \in SUBSET (Page \X Index)
    BY Zenon DEF Marked
  <1>2. ASSUME NEW p \in Page, NEW i \in Index
        PROVE  <<p, i>> \in Marked(A, u) <=> p \in A /\ i \in u[p]
    BY DEF Marked
  <1> QED BY <1>1, <1>2, Zenon

\* Sets of slots are equal when they agree on every slot.
LEMMA SameSlots ==
    ASSUME NEW X \in SUBSET (Page \X Index), NEW Y \in SUBSET (Page \X Index),
           \A p \in Page, i \in Index : <<p, i>> \in X <=> <<p, i>> \in Y
    PROVE  X = Y
  <1>1. ASSUME NEW o \in Page \X Index PROVE o \in X <=> o \in Y
    <2>1. PICK p \in Page, i \in Index : o = <<p, i>>
      OBVIOUS
    <2> QED BY <2>1, Zenon
  <1> QED BY <1>1, Zenon

\* A set of slots is finite, and so is a bitmap.
LEMMA FiniteSlots ==
    /\ \A X \in SUBSET (Page \X Index) : IsFiniteSet(X) /\ Cardinality(X) \in Nat
    /\ \A X \in SUBSET Index : IsFiniteSet(X) /\ Cardinality(X) \in Nat
    /\ \A X \in SUBSET Page : IsFiniteSet(X) /\ Cardinality(X) \in Nat
  <1>1. IsFiniteSet(Page \X Index)
    BY ArenaAssumption, FiniteIndex, FS_Product, Zenon
  <1> QED BY <1>1, ArenaAssumption, FiniteIndex, FS_Subset, FS_CardinalityType, Zenon

\* take_slot marks one more slot of page p, and counts it.
LEMMA SlotTaken ==
    ASSUME TypeOK, CountsExact, NEW p \in Page, NEW l, NEW n, NEW bits \in SUBSET Index,
           n = Cardinality(bits), n < MaxCount,
           bits = IF p \in ArenaPages THEN used[p] ELSE {},
           ArenaPages' = ArenaPages \union {p}, take_slot(p, l, n, bits)
    PROVE  /\ used' \in [Page -> SUBSET Index] /\ count' \in [Page -> 0 .. MaxCount]
           /\ num_objects' \in Nat /\ live' \subseteq Page \X Index
           /\ live' = Marked(ArenaPages', used')
           /\ \A q \in ArenaPages' : count'[q] = Cardinality(used'[q])
           /\ num_objects' = Cardinality(live')
           /\ count'[p] = n + 1 /\ \A q \in Page : q # p => count'[q] = count[q]
  <1>1. PICK i \in Index : i = FirstFree(bits) /\ i \notin bits
    BY FirstFreeClear, Zenon
  <1>2. /\ used' = [used EXCEPT ![p] = bits \union {i}]
        /\ count' = [count EXCEPT ![p] = n + 1]
        /\ num_objects' = num_objects + 1
        /\ live' = live \union {<<p, i>>}
    BY <1>1, Zenon DEF take_slot
  <1>3. n \in Nat /\ n + 1 \in 0 .. MaxCount
    <2>1. n \in Nat
      BY FiniteSlots, Zenon
    <2> QED BY <2>1, ArenaAssumption
  <1>4. /\ used \in [Page -> SUBSET Index] /\ count \in [Page -> 0 .. MaxCount]
        /\ num_objects \in Nat /\ live \in SUBSET (Page \X Index)
    BY Zenon DEF TypeOK
  <1>5. /\ used' \in [Page -> SUBSET Index] /\ count' \in [Page -> 0 .. MaxCount]
        /\ used'[p] = bits \union {i} /\ count'[p] = n + 1
        /\ \A q \in Page : q # p => count'[q] = count[q] /\ used'[q] = used[q]
    BY <1>2, <1>3, <1>4, Zenon
  <1>6. live = Marked(ArenaPages, used) /\ num_objects = Cardinality(live)
        /\ \A q \in ArenaPages : count[q] = Cardinality(used[q])
    BY Zenon DEF CountsExact, Marked
  <1>7. <<p, i>> \notin live
    BY <1>1, <1>6, MarkedPairs, Zenon
  <1>8. live' \in SUBSET (Page \X Index)
    <2>1. <<p, i>> \in Page \X Index
      BY Zenon
    <2> QED BY <1>2, <1>4, <2>1, Zenon
  <1>9. live' = Marked(ArenaPages', used')
    <2>1. ASSUME NEW q \in Page, NEW j \in Index
          PROVE  <<q, j>> \in live' <=> <<q, j>> \in Marked(ArenaPages', used')
      <3>1. <<q, j>> \in live' <=> (<<q, j>> \in live \/ (q = p /\ j = i))
        BY <1>2
      <3>2. <<q, j>> \in live <=> q \in ArenaPages /\ j \in used[q]
        BY <1>6, MarkedPairs, Zenon
      <3>3. <<q, j>> \in Marked(ArenaPages', used') <=> q \in ArenaPages' /\ j \in used'[q]
        BY MarkedPairs, Zenon
      <3>4. CASE q = p
        BY <1>5, <3>1, <3>2, <3>3, <3>4, Zenon
      <3>5. CASE q # p
        BY <1>5, <3>1, <3>2, <3>3, <3>5, Zenon
      <3> QED BY <3>4, <3>5, Zenon
    <2>2. Marked(ArenaPages', used') \in SUBSET (Page \X Index)
      BY MarkedPairs, Zenon
    <2> QED BY <1>8, <2>1, <2>2, SameSlots, Zenon
  <1>10. num_objects' = Cardinality(live') /\ num_objects' \in Nat
    <2>1. Cardinality(live') = Cardinality(live) + 1
      BY <1>2, <1>4, <1>7, FiniteSlots, FS_AddElement, Zenon
    <2> QED BY <1>2, <1>4, <1>6, <2>1
  <1>11. ASSUME NEW q \in ArenaPages' PROVE count'[q] = Cardinality(used'[q])
    <2>1. CASE q = p
      <3>1. Cardinality(bits \union {i}) = Cardinality(bits) + 1
        BY <1>1, FiniteSlots, FS_AddElement, Zenon
      <3> QED BY <1>5, <2>1, <3>1, Zenon
    <2>2. CASE q # p
      <3>1. q \in ArenaPages /\ q \in Page
        BY <2>2, Zenon DEF ArenaPages, RingOf
      <3> QED BY <1>5, <1>6, <2>2, <3>1, Zenon
    <2> QED BY <2>1, <2>2, Zenon
  <1> QED BY <1>5, <1>8, <1>9, <1>10, <1>11, Zenon
-----------------------------------------------------------------------------
(* alloc_object *)

\* What the invariant says of the arena's pages.
LEMMA InvFacts ==
    ASSUME AInv
    PROVE  /\ TypeOK /\ CountsExact /\ OrderInv /\ ListInv /\ FailInv
           /\ freelist \in Seq(Page) /\ pages \in Page \union {NULL} /\ links \in Links
           /\ num_pages = Cardinality(ArenaPages) /\ taken \subseteq Page
           /\ IsInjective(freelist) /\ ToSet(freelist) \intersect taken = {}
           /\ ArenaPages = Page \ (ToSet(freelist) \union taken)
           /\ ArenaPages \in SUBSET Page
           /\ pages # NULL => /\ pages \in Page /\ pages \in ArenaPages /\ IsListOf(links, pages, ArenaPages)
                              /\ \A n \in ArenaPages : links.next[n] \in ArenaPages
           /\ pages = NULL => ArenaPages = {}
  <1>1. TypeOK /\ ListInv
    BY Zenon DEF AInv, PagesPartitioned
  <1>2. ArenaPages \in SUBSET Page
    BY Zenon DEF ArenaPages, RingOf
  <1>3. pages = NULL => ArenaPages = {}
    BY Zenon DEF ArenaPages
  <1>4. pages # NULL => /\ pages \in Page /\ pages \in ArenaPages /\ IsListOf(links, pages, ArenaPages)
                        /\ \A n \in ArenaPages : links.next[n] \in ArenaPages
    BY <1>1, Zenon DEF ListInv, TypeOK, IsListOf, Closed
  <1>5. freelist \in Seq(Page) /\ pages \in Page \union {NULL} /\ links \in Links /\ taken \subseteq Page
    BY <1>1, Zenon DEF TypeOK
  <1>6. num_pages = Cardinality(ArenaPages)
    BY Zenon DEF AInv, CountsExact
  <1> QED BY <1>1, <1>2, <1>3, <1>4, <1>5, <1>6, Zenon DEF AInv, PagesPartitioned

\* The object comes from the head page.
LEMMA HeadStep ==
    ASSUME AInv, ~failed, alloc_from_head
    PROVE  AInv'
  <1> DEFINE A == ArenaPages
             n == count[pages]
  <1>1. /\ TypeOK /\ CountsExact /\ OrderInv /\ links \in Links /\ A \in SUBSET Page
        /\ num_pages = Cardinality(A)
    BY InvFacts, Zenon
  <1>2. pages \in Page /\ pages \in A /\ IsListOf(links, pages, A) /\ ~(n >= MaxCount)
    BY InvFacts, Zenon DEF alloc_from_head, NeedsPage
  <1>3. /\ take_slot(pages, links, n, used[pages])
        /\ freelist' = freelist /\ num_pages' = num_pages /\ taken' = taken /\ failed' = failed
    BY Zenon DEF alloc_from_head
  <1>4. links' = links /\ pages' = IF n + 1 >= MaxCount THEN links.next[pages] ELSE pages
    BY <1>3, Zenon DEF take_slot
  <1>5. pages' \in A
    BY <1>2, <1>4, Zenon DEF IsListOf, Closed
  <1>6. ArenaPages' = A /\ ListInv'
    <2>1. IsListOf(links', pages', A)
      BY <1>1, <1>2, <1>4, <1>5, AnyHead, Zenon
    <2> QED BY <1>1, <1>5, <2>1, NewRing, Zenon
  <1>7. /\ n \in 0 .. MaxCount /\ used[pages] \in SUBSET Index /\ n = Cardinality(used[pages])
        /\ n < MaxCount
    <2>1. n \in 0 .. MaxCount /\ used[pages] \in SUBSET Index
      BY <1>1, <1>2, Zenon DEF TypeOK
    <2>2. n = Cardinality(used[pages])
      BY <1>1, <1>2, Zenon DEF CountsExact
    <2>3. n < MaxCount
      BY <1>2, <2>1, ArenaAssumption
    <2> QED BY <2>1, <2>2, <2>3, Zenon
  <1> HIDE DEF A, n
  <1>8. /\ used' \in [Page -> SUBSET Index] /\ count' \in [Page -> 0 .. MaxCount]
        /\ num_objects' \in Nat /\ live' \subseteq Page \X Index
        /\ live' = Marked(ArenaPages', used')
        /\ \A q \in ArenaPages' : count'[q] = Cardinality(used'[q])
        /\ num_objects' = Cardinality(live')
        /\ count'[pages] = n + 1 /\ \A q \in Page : q # pages => count'[q] = count[q]
    <2>1. used[pages] = IF pages \in ArenaPages THEN used[pages] ELSE {}
      BY <1>2, Zenon DEF A
    <2>2. ArenaPages' = ArenaPages \union {pages}
      BY <1>2, <1>6, Zenon DEF A
    <2> QED BY <1>1, <1>2, <1>3, <1>7, <2>1, <2>2, SlotTaken, Zenon
  <1>9. TypeOK'
    <2>1. pages' \in Page \union {NULL} /\ links' \in Links
      BY <1>1, <1>4, <1>5, Zenon
    <2>2. freelist' \in Seq(Page) /\ num_pages' \in Nat /\ taken' \subseteq Page /\ failed' \in BOOLEAN
      BY <1>1, <1>3, Zenon DEF TypeOK
    <2> QED BY <1>8, <2>1, <2>2, Zenon DEF TypeOK
  <1>10. PagesPartitioned'
    <2>1. /\ IsInjective(freelist') /\ ToSet(freelist') \intersect taken' = {}
          /\ ArenaPages' = Page \ (ToSet(freelist') \union taken')
      BY <1>3, <1>6, InvFacts, Zenon DEF A
    <2> QED BY <1>9, <2>1, Zenon DEF PagesPartitioned
  <1>11. CountsExact'
    BY <1>1, <1>3, <1>6, <1>8, Zenon DEF CountsExact, Marked
  <1>12. OrderInv'
    <2>1. SUFFICES ASSUME NEW p \in A, count'[p] = MaxCount, links.next[p] # pages'
                   PROVE  count'[links.next[p]] = MaxCount
      BY <1>4, <1>6, Zenon DEF OrderInv
    <2>2. n + 1 = MaxCount => n + 1 >= MaxCount
      BY <1>7
    <2>3. CASE links.next[p] = pages
      <3>1. n + 1 >= MaxCount
        BY <1>4, <2>1, <2>3, Zenon
      <3>2. n + 1 = MaxCount
        BY ONLY <1>7, <3>1, ArenaAssumption
      <3> QED BY <1>8, <2>3, <3>2, Zenon
    <2>4. CASE links.next[p] # pages
      <3>1. p # pages
        BY <1>4, <1>8, <2>1, <2>2, Zenon
      <3>2. count[p] = MaxCount
        BY <1>1, <1>8, <2>1, <3>1, Zenon
      <3>3. count[links.next[p]] = MaxCount
        BY <1>1, <2>1, <2>4, <3>2, Zenon DEF OrderInv, A
      <3>4. links.next[p] \in Page
        BY <1>1, <1>2, Zenon DEF IsListOf, Closed
      <3> QED BY <1>8, <2>4, <3>3, <3>4, Zenon
    <2> QED BY <2>3, <2>4, Zenon
  <1>13. FailInv'
    BY <1>3, Zenon DEF FailInv
  <1> QED BY <1>6, <1>10, <1>11, <1>12, <1>13, Zenon DEF AInv
\* The new page is alone in the arena, or has joined its list.
Grown(page, l) ==
    /\ l \in Links /\ IsListOf(l, page, ArenaPages \union {page})
    /\ pages = NULL => l.next[page] = page
    /\ pages # NULL => Joined(links, pages, ArenaPages, page, l)

\* add_page: the new page joins the list, in front of the old head.
LEMMA NewPageList ==
    ASSUME AInv, NEW page \in Page, page \notin ArenaPages,
           NEW in, in = insert_page(init_list_node(links, page), page)
    PROVE  in.head = page /\ Grown(page, in.links)
  <1> DEFINE A == ArenaPages
             k == init_list_node(links, page)
  <1>1. links \in Links /\ A \in SUBSET Page /\ (pages = NULL => A = {})
    BY InvFacts, Zenon
  <1>2. k \in Links /\ Single(k, page) /\ \A n \in Page : n # page => k.next[n] = links.next[n] /\ k.prev[n] = links.prev[n]
    BY <1>1, InitLinks, Zenon
  <1>3. in.head = page /\ in.links = IF pages = NULL THEN k ELSE merge_list(k, page, pages)
    BY DEF insert_page
  <1> HIDE DEF k
  <1>4. CASE pages = NULL
    <2>1. in.links = k /\ A \union {page} = {page}
      BY <1>1, <1>3, <1>4, Zenon
    <2>2. IsListOf(k, page, {page})
      BY <1>2, Zenon DEF IsListOf, Closed, Single
    <2> QED BY <1>2, <1>3, <1>4, <2>1, <2>2, Zenon DEF Single, Grown
  <1>5. CASE pages # NULL
    <2>1. pages \in Page /\ pages \in A /\ IsListOf(links, pages, A) /\ in.links = merge_list(k, page, pages)
      BY <1>3, <1>5, InvFacts, Zenon
    <2> HIDE DEF A
    <2>2. \A n \in A : k.next[n] = links.next[n] /\ k.prev[n] = links.prev[n]
      BY <1>1, <1>2, Zenon DEF A
    <2>3. IsListOf(k, pages, A)
      BY <1>1, <1>2, <2>1, <2>2, SameList, Zenon
    <2>4. page \notin A
      BY Zenon DEF A
    <2>5. Joined(k, pages, A, page, in.links)
      BY <1>1, <1>2, <2>1, <2>3, <2>4, MergeList, Zenon
    <2>6. \A n \in A : in.links.next[n] = IF n = links.prev[pages] THEN page ELSE links.next[n]
      BY <2>1, <2>2, <2>5, Zenon DEF Joined
    <2>7. Joined(links, pages, A, page, in.links)
      BY <2>5, <2>6, Zenon DEF Joined
    <2> QED BY <1>3, <1>5, <2>7, Zenon DEF A, Grown, Joined
  <1> QED BY <1>4, <1>5, Zenon

\* The object comes from a page that kalloc has just given.
LEMMA NewPageStep ==
    ASSUME AInv, ~failed, alloc_from_new_page
    PROVE  AInv'
  <1> DEFINE A == ArenaPages
             page == Head(freelist)
             in == insert_page(init_list_node(links, page), page)
             l == in.links
  <1>1. /\ TypeOK /\ CountsExact /\ OrderInv /\ links \in Links /\ A \in SUBSET Page
        /\ num_pages = Cardinality(A) /\ num_pages \in Nat /\ taken \subseteq Page
        /\ freelist \in Seq(Page) /\ IsInjective(freelist) /\ ToSet(freelist) \intersect taken = {}
        /\ A = Page \ (ToSet(freelist) \union taken)
    BY InvFacts, Zenon DEF TypeOK
  <1>2. /\ freelist # <<>> /\ take_slot(in.head, in.links, 0, {})
        /\ freelist' = Tail(freelist) /\ num_pages' = num_pages + 1 /\ taken' = taken /\ failed' = failed
    BY Zenon DEF alloc_from_new_page
  <1>3. /\ page \in Page /\ page \in ToSet(freelist) /\ Tail(freelist) \in Seq(Page)
        /\ IsInjective(Tail(freelist)) /\ ToSet(Tail(freelist)) = ToSet(freelist) \ {page}
    BY <1>1, <1>2, TailFacts, Zenon
  <1> HIDE DEF A, page
  <1>4. page \notin A /\ page \notin taken
    BY <1>1, <1>3, Zenon
  <1>5. /\ in.head = page /\ l \in Links /\ IsListOf(l, page, A \union {page})
        /\ pages = NULL => l.next[page] = page
        /\ pages # NULL => /\ l.next[page] = pages
                           /\ \A n \in A : l.next[n] = IF n = links.prev[pages] THEN page ELSE links.next[n]
    <2>1. in.head = page /\ Grown(page, in.links)
      BY <1>3, <1>4, NewPageList, Zenon DEF A
    <2> QED BY <2>1, Zenon DEF A, Grown, Joined
  <1>6. take_slot(page, l, 0, {})
    BY <1>2, <1>5, Zenon
  <1> HIDE DEF in, l
  <1>7. links' = l /\ pages' = IF 0 + 1 >= MaxCount THEN l.next[page] ELSE page
    BY <1>6, Zenon DEF take_slot
  <1>8. pages' \in A \union {page} /\ A \union {page} \in SUBSET Page
    BY <1>1, <1>3, <1>5, <1>7, Zenon DEF IsListOf, Closed
  <1>9. ArenaPages' = A \union {page} /\ ListInv'
    <2>1. IsListOf(links', pages', A \union {page})
      BY <1>5, <1>7, <1>8, AnyHead, Zenon
    <2> QED BY <1>8, <2>1, NewRing, Zenon
  <1>10. /\ used' \in [Page -> SUBSET Index] /\ count' \in [Page -> 0 .. MaxCount]
         /\ num_objects' \in Nat /\ live' \subseteq Page \X Index
         /\ live' = Marked(ArenaPages', used')
         /\ \A q \in ArenaPages' : count'[q] = Cardinality(used'[q])
         /\ num_objects' = Cardinality(live')
         /\ count'[page] = 0 + 1 /\ \A q \in Page : q # page => count'[q] = count[q]
    <2>1. {} = IF page \in ArenaPages THEN used[page] ELSE {}
      BY <1>4, Zenon DEF A
    <2>2. ArenaPages' = ArenaPages \union {page}
      BY <1>9, Zenon DEF A
    <2>3. 0 = Cardinality({}) /\ {} \in SUBSET Index
      BY FS_EmptySet, Zenon
    <2>4. 0 < MaxCount
      BY ArenaAssumption
    <2> QED BY <1>1, <1>3, <1>6, <2>1, <2>2, <2>3, <2>4, SlotTaken, Zenon
  <1>11. TypeOK'
    <2>1. pages' \in Page \union {NULL} /\ links' \in Links
      BY <1>5, <1>7, <1>8, Zenon
    <2>2. freelist' \in Seq(Page) /\ taken' \subseteq Page /\ failed' \in BOOLEAN
      BY <1>1, <1>2, <1>3, Zenon DEF TypeOK, page
    <2>3. num_pages \in Nat /\ num_pages' = num_pages + 1
      BY <1>1, <1>2, Zenon
    <2>4. num_pages' \in Nat
      BY ONLY <2>3
    <2> QED BY <1>10, <2>1, <2>2, <2>4, Zenon DEF TypeOK
  <1>12. PagesPartitioned'
    <2>1. /\ IsInjective(freelist') /\ ToSet(freelist') \intersect taken' = {}
          /\ ToSet(freelist') = ToSet(freelist) \ {page}
      BY <1>1, <1>2, <1>3, Zenon
    <2>2. ArenaPages' = Page \ (ToSet(freelist') \union taken')
      BY <1>1, <1>2, <1>3, <1>4, <1>9, <2>1, Zenon
    <2> QED BY <1>11, <2>1, <2>2, Zenon DEF PagesPartitioned
  <1>13. CountsExact'
    <2>1. num_pages' = Cardinality(ArenaPages')
      BY <1>1, <1>2, <1>4, <1>9, FiniteSlots, FS_AddElement, Zenon
    <2> QED BY <1>10, <2>1, Zenon DEF CountsExact, Marked
  <1>14. OrderInv'
    <2>1. SUFFICES ASSUME NEW p \in A \union {page}, count'[p] = MaxCount, l.next[p] # pages'
                   PROVE  count'[l.next[p]] = MaxCount
      BY <1>7, <1>9, Zenon DEF OrderInv
    <2>2. 0 + 1 = MaxCount <=> 0 + 1 >= MaxCount
      BY ArenaAssumption
    <2>3. p # page
      BY <1>7, <1>10, <2>1, <2>2, Zenon
    <2>4. p \in A /\ p \in Page /\ pages # NULL
      BY <1>1, <2>1, <2>3, InvFacts, Zenon DEF A
    <2>5. CASE p = links.prev[pages]
      <3>1. l.next[p] = page
        BY <1>5, <2>4, <2>5, Zenon
      <3> QED BY <1>7, <1>10, <2>1, <2>2, <3>1, Zenon
    <2>6. CASE p # links.prev[pages]
      <3>1. l.next[p] = links.next[p]
        BY <1>5, <2>4, <2>6, Zenon
      <3>2. links.next[p] \in A /\ links.prev[links.next[p]] = p
        BY <2>4, InvFacts, Zenon DEF A, IsListOf
      <3>3. links.next[p] # pages
        BY <2>6, <3>2, Zenon
      <3>4. count[p] = MaxCount
        BY <1>10, <2>1, <2>3, <2>4, Zenon
      <3>5. count[links.next[p]] = MaxCount
        BY <1>1, <2>4, <3>3, <3>4, Zenon DEF OrderInv, A
      <3>6. links.next[p] \in Page /\ links.next[p] # page
        BY <1>1, <1>4, <3>2, Zenon
      <3> QED BY <1>10, <3>1, <3>5, <3>6, Zenon
    <2> QED BY <2>5, <2>6, Zenon
  <1>15. FailInv'
    BY <1>2, Zenon DEF FailInv
  <1> QED BY <1>9, <1>12, <1>13, <1>14, <1>15, Zenon DEF AInv
-----------------------------------------------------------------------------
(* free_object *)

\* The list after move_page_to_head, and what is behind a full page in it.
MovedToHead(page, l) ==
    /\ l \in Links /\ IsListOf(l, page, ArenaPages)
    /\ \A p \in ArenaPages \ {page} :
         count[p] = MaxCount /\ l.next[p] # page => count[l.next[p]] = MaxCount

LEMMA MovedList ==
    ASSUME AInv, NEW page \in ArenaPages, NEW mv, mv = move_page_to_head(page)
    PROVE  mv.head = page /\ MovedToHead(page, mv.links)
  <1> DEFINE A == ArenaPages
             r == detach_from_list(links, page)
             m == merge_list(r, page, pages)
  <1>1. /\ links \in Links /\ A \in SUBSET Page /\ page \in Page /\ page \in A /\ pages \in Page
        /\ pages \in A /\ IsListOf(links, pages, A) /\ pages # NULL
    BY InvFacts, Zenon
  <1>2. \A p \in A : count[p] = MaxCount /\ links.next[p] # pages => count[links.next[p]] = MaxCount
    BY InvFacts, Zenon DEF OrderInv
  <1>3. CASE page = pages
    <2>1. mv.links = links /\ mv.head = pages
      BY <1>3 DEF move_page_to_head
    <2> QED BY <1>1, <1>2, <1>3, <2>1, Zenon DEF MovedToHead
  <1>4. CASE page # pages
    <2>1. mv.links = m /\ mv.head = page
      BY <1>1, <1>4 DEF move_page_to_head, insert_page
    <2> HIDE DEF A, r, m
    <2>2. Left(links, pages, A, page, r)
      BY <1>1, <1>4, DetachList, Zenon DEF r
    <2>3. r \in Links /\ IsListOf(r, pages, A \ {page}) /\ Single(r, page)
      BY <2>2, Zenon DEF Left
    <2>4. A \ {page} \in SUBSET Page /\ page \notin A \ {page}
      BY <1>1, Zenon
    <2>5. Joined(r, pages, A \ {page}, page, m)
      BY <1>1, <2>3, <2>4, MergeList, Zenon DEF m
    <2>6. m \in Links /\ IsListOf(m, page, A)
      <3>1. (A \ {page}) \union {page} = A
        BY <1>1, Zenon
      <3> QED BY <2>5, <3>1, Zenon DEF Joined
    <2>7. ASSUME NEW p \in A \ {page}, count[p] = MaxCount, m.next[p] # page
          PROVE  count[m.next[p]] = MaxCount
      <3>1. m.next[p] = r.next[p] /\ p # r.prev[pages]
        BY <2>5, <2>7, Zenon DEF Joined
      <3>2. r.prev[r.next[p]] = p
        BY <2>3, Zenon DEF IsListOf
      <3>3. r.next[p] # pages
        BY <3>1, <3>2, Zenon
      <3>4. CASE links.next[p] = page
        <4>1. count[page] = MaxCount
          BY <1>2, <1>4, <2>7, <3>4, Zenon
        <4>2. r.next[p] = links.next[page]
          BY <2>2, <3>4, Zenon DEF Left
        <4> QED BY <1>1, <1>2, <3>1, <3>3, <4>1, <4>2, Zenon
      <3>5. CASE links.next[p] # page
        <4>1. r.next[p] = links.next[p]
          BY <2>2, <3>5, Zenon DEF Left
        <4> QED BY <1>2, <2>7, <3>1, <3>3, <4>1, Zenon
      <3> QED BY <3>4, <3>5, Zenon
    <2> QED BY <2>1, <2>6, <2>7, Zenon DEF MovedToHead, A
  <1> QED BY <1>3, <1>4, Zenon

\* free_object clears one bit and counts it.
LEMMA SlotFreed ==
    ASSUME TypeOK, CountsExact, NEW p \in Page, NEW i \in Index, <<p, i>> \in live,
           ArenaPages' = ArenaPages,
           used' = [used EXCEPT ![p] = @ \ {i}], count' = [count EXCEPT ![p] = @ - 1],
           num_objects' = num_objects - 1, live' = live \ {<<p, i>>}
    PROVE  /\ used' \in [Page -> SUBSET Index] /\ count' \in [Page -> 0 .. MaxCount]
           /\ num_objects' \in Nat /\ live' \subseteq Page \X Index
           /\ live' = Marked(ArenaPages', used')
           /\ \A q \in ArenaPages' : count'[q] = Cardinality(used'[q])
           /\ num_objects' = Cardinality(live')
           /\ count'[p] # MaxCount /\ \A q \in Page : q # p => count'[q] = count[q]
  <1>1. /\ used \in [Page -> SUBSET Index] /\ count \in [Page -> 0 .. MaxCount]
        /\ num_objects \in Nat /\ live \in SUBSET (Page \X Index)
    BY Zenon DEF TypeOK
  <1>2. live = Marked(ArenaPages, used) /\ num_objects = Cardinality(live)
        /\ \A q \in ArenaPages : count[q] = Cardinality(used[q])
    BY Zenon DEF CountsExact, Marked
  <1>3. p \in ArenaPages /\ i \in used[p] /\ used[p] \in SUBSET Index /\ count[p] = Cardinality(used[p])
    BY <1>1, <1>2, MarkedPairs, Zenon
  <1>4. Cardinality(used[p] \ {i}) = Cardinality(used[p]) - 1
    BY <1>3, FiniteSlots, FS_RemoveElement, Zenon
  <1>5. Cardinality(used[p] \ {i}) \in Nat /\ count[p] \in 0 .. MaxCount
    BY <1>1, <1>3, FiniteSlots, Zenon
  <1>6. count[p] - 1 \in 0 .. MaxCount /\ count[p] - 1 # MaxCount
    <2>1. count[p] - 1 \in Nat
      BY <1>3, <1>4, <1>5, Zenon
    <2> QED BY ONLY <1>5, <2>1, ArenaAssumption
  <1>7. /\ used' \in [Page -> SUBSET Index] /\ count' \in [Page -> 0 .. MaxCount]
        /\ used'[p] = used[p] \ {i} /\ count'[p] = count[p] - 1
        /\ \A q \in Page : q # p => count'[q] = count[q] /\ used'[q] = used[q]
    <2>1. used[p] \ {i} \in SUBSET Index
      BY <1>3, Zenon
    <2> QED BY <1>1, <1>6, <2>1, Zenon
  <1>8. live' \in SUBSET (Page \X Index)
    BY <1>1, Zenon
  <1>9. live' = Marked(ArenaPages', used')
    <2>0. /\ Marked(ArenaPages', used') \in SUBSET (Page \X Index)
          /\ \A q \in Page, j \in Index :
               <<q, j>> \in Marked(ArenaPages', used') <=> q \in ArenaPages' /\ j \in used'[q]
      BY ONLY MarkedPairs, Zenon
    <2>1. ASSUME NEW q \in Page, NEW j \in Index
          PROVE  <<q, j>> \in live' <=> <<q, j>> \in Marked(ArenaPages', used')
      <3>1. <<q, j>> \in live' <=> (<<q, j>> \in live /\ ~(q = p /\ j = i))
        OBVIOUS
      <3>2. <<q, j>> \in live <=> q \in ArenaPages /\ j \in used[q]
        BY <1>2, MarkedPairs, Zenon
      <3>3. <<q, j>> \in Marked(ArenaPages', used') <=> q \in ArenaPages /\ j \in used'[q]
        BY <2>0, Zenon
      <3>4. CASE q = p
        <4>1. j \in used'[q] <=> j \in used[q] /\ j # i
          BY <1>7, <3>4, Zenon
        <4> QED BY <3>1, <3>2, <3>3, <3>4, <4>1, Zenon
      <3>5. CASE q # p
        <4>1. used'[q] = used[q]
          BY <1>7, <3>5, Zenon
        <4> QED BY <3>1, <3>2, <3>3, <3>5, <4>1, Zenon
      <3> QED BY <3>4, <3>5, Zenon
    <2> QED BY <1>8, <2>0, <2>1, SameSlots, Zenon
  <1>10. num_objects' = Cardinality(live') /\ num_objects' \in Nat
    <2>1. IsFiniteSet(live) /\ <<p, i>> \in live
      BY <1>1, FiniteSlots, Zenon
    <2>2. Cardinality(live \ {<<p, i>>}) = Cardinality(live) - 1
      BY ONLY <2>1, FS_RemoveElement, Zenon
    <2>3. Cardinality(live') = Cardinality(live) - 1
      BY <2>2, Zenon
    <2> QED BY <1>2, <1>8, <2>3, FiniteSlots, Zenon
  <1>11. ASSUME NEW q \in ArenaPages' PROVE count'[q] = Cardinality(used'[q])
    <2>1. CASE q = p
      BY <1>3, <1>4, <1>7, <2>1, Zenon
    <2>2. CASE q # p
      <3>1. q \in ArenaPages /\ q \in Page
        BY Zenon DEF ArenaPages, RingOf
      <3> QED BY <1>2, <1>7, <2>2, <3>1, Zenon
    <2> QED BY <2>1, <2>2, Zenon
  <1> QED BY <1>6, <1>7, <1>8, <1>9, <1>10, <1>11, Zenon
\* free_object keeps the invariant.
LEMMA FreeStep ==
    ASSUME AInv, NEW page \in Page, NEW i \in Index, free_object(page, i)
    PROVE  AInv'
  <1> DEFINE A == ArenaPages
             mv == move_page_to_head(page)
  <1>1. /\ TypeOK /\ CountsExact /\ A \in SUBSET Page /\ num_pages = Cardinality(A)
    BY InvFacts, Zenon
  <1>2. /\ ~failed /\ <<page, i>> \in live
        /\ used' = [used EXCEPT ![page] = @ \ {i}] /\ count' = [count EXCEPT ![page] = @ - 1]
        /\ num_objects' = num_objects - 1 /\ live' = live \ {<<page, i>>}
        /\ links' = mv.links /\ pages' = mv.head
        /\ freelist' = freelist /\ num_pages' = num_pages /\ taken' = taken /\ failed' = failed
    BY Zenon DEF free_object
  <1>3. page \in A
    <2>1. live = Marked(ArenaPages, used)
      BY <1>1, Zenon DEF CountsExact, Marked
    <2> QED BY <1>2, <2>1, MarkedPairs, Zenon
  <1>4. mv.head = page /\ MovedToHead(page, mv.links)
    BY <1>3, MovedList, Zenon
  <1> HIDE DEF mv
  <1>5. /\ pages' = page /\ links' \in Links /\ IsListOf(links', pages', A)
        /\ \A p \in A \ {page} : count[p] = MaxCount /\ links'.next[p] # page => count[links'.next[p]] = MaxCount
    BY <1>2, <1>4, Zenon DEF MovedToHead
  <1>6. ArenaPages' = A /\ ListInv'
    <2>1. pages' \in Page
      BY <1>5, Zenon
    <2> QED BY <1>1, <1>5, <2>1, NewRing, Zenon
  <1>7. /\ used' \in [Page -> SUBSET Index] /\ count' \in [Page -> 0 .. MaxCount]
        /\ num_objects' \in Nat /\ live' \subseteq Page \X Index
        /\ live' = Marked(ArenaPages', used')
        /\ \A q \in ArenaPages' : count'[q] = Cardinality(used'[q])
        /\ num_objects' = Cardinality(live')
        /\ count'[page] # MaxCount /\ \A q \in Page : q # page => count'[q] = count[q]
    BY <1>1, <1>2, <1>6, SlotFreed, Zenon
  <1>8. TypeOK'
    <2>1. freelist' \in Seq(Page) /\ num_pages' \in Nat /\ taken' \subseteq Page /\ failed' \in BOOLEAN
      BY <1>1, <1>2, Zenon DEF TypeOK
    <2>2. pages' \in Page \union {NULL}
      BY <1>5, Zenon
    <2> QED BY <1>5, <1>7, <2>1, <2>2, Zenon DEF TypeOK
  <1>9. PagesPartitioned'
    <2>1. /\ IsInjective(freelist') /\ ToSet(freelist') \intersect taken' = {}
          /\ ArenaPages' = Page \ (ToSet(freelist') \union taken')
      BY <1>2, <1>6, InvFacts, Zenon
    <2> QED BY <1>8, <2>1, Zenon DEF PagesPartitioned
  <1>10. CountsExact'
    BY <1>1, <1>2, <1>6, <1>7, Zenon DEF CountsExact, Marked
  <1> HIDE DEF A
  <1>11. OrderInv'
    <2>1. SUFFICES ASSUME NEW p \in A, count'[p] = MaxCount, links'.next[p] # page
                   PROVE  count'[links'.next[p]] = MaxCount
      BY <1>5, <1>6, Zenon DEF OrderInv
    <2>2. p # page /\ p \in Page
      BY <1>1, <1>7, <2>1, Zenon
    <2>3. count[links'.next[p]] = MaxCount
      BY <1>5, <1>7, <2>1, <2>2, Zenon
    <2>4. links'.next[p] \in Page
      BY <1>1, <1>5, Zenon DEF IsListOf, Closed
    <2> QED BY <1>7, <2>1, <2>3, <2>4, Zenon
  <1>12. FailInv'
    BY <1>2, Zenon DEF FailInv
  <1> QED BY <1>6, <1>9, <1>10, <1>11, <1>12, Zenon DEF AInv

-----------------------------------------------------------------------------
(* clear_arena, the failing allocation and the other users of kalloc *)

\* clear_arena gives back every page of the list, once.
LEMMA ClearStep ==
    ASSUME AInv, clear_arena
    PROVE  AInv'
  <1> DEFINE A == ArenaPages
  <1>1. /\ TypeOK /\ A \in SUBSET Page
        /\ freelist \in Seq(Page) /\ IsInjective(freelist) /\ ToSet(freelist) \intersect taken = {}
        /\ A = Page \ (ToSet(freelist) \union taken) /\ taken \subseteq Page
    BY InvFacts, Zenon
  <1>2. /\ ~failed /\ pages # NULL /\ pages' = NULL /\ num_objects' = 0 /\ num_pages' = 0 /\ live' = {}
        /\ links' = links /\ used' = used /\ count' = count /\ taken' = taken /\ failed' = failed
    BY Zenon DEF clear_arena
  <1>3. PICK order \in SetToSeqs(RingOf(pages)) : freelist' = Reverse(order) \o freelist
    BY Zenon DEF clear_arena
  <1>4. order \in SetToSeqs(A)
    BY <1>2, <1>3, Zenon DEF ArenaPages
  <1> HIDE DEF A
  <1>5. order \in [1 .. Cardinality(A) -> A] /\ \A i, j \in 1 .. Cardinality(A) : i # j => order[i] # order[j]
    BY <1>4, Zenon DEF SetToSeqs
  <1>6. Reverse(order) \in Seq(Page) /\ IsInjective(Reverse(order)) /\ ToSet(Reverse(order)) = A
    BY <1>1, <1>5, SeqOfSet, Zenon
  <1>7. /\ freelist' \in Seq(Page) /\ IsInjective(freelist')
        /\ ToSet(freelist') = A \union ToSet(freelist)
    <2>1. A \intersect ToSet(freelist) = {}
      BY <1>1, Zenon
    <2> QED BY <1>1, <1>3, <1>6, <2>1, ConcatFacts, Zenon
  <1>8. ArenaPages' = {}
    BY <1>2, Zenon DEF ArenaPages
  <1>9. TypeOK'
    <2>1. 0 \in Nat
      OBVIOUS
    <2> QED BY <1>1, <1>2, <1>7, <2>1, Zenon DEF TypeOK
  <1>10. PagesPartitioned'
    <2>1. ToSet(freelist') \intersect taken' = {}
      BY <1>1, <1>2, <1>7, Zenon
    <2>2. ArenaPages' = Page \ (ToSet(freelist') \union taken')
      BY <1>1, <1>2, <1>7, <1>8, Zenon
    <2> QED BY <1>7, <1>9, <2>1, <2>2, Zenon DEF PagesPartitioned
  <1>11. CountsExact'
    <2>1. live' = {o \in Page \X Index : o[1] \in ArenaPages' /\ o[2] \in used'[o[1]]}
      BY <1>2, <1>8, Zenon
    <2>2. 0 = Cardinality({})
      BY FS_EmptySet, Zenon
    <2> QED BY <1>2, <1>8, <2>1, <2>2, Zenon DEF CountsExact
  <1>12. ListInv' /\ OrderInv' /\ FailInv'
    BY <1>2, <1>8, Zenon DEF ListInv, OrderInv, FailInv
  <1> QED BY <1>10, <1>11, <1>12, Zenon DEF AInv

\* Nothing the arena has changes in the steps of others.
LEMMA ArenaSame ==
    ASSUME AInv, UNCHANGED <<arenaVars, live>>
    PROVE  ArenaPages' = ArenaPages /\ CountsExact' /\ ListInv' /\ OrderInv' /\ NeedsPage' = NeedsPage
  <1>1. /\ pages' = pages /\ links' = links /\ used' = used /\ count' = count
        /\ num_objects' = num_objects /\ num_pages' = num_pages /\ live' = live
    BY Zenon DEF arenaVars
  <1>2. ArenaPages' = ArenaPages
    BY <1>1, Zenon DEF ArenaPages, RingOf
  <1>3. CountsExact /\ ListInv /\ OrderInv
    BY InvFacts, Zenon
  <1>4. CountsExact'
    BY <1>1, <1>2, <1>3, Zenon DEF CountsExact
  <1>5. ListInv'
    BY <1>1, <1>2, <1>3, Zenon DEF ListInv
  <1>6. OrderInv'
    BY <1>1, <1>2, <1>3, Zenon DEF OrderInv
  <1>7. NeedsPage' = NeedsPage
    BY <1>1, Zenon DEF NeedsPage
  <1> QED BY <1>2, <1>4, <1>5, <1>6, <1>7, Zenon
\* An allocation that finds neither a slot nor a page.
LEMMA FailStep ==
    ASSUME AInv, alloc_fails
    PROVE  AInv'
  <1>1. /\ NeedsPage /\ freelist = <<>> /\ failed' = TRUE /\ freelist' = freelist /\ taken' = taken
        /\ UNCHANGED <<arenaVars, live>>
    BY Zenon DEF alloc_fails
  <1>2. ArenaPages' = ArenaPages /\ CountsExact' /\ ListInv' /\ OrderInv' /\ NeedsPage' = NeedsPage
    BY <1>1, ArenaSame, Zenon
  <1>3. PagesPartitioned'
    <2>1. TypeOK'
      BY <1>1, InvFacts, Zenon DEF TypeOK, arenaVars
    <2> QED BY <1>1, <1>2, <2>1, InvFacts, Zenon DEF PagesPartitioned
  <1>4. FailInv'
    BY <1>1, <1>2, Zenon DEF FailInv
  <1> QED BY <1>2, <1>3, <1>4, Zenon DEF AInv

\* kalloc for another user.
LEMMA KallocStep ==
    ASSUME AInv, kalloc
    PROVE  AInv'
  <1> DEFINE page == Head(freelist)
  <1>1. /\ ~failed /\ freelist # <<>> /\ taken' = taken \union {page} /\ freelist' = Tail(freelist)
        /\ failed' = failed /\ UNCHANGED <<arenaVars, live>>
    BY Zenon DEF kalloc
  <1>2. ArenaPages' = ArenaPages /\ CountsExact' /\ ListInv' /\ OrderInv'
    BY <1>1, ArenaSame, Zenon
  <1>3. /\ page \in Page /\ page \in ToSet(freelist) /\ Tail(freelist) \in Seq(Page)
        /\ IsInjective(Tail(freelist)) /\ ToSet(Tail(freelist)) = ToSet(freelist) \ {page}
    BY <1>1, InvFacts, TailFacts, Zenon
  <1> HIDE DEF page
  <1>4. /\ ToSet(freelist) \intersect taken = {} /\ taken \subseteq Page
        /\ ArenaPages = Page \ (ToSet(freelist) \union taken)
    BY InvFacts, Zenon
  <1>5. TypeOK'
    <2>1. freelist' \in Seq(Page) /\ taken' \subseteq Page
      BY <1>1, <1>3, <1>4, Zenon
    <2> QED BY <1>1, <2>1, InvFacts, Zenon DEF TypeOK, arenaVars
  <1>6. PagesPartitioned'
    <2>1. IsInjective(freelist') /\ ToSet(freelist') = ToSet(freelist) \ {page}
      BY <1>1, <1>3, Zenon
    <2>2. ToSet(freelist') \intersect taken' = {}
      BY <1>1, <1>4, <2>1, Zenon
    <2>3. ToSet(freelist') \union taken' = ToSet(freelist) \union taken
      BY <1>1, <1>3, <2>1, Zenon
    <2> QED BY <1>2, <1>4, <1>5, <2>1, <2>2, <2>3, Zenon DEF PagesPartitioned
  <1>7. FailInv'
    BY <1>1, Zenon DEF FailInv
  <1> QED BY <1>2, <1>6, <1>7, Zenon DEF AInv

\* kfree by another user.
LEMMA KfreeStep ==
    ASSUME AInv, NEW page \in Page, kfree(page)
    PROVE  AInv'
  <1>1. /\ ~failed /\ page \in taken /\ taken' = taken \ {page} /\ freelist' = <<page>> \o freelist
        /\ failed' = failed /\ UNCHANGED <<arenaVars, live>>
    BY Zenon DEF kfree
  <1>2. ArenaPages' = ArenaPages /\ CountsExact' /\ ListInv' /\ OrderInv'
    BY <1>1, ArenaSame, Zenon
  <1>3. /\ ToSet(freelist) \intersect taken = {} /\ taken \subseteq Page
        /\ ArenaPages = Page \ (ToSet(freelist) \union taken)
        /\ freelist \in Seq(Page) /\ IsInjective(freelist)
    BY InvFacts, Zenon
  <1>4. <<page>> \in Seq(Page) /\ IsInjective(<<page>>) /\ ToSet(<<page>>) = {page}
    BY DEF IsInjective, ToSet
  <1>5. freelist' \in Seq(Page) /\ IsInjective(freelist') /\ ToSet(freelist') = {page} \union ToSet(freelist)
    <2>1. {page} \intersect ToSet(freelist) = {}
      BY <1>1, <1>3, Zenon
    <2> QED BY <1>1, <1>3, <1>4, <2>1, ConcatFacts, Zenon
  <1>6. TypeOK'
    <2>1. freelist' \in Seq(Page) /\ taken' \subseteq Page
      BY <1>1, <1>3, <1>5, Zenon
    <2> QED BY <1>1, <2>1, InvFacts, Zenon DEF TypeOK, arenaVars
  <1>7. PagesPartitioned'
    <2>1. ToSet(freelist') \intersect taken' = {}
      BY <1>1, <1>3, <1>5, Zenon
    <2>2. ToSet(freelist') \union taken' = ToSet(freelist) \union taken
      BY <1>1, <1>5, Zenon
    <2> QED BY <1>2, <1>3, <1>5, <1>6, <2>1, <2>2, Zenon DEF PagesPartitioned
  <1>8. FailInv'
    BY <1>1, Zenon DEF FailInv
  <1> QED BY <1>2, <1>7, <1>8, Zenon DEF AInv

\* The arena is empty at first, and every page is free.
LEMMA InitInv == Init => AInv
  <1> SUFFICES ASSUME Init PROVE AInv
    BY Zenon
  <1>1. /\ freelist = SetToSeq(Page) /\ pages = NULL /\ num_objects = 0 /\ num_pages = 0
        /\ live = {} /\ taken = {} /\ failed = FALSE
    BY Zenon DEF Init
  <1>2. ArenaPages = {}
    BY <1>1, Zenon DEF ArenaPages
  <1>3. TypeOK
    <2>1. links \in Links
      BY DEF Init, Links
    <2>2. used \in [Page -> SUBSET Index]
      BY Zenon DEF Init
    <2>3. count \in [Page -> 0 .. MaxCount]
      BY ArenaAssumption DEF Init
    <2>4. num_objects \in Nat /\ num_pages \in Nat
      BY <1>1
    <2>5. freelist \in Seq(Page)
      BY <1>1, AllPages, Zenon
    <2> QED BY <1>1, <2>1, <2>2, <2>3, <2>4, <2>5, Zenon DEF TypeOK
  <1>4. PagesPartitioned
    BY <1>1, <1>2, <1>3, AllPages, Zenon DEF PagesPartitioned
  <1>5. CountsExact
    <2>1. 0 = Cardinality({})
      BY FS_EmptySet, Zenon
    <2> QED BY <1>1, <1>2, <2>1, Zenon DEF CountsExact
  <1>6. ListInv /\ OrderInv /\ FailInv
    BY <1>1, <1>2, Zenon DEF ListInv, OrderInv, FailInv
  <1> QED BY <1>4, <1>5, <1>6, Zenon DEF AInv

-----------------------------------------------------------------------------
(* The theorems *)

\* The pages of the arena always form one well-formed list from the head, with
\* the full pages behind the others, the free pages and the arena's are apart,
\* and the bitmaps, counters and objects agree, whatever alloc_object,
\* free_object, clear_arena, kalloc and kfree do.
THEOREM ArenaInvariant == Spec => []AInv
  <1>1. AInv /\ [Next]_vars => AInv'
    <2> SUFFICES ASSUME AInv, [Next]_vars PROVE AInv'
      BY Zenon
    <2>1. CASE alloc_object
      BY <2>1, HeadStep, NewPageStep, FailStep, Zenon DEF alloc_object
    <2>2. CASE \E p \in Page, i \in Index : free_object(p, i)
      BY <2>2, FreeStep, Zenon
    <2>3. CASE clear_arena
      BY <2>3, ClearStep, Zenon
    <2>4. CASE kalloc
      BY <2>4, KallocStep, Zenon
    <2>5. CASE \E p \in Page : kfree(p)
      BY <2>5, KfreeStep, Zenon
    <2>6. CASE UNCHANGED vars
      <3>1. /\ freelist' = freelist /\ taken' = taken /\ failed' = failed
            /\ UNCHANGED <<arenaVars, live>>
        BY <2>6, Zenon DEF vars
      <3>2. ArenaPages' = ArenaPages /\ CountsExact' /\ ListInv' /\ OrderInv' /\ NeedsPage' = NeedsPage
        BY <3>1, ArenaSame, Zenon
      <3>3. TypeOK'
        BY <3>1, InvFacts, Zenon DEF TypeOK, arenaVars
      <3>4. PagesPartitioned'
        BY <3>1, <3>2, <3>3, InvFacts, Zenon DEF PagesPartitioned
      <3>5. FailInv'
        BY <3>1, <3>2, InvFacts, Zenon DEF FailInv
      <3> QED BY <3>2, <3>4, <3>5, Zenon DEF AInv
    <2> QED BY <2>1, <2>2, <2>3, <2>4, <2>5, <2>6, Zenon DEF Next
  <1> QED BY <1>1, InitInv, PTL DEF Spec

\* No page is lost or used twice (insert_page, move_page_to_head, clear_arena
\* and freelist_alloc/freelist_free of the page allocator).
THEOREM PagesPartitionedHolds == Spec => []PagesPartitioned
  <1>1. AInv => PagesPartitioned
    BY Zenon DEF AInv
  <1> QED BY <1>1, ArenaInvariant, PTL

\* The counters of the arena and of its pages agree with the bitmaps, and the
\* set bits are the objects that clients hold.
THEOREM CountsExactHolds == Spec => []CountsExact
  <1>1. AInv => CountsExact
    BY Zenon DEF AInv
  <1> QED BY <1>1, ArenaInvariant, PTL

\* A full head page means that every page is full: alloc_object takes a page
\* only when no slot is free, and its assertion fails only when there is also
\* no free page.
THEOREM GrowsOnlyWhenFullHolds == Spec => []GrowsOnlyWhenFull
  <1>1. AInv => GrowsOnlyWhenFull
    <2> SUFFICES ASSUME AInv, (pages # NULL /\ count[pages] >= MaxCount) \/ failed
                 PROVE  (\A p \in ArenaPages : used[p] = Index) /\ (failed => freelist = <<>>)
      BY Zenon DEF GrowsOnlyWhenFull
    <2>1. failed => NeedsPage /\ freelist = <<>>
      BY InvFacts, Zenon DEF FailInv
    <2>2. CASE pages = NULL
      BY <2>1, <2>2, InvFacts, Zenon
    <2>3. CASE pages # NULL
      <3> DEFINE F == {p \in ArenaPages : count[p] = MaxCount}
      <3>1. /\ TypeOK /\ CountsExact /\ OrderInv /\ links \in Links /\ ArenaPages \in SUBSET Page
            /\ pages \in Page /\ pages \in ArenaPages /\ IsListOf(links, pages, ArenaPages)
            /\ \A n \in ArenaPages : links.next[n] \in ArenaPages
        BY <2>3, InvFacts, Zenon
      <3>2. count[pages] = MaxCount
        <4>1. count[pages] >= MaxCount
          BY <2>1, <2>3, Zenon DEF NeedsPage
        <4>2. count[pages] \in 0 .. MaxCount
          BY <3>1, Zenon DEF TypeOK
        <4> QED BY ONLY <4>1, <4>2, ArenaAssumption
      <3>3. F \in SUBSET ArenaPages /\ pages \in F
        BY <3>1, <3>2, Zenon
      <3>4. \A n \in F : links.next[n] \in F
        <4>1. SUFFICES ASSUME NEW n \in ArenaPages, count[n] = MaxCount PROVE count[links.next[n]] = MaxCount
          BY <3>1, Zenon
        <4> QED BY <3>1, <3>2, <4>1, Zenon DEF OrderInv
      <3>5. IsFiniteSet(ArenaPages)
        BY <3>1, FiniteSlots, Zenon
      <3> HIDE DEF F
      <3>6. F = ArenaPages
        BY <3>1, <3>3, <3>4, <3>5, WholeList, Zenon
      <3>7. ASSUME NEW p \in ArenaPages PROVE used[p] = Index
        <4>1. count[p] = MaxCount
          BY <3>6, Zenon DEF F
        <4>2. used[p] \in SUBSET Index /\ Cardinality(used[p]) = MaxCount
          BY <3>1, <4>1, Zenon DEF TypeOK, CountsExact
        <4> QED BY <4>2, FiniteIndex, FS_Subset, Zenon
      <3> QED BY <2>1, <3>7, Zenon
    <2> QED BY <2>2, <2>3, Zenon
  <1> QED BY <1>1, ArenaInvariant, PTL
=============================================================================
