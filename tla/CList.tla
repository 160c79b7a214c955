-------------------------------- MODULE CList --------------------------------
(***************************************************************************)
(* The circular doubly linked lists of common/list.c, as operators on the  *)
(* links of all nodes: l.next[n] and l.prev[n] are the fields of node n.   *)
(* An assignment through a pointer is one EXCEPT, in the order of the C    *)
(* statements, so that aliasing between the nodes has its effect.          *)
(***************************************************************************)
LOCAL INSTANCE Naturals
LOCAL INSTANCE FiniteSets

CONSTANT Node

Links == [next : [Node -> Node], prev : [Node -> Node]]

SetNext(l, n, m) == [next |-> [l.next EXCEPT ![n] = m], prev |-> l.prev]
SetPrev(l, n, m) == [next |-> l.next, prev |-> [l.prev EXCEPT ![n] = m]]

init_list_node(l, n) == SetNext(SetPrev(l, n, n), n, n)

\* merge_list on two nodes (neither is NULL).
merge_list(l, node1, node2) ==
    LET node3 == l.next[node1]
        node4 == l.prev[node2]
    IN  SetPrev(SetNext(SetPrev(SetNext(l, node1, node2), node2, node1), node4, node3), node3, node4)

\* merge_list that forgets the back link of node1's old successor.
merge_forward(l, node1, node2) ==
    LET node3 == l.next[node1]
        node4 == l.prev[node2]
    IN  SetNext(SetPrev(SetNext(l, node1, node2), node2, node1), node4, node3)

\* detach_from_list that leaves the links of the detached node alone.
unlink_only(l, n) ==
    LET l1 == SetNext(l, l.prev[n], l.next[n])
    IN  SetPrev(l1, l1.next[n], l1.prev[n])

\* detach_from_list.
detach_from_list(l, n) ==
    LET l1 == SetNext(l, l.prev[n], l.next[n])
        l2 == SetPrev(l1, l1.next[n], l1.prev[n])
    IN  init_list_node(l2, n)

-----------------------------------------------------------------------------
(* What the lists are *)

\* The two links of every node agree, so every node lies on one ring.
IsRing(l) == \A n \in Node : l.next[l.prev[n]] = n /\ l.prev[l.next[n]] = n

\* n is alone on its ring.
Single(l, n) == l.next[n] = n /\ l.prev[n] = n

\* A set of nodes that the links do not leave: a union of rings.
Closed(l, S) == \A n \in S : l.next[n] \in S /\ l.prev[n] \in S
=============================================================================
