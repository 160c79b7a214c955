------------------------------ MODULE MCBCache ------------------------------
(* Instances of BCache for TLC. *)
EXTENDS BCache, TLC

CONSTANTS c1, c2, c3, b1, b2, b3, s1, s2, s3, s4, d0, d1

ThreeClaims == {c1, c2, c3}
ThreeBlocks == {b1, b2, b3}
OneBlock == {b1}
FourSlots == {s1, s2, s3, s4}
TwoData == {d0, d1}

\* Claims are interchangeable, and so are the blocks that nobody changes and
\* that Init does not name.  Slots are not: Grow takes them in order.
Symmetry == Permutations(Claim) \union Permutations(BlockNo \ (Stored \union {AnyBlock}))
=============================================================================
