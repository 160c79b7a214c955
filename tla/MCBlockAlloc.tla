---------------------------- MODULE MCBlockAlloc ----------------------------
(* BlockAlloc for TLC: two threads on two groups of four blocks, two of    *)
(* them for data, and four indirect blocks per file.                       *)
EXTENDS BlockAlloc, TLC

CONSTANTS t1, t2

Threads == {t1, t2}
ThreadSymmetry == Permutations(Threads)
=============================================================================
