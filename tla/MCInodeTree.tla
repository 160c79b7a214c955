---------------------------- MODULE MCInodeTree ----------------------------
(* InodeTree for TLC: two processes on two CPUs, the root directory and    *)
(* two more inodes.                                                        *)
EXTENDS InodeTree, TLC

CONSTANTS t1, t2, c1, c2, o1, o2, o3

Threads == {t1, t2}
Cpus == {c1, c2}
Objects == {root, o1, o2, o3}
Dirs == {"file", "dir"}
Symmetry == Permutations(Threads) \union Permutations(Cpus)
=============================================================================
