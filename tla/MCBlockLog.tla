----------------------------- MODULE MCBlockLog -----------------------------
(***************************************************************************)
(* BlockLog for TLC.  Threads and blocks are interchangeable in the runs   *)
(* that check invariants only.                                             *)
(***************************************************************************)
EXTENDS BlockLog, TLC

Symmetry == Permutations(Proc) \union Permutations(Block)
=============================================================================
