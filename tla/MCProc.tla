------------------------------- MODULE MCProc -------------------------------
(* Instances of Proc for TLC. *)
EXTENDS Proc

CONSTANTS c1, c2, l1

OneCpu == {c1}
TwoCpus == {c1, c2}
OneLock == {l1}

=============================================================================
