------------------------------ MODULE MCSdQueue ------------------------------
(* SdQueue for TLC: three threads that transfer three blocks. *)
EXTENDS SdQueue

CONSTANTS t1, t2, t3, b1, b2, b3, d0, d1

Threads == {t1, t2, t3}
Blocks == {b1, b2, b3}
Contents == {d0, d1}
\* Not what is on the card at first.
NewContents == Contents \ {AnyData}
=============================================================================
