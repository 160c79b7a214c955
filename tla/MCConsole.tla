------------------------------ MODULE MCConsole ------------------------------
(* Instance of Console for TLC.                                            *)
EXTENDS Console

CONSTANTS p1, p2

TwoProcs == {p1, p2}
=============================================================================
