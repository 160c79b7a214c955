------------------------------ MODULE MCArena ------------------------------
(* An instance of Arena for TLC: three pages of two objects each. *)
EXTENDS Arena

CONSTANTS p1, p2, p3

Pages == {p1, p2, p3}
=============================================================================
