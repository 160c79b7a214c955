------------------------------ MODULE LineInput ------------------------------
(***************************************************************************)
(* What the console promises to the processes that read it: a queue of     *)
(* bytes that can be read, and a line that is still being edited.  A read  *)
(* gets bytes from the front of the queue, up to the end of a line, up to  *)
(* an end of file or up to the number it asked for; a byte is handed out   *)
(* once and in order, and what is queued can no longer be edited.          *)
(***************************************************************************)
EXTENDS Naturals, Sequences

CONSTANTS
    Reader, Counts,     \* the readers, and how much they ask for
    Byte, EOL, EOF,     \* the bytes; the end of a line, the end of a file
    Size                \* bytes that are kept

VARIABLES
    input,      \* bytes that can be read
    line,       \* bytes that can still be erased
    asked,      \* asked[p]: bytes the read of p wants, 0 when it has ended
    got         \* got[p]: bytes it has

vars == <<input, line, asked, got>>

Init ==
    /\ input = <<>> /\ line = <<>>
    /\ asked = [p \in Reader |-> 0] /\ got = [p \in Reader |-> <<>>]

\* A byte is typed; the line is complete at its end, at an end of file, and
\* when there is no room for more.
Type(c) ==
    LET l == Append(line, c)
    IN  /\ Len(input) + Len(line) < Size
        /\ IF c \in {EOL, EOF} \/ Len(input) + Len(l) = Size
           THEN input' = input \o l /\ line' = <<>>
           ELSE line' = l /\ UNCHANGED input
        /\ UNCHANGED <<asked, got>>

Erase == line # <<>> /\ line' = SubSeq(line, 1, Len(line) - 1) /\ UNCHANGED <<input, asked, got>>

Kill == line' = <<>> /\ UNCHANGED <<input, asked, got>>

Begin(p, n) ==
    /\ asked[p] = 0 /\ got[p] = <<>>
    /\ asked' = [asked EXCEPT ![p] = n]
    /\ UNCHANGED <<input, line, got>>

Take(p) ==
    /\ asked[p] > 0 /\ input # <<>> /\ Head(input) # EOF
    /\ got' = [got EXCEPT ![p] = Append(@, Head(input))]
    /\ asked' = [asked EXCEPT ![p] = IF Head(input) = EOL \/ Len(got'[p]) = @ THEN 0 ELSE @]
    /\ input' = Tail(input)
    /\ UNCHANGED line

\* An end of file is used up by the read that returns no byte because of it.
AtEof(p) ==
    /\ asked[p] > 0 /\ input # <<>> /\ Head(input) = EOF
    /\ asked' = [asked EXCEPT ![p] = 0]
    /\ input' = IF got[p] = <<>> THEN Tail(input) ELSE input
    /\ UNCHANGED <<line, got>>

Return(p) ==
    /\ asked[p] = 0
    /\ got' = [got EXCEPT ![p] = <<>>]
    /\ UNCHANGED <<input, line, asked>>

Next ==
    \/ \E c \in Byte : Type(c)
    \/ Erase \/ Kill
    \/ \E p \in Reader : (\E n \in Counts : Begin(p, n)) \/ Take(p) \/ AtEof(p) \/ Return(p)

Spec == Init /\ [][Next]_vars
=============================================================================
