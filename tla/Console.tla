------------------------------- MODULE Console -------------------------------
(***************************************************************************)
(* The console device, core/console.c: the ring buffer between the         *)
(* interrupt handler of the keyboard and the processes that read, and the  *)
(* locks that console_read and console_write give up and take again.       *)
(*                                                                         *)
(* A process arrives with the lock of the console's inode, which fileread  *)
(* and filewrite take.  An action is a stretch of code between two lock    *)
(* operations, or one turn of a loop; the handler's turns are independent  *)
(* of each other, so that each is taken as a call of its own.  Interrupts  *)
(* are off in the kernel.                                                  *)
(*                                                                         *)
(* Left out: the output to the UART, the halt after a panic, and the       *)
(* killed flag, which nothing in the system sets.                          *)
(***************************************************************************)
EXTENDS Naturals, Sequences

CONSTANTS
    Proc,           \* processes that use the console
    INPUT_BUF,      \* size of the ring buffer
    Text,           \* ordinary characters
    Counts,         \* byte counts that read is called with
    MaxInput,       \* bound: characters stored
    None

ASSUME ConsoleAssumption ==
    /\ INPUT_BUF \in Nat \ {0} /\ MaxInput \in Nat /\ Counts \subseteq Nat
    /\ None \notin Proc /\ Text \intersect {"nl", "eof"} = {}

Key == Text \union {"nl", "cr", "eof", "bs", "kill"}
Char == Text \union {"nl", "eof"}

VARIABLES
    buf, r, w, e,       \* the fields of input
    conslock, ilock,    \* holders of conslock and of the inode's lock, or None
    place, target, dst  \* per process: its place, its byte count, the bytes it has read

input == <<buf, r, w, e>>
consoleVars == <<input, conslock, ilock, place, target, dst>>

\* "read" and "write" hold the inode's lock, "want_read", "want_write" and
\* "sleep" no lock, "loop" conslock; "relock" is past conslock, "return"
\* holds the inode's lock again.
PC == {"user", "read", "write", "want_read", "want_write", "sleep", "loop", "relock", "return"}

ConsoleTypeOK ==
    /\ buf \in [0 .. INPUT_BUF - 1 -> Char]
    /\ r \in 0 .. w /\ w \in 0 .. e /\ e \in 0 .. MaxInput /\ e - r <= INPUT_BUF
    /\ {conslock, ilock} \subseteq Proc \union {None}
    /\ place \in [Proc -> PC] /\ target \in [Proc -> Counts \union {0}]
    /\ dst \in [Proc -> Seq(Char)]

ConsoleInit ==
    /\ buf = [i \in 0 .. INPUT_BUF - 1 |-> "nl"] /\ r = 0 /\ w = 0 /\ e = 0
    /\ conslock = None /\ ilock = None
    /\ place = [p \in Proc |-> "user"] /\ target = [p \in Proc |-> 0]
    /\ dst = [p \in Proc |-> <<>>]

MoveTo(p, label) == place' = [place EXCEPT ![p] = label]

-----------------------------------------------------------------------------
(* console_intr *)

HasRoom == e - r < INPUT_BUF

\* A variant that waits for the end of the line although the buffer is full.
CompleteAtEol(c) == c \in {"nl", "eof"}

\* The line ends with c, or the buffer is full (e is the index of c).
Complete(c) == c \in {"nl", "eof"} \/ e + 1 = r + INPUT_BUF

\* A variant that wakes nobody when the buffer has become full.
WokenAtEol(c) == [p \in Proc |-> IF place[p] = "sleep" /\ c \in {"nl", "eof"} THEN "want_read" ELSE place[p]]

\* wakeup(&input.r)
Woken(c) == [p \in Proc |-> IF place[p] = "sleep" THEN "want_read" ELSE place[p]]

\* The default case.
put_char(k) ==
    LET c == IF k = "cr" THEN "nl" ELSE k
    IN  /\ conslock = None /\ HasRoom /\ e < MaxInput
        /\ buf' = [buf EXCEPT ![e % INPUT_BUF] = c] /\ e' = e + 1
        /\ IF Complete(c)
           THEN w' = e + 1 /\ place' = Woken(c)
           ELSE UNCHANGED <<w, place>>
        /\ UNCHANGED <<r, conslock, ilock, target, dst>>

\* A variant of the backspace that goes beyond the line.
backspace_any ==
    /\ conslock = None /\ e # r
    /\ e' = e - 1 /\ w' = IF w = e THEN w - 1 ELSE w
    /\ UNCHANGED <<buf, r, conslock, ilock, place, target, dst>>

\* ^H
backspace ==
    /\ conslock = None /\ e # w
    /\ e' = e - 1
    /\ UNCHANGED <<buf, r, w, conslock, ilock, place, target, dst>>

\* ^U, back to the last end of a line in the buffer.
kill_line ==
    LET stops == {i \in w .. e : i = w \/ buf[(i - 1) % INPUT_BUF] = "nl"}
    IN  /\ conslock = None
        /\ e' \in stops /\ \A i \in stops : i <= e'
        /\ UNCHANGED <<buf, r, w, conslock, ilock, place, target, dst>>

console_intr(k) ==
    CASE k = "kill" -> kill_line
      [] k = "bs" -> backspace
      [] OTHER -> put_char(k)

-----------------------------------------------------------------------------
(* console_read and console_write *)

\* inode_read or inode_write of the device, under the inode's lock.
call(p, op, n) ==
    /\ place[p] = "user" /\ ilock = None
    /\ ilock' = p /\ target' = [target EXCEPT ![p] = n]
    /\ MoveTo(p, op)
    /\ UNCHANGED <<input, conslock, dst>>

\* A variant of console_read that keeps the inode's lock.
unlock_for_write(p) ==
    /\ place[p] \in {"read", "write"}
    /\ ilock' = IF place[p] = "write" THEN None ELSE ilock
    /\ MoveTo(p, IF place[p] = "read" THEN "want_read" ELSE "want_write")
    /\ UNCHANGED <<input, conslock, target, dst>>

\* The inodes.unlock at their start.
unlock(p) ==
    /\ place[p] \in {"read", "write"}
    /\ ilock' = None
    /\ MoveTo(p, IF place[p] = "read" THEN "want_read" ELSE "want_write")
    /\ UNCHANGED <<input, conslock, target, dst>>

\* console_write's section under conslock.
console_write(p) ==
    /\ place[p] = "want_write" /\ conslock = None
    /\ MoveTo(p, "relock")
    /\ UNCHANGED <<input, conslock, ilock, target, dst>>

\* conslock, at the start of console_read and at the end of sleep.
console_read(p) ==
    /\ place[p] = "want_read" /\ conslock = None
    /\ IF target[p] > 0
       THEN conslock' = p /\ MoveTo(p, "loop")
       ELSE UNCHANGED conslock /\ MoveTo(p, "relock")
    /\ UNCHANGED <<input, ilock, target, dst>>

\* sleep(&input.r, &conslock)
read_sleep(p) ==
    /\ place[p] = "loop" /\ r = w
    /\ conslock' = None /\ MoveTo(p, "sleep")
    /\ UNCHANGED <<input, ilock, target, dst>>

\* One turn of the loop of console_read.
read_char(p) ==
    LET c == buf[r % INPUT_BUF]
        last == c \in {"nl", "eof"} \/ Len(dst[p]) + 1 = target[p]
    IN  /\ place[p] = "loop" /\ r # w
        /\ r' = IF c = "eof" /\ dst[p] # <<>> THEN r ELSE r + 1
        /\ dst' = IF c = "eof" THEN dst ELSE [dst EXCEPT ![p] = Append(@, c)]
        /\ conslock' = IF last THEN None ELSE conslock
        /\ IF last THEN MoveTo(p, "relock") ELSE UNCHANGED place
        /\ UNCHANGED <<buf, w, e, ilock, target>>

\* The inodes.lock at their end.
relock(p) ==
    /\ place[p] = "relock" /\ ilock = None
    /\ ilock' = p /\ MoveTo(p, "return")
    /\ UNCHANGED <<input, conslock, target, dst>>

\* The system call returns, and the inode is unlocked.
return(p) ==
    /\ place[p] = "return"
    /\ ilock' = None /\ MoveTo(p, "user")
    /\ target' = [target EXCEPT ![p] = 0] /\ dst' = [dst EXCEPT ![p] = <<>>]
    /\ UNCHANGED <<input, conslock>>

ConsoleNext ==
    \/ \E k \in Key : console_intr(k)
    \/ \E p \in Proc :
          \/ \E n \in Counts : call(p, "read", n)
          \/ call(p, "write", 0)
          \/ unlock(p) \/ console_write(p) \/ console_read(p) \/ read_sleep(p)
          \/ read_char(p) \/ relock(p) \/ return(p)

ConsoleSpec == ConsoleInit /\ [][ConsoleNext]_consoleVars

\* A spinlock that is free again and again is taken in the end, and a process
\* in the kernel goes on; nobody has to type or to use the console.
ConsoleFairness ==
    \A p \in Proc :
        /\ WF_consoleVars(unlock(p)) /\ SF_consoleVars(console_write(p)) /\ SF_consoleVars(console_read(p))
        /\ WF_consoleVars(read_sleep(p)) /\ WF_consoleVars(read_char(p))
        /\ SF_consoleVars(relock(p)) /\ WF_consoleVars(return(p))

ConsoleFairSpec == ConsoleSpec /\ ConsoleFairness

-----------------------------------------------------------------------------
(* Properties *)

\* A full buffer can be read: otherwise console_intr would drop every further
\* character, the end of the line included, and the readers would sleep for
\* ever (the third condition of console.c:206).
FullIsReadable == ConsoleTypeOK /\ (e - r = INPUT_BUF => r # w)

\* A write to the console ends even if nobody ever types and other processes
\* are waiting for input: console_read does not sleep with the inode locked.
WriteReturns == \A p \in Proc : place[p] = "want_write" ~> place[p] = "user"

\* No wakeup is lost, also with several readers that share a line: a process
\* that waits for input returns if there is some and other readers do not take
\* it.
ReadReturns == \A p \in Proc : place[p] \in {"sleep", "want_read"} ~> (place[p] = "user" \/ r = w)

\* The bytes at the indexes from .. to - 1 of the ring buffer b.
Stored(b, from, to) == [i \in 1 .. to - from |-> b[(from + i - 1) % INPUT_BUF]]

Abstract == INSTANCE LineInput WITH
    Reader <- Proc, Size <- INPUT_BUF, EOL <- "nl", EOF <- "eof", Byte <- Char,
    input <- Stored(buf, r, w), line <- Stored(buf, w, e), got <- dst,
    asked <- [p \in Proc |-> IF place[p] \in {"read", "want_read", "sleep", "loop"} THEN target[p] ELSE 0]

\* The ring buffer with its three indexes is a queue of bytes and a line:
\* every byte is read once and in order, no line is edited once it can be
\* read, and a read ends where it should.
ImplementsLineInput == Abstract!Spec
=============================================================================
