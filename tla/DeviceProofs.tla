---------------------------- MODULE DeviceProofs ----------------------------
(***************************************************************************)
(* Theorems about the two devices with an interrupt handler: the console   *)
(* (module Console) and the request queue of the SD card (module SdQueue). *)
(*                                                                         *)
(* The console, for every size of the ring buffer and every number of      *)
(* processes: the buffer never gets stuck, and it is the queue and the     *)
(* line of module LineInput.                                               *)
(*                                                                         *)
(* The SD card, for every number of threads, blocks, transfers and wrong   *)
(* interrupts.  The inductive invariant SInv has a part that always holds, *)
(* and a part that holds until a thread or the handler first gets between  *)
(* another thread's look at the queue and its critical section.            *)
(***************************************************************************)
EXTENDS Console, SdQueue, SequenceTheorems, TLAPS

-----------------------------------------------------------------------------
(* The console: the inductive invariant *)

Buf == [0 .. INPUT_BUF - 1 -> Char]

\* The line that is edited has no end in it, so that ^U erases all of it.
LineOpen == \A i \in w .. e - 1 : buf[i % INPUT_BUF] \notin {"nl", "eof"}

\* When the buffer is full, all of it can be read.
FullDone == e - r = INPUT_BUF => w = e

\* The byte count and the bytes of each call.
CallsInv == \A p \in Proc :
    /\ place[p] \in {"user", "write", "want_write"} => target[p] = 0 /\ dst[p] = <<>>
    /\ place[p] = "read" => dst[p] = <<>>
    /\ place[p] \in {"read", "want_read", "sleep", "loop"} /\ target[p] > 0 => Len(dst[p]) < target[p]
    /\ place[p] \in {"sleep", "loop"} => target[p] > 0

\* The inductive invariant.
CInv == ConsoleTypeOK /\ LineOpen /\ FullDone /\ CallsInv

-----------------------------------------------------------------------------
(* The console: the ring buffer *)

\* Indexes less than a buffer apart have different places.
LEMMA PlacesDiffer ==
    ASSUME NEW x \in Nat, NEW y \in Nat, x < y, y - x < INPUT_BUF
    PROVE  x % INPUT_BUF # y % INPUT_BUF
  <1> DEFINE n == INPUT_BUF
  <1>1. n \in Nat \ {0}
    BY ConsoleAssumption
  <1> HIDE DEF n
  <1>2. SUFFICES ASSUME x % n = y % n PROVE FALSE
    BY DEF n
  <1>3. x \div n \in Int /\ y \div n \in Int /\ x % n \in Int
        /\ x = n * (x \div n) + (x % n) /\ y = n * (y \div n) + (y % n)
    BY <1>1
  <1>4. y - x = n * ((y \div n) - (x \div n))
    BY <1>1, <1>2, <1>3
  <1> DEFINE d == (y \div n) - (x \div n)
  <1>5. d \in Int /\ y - x = n * d
    BY <1>3, <1>4
  <1> HIDE DEF d
  <1>6. d <= 0 => n * d <= 0
    BY <1>1, <1>5
  <1>7. d >= 1 => n * d >= n
    BY <1>1, <1>5
  <1>8. y - x > 0 /\ y - x < n
    BY DEF n
  <1> QED BY <1>1, <1>5, <1>6, <1>7, <1>8

\* Two strings of bytes are equal if their lengths and their bytes are.
LEMMA SameBytes ==
    ASSUME NEW s \in Seq(Char), NEW t \in Seq(Char), Len(s) = Len(t),
           \A i \in 1 .. Len(s) : s[i] = t[i]
    PROVE  s = t
  BY SeqEqual

\* The bytes of two strings one after the other.
LEMMA ConcatBytes ==
    ASSUME NEW s \in Seq(Char), NEW t \in Seq(Char)
    PROVE  /\ s \o t \in Seq(Char) /\ Len(s \o t) = Len(s) + Len(t)
           /\ \A i \in 1 .. Len(s) + Len(t) :
                (s \o t)[i] = IF i <= Len(s) THEN s[i] ELSE t[i - Len(s)]
  BY ConcatProperties

\* What Stored returns.
LEMMA StoredSeq ==
    ASSUME NEW b \in Buf, NEW from \in Nat, NEW to \in Nat, from <= to
    PROVE  /\ Stored(b, from, to) \in Seq(Char)
           /\ Len(Stored(b, from, to)) = to - from
           /\ \A i \in 1 .. to - from : Stored(b, from, to)[i] = b[(from + i - 1) % INPUT_BUF]
  <1>1. \A i \in 1 .. to - from : (from + i - 1) % INPUT_BUF \in 0 .. INPUT_BUF - 1
    BY ConsoleAssumption
  <1>2. \A i \in 1 .. to - from : b[(from + i - 1) % INPUT_BUF] \in Char
    BY <1>1, Zenon DEF Buf
  <1>3. to - from \in Nat
    OBVIOUS
  <1> QED BY <1>2, <1>3 DEF Stored

\* A byte that is put behind the others.
LEMMA StoredAppend ==
    ASSUME NEW b \in Buf, NEW from \in Nat, NEW to \in Nat, from <= to, to - from < INPUT_BUF,
           NEW c \in Char
    PROVE  Stored([b EXCEPT ![to % INPUT_BUF] = c], from, to + 1) = Append(Stored(b, from, to), c)
  <1> DEFINE b2 == [b EXCEPT ![to % INPUT_BUF] = c]
             s == Stored(b, from, to)
             t == Stored(b2, from, to + 1)
  <1>1. to % INPUT_BUF \in 0 .. INPUT_BUF - 1
    BY ConsoleAssumption
  <1>2. b2 \in Buf /\ b2[to % INPUT_BUF] = c
    BY <1>1 DEF Buf
  <1> HIDE DEF b2
  <1>3. s \in Seq(Char) /\ Len(s) = to - from
        /\ \A i \in 1 .. to - from : s[i] = b[(from + i - 1) % INPUT_BUF]
    BY StoredSeq, Zenon
  <1>4. t \in Seq(Char) /\ Len(t) = to + 1 - from
        /\ \A i \in 1 .. to + 1 - from : t[i] = b2[(from + i - 1) % INPUT_BUF]
    <2> DEFINE n == to + 1
    <2>1. n \in Nat /\ from <= n
      OBVIOUS
    <2> HIDE DEF n
    <2>2. /\ Stored(b2, from, n) \in Seq(Char)
          /\ Len(Stored(b2, from, n)) = n - from
          /\ \A i \in 1 .. n - from : Stored(b2, from, n)[i] = b2[(from + i - 1) % INPUT_BUF]
      BY <1>2, <2>1, StoredSeq, Zenon
    <2> QED BY <2>2 DEF n
  <1>5. \A i \in 1 .. to - from : b2[(from + i - 1) % INPUT_BUF] = b[(from + i - 1) % INPUT_BUF]
    <2> TAKE i \in 1 .. to - from
    <2>1. (from + i - 1) % INPUT_BUF # to % INPUT_BUF
      <3>1. from + i - 1 \in Nat /\ from + i - 1 < to /\ to - (from + i - 1) < INPUT_BUF
        BY ConsoleAssumption
      <3> QED BY <3>1, PlacesDiffer
    <2>2. (from + i - 1) % INPUT_BUF \in 0 .. INPUT_BUF - 1
      BY ConsoleAssumption
    <2> QED BY <2>1, <2>2 DEF Buf, b2
  <1>6. t[to + 1 - from] = c
    <2>1. to + 1 - from \in 1 .. to + 1 - from /\ from + (to + 1 - from) - 1 = to
      OBVIOUS
    <2> QED BY <1>2, <1>4, <2>1
  <1> HIDE DEF s, t
  <1>7. Append(s, c) \in Seq(Char) /\ Len(Append(s, c)) = Len(t)
        /\ \A i \in 1 .. Len(t) : Append(s, c)[i] = t[i]
    <2>1. /\ Append(s, c) \in Seq(Char)
          /\ Append(s, c) # <<>>
          /\ Len(Append(s, c)) = Len(s) + 1
          /\ \A i \in 1 .. Len(s) : Append(s, c)[i] = s[i]
          /\ Append(s, c)[Len(s) + 1] = c
      <3>1. s \in Seq(Char) /\ c \in Char
        BY <1>3, Zenon
      <3> QED BY ONLY <3>1, AppendProperties, Zenon
    <2>2. ASSUME NEW i \in 1 .. Len(t) PROVE Append(s, c)[i] = t[i]
      <3>1. CASE i = to + 1 - from
        <4>1. i = Len(s) + 1
          BY ONLY <1>3, <3>1, from \in Nat, to \in Nat
        <4> QED BY <1>6, <2>1, <3>1, <4>1, Zenon
      <3>2. CASE i # to + 1 - from
        <4>1. i \in 1 .. to - from
          BY ONLY <1>4, <2>2, <3>2, from \in Nat, to \in Nat, from <= to
        <4>2. i \in 1 .. Len(s)
          BY <1>3, <4>1, Zenon
        <4> QED BY <1>3, <1>4, <1>5, <2>1, <2>2, <4>1, <4>2, Zenon
      <3> QED BY <3>1, <3>2, Zenon
    <2>3. Len(s) + 1 = Len(t)
      BY ONLY <1>3, <1>4, from \in Nat, to \in Nat
    <2> QED BY <2>1, <2>2, <2>3, Zenon
  <1>8. t = Append(s, c)
    BY <1>4, <1>7, SameBytes
  <1> QED BY <1>8, Zenon DEF s, t, b2

\* Two stretches that follow each other.
LEMMA StoredConcat ==
    ASSUME NEW b \in Buf, NEW from \in Nat, NEW mid \in Nat, NEW to \in Nat, from <= mid, mid <= to
    PROVE  Stored(b, from, to) = Stored(b, from, mid) \o Stored(b, mid, to)
  <1> DEFINE s == Stored(b, from, mid)
             t == Stored(b, mid, to)
             u == Stored(b, from, to)
  <1>1. /\ s \in Seq(Char) /\ Len(s) = mid - from
        /\ \A i \in 1 .. mid - from : s[i] = b[(from + i - 1) % INPUT_BUF]
    BY StoredSeq, Zenon
  <1>2. /\ t \in Seq(Char) /\ Len(t) = to - mid
        /\ \A i \in 1 .. to - mid : t[i] = b[(mid + i - 1) % INPUT_BUF]
    BY StoredSeq
  <1>3. /\ u \in Seq(Char) /\ Len(u) = to - from
        /\ \A i \in 1 .. to - from : u[i] = b[(from + i - 1) % INPUT_BUF]
    BY StoredSeq
  <1> HIDE DEF s, t, u
  <1>4. s \o t \in Seq(Char) /\ Len(s \o t) = to - from
    <2>1. Len(s \o t) = Len(s) + Len(t) /\ s \o t \in Seq(Char)
      BY <1>1, <1>2, ConcatBytes, Zenon
    <2> QED BY <1>1, <1>2, <2>1
  <1>5. ASSUME NEW i \in 1 .. to - from PROVE (s \o t)[i] = u[i]
    <2>1. CASE i <= mid - from
      <3>1. i \in 1 .. mid - from /\ i \in 1 .. Len(s) + Len(t) /\ i <= Len(s)
        BY <1>1, <1>2, <2>1
      <3>2. (s \o t)[i] = s[i]
        BY <1>1, <1>2, <3>1, ConcatBytes
      <3> QED BY <1>1, <1>3, <3>1, <3>2, Zenon
    <2>2. CASE i > mid - from
      <3>1. i - (mid - from) \in 1 .. to - mid /\ mid + (i - (mid - from)) - 1 = from + i - 1
        BY <2>2
      <3>2. (s \o t)[i] = t[i - (mid - from)]
        BY <1>1, <1>2, <2>2, ConcatBytes
      <3> QED BY <1>2, <1>3, <3>1, <3>2
    <2>3. i <= mid - from \/ i > mid - from
      OBVIOUS
    <2> QED BY <2>1, <2>2, <2>3, Zenon
  <1>6. u = s \o t
    BY <1>3, <1>4, <1>5, SameBytes, Zenon
  <1> QED BY <1>6 DEF s, t, u

\* The first byte is taken, or the last one erased.
LEMMA StoredEnds ==
    ASSUME NEW b \in Buf, NEW from \in Nat, NEW to \in Nat, from < to
    PROVE  /\ Stored(b, from, to) # <<>> /\ Head(Stored(b, from, to)) = b[from % INPUT_BUF]
           /\ Stored(b, from + 1, to) = Tail(Stored(b, from, to))
           /\ Stored(b, from, to - 1) = SubSeq(Stored(b, from, to), 1, Len(Stored(b, from, to)) - 1)
  <1> DEFINE s == Stored(b, from, to)
             t == Stored(b, from + 1, to)
             u == Stored(b, from, to - 1)
  <1>1. /\ s \in Seq(Char) /\ Len(s) = to - from
        /\ \A i \in 1 .. to - from : s[i] = b[(from + i - 1) % INPUT_BUF]
    BY StoredSeq
  <1>2. /\ t \in Seq(Char) /\ Len(t) = to - (from + 1)
        /\ \A i \in 1 .. to - (from + 1) : t[i] = b[(from + 1 + i - 1) % INPUT_BUF]
    BY StoredSeq
  <1>3. /\ u \in Seq(Char) /\ Len(u) = to - 1 - from
        /\ \A i \in 1 .. to - 1 - from : u[i] = b[(from + i - 1) % INPUT_BUF]
    <2>1. to - 1 \in Nat /\ from <= to - 1
      OBVIOUS
    <2> QED BY <2>1, StoredSeq, Zenon
  <1> HIDE DEF s, t, u
  <1>4. s # <<>> /\ Head(s) = s[1] /\ s[1] = b[from % INPUT_BUF]
    <2>1. 1 \in 1 .. to - from /\ from + 1 - 1 = from
      OBVIOUS
    <2> QED BY <1>1, <2>1
  <1>5. t = Tail(s)
    <2>1. Tail(s) \in Seq(Char) /\ Len(Tail(s)) = to - from - 1
          /\ \A i \in 1 .. to - from - 1 : Tail(s)[i] = s[i + 1]
      BY <1>1, <1>4, HeadTailProperties
    <2>2. ASSUME NEW i \in 1 .. Len(t) PROVE t[i] = Tail(s)[i]
      <3>1. i + 1 \in 1 .. to - from /\ from + 1 + i - 1 = from + (i + 1) - 1
        BY <1>2
      <3>2. i \in 1 .. to - from - 1 /\ i \in 1 .. to - (from + 1)
        BY <1>2
      <3>3. Tail(s)[i] = s[i + 1] /\ s[i + 1] = b[(from + (i + 1) - 1) % INPUT_BUF]
        BY <1>1, <2>1, <3>1, <3>2
      <3> QED BY <1>2, <3>1, <3>2, <3>3, Zenon
    <2> QED BY <1>2, <2>1, <2>2, SameBytes
  <1>6. u = SubSeq(s, 1, Len(s) - 1)
    <2> DEFINE v == SubSeq(s, 1, Len(s) - 1)
    <2>1. \A i \in 1 .. Len(s) - 1 : s[i] \in Char
      BY <1>1
    <2>2. /\ v \in Seq(Char) /\ Len(v) = to - from - 1
          /\ \A i \in 1 .. to - from - 1 : v[i] = s[i]
      BY <1>1, <2>1
    <2> HIDE DEF v
    <2>3. Len(u) = Len(v)
      BY <1>3, <2>2
    <2>4. ASSUME NEW i \in 1 .. Len(u) PROVE u[i] = v[i]
      <3>1. i \in 1 .. to - 1 - from /\ i \in 1 .. to - from - 1 /\ i \in 1 .. to - from
        BY <1>3
      <3> QED BY <1>1, <1>3, <2>2, <3>1, Zenon
    <2>5. u = v
      BY <1>3, <2>2, <2>3, <2>4, SameBytes, Zenon
    <2> QED BY <2>5 DEF v
  <1> QED BY <1>4, <1>5, <1>6 DEF s, t, u

-----------------------------------------------------------------------------
(* The console: the invariant *)

\* The interrupt handler stores a character.
LEMMA PutCharInv ==
    ASSUME CInv, NEW k \in Key \ {"bs", "kill"}, put_char(k)
    PROVE  CInv'
  <1> DEFINE c == IF k = "cr" THEN "nl" ELSE k
  <1>1. /\ e - r < INPUT_BUF /\ e < MaxInput /\ e' = e + 1 /\ r' = r
        /\ buf' = [buf EXCEPT ![e % INPUT_BUF] = c]
        /\ \/ c \in {"nl", "eof"} /\ w' = e + 1
           \/ e + 1 = r + INPUT_BUF /\ w' = e + 1
           \/ c \notin {"nl", "eof"} /\ e + 1 # r + INPUT_BUF /\ w' = w
    BY DEF put_char, HasRoom, Complete
  <1>2. /\ UNCHANGED <<conslock, ilock, target, dst>>
        /\ \A p \in Proc : place'[p] = place[p] \/ (place[p] = "sleep" /\ place'[p] = "want_read")
        /\ place' \in [Proc -> PC]
    BY DEF put_char, Woken, CInv, ConsoleTypeOK, PC
  <1>3. c \in Char
    BY DEF Key, Char
  <1> HIDE DEF c
  <1>4. /\ r \in Nat /\ w \in Nat /\ e \in Nat /\ r <= w /\ w <= e /\ buf \in Buf
        /\ INPUT_BUF \in Nat \ {0} /\ MaxInput \in Nat
    BY ConsoleAssumption DEF CInv, ConsoleTypeOK, Buf
  <1>5. e % INPUT_BUF \in 0 .. INPUT_BUF - 1
    BY <1>4
  <1>6. ConsoleTypeOK'
    <2>1. buf' \in [0 .. INPUT_BUF - 1 -> Char]
      BY <1>1, <1>3, <1>4, <1>5 DEF Buf
    <2>2. r' \in 0 .. w' /\ w' \in 0 .. e' /\ e' \in 0 .. MaxInput /\ e' - r' <= INPUT_BUF
      BY <1>1, <1>4
    <2> QED BY <1>2, <2>1, <2>2 DEF CInv, ConsoleTypeOK
  <1>7. LineOpen'
    <2> SUFFICES ASSUME NEW i \in w' .. e' - 1 PROVE buf'[i % INPUT_BUF] \notin {"nl", "eof"}
      BY DEF LineOpen
    <2>1. w' = w /\ c \notin {"nl", "eof"}
      BY <1>1, <1>4
    <2>2. CASE i = e
      BY <1>1, <1>4, <1>5, <2>1, <2>2 DEF Buf
    <2>3. CASE i # e
      <3>1. i \in w .. e - 1 /\ i \in Nat /\ i < e /\ e - i < INPUT_BUF
        BY <1>1, <1>4, <2>1, <2>3
      <3>2. i % INPUT_BUF # e % INPUT_BUF /\ i % INPUT_BUF \in 0 .. INPUT_BUF - 1
        <4>1. i % INPUT_BUF \in 0 .. INPUT_BUF - 1
          BY <1>4, <3>1
        <4> QED BY <1>4, <3>1, <4>1, PlacesDiffer, Zenon
      <3>3. buf'[i % INPUT_BUF] = buf[i % INPUT_BUF]
        BY <1>1, <1>4, <3>2 DEF Buf
      <3> QED BY <3>1, <3>3 DEF CInv, LineOpen
    <2> QED BY <2>2, <2>3
  <1>8. FullDone'
    BY <1>1, <1>4 DEF FullDone
  <1>9. CallsInv'
    BY <1>2 DEF CInv, CallsInv
  <1> QED BY <1>6, <1>7, <1>8, <1>9 DEF CInv

\* The line is edited.
LEMMA EditInv ==
    ASSUME CInv, backspace \/ kill_line
    PROVE  CInv'
  <1>1. UNCHANGED <<buf, conslock, ilock, place, target, dst>>
    BY DEF backspace, kill_line
  <1>2. PICK x \in w .. e : r' = r /\ w' = w /\ e' = x
    BY DEF backspace, kill_line, CInv, ConsoleTypeOK
  <1>3. /\ r \in Nat /\ w \in Nat /\ e \in Nat /\ r <= w /\ w <= e
        /\ INPUT_BUF \in Nat /\ MaxInput \in Nat /\ e - r <= INPUT_BUF /\ e <= MaxInput
    BY ConsoleAssumption DEF CInv, ConsoleTypeOK
  <1>4. ConsoleTypeOK'
    <2>1. r' \in 0 .. w' /\ w' \in 0 .. e' /\ e' \in 0 .. MaxInput /\ e' - r' <= INPUT_BUF
      BY <1>2, <1>3
    <2> QED BY <1>1, <2>1 DEF CInv, ConsoleTypeOK
  <1>5. LineOpen'
    <2>1. \A i \in w' .. e' - 1 : i \in w .. e - 1
      BY <1>2, <1>3
    <2> QED BY <1>1, <2>1 DEF CInv, LineOpen
  <1>6. FullDone'
    BY <1>2, <1>3 DEF CInv, FullDone
  <1>7. CallsInv'
    BY <1>1 DEF CInv, CallsInv
  <1> QED BY <1>4, <1>5, <1>6, <1>7 DEF CInv

\* The steps of a process that leave the buffer alone.
LEMMA ProcessInv ==
    ASSUME CInv, NEW p \in Proc,
           \/ \E n \in Counts : call(p, "read", n)
           \/ call(p, "write", 0) \/ unlock(p) \/ console_write(p) \/ console_read(p)
           \/ read_sleep(p) \/ relock(p) \/ return(p)
    PROVE  CInv'
  <1>1. UNCHANGED <<buf, r, w, e>>
    BY Zenon DEF call, unlock, console_write, console_read, read_sleep, relock, return, input
  <1>2. ConsoleTypeOK' /\ CallsInv'
    <2> USE DEF MoveTo, CInv, ConsoleTypeOK, PC, CallsInv
    <2>1. CASE \E n \in Counts : call(p, "read", n)
      BY <1>1, <2>1, ConsoleAssumption DEF call
    <2>2. CASE call(p, "write", 0)
      BY <1>1, <2>2 DEF call
    <2>3. CASE unlock(p)
      BY <1>1, <2>3 DEF unlock
    <2>4. CASE console_write(p)
      BY <1>1, <2>4 DEF console_write
    <2>5. CASE console_read(p)
      BY <1>1, <2>5, Zenon DEF console_read
    <2>6. CASE read_sleep(p)
      BY <1>1, <2>6 DEF read_sleep
    <2>7. CASE relock(p)
      BY <1>1, <2>7 DEF relock
    <2>8. CASE return(p)
      BY <1>1, <2>8 DEF return
    <2> QED BY <2>1, <2>2, <2>3, <2>4, <2>5, <2>6, <2>7, <2>8, Zenon
  <1>3. LineOpen' /\ FullDone'
    BY <1>1 DEF CInv, LineOpen, FullDone
  <1> QED BY <1>2, <1>3 DEF CInv

\* One turn of the loop of console_read.
LEMMA ReadCharInv ==
    ASSUME CInv, NEW p \in Proc, read_char(p)
    PROVE  CInv'
  <1> DEFINE c == buf[r % INPUT_BUF]
             last == c \in {"nl", "eof"} \/ Len(dst[p]) + 1 = target[p]
  <1>1. /\ place[p] = "loop" /\ r # w
        /\ r' = (IF c = "eof" /\ dst[p] # <<>> THEN r ELSE r + 1)
        /\ dst' = (IF c = "eof" THEN dst ELSE [dst EXCEPT ![p] = Append(@, c)])
        /\ conslock' = (IF last THEN None ELSE conslock)
        /\ place' = (IF last THEN [place EXCEPT ![p] = "relock"] ELSE place)
        /\ UNCHANGED <<buf, w, e, ilock, target>>
    BY DEF read_char, MoveTo
  <1>2. /\ r \in Nat /\ w \in Nat /\ e \in Nat /\ r <= w /\ w <= e
        /\ INPUT_BUF \in Nat \ {0} /\ e - r <= INPUT_BUF
    BY ConsoleAssumption DEF CInv, ConsoleTypeOK
  <1>3. c \in Char
    BY <1>2 DEF CInv, ConsoleTypeOK
  <1>4. target[p] \in Nat /\ target[p] > 0 /\ dst[p] \in Seq(Char) /\ Len(dst[p]) < target[p]
    <2>1. target[p] \in Counts \union {0} /\ dst[p] \in Seq(Char)
      BY DEF CInv, ConsoleTypeOK
    <2>2. target[p] \in Nat
      <3>1. Counts \union {0} \subseteq Nat
        BY ConsoleAssumption
      <3> QED BY <2>1, <3>1
    <2> QED BY <1>1, <2>1, <2>2 DEF CInv, CallsInv
  <1> HIDE DEF c
  <1>5. (r' = r \/ r' = r + 1) /\ r' \in Nat /\ r' <= w
    BY <1>1, <1>2
  <1>6. ConsoleTypeOK'
    <2>1. r' \in 0 .. w' /\ e' - r' <= INPUT_BUF
      BY <1>1, <1>2, <1>5
    <2>2. dst' \in [Proc -> Seq(Char)]
      BY <1>1, <1>3 DEF CInv, ConsoleTypeOK
    <2>3. place' \in [Proc -> PC] /\ conslock' \in Proc \union {None}
      BY <1>1 DEF CInv, ConsoleTypeOK, PC
    <2> QED BY <1>1, <2>1, <2>2, <2>3 DEF CInv, ConsoleTypeOK
  <1>7. LineOpen'
    BY <1>1 DEF CInv, LineOpen
  <1>8. FullDone'
    BY <1>1, <1>2, <1>5 DEF CInv, FullDone
  <1>9. CallsInv'
    <2>1. ASSUME NEW q \in Proc, q # p
          PROVE  place'[q] = place[q] /\ dst'[q] = dst[q] /\ target'[q] = target[q]
      BY <1>1, <2>1 DEF CInv, ConsoleTypeOK
    <2>2. CASE last
      BY <1>1, <2>1, <2>2 DEF CInv, CallsInv, ConsoleTypeOK
    <2>3. CASE ~last
      <3>1. dst'[p] = Append(dst[p], c) /\ place'[p] = "loop" /\ target'[p] = target[p]
        BY <1>1, <2>3 DEF CInv, ConsoleTypeOK
      <3>2. Len(dst'[p]) < target[p]
        BY <1>3, <1>4, <2>3, <3>1
      <3> QED BY <1>4, <2>1, <3>1, <3>2 DEF CInv, CallsInv
    <2> QED BY <2>2, <2>3
  <1> QED BY <1>6, <1>7, <1>8, <1>9 DEF CInv

\* The invariant holds in every state of the console.
THEOREM ConsoleInvariant == ConsoleSpec => []CInv
  <1>1. ConsoleInit => CInv
    <2> SUFFICES ASSUME ConsoleInit PROVE CInv
      OBVIOUS
    <2>1. ConsoleTypeOK
      BY ConsoleAssumption DEF ConsoleInit, ConsoleTypeOK, Char, PC
    <2> QED BY <2>1, ConsoleAssumption DEF ConsoleInit, CInv, LineOpen, FullDone, CallsInv
  <1>2. CInv /\ [ConsoleNext]_consoleVars => CInv'
    <2> SUFFICES ASSUME CInv, [ConsoleNext]_consoleVars PROVE CInv'
      OBVIOUS
    <2>1. CASE \E k \in Key : console_intr(k)
      BY <2>1, PutCharInv, EditInv DEF console_intr
    <2>2. ASSUME NEW p \in Proc, read_char(p) PROVE CInv'
      BY <2>2, ReadCharInv
    <2>3. CASE UNCHANGED consoleVars
      BY <2>3 DEF consoleVars, input, CInv, ConsoleTypeOK, LineOpen, FullDone, CallsInv
    <2> QED BY <2>1, <2>2, <2>3, ProcessInv DEF ConsoleNext
  <1> QED BY <1>1, <1>2, PTL DEF ConsoleSpec

\* The buffer never gets stuck: when it is full, there is something to read.
THEOREM BufferNeverStuck == ConsoleSpec => []FullIsReadable
  <1>1. CInv => FullIsReadable
    BY ConsoleAssumption DEF CInv, ConsoleTypeOK, FullDone, FullIsReadable
  <1> QED BY <1>1, ConsoleInvariant, PTL

-----------------------------------------------------------------------------
(* The console: the refinement *)

Asked == [p \in Proc |-> IF place[p] \in {"read", "want_read", "sleep", "loop"} THEN target[p] ELSE 0]

\* What the invariant says of the buffer.
LEMMA BufferTypes ==
    ASSUME CInv
    PROVE  /\ r \in Nat /\ w \in Nat /\ e \in Nat /\ r <= w /\ w <= e /\ e - r <= INPUT_BUF
           /\ buf \in Buf /\ INPUT_BUF \in Nat \ {0}
  BY ConsoleAssumption DEF CInv, ConsoleTypeOK, Buf

\* An empty stretch of the buffer.
LEMMA StoredNone ==
    ASSUME NEW b \in Buf, NEW x \in Nat
    PROVE  Stored(b, x, x) = <<>>
  <1>1. Stored(b, x, x) \in Seq(Char) /\ Len(Stored(b, x, x)) = x - x
    BY StoredSeq
  <1> QED BY <1>1

\* A byte behind two stretches.
LEMMA AppendToSecond ==
    ASSUME NEW s \in Seq(Char), NEW t \in Seq(Char), NEW c \in Char
    PROVE  Append(s \o t, c) = s \o Append(t, c)
  <1>1. Append(t, c) = t \o <<c>> /\ <<c>> \in Seq(Char)
    BY AppendIsConcat
  <1>2. Append(s \o t, c) = (s \o t) \o <<c>>
    BY ConcatBytes, AppendIsConcat
  <1> QED BY <1>1, <1>2, ConcatAssociative

\* A character that console_intr stores: Type.
LEMMA PutCharTypes ==
    ASSUME CInv, NEW k \in Key \ {"bs", "kill"}, put_char(k)
    PROVE  \E c \in Char : Abstract!Type(c)
  <1> DEFINE c == IF k = "cr" THEN "nl" ELSE k
             in == Stored(buf, r, w)
             ln == Stored(buf, w, e)
  <1>1. /\ e - r < INPUT_BUF /\ e' = e + 1 /\ r' = r
        /\ buf' = [buf EXCEPT ![e % INPUT_BUF] = c]
        /\ \/ (c \in {"nl", "eof"} \/ e + 1 = r + INPUT_BUF) /\ w' = e + 1
           \/ ~(c \in {"nl", "eof"} \/ e + 1 = r + INPUT_BUF) /\ w' = w
    BY DEF put_char, HasRoom, Complete
  <1>2. dst' = dst /\ Asked' = Asked
    BY DEF put_char, Woken, CInv, ConsoleTypeOK, Asked
  <1>3. c \in Char
    BY DEF Key, Char
  <1> HIDE DEF c
  <1>4. r \in Nat /\ w \in Nat /\ e \in Nat /\ r <= w /\ w <= e /\ buf \in Buf /\ INPUT_BUF \in Nat \ {0}
    BY BufferTypes
  <1>5. /\ in \in Seq(Char) /\ Len(in) = w - r
        /\ ln \in Seq(Char) /\ Len(ln) = e - w
        /\ Append(ln, c) \in Seq(Char) /\ Len(Append(ln, c)) = e - w + 1
    <2>1. in \in Seq(Char) /\ Len(in) = w - r /\ ln \in Seq(Char) /\ Len(ln) = e - w
      BY <1>4, StoredSeq, Zenon
    <2> HIDE DEF in, ln
    <2> QED BY <1>3, <2>1
  <1>6. Len(in) + Len(ln) < INPUT_BUF
    BY <1>1, <1>4, <1>5
  <1>7. CASE c \in {"nl", "eof"} \/ e + 1 = r + INPUT_BUF
    <2>1. Stored(buf', r', w') = in \o Append(ln, c)
      <3>1. r <= e /\ w' = e + 1
        BY <1>1, <1>4, <1>7
      <3>2. Stored([buf EXCEPT ![e % INPUT_BUF] = c], r, e + 1) = Append(Stored(buf, r, e), c)
        BY <1>1, <1>3, <1>4, <3>1, StoredAppend, ZenonT(40)
      <3>3. Stored(buf, r, e) = in \o ln
        BY <1>4, StoredConcat
      <3> HIDE DEF in, ln
      <3>4. Append(in \o ln, c) = in \o Append(ln, c)
        BY <1>3, <1>5, AppendToSecond, Zenon
      <3>5. Stored(buf', r', w') = Stored([buf EXCEPT ![e % INPUT_BUF] = c], r, e + 1)
        BY <1>1, <3>1
      <3> QED BY <3>2, <3>3, <3>4, <3>5, Zenon
    <2>2. Stored(buf', w', e') = <<>>
      <3>1. buf' \in Buf /\ e + 1 \in Nat
        BY <1>1, <1>3, <1>4 DEF Buf
      <3> QED BY <1>1, <1>7, <3>1, StoredNone
    <2>3. c \in {"nl", "eof"} \/ Len(in) + Len(Append(ln, c)) = INPUT_BUF
      BY <1>4, <1>5, <1>7
    <2> QED BY <1>2, <1>3, <1>6, <2>1, <2>2, <2>3 DEF Abstract!Type, Asked
  <1>8. CASE ~(c \in {"nl", "eof"} \/ e + 1 = r + INPUT_BUF)
    <2>1. w' = w
      BY <1>1, <1>8
    <2>2. Stored(buf', r', w') = in
      <3>1. ASSUME NEW i \in 1 .. w - r
            PROVE  buf'[(r + i - 1) % INPUT_BUF] = buf[(r + i - 1) % INPUT_BUF]
        <4>1. r + i - 1 \in Nat /\ r + i - 1 < e /\ e - (r + i - 1) < INPUT_BUF
          BY <1>1, <1>4
        <4>2. (r + i - 1) % INPUT_BUF # e % INPUT_BUF
          BY <1>4, <4>1, PlacesDiffer, Zenon
        <4>3. (r + i - 1) % INPUT_BUF \in 0 .. INPUT_BUF - 1
          BY <1>4, <4>1
        <4> QED BY <1>1, <1>4, <4>2, <4>3 DEF Buf
      <3>2. Stored(buf', r, w) = Stored(buf, r, w)
        BY <3>1 DEF Stored
      <3> QED BY <1>1, <2>1, <3>2
    <2>3. Stored(buf', w', e') = Append(ln, c)
      <3>1. e - w < INPUT_BUF
        BY <1>1, <1>4
      <3>2. Stored([buf EXCEPT ![e % INPUT_BUF] = c], w, e + 1) = Append(Stored(buf, w, e), c)
        BY <1>3, <1>4, <3>1, StoredAppend, ZenonT(40)
      <3> QED BY <1>1, <2>1, <3>2, Zenon
    <2>4. ~(c \in {"nl", "eof"} \/ Len(in) + Len(Append(ln, c)) = INPUT_BUF)
      BY <1>4, <1>5, <1>8
    <2> QED BY <1>2, <1>3, <1>6, <2>2, <2>3, <2>4 DEF Abstract!Type, Asked
  <1> QED BY <1>7, <1>8

\* ^H: Erase.
LEMMA BackspaceErases ==
    ASSUME CInv, backspace
    PROVE  Abstract!Erase
  <1>1. e' = e - 1 /\ UNCHANGED <<buf, r, w, place, target, dst>> /\ e # w
    BY DEF backspace
  <1>2. w \in Nat /\ e \in Nat /\ w < e /\ buf \in Buf
    BY <1>1, BufferTypes
  <1>3. /\ Stored(buf, w, e) # <<>>
        /\ Stored(buf', w', e') = SubSeq(Stored(buf, w, e), 1, Len(Stored(buf, w, e)) - 1)
    BY <1>1, <1>2, StoredEnds
  <1> QED BY <1>1, <1>3 DEF Abstract!Erase

\* ^U: Kill.
LEMMA KillLineKills ==
    ASSUME CInv, kill_line
    PROVE  Abstract!Kill
  <1>1. UNCHANGED <<buf, r, w, place, target, dst>>
    BY DEF kill_line
  <1>2. w \in Nat /\ e \in Nat /\ w <= e /\ buf \in Buf
    BY BufferTypes
  <1>3. PICK x \in w .. e : e' = x /\ (x = w \/ buf[(x - 1) % INPUT_BUF] = "nl")
    BY DEF kill_line
  <1>4. x = w
    <2>1. SUFFICES ASSUME x # w PROVE FALSE
      OBVIOUS
    <2>2. x - 1 \in w .. e - 1
      BY <1>2, <2>1
    <2> QED BY <1>3, <2>1, <2>2 DEF CInv, LineOpen
  <1>5. Stored(buf', w', e') = <<>>
    BY <1>1, <1>2, <1>3, <1>4, StoredNone
  <1> QED BY <1>1, <1>5 DEF Abstract!Kill

\* The start of a read: Begin.
LEMMA CallBegins ==
    ASSUME CInv, NEW p \in Proc, NEW n \in Counts, call(p, "read", n)
    PROVE  Abstract!Begin(p, n)
  <1>1. /\ place[p] = "user" /\ place' = [place EXCEPT ![p] = "read"]
        /\ target' = [target EXCEPT ![p] = n] /\ UNCHANGED <<buf, r, w, e, dst>>
    BY DEF call, MoveTo, input
  <1>2. Asked[p] = 0 /\ dst[p] = <<>>
    BY <1>1 DEF CInv, CallsInv, Asked
  <1>3. Asked' = [Asked EXCEPT ![p] = n]
    BY <1>1, Zenon DEF CInv, ConsoleTypeOK, Asked
  <1> QED BY <1>1, <1>2, <1>3 DEF Abstract!Begin, Asked

\* A byte is read, or an end of file: Take or AtEof.
LEMMA ReadCharTakes ==
    ASSUME CInv, NEW p \in Proc, read_char(p)
    PROVE  Abstract!Take(p) \/ Abstract!AtEof(p)
  <1> DEFINE c == buf[r % INPUT_BUF]
             last == c \in {"nl", "eof"} \/ Len(dst[p]) + 1 = target[p]
             in == Stored(buf, r, w)
  <1>1. /\ place[p] = "loop" /\ r # w
        /\ r' = (IF c = "eof" /\ dst[p] # <<>> THEN r ELSE r + 1)
        /\ dst' = (IF c = "eof" THEN dst ELSE [dst EXCEPT ![p] = Append(@, c)])
        /\ place' = (IF last THEN [place EXCEPT ![p] = "relock"] ELSE place)
        /\ UNCHANGED <<buf, w, e, target>>
    BY DEF read_char, MoveTo
  <1>2. r \in Nat /\ w \in Nat /\ r < w /\ buf \in Buf /\ INPUT_BUF \in Nat \ {0}
    BY <1>1, BufferTypes
  <1>3. in # <<>> /\ Head(in) = c /\ Stored(buf, r + 1, w) = Tail(in)
    BY <1>2, StoredEnds
  <1>4. /\ target[p] > 0 /\ Asked[p] = target[p] /\ dst[p] \in Seq(Char) /\ c \in Char
    BY <1>1, <1>2 DEF CInv, CallsInv, ConsoleTypeOK, Asked
  <1>5. Stored(buf', w', e') = Stored(buf, w, e)
    BY <1>1
  <1>6. Asked' = [Asked EXCEPT ![p] = IF last THEN 0 ELSE @]
    BY <1>1, Zenon DEF CInv, ConsoleTypeOK, Asked
  <1> HIDE DEF c, in
  <1>7. CASE c = "eof"
    <2>1. Stored(buf', r', w') = IF dst[p] = <<>> THEN Tail(in) ELSE in
      BY <1>1, <1>3, <1>7, Zenon DEF in
    <2>2. Asked' = [Asked EXCEPT ![p] = 0]
      BY <1>6, <1>7
    <2> QED BY <1>1, <1>3, <1>4, <1>5, <1>7, <2>1, <2>2 DEF Abstract!AtEof, Asked, in
  <1>8. CASE c # "eof"
    <2>1. Stored(buf', r', w') = Tail(in)
      BY <1>1, <1>3, <1>8
    <2>2. dst' = [dst EXCEPT ![p] = Append(@, c)] /\ dst'[p] = Append(dst[p], c)
      BY <1>1, <1>8 DEF CInv, ConsoleTypeOK
    <2>3. Len(dst'[p]) = Len(dst[p]) + 1
      BY <1>4, <2>2
    <2>4. Asked' = [Asked EXCEPT ![p] = IF c = "nl" \/ Len(dst'[p]) = @ THEN 0 ELSE @]
      BY <1>4, <1>6, <1>8, <2>3, Zenon
    <2> QED BY <1>3, <1>4, <1>5, <1>8, <2>1, <2>2, <2>4, Zenon DEF Abstract!Take, Asked, in
  <1> QED BY <1>7, <1>8

\* The end of a call: Return.
LEMMA ReturnReturns ==
    ASSUME CInv, NEW p \in Proc, return(p)
    PROVE  Abstract!Return(p)
  <1>1. /\ place[p] = "return" /\ place' = [place EXCEPT ![p] = "user"]
        /\ target' = [target EXCEPT ![p] = 0] /\ dst' = [dst EXCEPT ![p] = <<>>]
        /\ UNCHANGED <<buf, r, w, e>>
    BY DEF return, MoveTo, input
  <1>2. Asked[p] = 0 /\ Asked' = Asked
    BY <1>1 DEF CInv, ConsoleTypeOK, Asked
  <1> QED BY <1>1, <1>2 DEF Abstract!Return, Asked

\* Writes, and the lock operations of both calls, are not seen.
LEMMA LocksAreSilent ==
    ASSUME CInv, NEW p \in Proc,
           \/ call(p, "write", 0) \/ unlock(p) \/ console_write(p) \/ console_read(p)
           \/ read_sleep(p) \/ relock(p)
    PROVE  UNCHANGED Abstract!vars
  <1>1. UNCHANGED <<buf, r, w, e, dst>>
    BY Zenon DEF call, unlock, console_write, console_read, read_sleep, relock, input
  <1>2. Asked' = Asked
    <2> USE DEF MoveTo, CInv, ConsoleTypeOK, CallsInv, Asked
    <2>1. CASE call(p, "write", 0)
      BY <2>1 DEF call
    <2>2. CASE unlock(p)
      BY <2>2 DEF unlock
    <2>3. CASE console_write(p)
      BY <2>3 DEF console_write
    <2>4. CASE console_read(p)
      <3>1. target[p] \in Counts \union {0} /\ Counts \union {0} \subseteq Nat
        BY ConsoleAssumption
      <3> QED BY <2>4, <3>1 DEF console_read
    <2>5. CASE read_sleep(p)
      BY <2>5 DEF read_sleep
    <2>6. CASE relock(p)
      BY <2>6 DEF relock
    <2> QED BY <2>1, <2>2, <2>3, <2>4, <2>5, <2>6, Zenon
  <1> QED BY <1>1, <1>2 DEF Abstract!vars, Asked

\* The console implements a queue of bytes and a line, whatever the size of
\* the buffer and however the indexes wrap round in it: every byte is read
\* once and in order, and what can be read can no longer be edited.
THEOREM ConsoleRefines == ConsoleSpec => ImplementsLineInput
  <1>1. ConsoleInit => Abstract!Init
    <2> SUFFICES ASSUME ConsoleInit PROVE Abstract!Init
      OBVIOUS
    <2>1. buf \in Buf /\ r = 0 /\ w = 0 /\ e = 0 /\ dst = [p \in Proc |-> <<>>]
      BY DEF ConsoleInit, Buf, Char
    <2>2. Stored(buf, r, w) = <<>> /\ Stored(buf, w, e) = <<>>
      BY <2>1, StoredNone
    <2>3. Asked = [p \in Proc |-> 0]
      BY DEF ConsoleInit, Asked
    <2> QED BY <2>1, <2>2, <2>3 DEF Abstract!Init, Asked
  <1>2. CInv /\ [ConsoleNext]_consoleVars => [Abstract!Next]_(Abstract!vars)
    <2> SUFFICES ASSUME CInv, [ConsoleNext]_consoleVars
                 PROVE  Abstract!Next \/ UNCHANGED Abstract!vars
      OBVIOUS
    <2>1. ASSUME NEW k \in Key, console_intr(k) PROVE Abstract!Next
      <3>1. CASE k = "kill"
        BY <2>1, <3>1, KillLineKills DEF console_intr, Abstract!Next
      <3>2. CASE k = "bs"
        BY <2>1, <3>2, BackspaceErases DEF console_intr, Abstract!Next
      <3>3. CASE k \notin {"bs", "kill"}
        BY <2>1, <3>3, PutCharTypes DEF console_intr, Abstract!Next
      <3> QED BY <3>1, <3>2, <3>3
    <2>2. ASSUME NEW p \in Proc, NEW n \in Counts, call(p, "read", n) PROVE Abstract!Next
      BY <2>2, CallBegins DEF Abstract!Next
    <2>3. ASSUME NEW p \in Proc, read_char(p) \/ return(p) PROVE Abstract!Next
      BY <2>3, ReadCharTakes, ReturnReturns DEF Abstract!Next
    <2>4. CASE UNCHANGED consoleVars
      BY <2>4 DEF consoleVars, input, Abstract!vars
    <2> QED BY <2>1, <2>2, <2>3, <2>4, LocksAreSilent DEF ConsoleNext
  <1> QED BY <1>1, <1>2, ConsoleInvariant, PTL DEF ConsoleSpec, ImplementsLineInput, Abstract!Spec

-----------------------------------------------------------------------------
(* The SD card: the inductive invariant *)

Node == Thread \union {HEAD}

\* Following the links q from any node ends at NIL.
Acyclic(q) == \A S \in SUBSET Node : S # {} => \E n \in S : q[n] \notin S

\* S are the bufs behind the head, by the links q.
IsQueue(q, S) ==
    /\ S \subseteq Thread
    /\ \A n \in S \union {HEAD} : q[n] # NIL => q[n] \in S
    /\ \A T \in SUBSET Node : HEAD \in T /\ (\A n \in T : q[n] # NIL => q[n] \in T) => S \subseteq T

\* No two nodes of the queue have the same successor.
Chain(q, S) == \A n, m \in S \union {HEAD} : q[n] = q[m] /\ q[n] # NIL => n = m

\* An interrupt belongs to a command.
IrqInv == irq # "none" => cmd # NIL

\* Two transfers in progress are of different blocks.
Apart == \A t, u \in Thread : t # u /\ pc[t] # "idle" /\ pc[u] # "idle" => blockno[t] # blockno[u]

\* Up to the first overlap: the queue holds the threads that wait, and at most
\* one thread is between its look and its critical section.
QueueInv == Queued = {t \in Thread : pc[t] \in {"lock", "sleep"}}
WindowInv == \A t, u \in InWindow : t = u

\* What a thread has seen of the queue is still so.
PushInv ==
    \A t \in Thread : pc[t] = "push" =>
        /\ tmp[t] \in Queued \union {HEAD} /\ qnext[tmp[t]] = NIL
        /\ flag[t] <=> front = NIL
LockInv == \A t \in Thread : pc[t] = "lock" /\ flag[t] => front = t /\ cmd = NIL

\* The controller works for the front, on what its buf says.
BusyInv == front # NIL => cmd # NIL \/ \E t \in Thread : pc[t] = "lock" /\ flag[t]
CmdFor(b) == [block |-> blockno[b], write |-> b \in dirty, data |-> data[b]]
CmdInv == cmd # NIL => front # NIL /\ cmd = CmdFor(front)
WroteInv == irq = "DATA_DONE" /\ front \in dirty => disk[blockno[front]] = data[front]

\* A transfer that is over has had its effect.
DoneInv ==
    \A t \in Thread : pc[t] \in {"woken", "done"} =>
        t \in valid /\ t \notin dirty /\ data[t] = disk[blockno[t]]

Core == /\ Chain(qnext, Queued) /\ QueueInv /\ WindowInv /\ PushInv /\ LockInv
        /\ BusyInv /\ CmdInv /\ WroteInv /\ DoneInv /\ ~failed

Base == TypeOK /\ Acyclic(qnext) /\ IrqInv /\ Apart

SInv == Base /\ (~overlapped => Core)

-----------------------------------------------------------------------------
(* The SD card: the queue *)

\* Queued is what the links say.
LEMMA QueueOf ==
    ASSUME TypeOK
    PROVE  IsQueue(qnext, Queued)
  <1>1. Queued \subseteq Thread
    BY Zenon DEF Queued
  <1>2. ASSUME NEW n \in Queued \union {HEAD}, qnext[n] # NIL
        PROVE  qnext[n] \in Queued
    <2>1. qnext[n] \in Thread
      BY <1>1, <1>2, Zenon DEF TypeOK
    <2>2. ASSUME NEW S \in SUBSET (Thread \union {HEAD}), HEAD \in S, \A k \in S : qnext[k] # NIL => qnext[k] \in S
          PROVE  qnext[n] \in S
      <3>1. n \in S
        BY <2>2, Zenon DEF Queued
      <3> QED BY <1>2, <2>2, <3>1, Zenon
    <2> QED BY <2>1, <2>2, Zenon DEF Queued
  <1>3. ASSUME NEW T \in SUBSET Node, HEAD \in T, \A n \in T : qnext[n] # NIL => qnext[n] \in T
        PROVE  Queued \subseteq T
    BY <1>3, Zenon DEF Queued, Node
  <1> QED BY <1>1, <1>2, <1>3, Zenon DEF IsQueue

\* The set behind the head is unique; after a step as well.
LEMMA QueueIs ==
    ASSUME NEW S, IsQueue(qnext', S)
    PROVE  Queued' = S
  <1>1. ASSUME NEW t \in S PROVE t \in Queued'
    BY <1>1, Zenon DEF Queued, IsQueue, Node
  <1>2. ASSUME NEW t \in Queued' PROVE t \in S
    <2>1. t \in Thread /\ t # HEAD
      BY SdAssumption, Zenon DEF Queued
    <2>2. S \union {HEAD} \in SUBSET (Thread \union {HEAD})
      BY Zenon DEF IsQueue
    <2>3. \A n \in S \union {HEAD} : qnext'[n] # NIL => qnext'[n] \in S \union {HEAD}
      BY Zenon DEF IsQueue
    <2>4. t \in S \union {HEAD}
      BY <2>2, <2>3, Zenon DEF Queued
    <2> QED BY <2>1, <2>4, Zenon
  <1> QED BY <1>1, <1>2, Zenon

\* The walk of buflist_push ends.
LEMMA LastIsEnd ==
    ASSUME TypeOK, Acyclic(qnext)
    PROVE  Last \in Queued \union {HEAD} /\ qnext[Last] = NIL
  <1>1. IsQueue(qnext, Queued)
    BY QueueOf, Zenon
  <1>2. Queued \union {HEAD} \in SUBSET Node
    BY <1>1, Zenon DEF IsQueue, Node
  <1>3. PICK n \in Queued \union {HEAD} : qnext[n] \notin Queued \union {HEAD}
    BY <1>2, Zenon DEF Acyclic
  <1>4. qnext[n] = NIL
    BY <1>1, <1>3, Zenon DEF IsQueue
  <1> QED BY <1>4, Zenon DEF Last

\* The links after the last two assignments of buflist_push.
Pushed(q, x, t, p) ==
    /\ p \in [Node -> Thread \union {NIL}]
    /\ p[t] = NIL /\ (x # t => p[x] = t)
    /\ \A n \in Node : n # t /\ n # x => p[n] = q[n]

LEMMA PushLinks ==
    ASSUME NEW q \in [Node -> Thread \union {NIL}], NEW x \in Node, NEW t \in Thread
    PROVE  Pushed(q, x, t, [q EXCEPT ![x] = t, ![t] = NIL])
  <1>1. t \in Node
    BY Zenon DEF Node
  <1> QED BY <1>1 DEF Pushed

\* A push makes no cycle, wherever it appends.
LEMMA PushAcyclic ==
    ASSUME NEW q \in [Node -> Thread \union {NIL}], Acyclic(q), NEW x \in Node, NEW t \in Thread,
           NEW p, Pushed(q, x, t, p)
    PROVE  Acyclic(p)
  <1>1. /\ p[t] = NIL /\ (x # t => p[x] = t)
        /\ \A n \in Node : n # t /\ n # x => p[n] = q[n]
    BY Zenon DEF Pushed
  <1>2. SUFFICES ASSUME NEW S \in SUBSET Node, S # {} PROVE \E n \in S : p[n] \notin S
    BY Zenon DEF Acyclic
  <1>3. CASE t \in S
    <2>1. NIL \notin S
      BY SdAssumption, Zenon DEF Node
    <2> QED BY <1>1, <1>3, <2>1, Zenon
  <1>4. CASE t \notin S
    <2>1. PICK n \in S : q[n] \notin S
      BY <1>2, Zenon DEF Acyclic
    <2>2. n \in Node /\ n # t
      BY <1>4, <2>1, Zenon
    <2>3. CASE n = x
      BY <1>1, <1>4, <2>2, <2>3, Zenon
    <2>4. CASE n # x
      BY <1>1, <2>1, <2>2, <2>4, Zenon
    <2> QED BY <2>3, <2>4, Zenon
  <1> QED BY <1>3, <1>4, Zenon

\* A push at the end adds the buf to the queue.
LEMMA PushQueue ==
    ASSUME NEW q \in [Node -> Thread \union {NIL}], NEW S, IsQueue(q, S), Chain(q, S),
           NEW x \in S \union {HEAD}, q[x] = NIL, NEW t \in Thread, t \notin S,
           NEW p, Pushed(q, x, t, p)
    PROVE  IsQueue(p, S \union {t}) /\ Chain(p, S \union {t})
  <1>1. x \in Node /\ x # t /\ S \union {HEAD} \subseteq Node /\ t # HEAD /\ S \subseteq Thread
    BY SdAssumption, Zenon DEF IsQueue, Node
  <1>2. /\ p[t] = NIL /\ p[x] = t
        /\ \A n \in Node : n # t /\ n # x => p[n] = q[n]
    BY <1>1, Zenon DEF Pushed
  <1>3. \A n \in S \union {HEAD} : n # x => p[n] = q[n]
    BY <1>1, <1>2, Zenon
  <1>4. \A n \in S \union {HEAD} : q[n] # NIL => q[n] \in S
    BY Zenon DEF IsQueue
  <1>5. ASSUME NEW n \in (S \union {t}) \union {HEAD}, p[n] # NIL PROVE p[n] \in S \union {t}
    BY <1>2, <1>3, <1>4, <1>5, Zenon
  <1>6. ASSUME NEW T \in SUBSET Node, HEAD \in T, \A n \in T : p[n] # NIL => p[n] \in T
        PROVE  S \union {t} \subseteq T
    <2>1. ASSUME NEW n \in T \intersect (S \union {HEAD}), q[n] # NIL
          PROVE  q[n] \in T \intersect (S \union {HEAD})
      <3>1. n # x /\ p[n] = q[n]
        BY <1>3, <2>1, Zenon
      <3> QED BY <1>4, <1>6, <2>1, <3>1, Zenon
    <2>2. T \intersect (S \union {HEAD}) \in SUBSET Node /\ HEAD \in T \intersect (S \union {HEAD})
      BY <1>6, Zenon
    <2>3. S \subseteq T
      BY <2>1, <2>2, Zenon DEF IsQueue
    <2>4. x \in T /\ t # NIL
      BY <1>6, <2>3, SdAssumption, Zenon
    <2> QED BY <1>2, <1>6, <2>3, <2>4, Zenon
  <1>7. S \union {t} \subseteq Thread
    BY <1>1, Zenon
  <1>8. IsQueue(p, S \union {t})
    BY <1>5, <1>6, <1>7, Zenon DEF IsQueue
  <1>9. ASSUME NEW n \in (S \union {t}) \union {HEAD}, NEW m \in (S \union {t}) \union {HEAD},
               p[n] = p[m], p[n] # NIL
        PROVE  n = m
    <2>1. n # t /\ m # t
      BY <1>2, <1>9, Zenon
    <2>2. n \in S \union {HEAD} /\ m \in S \union {HEAD}
      BY <2>1, Zenon
    <2>3. \A k \in S \union {HEAD} : k # x => p[k] # t
      BY <1>3, <1>4, SdAssumption, Zenon
    <2>4. CASE n = x \/ m = x
      BY <1>2, <1>9, <2>2, <2>3, <2>4, Zenon
    <2>5. CASE n # x /\ m # x
      BY <1>3, <1>9, <2>2, <2>5, Zenon DEF Chain
    <2> QED BY <2>4, <2>5, Zenon
  <1> QED BY <1>8, <1>9, Zenon DEF Chain

\* The links after buflist_pop.
Popped(q, f, p) ==
    /\ p \in [Node -> Thread \union {NIL}] /\ p[HEAD] = q[f]
    /\ \A n \in Node : n # HEAD => p[n] = q[n]

LEMMA PopLinks ==
    ASSUME NEW q \in [Node -> Thread \union {NIL}], NEW f \in Thread
    PROVE  Popped(q, f, [q EXCEPT ![HEAD] = q[f]])
  <1>1. f \in Node /\ HEAD \in Node
    BY Zenon DEF Node
  <1> QED BY <1>1 DEF Popped

\* A pop makes no cycle.
LEMMA PopAcyclic ==
    ASSUME NEW q \in [Node -> Thread \union {NIL}], Acyclic(q), NEW f \in Thread,
           NEW p, Popped(q, f, p)
    PROVE  Acyclic(p)
  <1>1. /\ p \in [Node -> Thread \union {NIL}] /\ p[HEAD] = q[f]
        /\ \A n \in Node : n # HEAD => p[n] = q[n]
    BY Zenon DEF Popped
  <1>2. SUFFICES ASSUME NEW S \in SUBSET Node, S # {} PROVE \E n \in S : p[n] \notin S
    BY Zenon DEF Acyclic
  <1>3. \A n \in Node : p[n] # HEAD
    BY <1>1, SdAssumption, Zenon
  <1>4. CASE S \ {HEAD} = {}
    <2>1. S = {HEAD}
      BY <1>2, <1>4, Zenon
    <2> QED BY <1>3, <2>1, Zenon
  <1>5. CASE S \ {HEAD} # {}
    <2>1. S \ {HEAD} \in SUBSET Node
      BY Zenon
    <2>2. PICK n \in S \ {HEAD} : q[n] \notin S \ {HEAD}
      BY <1>5, <2>1, Zenon DEF Acyclic
    <2>3. p[n] = q[n] /\ p[n] # HEAD
      BY <1>1, <1>3, <2>2, Zenon
    <2> QED BY <2>2, <2>3, Zenon
  <1> QED BY <1>4, <1>5, Zenon

\* A pop takes the front off the queue.
LEMMA PopQueue ==
    ASSUME NEW q \in [Node -> Thread \union {NIL}], NEW S, IsQueue(q, S), Chain(q, S),
           NEW f \in Thread, q[HEAD] = f, NEW p, Popped(q, f, p)
    PROVE  IsQueue(p, S \ {f}) /\ Chain(p, S \ {f}) /\ q[f] # f
  <1>1. /\ S \subseteq Thread /\ HEAD \notin S /\ f # NIL /\ f # HEAD /\ f \in S
        /\ S \union {HEAD} \subseteq Node
    BY SdAssumption, Zenon DEF IsQueue, Node
  <1>2. p[HEAD] = q[f] /\ \A n \in Node : n # HEAD => p[n] = q[n]
    BY Zenon DEF Popped
  <1>3. \A n \in S : p[n] = q[n]
    BY <1>1, <1>2, Zenon
  <1>4. \A n \in S : q[n] # f
    BY <1>1, Zenon DEF Chain
  <1>5. \A n \in S \union {HEAD} : q[n] # NIL => q[n] \in S
    BY Zenon DEF IsQueue
  <1>6. ASSUME NEW n \in (S \ {f}) \union {HEAD}, p[n] # NIL PROVE p[n] \in S \ {f}
    <2>1. CASE n = HEAD
      BY <1>1, <1>2, <1>4, <1>5, <1>6, <2>1, Zenon
    <2>2. CASE n # HEAD
      BY <1>3, <1>4, <1>5, <1>6, <2>2, Zenon
    <2> QED BY <2>1, <2>2, Zenon
  <1>7. ASSUME NEW T \in SUBSET Node, HEAD \in T, \A n \in T : p[n] # NIL => p[n] \in T
        PROVE  S \ {f} \subseteq T
    <2>1. ASSUME NEW n \in T \union {f}, q[n] # NIL PROVE q[n] \in T \union {f}
      <3>1. CASE n = HEAD
        BY <3>1, Zenon
      <3>2. CASE n = f
        BY <1>2, <1>7, <2>1, <3>2, Zenon
      <3>3. CASE n # HEAD /\ n # f
        BY <1>2, <1>7, <2>1, <3>3, Zenon
      <3> QED BY <3>1, <3>2, <3>3, Zenon
    <2>2. T \union {f} \in SUBSET Node /\ HEAD \in T \union {f}
      BY <1>7, Zenon DEF Node
    <2>3. S \subseteq T \union {f}
      BY <2>1, <2>2, Zenon DEF IsQueue
    <2> QED BY <2>3, Zenon
  <1>8. IsQueue(p, S \ {f})
    BY <1>1, <1>6, <1>7, Zenon DEF IsQueue
  <1>9. ASSUME NEW n \in (S \ {f}) \union {HEAD}, NEW m \in (S \ {f}) \union {HEAD},
               p[n] = p[m], p[n] # NIL
        PROVE  n = m
    <2>1. \A k \in S \ {f} : p[k] = p[HEAD] => p[k] = NIL
      BY <1>2, <1>3, <1>1, Zenon DEF Chain
    <2>2. CASE n = HEAD \/ m = HEAD
      BY <1>9, <2>1, <2>2, Zenon
    <2>3. CASE n # HEAD /\ m # HEAD
      BY <1>3, <1>9, <2>3, Zenon DEF Chain
    <2> QED BY <2>2, <2>3, Zenon
  <1> QED BY <1>1, <1>4, <1>8, <1>9, Zenon DEF Chain

-----------------------------------------------------------------------------
(* The SD card: consequences of the invariant *)

\* AnyBlock is a block number, AnyData is content.
LEMMA AnyTyped == AnyBlock \in BlockNo /\ AnyData \in Data
  BY SdAssumption, Zenon DEF AnyBlock, AnyData

\* The command for a buf.
LEMMA CmdForFacts ==
    ASSUME TypeOK, NEW b \in Thread
    PROVE  /\ CmdFor(b) \in Command /\ CmdFor(b) # NIL
           /\ CmdFor(b).block = blockno[b] /\ CmdFor(b).data = data[b]
           /\ CmdFor(b).write <=> b \in dirty
  <1>1. blockno[b] \in BlockNo /\ data[b] \in Data
    BY Zenon DEF TypeOK
  <1>2. CmdFor(b) \in Command
    BY ONLY <1>1 DEF CmdFor, Command
  <1>3. CmdFor(b) # NIL
    BY <1>2, SdAssumption, Zenon DEF Command
  <1>4. CmdFor(b).block = blockno[b] /\ CmdFor(b).data = data[b]
    BY DEF CmdFor
  <1>5. CmdFor(b).write <=> b \in dirty
    BY Zenon DEF CmdFor
  <1> QED BY <1>2, <1>3, <1>4, <1>5, Zenon

\* The queue up to the first overlap: the front is in it, and it is empty when
\* there is no front.
LEMMA CoreFacts ==
    ASSUME SInv, ~overlapped
    PROVE  /\ Base /\ Core /\ IsQueue(qnext, Queued)
           /\ \A t \in Thread : t \in Queued <=> pc[t] \in {"lock", "sleep"}
           /\ front # NIL => front \in Thread /\ front \in Queued
           /\ front = NIL => Queued = {}
           /\ front \in Thread \union {NIL}
  <1>1. Base /\ Core /\ TypeOK
    BY Zenon DEF SInv, Base
  <1>2. IsQueue(qnext, Queued)
    BY <1>1, QueueOf, Zenon
  <1>3. \A t \in Thread : t \in Queued <=> pc[t] \in {"lock", "sleep"}
    BY <1>1, Zenon DEF Core, QueueInv
  <1>4. front # NIL => front \in Thread /\ front \in Queued
    BY <1>2, Zenon DEF IsQueue, front
  <1>5. ASSUME front = NIL PROVE Queued = {}
    <2>1. Queued \subseteq {HEAD}
      <3>1. {HEAD} \in SUBSET Node
        BY Zenon DEF Node
      <3>2. \A n \in {HEAD} : qnext[n] # NIL => qnext[n] \in {HEAD}
        BY <1>5, Zenon DEF front
      <3> QED BY <1>2, <3>1, <3>2, Zenon DEF IsQueue
    <2>2. HEAD \notin Queued
      BY <1>2, SdAssumption, Zenon DEF IsQueue
    <2> QED BY <2>1, <2>2, Zenon
  <1>6. front \in Thread \union {NIL}
    BY <1>4, Zenon
  <1> QED BY <1>1, <1>2, <1>3, <1>4, <1>5, <1>6, Zenon

\* A step that leaves the links alone leaves the queue alone.
LEMMA SameQueue ==
    ASSUME qnext' = qnext
    PROVE  Queued' = Queued /\ front' = front
  BY Zenon DEF Queued, front

\* Goto.
LEMMA GotoFacts ==
    ASSUME TypeOK, NEW t \in Thread, NEW l \in {"idle", "push", "lock", "sleep", "woken", "done"}, Goto(t, l)
    PROVE  /\ pc' \in [Thread -> {"idle", "push", "lock", "sleep", "woken", "done"}]
           /\ pc'[t] = l /\ \A u \in Thread : u # t => pc'[u] = pc[u]
  <1>1. pc \in [Thread -> {"idle", "push", "lock", "sleep", "woken", "done"}]
    BY Zenon DEF TypeOK
  <1> QED BY <1>1, Zenon DEF Goto

-----------------------------------------------------------------------------
(* The SD card: sdrw *)

\* The effects of filling in the buf and looking at the queue.
Looked(t, b, d) ==
    /\ pc[t] = "idle" /\ pc'[t] = "push" /\ \A u \in Thread : u # t => pc'[u] = pc[u]
    /\ blockno'[t] = b /\ data'[t] = d
    /\ \A u \in Thread : u # t => /\ blockno'[u] = blockno[u] /\ data'[u] = data[u]
                                  /\ flag'[u] = flag[u] /\ tmp'[u] = tmp[u]
                                  /\ u \in dirty' <=> u \in dirty
                                  /\ u \in valid' <=> u \in valid
    /\ flag'[t] <=> front = NIL
    /\ tmp'[t] = Last
    /\ qnext' = qnext /\ disk' = disk /\ cmd' = cmd /\ irq' = irq /\ failed' = failed

LEMMA SdrwLook ==
    ASSUME SInv, NEW t \in Thread, NEW b \in BlockNo, NEW wr \in BOOLEAN, NEW d \in Data, sdrw(t, b, wr, d)
    PROVE  TypeOK' /\ Looked(t, b, d)
  <1>1. TypeOK /\ Acyclic(qnext)
    BY Zenon DEF SInv, Base
  <1>2. /\ pc[t] = "idle" /\ ops[t] < MaxOps
        /\ ops' = [ops EXCEPT ![t] = @ + 1] /\ blockno' = [blockno EXCEPT ![t] = b]
        /\ data' = [data EXCEPT ![t] = d]
        /\ flag' = [flag EXCEPT ![t] = front = NIL] /\ tmp' = [tmp EXCEPT ![t] = Last]
        /\ dirty' = (IF wr THEN dirty \union {t} ELSE dirty \ {t})
        /\ valid' = (IF wr THEN valid \union {t} ELSE valid \ {t})
        /\ overlapped' = (overlapped \/ InWindow \ {t} # {})
        /\ Goto(t, "push")
        /\ qnext' = qnext /\ disk' = disk /\ cmd' = cmd /\ irq' = irq /\ glitches' = glitches /\ failed' = failed
    BY Zenon DEF sdrw, Touch, emmcVars
  <1>3. /\ pc' \in [Thread -> {"idle", "push", "lock", "sleep", "woken", "done"}]
        /\ pc'[t] = "push" /\ \A u \in Thread : u # t => pc'[u] = pc[u]
    BY <1>1, <1>2, GotoFacts, Zenon
  <1>4. Last \in Thread \union {HEAD}
    BY <1>1, LastIsEnd, Zenon DEF Queued
  <1>5. /\ flag' \in [Thread -> BOOLEAN] /\ (flag'[t] <=> front = NIL)
        /\ \A u \in Thread : u # t => flag'[u] = flag[u]
    BY <1>1, <1>2, Zenon DEF TypeOK
  <1>6. /\ tmp' \in [Thread -> Thread \union {HEAD}] /\ tmp'[t] = Last
        /\ \A u \in Thread : u # t => tmp'[u] = tmp[u]
    BY <1>1, <1>2, <1>4, Zenon DEF TypeOK
  <1>7. /\ blockno' \in [Thread -> BlockNo] /\ blockno'[t] = b
        /\ \A u \in Thread : u # t => blockno'[u] = blockno[u]
    BY <1>1, <1>2, Zenon DEF TypeOK
  <1>8. /\ data' \in [Thread -> Data] /\ data'[t] = d
        /\ \A u \in Thread : u # t => data'[u] = data[u]
    BY <1>1, <1>2, Zenon DEF TypeOK
  <1>9. ops' \in [Thread -> 0 .. MaxOps]
    <2>1. ops \in [Thread -> 0 .. MaxOps] /\ ops[t] \in 0 .. MaxOps
      BY <1>1, Zenon DEF TypeOK
    <2>2. ops[t] + 1 \in 0 .. MaxOps
      BY <1>2, <2>1, SdAssumption
    <2> QED BY <1>2, <2>1, <2>2, Zenon
  <1>10. /\ dirty' \subseteq Thread /\ valid' \subseteq Thread
         /\ \A u \in Thread : u # t => (u \in dirty' <=> u \in dirty) /\ (u \in valid' <=> u \in valid)
    <2>1. dirty \subseteq Thread /\ valid \subseteq Thread
      BY <1>1, Zenon DEF TypeOK
    <2>2. CASE wr
      BY <1>2, <2>1, <2>2, Zenon
    <2>3. CASE ~wr
      BY <1>2, <2>1, <2>3, Zenon
    <2> QED BY <2>2, <2>3, Zenon
  <1>11. TypeOK'
    <2>1. /\ qnext' \in [Thread \union {HEAD} -> Thread \union {NIL}] /\ disk' \in [BlockNo -> Data]
          /\ cmd' \in Command \union {NIL} /\ irq' \in {"none", "READ_RDY", "DATA_DONE"}
          /\ glitches' \in 0 .. MaxGlitch /\ failed' \in BOOLEAN /\ overlapped' \in BOOLEAN
      BY <1>1, <1>2, Zenon DEF TypeOK
    <2> QED BY <1>3, <1>5, <1>6, <1>7, <1>8, <1>9, <1>10, <2>1, Zenon DEF TypeOK
  <1> QED BY <1>2, <1>3, <1>5, <1>6, <1>7, <1>8, <1>10, <1>11, Zenon DEF Looked

LEMMA SdrwStep ==
    ASSUME SInv, NEW t \in Thread, NEW b \in BlockNo, NEW wr \in BOOLEAN, NEW d \in Data, sdrw(t, b, wr, d)
    PROVE  SInv'
  <1>1. TypeOK /\ Acyclic(qnext) /\ IrqInv /\ Apart
    BY Zenon DEF SInv, Base
  <1>2. TypeOK' /\ Looked(t, b, d)
    BY SdrwLook, Zenon
  <1>3. overlapped' = (overlapped \/ InWindow \ {t} # {})
    BY Zenon DEF sdrw, Touch
  <1>4. Base'
    <2>1. Acyclic(qnext')
      BY <1>1, <1>2, Zenon DEF Looked
    <2>2. IrqInv'
      BY <1>1, <1>2, Zenon DEF Looked, IrqInv
    <2>3. Apart'
      <3>1. \A u \in Thread \ {t} : pc[u] = "idle" \/ blockno[u] # b
        BY Zenon DEF sdrw
      <3>2. ASSUME NEW u \in Thread, u # t, pc'[u] # "idle" PROVE blockno'[u] # b /\ blockno'[t] = b
        BY <1>2, <3>1, <3>2, Zenon DEF Looked
      <3>3. ASSUME NEW u \in Thread, NEW v \in Thread, u # v, pc'[u] # "idle", pc'[v] # "idle"
            PROVE  blockno'[u] # blockno'[v]
        <4>1. CASE u = t \/ v = t
          BY <3>2, <3>3, <4>1, Zenon
        <4>2. CASE u # t /\ v # t
          BY <1>1, <1>2, <3>3, <4>2, Zenon DEF Looked, Apart
        <4> QED BY <4>1, <4>2, Zenon
      <3> QED BY <3>3, Zenon DEF Apart
    <2> QED BY <1>2, <2>1, <2>2, <2>3, Zenon DEF Base
  <1>5. ASSUME ~overlapped' PROVE Core'
    <2>1. ~overlapped /\ InWindow \ {t} = {}
      BY <1>3, <1>5, Zenon
    <2>2. \A u \in Thread : u # t => pc[u] # "push" /\ pc[u] # "lock"
      <3>1. SUFFICES ASSUME NEW u \in Thread, u # t, pc[u] \in {"push", "lock"} PROVE FALSE
        BY Zenon
      <3>2. u \in InWindow
        BY <3>1, Zenon DEF InWindow
      <3> QED BY <2>1, <3>1, <3>2, Zenon
    <2>3. /\ Core /\ \A u \in Thread : u \in Queued <=> pc[u] \in {"lock", "sleep"}
          /\ front # NIL => front \in Thread /\ front \in Queued
      BY <2>1, CoreFacts, Zenon
    <2>4. Queued' = Queued /\ front' = front
      BY <1>2, SameQueue, Zenon DEF Looked
    <2>5. /\ pc[t] = "idle" /\ pc'[t] = "push" /\ t \notin Queued /\ front # t
          /\ \A u \in Thread : u # t => pc'[u] = pc[u]
      <3>1. pc[t] = "idle" /\ pc'[t] = "push" /\ \A u \in Thread : u # t => pc'[u] = pc[u]
        BY <1>2, Zenon DEF Looked
      <3>2. t \notin Queued
        <4>1. pc[t] \notin {"lock", "sleep"}
          BY <3>1, Zenon
        <4> QED BY <2>3, <4>1, Zenon
      <3>3. front # t
        BY <2>3, <3>2, SdAssumption, Zenon
      <3> QED BY <3>1, <3>2, <3>3, Zenon
    <2>6. Chain(qnext', Queued')
      BY <1>2, <2>3, <2>4, Zenon DEF Looked, Core
    <2>7. QueueInv'
      <3>1. ASSUME NEW u \in Thread PROVE u \in Queued' <=> pc'[u] \in {"lock", "sleep"}
        BY <2>3, <2>4, <2>5, Zenon
      <3>2. Queued' \subseteq Thread
        BY Zenon DEF Queued
      <3> QED BY <3>1, <3>2, Zenon DEF QueueInv
    <2>8. WindowInv'
      <3>1. \A u \in Thread : pc'[u] \in {"push", "lock"} => u = t
        BY <2>2, <2>5, Zenon
      <3> QED BY <3>1, Zenon DEF WindowInv, InWindow
    <2>9. PushInv'
      <3>1. Last \in Queued \union {HEAD} /\ qnext[Last] = NIL
        BY <1>1, LastIsEnd, Zenon
      <3>2. ASSUME NEW u \in Thread, pc'[u] = "push" PROVE u = t
        BY <2>2, <2>5, <3>2, Zenon
      <3>3. tmp'[t] \in Queued' \union {HEAD} /\ qnext'[tmp'[t]] = NIL /\ (flag'[t] <=> front' = NIL)
        BY <1>2, <2>4, <3>1, Zenon DEF Looked
      <3> QED BY <3>2, <3>3, Zenon DEF PushInv
    <2>10. LockInv'
      <3>1. \A u \in Thread : pc'[u] # "lock"
        BY <2>2, <2>5, Zenon
      <3> QED BY <3>1, Zenon DEF LockInv
    <2>11. BusyInv'
      <3>1. \A u \in Thread : pc[u] # "lock"
        BY <2>2, <2>5, Zenon
      <3>2. front # NIL => cmd # NIL
        BY <2>3, <3>1, Zenon DEF Core, BusyInv
      <3> QED BY <1>2, <2>4, <3>2, Zenon DEF BusyInv, Looked
    <2>12. ASSUME front # NIL
           PROVE  /\ blockno'[front] = blockno[front] /\ data'[front] = data[front]
                  /\ front \in dirty' <=> front \in dirty
      BY <1>2, <2>3, <2>5, <2>12, Zenon DEF Looked
    <2>13. CmdInv'
      <3>1. SUFFICES ASSUME cmd # NIL PROVE front # NIL /\ cmd = CmdFor(front)'
        BY <1>2, <2>4, Zenon DEF CmdInv, Looked
      <3>2. front # NIL /\ cmd = CmdFor(front)
        BY <2>3, <3>1, Zenon DEF Core, CmdInv
      <3>3. (front \in dirty') = (front \in dirty)
        BY ONLY <2>12, <3>2
      <3> QED BY <2>4, <2>12, <3>2, <3>3, Zenon DEF CmdFor
    <2>14. WroteInv'
      <3>1. SUFFICES ASSUME irq = "DATA_DONE", front \in dirty' PROVE disk[blockno'[front]] = data'[front]
        BY <1>2, <2>4, Zenon DEF WroteInv, Looked
      <3>2. front # NIL
        BY <1>2, <3>1, SdAssumption, Zenon DEF TypeOK
      <3> QED BY <2>3, <2>12, <3>1, <3>2, Zenon DEF Core, WroteInv
    <2>15. DoneInv'
      <3>1. ASSUME NEW u \in Thread, pc'[u] \in {"woken", "done"} PROVE u # t /\ pc[u] \in {"woken", "done"}
        BY <2>5, <3>1, Zenon
      <3>2. ASSUME NEW u \in Thread, u # t, pc[u] \in {"woken", "done"}
            PROVE  u \in valid' /\ u \notin dirty' /\ data'[u] = disk'[blockno'[u]]
        <4>1. u \in valid /\ u \notin dirty /\ data[u] = disk[blockno[u]]
          BY <2>3, <3>2, Zenon DEF Core, DoneInv
        <4> QED BY <1>2, <3>2, <4>1, Zenon DEF Looked
      <3> QED BY <3>1, <3>2, Zenon DEF DoneInv
    <2>16. ~failed'
      BY <1>2, <2>3, Zenon DEF Looked, Core
    <2> QED BY <2>6, <2>7, <2>8, <2>9, <2>10, <2>11, <2>13, <2>14, <2>15, <2>16, Zenon DEF Core
  <1> QED BY <1>4, <1>5, Zenon DEF SInv
\* The buf is linked behind the node that the thread has found.
LEMMA PushStep ==
    ASSUME SInv, NEW t \in Thread, buflist_push(t)
    PROVE  SInv'
  <1>1. TypeOK /\ Acyclic(qnext) /\ IrqInv /\ Apart
    BY Zenon DEF SInv, Base
  <1>2. /\ pc[t] = "push" /\ qnext' = [qnext EXCEPT ![tmp[t]] = t, ![t] = NIL] /\ Goto(t, "lock")
        /\ dirty' = dirty /\ valid' = valid /\ blockno' = blockno /\ data' = data
        /\ flag' = flag /\ tmp' = tmp /\ ops' = ops
        /\ disk' = disk /\ cmd' = cmd /\ irq' = irq /\ glitches' = glitches
        /\ failed' = failed /\ overlapped' = overlapped
    BY Zenon DEF buflist_push, callVars, emmcVars
  <1>3. /\ pc' \in [Thread -> {"idle", "push", "lock", "sleep", "woken", "done"}]
        /\ pc'[t] = "lock" /\ \A u \in Thread : u # t => pc'[u] = pc[u]
    BY <1>1, <1>2, GotoFacts, Zenon
  <1>4. qnext \in [Node -> Thread \union {NIL}] /\ tmp[t] \in Node
    BY <1>1, Zenon DEF TypeOK, Node
  <1>5. Pushed(qnext, tmp[t], t, qnext')
    BY <1>2, <1>4, PushLinks, Zenon
  <1>6. Base'
    <2>1. TypeOK'
      <3>1. qnext' \in [Thread \union {HEAD} -> Thread \union {NIL}]
        BY <1>5, Zenon DEF Pushed, Node
      <3> QED BY <1>1, <1>2, <1>3, <3>1, Zenon DEF TypeOK
    <2>2. Acyclic(qnext')
      BY <1>1, <1>4, <1>5, PushAcyclic, Zenon
    <2>3. IrqInv' /\ Apart'
      <3>1. \A u \in Thread : pc'[u] # "idle" => pc[u] # "idle"
        BY <1>2, <1>3, Zenon
      <3> QED BY <1>1, <1>2, <3>1, Zenon DEF IrqInv, Apart
    <2> QED BY <2>1, <2>2, <2>3, Zenon DEF Base
  <1>7. ASSUME ~overlapped' PROVE Core'
    <2>1. /\ ~overlapped /\ Core /\ IsQueue(qnext, Queued)
          /\ \A u \in Thread : u \in Queued <=> pc[u] \in {"lock", "sleep"}
          /\ front # NIL => front \in Thread /\ front \in Queued
          /\ front = NIL => Queued = {}
      BY <1>2, <1>7, CoreFacts, Zenon
    <2>2. tmp[t] \in Queued \union {HEAD} /\ qnext[tmp[t]] = NIL /\ (flag[t] <=> front = NIL)
      BY <1>2, <2>1, Zenon DEF Core, PushInv
    <2>3. t \notin Queued /\ t # HEAD /\ t # NIL
      <3>1. pc[t] \notin {"lock", "sleep"}
        BY <1>2, Zenon
      <3> QED BY <2>1, <3>1, SdAssumption, Zenon
    <2>4. \A u \in Thread : u # t => pc[u] # "push" /\ pc[u] # "lock"
      <3>1. t \in InWindow
        BY <1>2, Zenon DEF InWindow
      <3>2. SUFFICES ASSUME NEW u \in Thread, u # t, pc[u] \in {"push", "lock"} PROVE FALSE
        BY Zenon
      <3>3. u \in InWindow
        BY <3>2, Zenon DEF InWindow
      <3> QED BY <2>1, <3>1, <3>2, <3>3, Zenon DEF Core, WindowInv
    <2>5. IsQueue(qnext', Queued \union {t}) /\ Chain(qnext', Queued \union {t})
      <3>1. Chain(qnext, Queued)
        BY <2>1, Zenon DEF Core
      <3> QED BY <1>4, <1>5, <2>1, <2>2, <2>3, <3>1, PushQueue, Zenon
    <2>6. Queued' = Queued \union {t}
      BY <2>5, QueueIs, Zenon
    <2>7. front = NIL => front' = t
      <3>1. ASSUME front = NIL PROVE qnext'[HEAD] = t
        <4>1. tmp[t] = HEAD
          BY <2>1, <2>2, <3>1, Zenon
        <4> QED BY <1>5, <2>3, <4>1, Zenon DEF Pushed
      <3> QED BY <3>1, Zenon DEF front
    <2>8. front # NIL => front' = front
      <3>1. ASSUME front # NIL PROVE qnext'[HEAD] = qnext[HEAD]
        <4>1. tmp[t] # HEAD /\ HEAD \in Node
          BY <2>2, <3>1, Zenon DEF front, Node
        <4> QED BY <1>5, <2>3, <4>1, Zenon DEF Pushed
      <3> QED BY <3>1, Zenon DEF front
    <2>9. QueueInv'
      <3>1. ASSUME NEW u \in Thread PROVE u \in Queued' <=> pc'[u] \in {"lock", "sleep"}
        BY <1>3, <2>1, <2>6, Zenon
      <3>2. Queued' \subseteq Thread
        BY Zenon DEF Queued
      <3> QED BY <3>1, <3>2, Zenon DEF QueueInv
    <2>10. WindowInv'
      <3>1. \A u \in Thread : pc'[u] \in {"push", "lock"} => u = t
        BY <1>3, <2>4, Zenon
      <3> QED BY <3>1, Zenon DEF WindowInv, InWindow
    <2>11. PushInv'
      <3>1. \A u \in Thread : pc'[u] # "push"
        BY <1>3, <2>4, Zenon
      <3> QED BY <3>1, Zenon DEF PushInv
    <2>12. front = NIL => cmd = NIL
      BY <2>1, Zenon DEF Core, CmdInv
    <2>13. LockInv'
      <3>1. \A u \in Thread : pc'[u] = "lock" => u = t
        BY <1>3, <2>4, Zenon
      <3>2. flag[t] => front' = t /\ cmd = NIL
        BY <2>2, <2>7, <2>12, Zenon
      <3> QED BY <1>2, <3>1, <3>2, Zenon DEF LockInv
    <2>14. BusyInv'
      <3>1. CASE front = NIL
        BY <1>2, <1>3, <2>2, <3>1, Zenon DEF BusyInv
      <3>2. CASE front # NIL
        <4>1. \A u \in Thread : pc[u] # "lock"
          BY <1>2, <2>4, Zenon
        <4>2. cmd # NIL
          BY <2>1, <3>2, <4>1, Zenon DEF Core, BusyInv
        <4> QED BY <1>2, <4>2, Zenon DEF BusyInv
      <3> QED BY <3>1, <3>2, Zenon
    <2>15. CmdInv'
      <3>1. SUFFICES ASSUME cmd # NIL PROVE front' # NIL /\ cmd = CmdFor(front)'
        BY <1>2, Zenon DEF CmdInv
      <3>2. front # NIL /\ cmd = CmdFor(front)
        BY <2>1, <3>1, Zenon DEF Core, CmdInv
      <3> QED BY <1>2, <2>8, <3>2, Zenon DEF CmdFor
    <2>16. WroteInv'
      <3>1. SUFFICES ASSUME irq = "DATA_DONE", front' \in dirty PROVE disk[blockno[front']] = data[front']
        BY <1>2, Zenon DEF WroteInv
      <3>2. cmd # NIL
        BY <1>1, <3>1, Zenon DEF IrqInv
      <3>3. front' = front
        BY <2>8, <2>12, <3>2, Zenon
      <3> QED BY <2>1, <3>1, <3>3, Zenon DEF Core, WroteInv
    <2>17. DoneInv'
      <3>1. ASSUME NEW u \in Thread, pc'[u] \in {"woken", "done"} PROVE pc[u] \in {"woken", "done"}
        BY <1>3, <3>1, Zenon
      <3> QED BY <1>2, <2>1, <3>1, Zenon DEF DoneInv, Core
    <2>18. ~failed'
      BY <1>2, <2>1, Zenon DEF Core
    <2>19. Chain(qnext', Queued')
      BY <2>5, <2>6, Zenon
    <2> QED BY <2>9, <2>10, <2>11, <2>13, <2>14, <2>15, <2>16, <2>17, <2>18, <2>19, Zenon DEF Core
  <1> QED BY <1>6, <1>7, Zenon DEF SInv

\* The first critical section: the controller starts when the queue was empty.
LEMMA StartStep ==
    ASSUME SInv, NEW t \in Thread, sdrw_start(t)
    PROVE  SInv'
  <1>1. TypeOK /\ Acyclic(qnext) /\ IrqInv /\ Apart
    BY Zenon DEF SInv, Base
  <1>2. /\ pc[t] = "lock" /\ Goto(t, "sleep")
        /\ qnext' = qnext /\ dirty' = dirty /\ valid' = valid /\ blockno' = blockno /\ data' = data
        /\ flag' = flag /\ tmp' = tmp /\ ops' = ops
        /\ disk' = disk /\ irq' = irq /\ glitches' = glitches /\ overlapped' = overlapped
    BY Zenon DEF sdrw_start, callVars, bufVars
  <1>3. /\ pc' \in [Thread -> {"idle", "push", "lock", "sleep", "woken", "done"}]
        /\ pc'[t] = "sleep" /\ \A u \in Thread : u # t => pc'[u] = pc[u]
    BY <1>1, <1>2, GotoFacts, Zenon
  <1>4. Queued' = Queued /\ front' = front
    BY <1>2, SameQueue, Zenon
  <1>5. \/ cmd' = cmd /\ failed' = failed /\ ~flag[t]
        \/ cmd' = cmd /\ failed' = TRUE /\ flag[t] /\ (front = NIL \/ cmd # NIL)
        \/ cmd' = CmdFor(front) /\ failed' = failed /\ flag[t] /\ front # NIL /\ cmd = NIL
    <2>1. CASE flag[t]
      <3>1. sd_start(front)
        BY <2>1, Zenon DEF sdrw_start
      <3>2. CASE front = NIL \/ cmd # NIL
        BY <2>1, <3>1, <3>2, Zenon DEF sd_start
      <3>3. CASE ~(front = NIL \/ cmd # NIL)
        BY <2>1, <3>1, <3>3, Zenon DEF sd_start, CmdFor
      <3> QED BY <3>2, <3>3, Zenon
    <2>2. CASE ~flag[t]
      BY <2>2, Zenon DEF sdrw_start
    <2> QED BY <2>1, <2>2, Zenon
  <1>6. /\ cmd' \in Command \union {NIL} /\ failed' \in BOOLEAN /\ (cmd # NIL => cmd' # NIL)
        /\ front # NIL => CmdFor(front) # NIL
    <2>1. front # NIL => front \in Thread
      BY <1>1, Zenon DEF TypeOK, front
    <2>2. front # NIL => CmdFor(front) \in Command /\ CmdFor(front) # NIL
      BY <1>1, <2>1, CmdForFacts, Zenon
    <2>3. cmd \in Command \union {NIL} /\ failed \in BOOLEAN
      BY <1>1, Zenon DEF TypeOK
    <2> QED BY <1>5, <2>2, <2>3, Zenon
  <1>7. Base'
    <2>1. TypeOK'
      BY <1>1, <1>2, <1>3, <1>6, Zenon DEF TypeOK
    <2>2. Acyclic(qnext')
      BY <1>1, <1>2, Zenon
    <2>3. IrqInv'
      BY <1>1, <1>2, <1>6, Zenon DEF IrqInv
    <2>4. Apart'
      <3>1. \A u \in Thread : pc'[u] # "idle" => pc[u] # "idle"
        BY <1>2, <1>3, Zenon
      <3> QED BY <1>1, <1>2, <3>1, Zenon DEF Apart
    <2> QED BY <2>1, <2>2, <2>3, <2>4, Zenon DEF Base
  <1>8. ASSUME ~overlapped' PROVE Core'
    <2>1. /\ ~overlapped /\ Core
          /\ \A u \in Thread : u \in Queued <=> pc[u] \in {"lock", "sleep"}
          /\ front # NIL => front \in Thread /\ front \in Queued
      BY <1>2, <1>8, CoreFacts, Zenon
    <2>2. \A u \in Thread : u # t => pc[u] # "push" /\ pc[u] # "lock"
      <3>1. t \in InWindow
        BY <1>2, Zenon DEF InWindow
      <3>2. SUFFICES ASSUME NEW u \in Thread, u # t, pc[u] \in {"push", "lock"} PROVE FALSE
        BY Zenon
      <3>3. u \in InWindow
        BY <3>2, Zenon DEF InWindow
      <3> QED BY <2>1, <3>1, <3>2, <3>3, Zenon DEF Core, WindowInv
    <2>3. \A u \in Thread : pc'[u] # "push" /\ pc'[u] # "lock"
      BY <1>3, <2>2, Zenon
    <2>4. flag[t] => front = t /\ cmd = NIL
      BY <1>2, <2>1, Zenon DEF Core, LockInv
    <2>5. t # NIL
      BY SdAssumption, Zenon
    <2>6. \/ cmd' = cmd /\ failed' = failed /\ ~flag[t]
          \/ cmd' = CmdFor(front) /\ failed' = failed /\ flag[t] /\ front # NIL /\ cmd = NIL
      BY <1>5, <2>4, <2>5, Zenon
    <2>7. Chain(qnext', Queued') /\ ~failed'
      <3>1. failed' = failed
        BY <2>6, Zenon
      <3>2. ~failed /\ Chain(qnext, Queued)
        BY <2>1, Zenon DEF Core
      <3>3. ~failed'
        BY <3>1, <3>2, Zenon
      <3> QED BY <1>2, <1>4, <3>2, <3>3, Zenon
    <2>8. QueueInv'
      <3>1. ASSUME NEW u \in Thread PROVE u \in Queued' <=> pc'[u] \in {"lock", "sleep"}
        BY <1>2, <1>3, <1>4, <2>1, Zenon
      <3>2. Queued' \subseteq Thread
        BY Zenon DEF Queued
      <3> QED BY <3>1, <3>2, Zenon DEF QueueInv
    <2>9. WindowInv' /\ PushInv' /\ LockInv'
      BY <2>3, Zenon DEF WindowInv, InWindow, PushInv, LockInv
    <2>10. BusyInv'
      <3>1. SUFFICES ASSUME front # NIL PROVE cmd' # NIL
        BY <1>4, Zenon DEF BusyInv
      <3>2. CASE flag[t]
        BY <1>6, <2>6, <3>1, <3>2, Zenon
      <3>3. CASE ~flag[t]
        <4>1. \A u \in Thread : ~(pc[u] = "lock" /\ flag[u])
          BY <2>2, <3>3, Zenon
        <4> QED BY <1>6, <2>1, <3>1, <4>1, Zenon DEF Core, BusyInv
      <3> QED BY <3>2, <3>3, Zenon
    <2>11. CmdFor(front)' = CmdFor(front)
      BY <1>2, <1>4, Zenon DEF CmdFor
    <2>12. CmdInv'
      <3>1. cmd' # NIL => front # NIL /\ cmd' = CmdFor(front)
        BY <2>1, <2>6, Zenon DEF Core, CmdInv
      <3> QED BY <1>4, <2>11, <3>1, Zenon DEF CmdInv
    <2>13. WroteInv'
      BY <1>2, <1>4, <2>1, Zenon DEF WroteInv, Core
    <2>14. DoneInv'
      <3>1. ASSUME NEW u \in Thread, pc'[u] \in {"woken", "done"} PROVE pc[u] \in {"woken", "done"}
        BY <1>3, <3>1, Zenon
      <3> QED BY <1>2, <2>1, <3>1, Zenon DEF DoneInv, Core
    <2> QED BY <2>7, <2>8, <2>9, <2>10, <2>12, <2>13, <2>14, Zenon DEF Core
  <1> QED BY <1>7, <1>8, Zenon DEF SInv
\* A step outside of the queue: thread t goes from one of "woken" and "done" to
\* a place where it does not wait, and everything of other threads stays.
LEMMA OutsideStep ==
    ASSUME SInv, ~overlapped, NEW t \in Thread, pc[t] \in {"woken", "done"},
           pc'[t] \in {"idle", "done"}, \A u \in Thread : u # t => pc'[u] = pc[u],
           qnext' = qnext, disk' = disk, cmd' = cmd, irq' = irq, failed' = failed,
           \A u \in Thread : u # t => /\ blockno'[u] = blockno[u] /\ data'[u] = data[u]
                                      /\ flag'[u] = flag[u] /\ tmp'[u] = tmp[u]
                                      /\ u \in dirty' <=> u \in dirty
                                      /\ u \in valid' <=> u \in valid,
           dirty' \subseteq Thread,
           pc'[t] = "done" => t \in valid' /\ t \notin dirty' /\ data'[t] = disk[blockno'[t]]
    PROVE  Core'
  <1>1. /\ Core /\ \A u \in Thread : u \in Queued <=> pc[u] \in {"lock", "sleep"}
        /\ front # NIL => front \in Thread /\ front \in Queued
    BY CoreFacts, Zenon
  <1>2. Queued' = Queued /\ front' = front
    BY SameQueue, Zenon
  <1>3. t \notin Queued /\ front # t
    <2>1. pc[t] \notin {"lock", "sleep"}
      BY Zenon
    <2>2. t \notin Queued
      BY <1>1, <2>1, Zenon
    <2>3. t # NIL
      BY SdAssumption, Zenon
    <2>4. front # t
      BY ONLY <1>1, <2>2, <2>3, Zenon
    <2> QED BY <2>2, <2>4, Zenon
  <1>4. \A u \in Thread : pc'[u] \in {"push", "lock"} => u # t /\ pc[u] = pc'[u]
    BY Zenon
  <1>5. Chain(qnext', Queued') /\ ~failed'
    BY <1>1, <1>2, Zenon DEF Core
  <1>6. QueueInv'
    <2>1. ASSUME NEW u \in Thread PROVE u \in Queued' <=> pc'[u] \in {"lock", "sleep"}
      <3>1. CASE u = t
        <4>1. pc'[u] \notin {"lock", "sleep"}
          BY <3>1, Zenon
        <4> QED BY <1>2, <1>3, <3>1, <4>1, Zenon
      <3>2. CASE u # t
        <4>1. pc'[u] = pc[u]
          BY <3>2, Zenon
        <4> QED BY <1>1, <1>2, <4>1, Zenon
      <3> QED BY <3>1, <3>2, Zenon
    <2>2. Queued' \subseteq Thread
      BY Zenon DEF Queued
    <2> QED BY <2>1, <2>2, Zenon DEF QueueInv
  <1>7. WindowInv'
    <2>1. InWindow' \subseteq InWindow
      BY <1>4, Zenon DEF InWindow
    <2> QED BY <1>1, <2>1, Zenon DEF WindowInv, Core
  <1>8. PushInv'
    <2>1. ASSUME NEW u \in Thread, pc'[u] = "push"
          PROVE  tmp'[u] \in Queued' \union {HEAD} /\ qnext'[tmp'[u]] = NIL /\ (flag'[u] <=> front' = NIL)
      <3>1. u # t /\ pc[u] = "push"
        BY <1>4, <2>1, Zenon
      <3>2. tmp[u] \in Queued \union {HEAD} /\ qnext[tmp[u]] = NIL /\ (flag[u] <=> front = NIL)
        BY <1>1, <3>1, Zenon DEF Core, PushInv
      <3>3. tmp'[u] = tmp[u] /\ flag'[u] = flag[u]
        BY <3>1, Zenon
      <3> QED BY <1>2, <3>2, <3>3, Zenon
    <2> QED BY <2>1, Zenon DEF PushInv
  <1>9. \A u \in Thread : pc'[u] = "lock" /\ flag'[u] <=> pc[u] = "lock" /\ flag[u]
    <2>1. ASSUME NEW u \in Thread PROVE pc'[u] = "lock" /\ flag'[u] <=> pc[u] = "lock" /\ flag[u]
      <3>1. CASE u = t
        BY <3>1, Zenon
      <3>2. CASE u # t
        <4>1. pc'[u] = pc[u] /\ flag'[u] = flag[u]
          BY <3>2, Zenon
        <4> QED BY <4>1, Zenon
      <3> QED BY <3>1, <3>2, Zenon
    <2> QED BY <2>1, Zenon
  <1>10. LockInv'
    <2>1. LockInv
      BY <1>1, Zenon DEF Core
    <2> QED BY <1>2, <1>9, <2>1, Zenon DEF LockInv
  <1>11. BusyInv'
    <2>1. BusyInv
      BY <1>1, Zenon DEF Core
    <2> QED BY <1>2, <1>9, <2>1, Zenon DEF BusyInv
  <1>12. ASSUME front # NIL
         PROVE  /\ blockno'[front] = blockno[front] /\ data'[front] = data[front]
                /\ front \in dirty' <=> front \in dirty
    BY <1>1, <1>3, <1>12, Zenon
  <1>13. CmdInv'
    <2>1. SUFFICES ASSUME cmd # NIL PROVE front # NIL /\ cmd = CmdFor(front)'
      BY <1>2, Zenon DEF CmdInv
    <2>2. front # NIL /\ cmd = CmdFor(front)
      BY <1>1, <2>1, Zenon DEF Core, CmdInv
    <2>3. (front \in dirty') = (front \in dirty)
      BY ONLY <1>12, <2>2
    <2> QED BY <1>2, <1>12, <2>2, <2>3, Zenon DEF CmdFor
  <1>14. WroteInv'
    <2>1. SUFFICES ASSUME irq = "DATA_DONE", front \in dirty' PROVE disk[blockno'[front]] = data'[front]
      BY <1>2, Zenon DEF WroteInv
    <2>2. front # NIL
      BY <2>1, SdAssumption, Zenon
    <2> QED BY <1>1, <1>12, <2>1, <2>2, Zenon DEF Core, WroteInv
  <1>15. DoneInv'
    <2>1. ASSUME NEW u \in Thread, pc'[u] \in {"woken", "done"}
          PROVE  u \in valid' /\ u \notin dirty' /\ data'[u] = disk'[blockno'[u]]
      <3>1. CASE u = t
        BY <2>1, <3>1, Zenon
      <3>2. CASE u # t
        <4>1. u \in valid /\ u \notin dirty /\ data[u] = disk[blockno[u]]
          BY <1>1, <2>1, <3>2, Zenon DEF Core, DoneInv
        <4> QED BY <3>2, <4>1, Zenon
      <3> QED BY <3>1, <3>2, Zenon
    <2> QED BY <2>1, Zenon DEF DoneInv
  <1> QED BY <1>5, <1>6, <1>7, <1>8, <1>10, <1>11, <1>13, <1>14, <1>15, Zenon DEF Core

\* A woken thread looks at its flags.
LEMMA CheckStep ==
    ASSUME SInv, NEW t \in Thread, sdrw_check(t)
    PROVE  SInv'
  <1>1. TypeOK /\ Acyclic(qnext) /\ IrqInv /\ Apart
    BY Zenon DEF SInv, Base
  <1>2. /\ pc[t] = "woken" /\ Goto(t, IF t \in valid /\ t \notin dirty THEN "done" ELSE "sleep")
        /\ qnext' = qnext /\ dirty' = dirty /\ valid' = valid /\ blockno' = blockno /\ data' = data
        /\ flag' = flag /\ tmp' = tmp /\ ops' = ops
        /\ disk' = disk /\ cmd' = cmd /\ irq' = irq /\ glitches' = glitches
        /\ failed' = failed /\ overlapped' = overlapped
    BY Zenon DEF sdrw_check, callVars, emmcVars, bufVars
  <1>3. /\ pc' \in [Thread -> {"idle", "push", "lock", "sleep", "woken", "done"}]
        /\ (t \in valid /\ t \notin dirty => pc'[t] = "done") /\ \A u \in Thread : u # t => pc'[u] = pc[u]
    <2>1. CASE t \in valid /\ t \notin dirty
      <3>1. Goto(t, "done")
        BY <1>2, <2>1, Zenon
      <3> QED BY <1>1, <3>1, GotoFacts, Zenon
    <2>2. CASE ~(t \in valid /\ t \notin dirty)
      <3>1. Goto(t, "sleep")
        BY <1>2, <2>2, Zenon
      <3> QED BY <1>1, <2>2, <3>1, GotoFacts, Zenon
    <2> QED BY <2>1, <2>2, Zenon
  <1>4. Base'
    <2>1. TypeOK'
      BY <1>1, <1>2, <1>3, Zenon DEF TypeOK
    <2>2. Apart'
      <3>1. \A u \in Thread : pc'[u] # "idle" => pc[u] # "idle"
        BY <1>2, <1>3, Zenon
      <3> QED BY <1>1, <1>2, <3>1, Zenon DEF Apart
    <2>3. Acyclic(qnext') /\ IrqInv'
      BY <1>1, <1>2, Zenon DEF IrqInv
    <2> QED BY <2>1, <2>2, <2>3, Zenon DEF Base
  <1>5. ASSUME ~overlapped' PROVE Core'
    <2>1. ~overlapped /\ Core
      BY <1>2, <1>5, CoreFacts, Zenon
    <2>2. pc[t] \in {"woken", "done"}
      BY <1>2, Zenon
    <2>3. t \in valid /\ t \notin dirty /\ data[t] = disk[blockno[t]]
      BY <2>1, <2>2, Zenon DEF Core, DoneInv
    <2>4. pc'[t] \in {"idle", "done"} /\ dirty' \subseteq Thread
      BY <1>1, <1>2, <1>3, <2>3, Zenon DEF TypeOK
    <2>5. \A u \in Thread : u # t => /\ blockno'[u] = blockno[u] /\ data'[u] = data[u]
                                     /\ flag'[u] = flag[u] /\ tmp'[u] = tmp[u]
                                     /\ u \in dirty' <=> u \in dirty
                                     /\ u \in valid' <=> u \in valid
      BY <1>2, Zenon
    <2>6. t \in valid' /\ t \notin dirty' /\ data'[t] = disk[blockno'[t]]
      BY <1>2, <2>3, Zenon
    <2>7. qnext' = qnext /\ disk' = disk /\ cmd' = cmd /\ irq' = irq /\ failed' = failed
      BY <1>2, Zenon
    <2> QED BY <1>3, <2>1, <2>2, <2>4, <2>5, <2>6, <2>7, OutsideStep, Zenon
  <1> QED BY <1>4, <1>5, Zenon DEF SInv

\* sdrw returns.
LEMMA ReturnStep ==
    ASSUME SInv, NEW t \in Thread, sdrw_return(t)
    PROVE  SInv'
  <1>1. TypeOK /\ Acyclic(qnext) /\ IrqInv /\ Apart
    BY Zenon DEF SInv, Base
  <1>2. /\ pc[t] = "done" /\ Goto(t, "idle")
        /\ dirty' = dirty \ {t} /\ valid' = valid \ {t}
        /\ blockno' = [blockno EXCEPT ![t] = AnyBlock] /\ data' = [data EXCEPT ![t] = AnyData]
        /\ flag' = [flag EXCEPT ![t] = FALSE] /\ tmp' = [tmp EXCEPT ![t] = HEAD]
        /\ qnext' = qnext /\ ops' = ops
        /\ disk' = disk /\ cmd' = cmd /\ irq' = irq /\ glitches' = glitches
        /\ failed' = failed /\ overlapped' = overlapped
    BY Zenon DEF sdrw_return, emmcVars
  <1>3. /\ pc' \in [Thread -> {"idle", "push", "lock", "sleep", "woken", "done"}]
        /\ pc'[t] = "idle" /\ \A u \in Thread : u # t => pc'[u] = pc[u]
    BY <1>1, <1>2, GotoFacts, Zenon
  <1>4. blockno' \in [Thread -> BlockNo] /\ \A u \in Thread : u # t => blockno'[u] = blockno[u]
    BY <1>1, <1>2, AnyTyped, Zenon DEF TypeOK
  <1>5. data' \in [Thread -> Data] /\ \A u \in Thread : u # t => data'[u] = data[u]
    BY <1>1, <1>2, AnyTyped, Zenon DEF TypeOK
  <1>6. flag' \in [Thread -> BOOLEAN] /\ \A u \in Thread : u # t => flag'[u] = flag[u]
    BY <1>1, <1>2, Zenon DEF TypeOK
  <1>7. tmp' \in [Thread -> Thread \union {HEAD}] /\ \A u \in Thread : u # t => tmp'[u] = tmp[u]
    BY <1>1, <1>2, Zenon DEF TypeOK
  <1>8. /\ dirty' \subseteq Thread /\ valid' \subseteq Thread
        /\ \A u \in Thread : u # t => (u \in dirty' <=> u \in dirty) /\ (u \in valid' <=> u \in valid)
    BY <1>1, <1>2, Zenon DEF TypeOK
  <1>9. Base'
    <2>1. TypeOK'
      <3>1. /\ qnext' \in [Thread \union {HEAD} -> Thread \union {NIL}] /\ disk' \in [BlockNo -> Data]
            /\ cmd' \in Command \union {NIL} /\ irq' \in {"none", "READ_RDY", "DATA_DONE"}
            /\ glitches' \in 0 .. MaxGlitch /\ failed' \in BOOLEAN /\ overlapped' \in BOOLEAN
            /\ ops' \in [Thread -> 0 .. MaxOps]
        BY <1>1, <1>2, Zenon DEF TypeOK
      <3> QED BY <1>3, <1>4, <1>5, <1>6, <1>7, <1>8, <3>1, Zenon DEF TypeOK
    <2>2. Apart'
      <3>1. \A u \in Thread : pc'[u] # "idle" => pc[u] # "idle" /\ blockno'[u] = blockno[u]
        BY <1>3, <1>4, Zenon
      <3> QED BY <1>1, <3>1, Zenon DEF Apart
    <2>3. Acyclic(qnext') /\ IrqInv'
      BY <1>1, <1>2, Zenon DEF IrqInv
    <2> QED BY <2>1, <2>2, <2>3, Zenon DEF Base
  <1>10. ASSUME ~overlapped' PROVE Core'
    <2>1. ~overlapped /\ pc[t] \in {"woken", "done"} /\ pc'[t] \in {"idle", "done"} /\ pc'[t] # "done"
      BY <1>2, <1>3, <1>10, Zenon
    <2>2. \A u \in Thread : u # t => /\ blockno'[u] = blockno[u] /\ data'[u] = data[u]
                                     /\ flag'[u] = flag[u] /\ tmp'[u] = tmp[u]
                                     /\ u \in dirty' <=> u \in dirty
                                     /\ u \in valid' <=> u \in valid
      BY <1>4, <1>5, <1>6, <1>7, <1>8, Zenon
    <2>3. qnext' = qnext /\ disk' = disk /\ cmd' = cmd /\ irq' = irq /\ failed' = failed
      BY <1>2, Zenon
    <2> QED BY <1>3, <1>8, <2>1, <2>2, <2>3, OutsideStep, Zenon
  <1> QED BY <1>9, <1>10, Zenon DEF SInv

-----------------------------------------------------------------------------
(* The SD card: the controller and the interrupt handler *)

\* The kinds of interrupt.
LEMMA KindFacts ==
    ASSUME NEW wr \in BOOLEAN
    PROVE  /\ Kind(wr) \in {"none", "READ_RDY", "DATA_DONE"} /\ Kind(wr) # "none"
           /\ Kind(wr) = "DATA_DONE" <=> wr
  <1>1. CASE wr
    BY <1>1 DEF Kind
  <1>2. CASE ~wr
    BY <1>2 DEF Kind
  <1> QED BY <1>1, <1>2, Zenon

\* A step of the controller: it raises an interrupt, and may write the block of
\* the front, with the content of its buf.
LEMMA ControllerStep ==
    ASSUME SInv, cmd # NIL, UNCHANGED <<bufVars, pc, callVars, cmd, failed, overlapped>>,
           irq' \in {"none", "READ_RDY", "DATA_DONE"}, disk' \in [BlockNo -> Data], glitches' \in 0 .. MaxGlitch,
           \A b \in BlockNo : b # cmd.block => disk'[b] = disk[b],
           irq' = "DATA_DONE" => \/ ~cmd.write
                                 \/ disk'[cmd.block] = cmd.data
    PROVE  SInv'
  <1>1. TypeOK /\ Acyclic(qnext) /\ IrqInv /\ Apart
    BY Zenon DEF SInv, Base
  <1>2. /\ qnext' = qnext /\ dirty' = dirty /\ valid' = valid /\ blockno' = blockno /\ data' = data
        /\ pc' = pc /\ flag' = flag /\ tmp' = tmp /\ ops' = ops /\ cmd' = cmd
        /\ failed' = failed /\ overlapped' = overlapped
    BY Zenon DEF bufVars, callVars
  <1>3. failed' = failed /\ overlapped' = overlapped
    BY Zenon
  <1>4. Base'
    <2>1. TypeOK'
      BY <1>1, <1>2, Zenon DEF TypeOK
    <2>2. Acyclic(qnext') /\ IrqInv' /\ Apart'
      BY <1>1, <1>2, Zenon DEF IrqInv, Apart
    <2> QED BY <2>1, <2>2, Zenon DEF Base
  <1>5. ASSUME ~overlapped' PROVE Core'
    <2>0. ~overlapped
      BY ONLY <1>3, <1>5, Zenon
    <2>1. /\ Core
          /\ \A u \in Thread : u \in Queued <=> pc[u] \in {"lock", "sleep"}
          /\ front # NIL => front \in Thread /\ front \in Queued
      BY ONLY SInv, <2>0, CoreFacts, Zenon
    <2>2. Queued' = Queued /\ front' = front
      BY <1>2, SameQueue, Zenon
    <2>3. front \in Thread /\ front \in Queued /\ cmd = CmdFor(front)
      BY <2>1, Zenon DEF Core, CmdInv
    <2>4. cmd.block = blockno[front] /\ cmd.data = data[front] /\ (cmd.write <=> front \in dirty)
      BY <1>1, <2>3, CmdForFacts, Zenon
    <2>5. Chain(qnext', Queued') /\ QueueInv' /\ WindowInv' /\ PushInv' /\ LockInv' /\ BusyInv' /\ ~failed'
      <3>1. /\ Chain(qnext, Queued) /\ QueueInv /\ WindowInv /\ PushInv /\ LockInv /\ BusyInv /\ ~failed
        BY <2>1, Zenon DEF Core
      <3>2. Chain(qnext', Queued')
        BY <1>2, <2>2, <3>1, Zenon
      <3>3. ~failed'
        BY ONLY <1>3, <3>1, Zenon
      <3>4. QueueInv' /\ WindowInv'
        BY <1>2, <2>2, <3>1, Zenon DEF QueueInv, WindowInv, InWindow
      <3>5. PushInv'
        BY <1>2, <2>2, <3>1, Zenon DEF PushInv
      <3>6. LockInv' /\ BusyInv'
        BY <1>2, <2>2, <3>1, Zenon DEF LockInv, BusyInv
      <3> QED BY <3>2, <3>3, <3>4, <3>5, <3>6, Zenon
    <2>6. CmdInv'
      BY <1>2, <2>1, <2>2, Zenon DEF Core, CmdInv, CmdFor
    <2>7. WroteInv'
      BY <1>2, <2>2, <2>4, Zenon DEF WroteInv
    <2>8. DoneInv'
      <3>1. ASSUME NEW u \in Thread, pc[u] \in {"woken", "done"}
            PROVE  u \in valid /\ u \notin dirty /\ data[u] = disk'[blockno[u]]
        <4>1. u \in valid /\ u \notin dirty /\ data[u] = disk[blockno[u]]
          BY <2>1, <3>1, Zenon DEF Core, DoneInv
        <4>2. pc[front] \in {"lock", "sleep"}
          BY <2>1, <2>3, Zenon
        <4>3. u # front /\ pc[u] # "idle" /\ pc[front] # "idle"
          BY <3>1, <4>2, Zenon
        <4>4. blockno[u] # cmd.block
          BY <1>1, <2>3, <2>4, <4>3, Zenon DEF Apart
        <4>5. blockno[u] \in BlockNo
          BY <1>1, Zenon DEF TypeOK
        <4> QED BY <4>1, <4>4, <4>5, Zenon
      <3> QED BY <1>2, <3>1, Zenon DEF DoneInv
    <2> QED BY <2>5, <2>6, <2>7, <2>8, Zenon DEF Core
  <1> QED BY <1>4, <1>5, Zenon DEF SInv

\* The command ends.
LEMMA EmmcDoneStep ==
    ASSUME SInv, emmc_done
    PROVE  SInv'
  <1>1. TypeOK
    BY Zenon DEF SInv, Base
  <1>2. /\ cmd # NIL /\ irq' = Kind(cmd.write)
        /\ disk' = (IF cmd.write THEN [disk EXCEPT ![cmd.block] = cmd.data] ELSE disk)
        /\ glitches' = glitches /\ UNCHANGED <<bufVars, pc, callVars, cmd, failed, overlapped>>
    BY Zenon DEF emmc_done
  <1>3. cmd.block \in BlockNo /\ cmd.write \in BOOLEAN /\ cmd.data \in Data
    <2>1. cmd \in Command
      BY <1>1, <1>2, Zenon DEF TypeOK
    <2> QED BY <2>1, Zenon DEF Command
  <1>4. irq' \in {"none", "READ_RDY", "DATA_DONE"} /\ glitches' \in 0 .. MaxGlitch /\ disk \in [BlockNo -> Data]
    BY <1>1, <1>2, <1>3, KindFacts, Zenon DEF TypeOK
  <1>5. /\ disk' \in [BlockNo -> Data] /\ \A b \in BlockNo : b # cmd.block => disk'[b] = disk[b]
        /\ ~cmd.write \/ disk'[cmd.block] = cmd.data
    <2>1. CASE cmd.write
      <3>1. disk' = [disk EXCEPT ![cmd.block] = cmd.data]
        BY <1>2, <2>1, Zenon
      <3> QED BY <1>3, <1>4, <3>1, Zenon
    <2>2. CASE ~cmd.write
      <3>1. disk' = disk
        BY <1>2, <2>2, Zenon
      <3> QED BY <1>4, <2>2, <3>1, Zenon
    <2> QED BY <2>1, <2>2, Zenon
  <1> QED BY <1>2, <1>4, <1>5, ControllerStep, Zenon

\* The command ends with the wrong interrupt.
LEMMA EmmcGlitchStep ==
    ASSUME SInv, emmc_glitch
    PROVE  SInv'
  <1>1. TypeOK
    BY Zenon DEF SInv, Base
  <1>2. /\ cmd # NIL /\ irq' = Kind(~cmd.write) /\ disk' = disk
        /\ glitches < MaxGlitch /\ glitches' = glitches + 1
        /\ UNCHANGED <<bufVars, pc, callVars, cmd, failed, overlapped>>
    BY Zenon DEF emmc_glitch
  <1>3. (~cmd.write) \in BOOLEAN
    OBVIOUS
  <1>4. irq' \in {"none", "READ_RDY", "DATA_DONE"} /\ (irq' = "DATA_DONE" => ~cmd.write)
    BY <1>2, <1>3, KindFacts, Zenon
  <1>5. glitches' \in 0 .. MaxGlitch
    <2>1. glitches \in 0 .. MaxGlitch
      BY <1>1, Zenon DEF TypeOK
    <2> QED BY ONLY <1>2, <2>1, SdAssumption
  <1>6. disk' \in [BlockNo -> Data] /\ \A b \in BlockNo : b # cmd.block => disk'[b] = disk[b]
    BY <1>1, <1>2, Zenon DEF TypeOK
  <1> QED BY <1>2, <1>4, <1>5, <1>6, ControllerStep, Zenon

-----------------------------------------------------------------------------
(* The SD card: sd_intr *)

\* What both branches of the handler have in common.
LEMMA IntrFacts ==
    ASSUME SInv, sd_intr
    PROVE  /\ TypeOK /\ Acyclic(qnext) /\ Apart
           /\ irq' = "none" /\ blockno' = blockno /\ flag' = flag /\ tmp' = tmp /\ ops' = ops
           /\ disk' = disk /\ glitches' = glitches
           /\ front \in Thread /\ cmd \in Command /\ irq # "none"
           /\ overlapped' \in BOOLEAN
           /\ ~overlapped' => ~overlapped /\ \A u \in Thread : pc[u] # "push" /\ pc[u] # "lock"
  <1>1. TypeOK /\ Acyclic(qnext) /\ IrqInv /\ Apart
    BY Zenon DEF SInv, Base
  <1>2. /\ irq' = "none" /\ blockno' = blockno /\ flag' = flag /\ tmp' = tmp /\ ops' = ops
        /\ disk' = disk /\ glitches' = glitches /\ irq # "none" /\ front # NIL
    BY Zenon DEF sd_intr, callVars
  <1>3. front \in Thread
    <2>1. qnext[HEAD] \in Thread \union {NIL}
      BY <1>1, Zenon DEF TypeOK
    <2> QED BY <1>2, <2>1, Zenon DEF front
  <1>4. cmd \in Command
    BY <1>1, <1>2, Zenon DEF TypeOK, IrqInv
  <1>5. overlapped' = (overlapped \/ InWindow \ {} # {})
    BY Zenon DEF sd_intr, Touch
  <1>6. overlapped' \in BOOLEAN
    BY ONLY <1>5, Zenon
  <1>7. ASSUME ~overlapped' PROVE ~overlapped /\ \A u \in Thread : pc[u] # "push" /\ pc[u] # "lock"
    <2>1. ~overlapped /\ InWindow \ {} = {}
      BY ONLY <1>5, <1>7, Zenon
    <2>2. SUFFICES ASSUME NEW u \in Thread, pc[u] \in {"push", "lock"} PROVE FALSE
      BY <2>1, Zenon
    <2>3. u \in InWindow
      BY <2>2, Zenon DEF InWindow
    <2> QED BY ONLY <2>1, <2>3, Zenon
  <1> QED BY <1>1, <1>2, <1>3, <1>4, <1>6, <1>7, Zenon

\* The interrupt is not the one that the front waits for: the handler starts
\* the same transfer again.
LEMMA RestartStep ==
    ASSUME SInv, sd_intr, restart(front)
    PROVE  SInv'
  <1>1. /\ TypeOK /\ Acyclic(qnext) /\ Apart
        /\ irq' = "none" /\ blockno' = blockno /\ flag' = flag /\ tmp' = tmp /\ ops' = ops
        /\ disk' = disk /\ glitches' = glitches
        /\ front \in Thread /\ overlapped' \in BOOLEAN
        /\ ~overlapped' => ~overlapped /\ \A u \in Thread : pc[u] # "push" /\ pc[u] # "lock"
    BY IntrFacts, Zenon
  <1>2. /\ cmd' = CmdFor(front) /\ qnext' = qnext /\ dirty' = dirty /\ valid' = valid /\ data' = data
        /\ pc' = pc /\ failed' = failed
    BY Zenon DEF restart, CmdFor
  <1>3. failed' = failed
    BY <1>2, Zenon
  <1>4. CmdFor(front) \in Command /\ CmdFor(front) # NIL
    BY <1>1, CmdForFacts, Zenon
  <1>5. Base'
    <2>1. TypeOK'
      BY <1>1, <1>2, <1>4, Zenon DEF TypeOK
    <2>2. Acyclic(qnext') /\ IrqInv' /\ Apart'
      BY <1>1, <1>2, Zenon DEF IrqInv, Apart
    <2> QED BY <2>1, <2>2, Zenon DEF Base
  <1>6. ASSUME ~overlapped' PROVE Core'
    <2>1. ~overlapped /\ \A u \in Thread : pc[u] # "push" /\ pc[u] # "lock"
      BY <1>1, <1>6, Zenon
    <2>2. Core
      BY ONLY SInv, <2>1, CoreFacts, Zenon
    <2>3. Queued' = Queued /\ front' = front
      BY <1>2, SameQueue, Zenon
    <2>4. Chain(qnext', Queued') /\ QueueInv' /\ WindowInv' /\ PushInv' /\ LockInv'
      BY <1>2, <2>1, <2>2, <2>3, Zenon DEF Core, QueueInv, WindowInv, InWindow, PushInv, LockInv
    <2>5. ~failed'
      <3>1. ~failed
        BY <2>2, Zenon DEF Core
      <3> QED BY ONLY <1>3, <3>1, Zenon
    <2>6. CmdFor(front)' = CmdFor(front)
      BY <1>1, <1>2, <2>3, Zenon DEF CmdFor
    <2>7. BusyInv' /\ CmdInv'
      <3>1. front # NIL
        BY <1>1, SdAssumption, Zenon
      <3>2. CmdInv'
        BY <1>1, <1>2, <2>3, <2>6, <3>1, Zenon DEF CmdInv, CmdFor
      <3> QED BY <1>2, <1>4, <3>2, Zenon DEF BusyInv
    <2>8. WroteInv'
      BY <1>1, Zenon DEF WroteInv
    <2>9. DoneInv'
      BY <1>1, <1>2, <2>2, Zenon DEF Core, DoneInv
    <2> QED BY <2>4, <2>5, <2>7, <2>8, <2>9, Zenon DEF Core
  <1> QED BY <1>5, <1>6, Zenon DEF SInv
\* The effects of the handler on the bufs and the threads when the transfer of
\* f is done.
Completed(f) ==
    /\ valid' = valid \union {f} /\ dirty' = dirty \ {f}
    /\ f \in dirty => data'[f] = data[f]
    /\ f \notin dirty => data'[f] = disk[cmd.block]
    /\ pc[f] = "sleep" => pc'[f] = "woken"
    /\ pc[f] # "sleep" => pc'[f] = pc[f]
    /\ \A u \in Thread : u # f => pc'[u] = pc[u] /\ data'[u] = data[u]
    /\ Popped(qnext, f, qnext')
    /\ qnext[f] = NIL => cmd' = NIL
    /\ qnext[f] # NIL => cmd' = CmdFor(qnext[f])

LEMMA CompleteEffect ==
    ASSUME SInv, sd_intr, NEW f \in Thread, complete(f)
    PROVE  TypeOK' /\ Completed(f)
  <1>1. /\ TypeOK /\ irq' = "none" /\ blockno' = blockno /\ flag' = flag /\ tmp' = tmp /\ ops' = ops
        /\ disk' = disk /\ glitches' = glitches /\ cmd \in Command /\ overlapped' \in BOOLEAN
    BY IntrFacts, Zenon
  <1>2. /\ data' = (IF f \in dirty THEN data ELSE [data EXCEPT ![f] = disk[cmd.block]])
        /\ valid' = valid \union {f} /\ dirty' = dirty \ {f} /\ Wakeup(f)
        /\ qnext' = [qnext EXCEPT ![HEAD] = qnext[f]]
        /\ cmd' = IF qnext[f] = NIL THEN NIL ELSE CmdFor(qnext[f])
        /\ failed' = failed
    BY Zenon DEF complete, pop_and_start, CmdFor
  <1>3. Popped(qnext, f, qnext')
    <2>1. qnext \in [Node -> Thread \union {NIL}]
      BY <1>1, Zenon DEF TypeOK, Node
    <2> QED BY <1>2, <2>1, PopLinks, Zenon
  <1>4. /\ data' \in [Thread -> Data] /\ (f \in dirty => data'[f] = data[f])
        /\ (f \notin dirty => data'[f] = disk[cmd.block])
        /\ \A u \in Thread : u # f => data'[u] = data[u]
    <2>1. data \in [Thread -> Data] /\ disk[cmd.block] \in Data
      <3>1. cmd.block \in BlockNo
        BY <1>1, Zenon DEF Command
      <3> QED BY <1>1, <3>1, Zenon DEF TypeOK
    <2>2. CASE f \in dirty
      BY <1>2, <2>1, <2>2, Zenon
    <2>3. CASE f \notin dirty
      <3>1. data' = [data EXCEPT ![f] = disk[cmd.block]]
        BY <1>2, <2>3, Zenon
      <3> QED BY <2>1, <2>3, <3>1, Zenon
    <2> QED BY <2>2, <2>3, Zenon
  <1>5. /\ pc' \in [Thread -> {"idle", "push", "lock", "sleep", "woken", "done"}]
        /\ pc[f] = "sleep" => pc'[f] = "woken"
        /\ pc[f] # "sleep" => pc'[f] = pc[f]
        /\ \A u \in Thread : u # f => pc'[u] = pc[u]
    <2>1. CASE pc[f] = "sleep"
      <3>1. Goto(f, "woken")
        BY <1>2, <2>1, Zenon DEF Wakeup
      <3> QED BY <1>1, <2>1, <3>1, GotoFacts, Zenon
    <2>2. CASE pc[f] # "sleep"
      <3>1. pc' = pc
        BY <1>2, <2>2, Zenon DEF Wakeup
      <3> QED BY <1>1, <2>2, <3>1, Zenon DEF TypeOK
    <2> QED BY <2>1, <2>2, Zenon
  <1>6. qnext[f] \in Thread \union {NIL}
    BY <1>1, Zenon DEF TypeOK
  <1>7. /\ cmd' \in Command \union {NIL} /\ (qnext[f] = NIL => cmd' = NIL)
        /\ qnext[f] # NIL => cmd' = CmdFor(qnext[f])
    BY <1>1, <1>2, <1>6, CmdForFacts, Zenon
  <1>8. failed' \in BOOLEAN
    <2>1. failed \in BOOLEAN /\ failed' = failed
      BY <1>1, <1>2, Zenon DEF TypeOK
    <2> QED BY ONLY <2>1, Zenon
  <1>9. TypeOK'
    <2>1. qnext' \in [Thread \union {HEAD} -> Thread \union {NIL}]
      BY <1>3, Zenon DEF Popped, Node
    <2>2. dirty' \subseteq Thread /\ valid' \subseteq Thread
      BY <1>1, <1>2, Zenon DEF TypeOK
    <2>3. /\ blockno' \in [Thread -> BlockNo] /\ flag' \in [Thread -> BOOLEAN]
          /\ tmp' \in [Thread -> Thread \union {HEAD}] /\ ops' \in [Thread -> 0 .. MaxOps]
          /\ disk' \in [BlockNo -> Data] /\ glitches' \in 0 .. MaxGlitch
          /\ irq' \in {"none", "READ_RDY", "DATA_DONE"}
      BY <1>1, Zenon DEF TypeOK
    <2> QED BY <1>1, <1>4, <1>5, <1>7, <1>8, <2>1, <2>2, <2>3, Zenon DEF TypeOK
  <1> QED BY <1>2, <1>3, <1>4, <1>5, <1>7, <1>9, Zenon DEF Completed

\* The interrupt is the one that the front waits for: the transfer is over, and
\* the next request starts.
LEMMA CompleteStep ==
    ASSUME SInv, sd_intr, NEW f \in Thread, f = front, irq = Kind(f \in dirty), complete(f)
    PROVE  SInv'
  <1>1. /\ TypeOK /\ Acyclic(qnext) /\ Apart
        /\ irq' = "none" /\ blockno' = blockno /\ disk' = disk
        /\ ~overlapped' => ~overlapped /\ \A u \in Thread : pc[u] # "push" /\ pc[u] # "lock"
    BY IntrFacts, Zenon
  <1>2. TypeOK' /\ Completed(f)
    BY CompleteEffect, Zenon
  <1>3. Popped(qnext, f, qnext') /\ qnext \in [Node -> Thread \union {NIL}]
    BY <1>1, <1>2, Zenon DEF Completed, TypeOK, Node
  <1>4. \A u \in Thread : pc'[u] # "idle" => pc[u] # "idle"
    <2>1. SUFFICES ASSUME NEW u \in Thread, pc[u] = "idle" PROVE pc'[u] = "idle"
      BY Zenon
    <2>2. pc[u] # "sleep"
      BY <2>1, Zenon
    <2> QED BY <1>2, <2>1, <2>2, Zenon DEF Completed
  <1>5. Base'
    <2>1. Acyclic(qnext')
      BY <1>1, <1>3, PopAcyclic, Zenon
    <2>2. IrqInv' /\ Apart'
      BY <1>1, <1>4, Zenon DEF IrqInv, Apart
    <2> QED BY <1>2, <2>1, <2>2, Zenon DEF Base
  <1>6. ASSUME ~overlapped' PROVE Core'
    <2>1. ~overlapped /\ \A u \in Thread : pc[u] # "push" /\ pc[u] # "lock"
      BY <1>1, <1>6, Zenon
    <2>2. /\ Core /\ IsQueue(qnext, Queued)
          /\ \A u \in Thread : u \in Queued <=> pc[u] \in {"lock", "sleep"}
          /\ front # NIL => front \in Queued
      BY ONLY SInv, <2>1, CoreFacts, Zenon
    <2>3. f # NIL /\ f \in Queued /\ pc[f] = "sleep"
      <3>1. f # NIL /\ f \in Queued
        BY <2>2, SdAssumption, Zenon
      <3> QED BY <2>1, <2>2, <3>1, Zenon
    <2>4. IsQueue(qnext', Queued \ {f}) /\ Chain(qnext', Queued \ {f}) /\ qnext[f] # f
      BY <1>3, <2>2, PopQueue, Zenon DEF Core, front
    <2>5. Queued' = Queued \ {f}
      BY <2>4, QueueIs, Zenon
    <2>6. /\ pc'[f] = "woken" /\ \A u \in Thread : u # f => pc'[u] = pc[u] /\ data'[u] = data[u]
          /\ valid' = valid \union {f} /\ dirty' = dirty \ {f} /\ front' = qnext[f]
      BY <1>2, <1>3, <2>3, Zenon DEF Completed, Popped, front
    <2>7. \A u \in Thread : pc'[u] # "push" /\ pc'[u] # "lock"
      BY <2>1, <2>6, Zenon
    <2>8. QueueInv'
      <3>1. ASSUME NEW u \in Thread PROVE u \in Queued' <=> pc'[u] \in {"lock", "sleep"}
        <4>1. CASE u = f
          BY <2>5, <2>6, <4>1, Zenon
        <4>2. CASE u # f
          BY <2>2, <2>5, <2>6, <4>2, Zenon
        <4> QED BY <4>1, <4>2, Zenon
      <3>2. Queued' \subseteq Thread
        BY Zenon DEF Queued
      <3> QED BY <3>1, <3>2, Zenon DEF QueueInv
    <2>9. WindowInv' /\ PushInv' /\ LockInv'
      BY <2>7, Zenon DEF WindowInv, InWindow, PushInv, LockInv
    <2>10. ~failed'
      <3>1. ~failed /\ failed' = failed
        BY <2>2, Zenon DEF Core, complete
      <3> QED BY ONLY <3>1, Zenon
    <2>11. qnext[f] \in Thread \union {NIL}
      BY <1>1, Zenon DEF TypeOK
    <2>12. BusyInv' /\ CmdInv'
      <3>1. CASE qnext[f] = NIL
        BY <1>2, <2>6, <3>1, Zenon DEF Completed, BusyInv, CmdInv
      <3>2. CASE qnext[f] # NIL
        <4> DEFINE g == qnext[f]
        <4>1. g \in Thread /\ g # f /\ front' = g /\ cmd' = CmdFor(g) /\ CmdFor(g) # NIL
          BY <1>1, <1>2, <2>4, <2>6, <2>11, <3>2, CmdForFacts, Zenon DEF Completed
        <4> HIDE DEF g
        <4>2. blockno'[g] = blockno[g] /\ data'[g] = data[g] /\ (g \in dirty' <=> g \in dirty)
          BY <1>1, <2>6, <4>1, Zenon
        <4>3. (g \in dirty') = (g \in dirty)
          BY ONLY <4>2
        <4>4. CmdFor(front)' = CmdFor(g)
          BY <4>1, <4>2, <4>3, Zenon DEF CmdFor
        <4>5. BusyInv'
          BY <4>1, Zenon DEF BusyInv
        <4> QED BY <3>2, <4>1, <4>4, <4>5, Zenon DEF CmdInv, CmdFor, g
      <3> QED BY <3>1, <3>2, Zenon
    <2>13. WroteInv'
      BY <1>1, Zenon DEF WroteInv
    <2>14. data'[f] = disk[blockno[f]]
      <3>1. CASE f \in dirty
        <4>1. irq = "DATA_DONE"
          BY <3>1 DEF Kind
        <4> QED BY <1>2, <2>2, <3>1, <4>1, Zenon DEF Completed, Core, WroteInv
      <3>2. CASE f \notin dirty
        <4>1. cmd # NIL
          BY IntrFacts, SdAssumption, Zenon DEF Command
        <4>2. cmd.block = blockno[f]
          BY <1>1, <2>2, <4>1, CmdForFacts, Zenon DEF Core, CmdInv
        <4> QED BY <1>2, <3>2, <4>2, Zenon DEF Completed
      <3> QED BY <3>1, <3>2, Zenon
    <2>15. DoneInv'
      <3>1. ASSUME NEW u \in Thread, pc'[u] \in {"woken", "done"}
            PROVE  u \in valid' /\ u \notin dirty' /\ data'[u] = disk[blockno[u]]
        <4>1. CASE u = f
          BY <2>6, <2>14, <4>1, Zenon
        <4>2. CASE u # f
          BY <2>2, <2>6, <3>1, <4>2, Zenon DEF Core, DoneInv
        <4> QED BY <4>1, <4>2, Zenon
      <3> QED BY <1>1, <3>1, Zenon DEF DoneInv
    <2> QED BY <2>4, <2>5, <2>8, <2>9, <2>10, <2>12, <2>13, <2>15, Zenon DEF Core
  <1> QED BY <1>5, <1>6, Zenon DEF SInv

\* The handler.
LEMMA IntrStep ==
    ASSUME SInv, sd_intr
    PROVE  SInv'
  <1>1. front \in Thread
    BY IntrFacts, Zenon
  <1>2. restart(front) \/ (irq = Kind(front \in dirty) /\ complete(front))
    BY ONLY sd_intr DEF sd_intr
  <1>3. CASE restart(front)
    BY <1>3, RestartStep, Zenon
  <1>4. CASE irq = Kind(front \in dirty) /\ complete(front)
    BY <1>1, <1>4, CompleteStep, Zenon
  <1> QED BY <1>2, <1>3, <1>4, Zenon

-----------------------------------------------------------------------------
(* The SD card: the theorems *)

\* Nothing is queued at boot.
LEMMA InitInv == Init => SInv
  <1> SUFFICES ASSUME Init PROVE SInv
    OBVIOUS
  <1>1. /\ qnext = [n \in Thread \union {HEAD} |-> NIL] /\ dirty = {} /\ valid = {}
        /\ blockno = [t \in Thread |-> AnyBlock] /\ data = [t \in Thread |-> AnyData]
        /\ pc = [t \in Thread |-> "idle"] /\ flag = [t \in Thread |-> FALSE]
        /\ tmp = [t \in Thread |-> HEAD] /\ ops = [t \in Thread |-> 0]
        /\ disk = [b \in BlockNo |-> AnyData] /\ cmd = NIL /\ irq = "none" /\ glitches = 0
    BY Zenon DEF Init
  <1>2. failed = FALSE /\ overlapped = FALSE
    BY Zenon DEF Init
  <1>3. \A n \in Node : qnext[n] = NIL
    BY <1>1, Zenon DEF Node
  <1>4. front = NIL /\ \A t \in Thread : pc[t] = "idle"
    BY <1>1, <1>3, Zenon DEF front, Node
  <1>5. TypeOK
    <2>1. qnext \in [Thread \union {HEAD} -> Thread \union {NIL}]
      BY <1>1, Zenon
    <2>2. /\ blockno \in [Thread -> BlockNo] /\ data \in [Thread -> Data] /\ disk \in [BlockNo -> Data]
          /\ pc \in [Thread -> {"idle", "push", "lock", "sleep", "woken", "done"}]
          /\ flag \in [Thread -> BOOLEAN] /\ tmp \in [Thread -> Thread \union {HEAD}]
      BY <1>1, AnyTyped, Zenon
    <2>3. ops \in [Thread -> 0 .. MaxOps] /\ glitches \in 0 .. MaxGlitch
      <3>1. 0 \in 0 .. MaxOps /\ 0 \in 0 .. MaxGlitch
        BY SdAssumption
      <3> QED BY <1>1, <3>1, Zenon
    <2>4. failed \in BOOLEAN /\ overlapped \in BOOLEAN
      BY ONLY <1>2, Zenon
    <2> QED BY <1>1, <2>1, <2>2, <2>3, <2>4, Zenon DEF TypeOK
  <1>6. Acyclic(qnext)
    <2>1. SUFFICES ASSUME NEW S \in SUBSET Node, S # {} PROVE \E n \in S : qnext[n] \notin S
      BY Zenon DEF Acyclic
    <2>2. PICK n \in S : TRUE
      BY <2>1, Zenon
    <2>3. n \in Node /\ NIL \notin S
      BY <2>2, SdAssumption, Zenon DEF Node
    <2> QED BY <1>3, <2>2, <2>3, Zenon
  <1>7. IrqInv /\ Apart
    BY <1>1, <1>4, Zenon DEF IrqInv, Apart
  <1>8. Queued = {}
    <2>1. SUFFICES ASSUME NEW t \in Queued PROVE FALSE
      BY Zenon
    <2>2. \A n \in {HEAD} : qnext[n] # NIL => qnext[n] \in {HEAD}
      BY <1>3, Zenon DEF Node
    <2>3. t \in Thread /\ t \in {HEAD}
      BY <2>1, <2>2, Zenon DEF Queued
    <2> QED BY <2>3, SdAssumption, Zenon
  <1>9. Core
    <2>1. Chain(qnext, Queued) /\ QueueInv /\ WindowInv
      BY <1>3, <1>4, <1>8, Zenon DEF Chain, QueueInv, WindowInv, InWindow, Node
    <2>2. PushInv /\ LockInv /\ DoneInv
      BY <1>4, Zenon DEF PushInv, LockInv, DoneInv
    <2>3. BusyInv /\ CmdInv /\ WroteInv
      BY <1>1, <1>4, Zenon DEF BusyInv, CmdInv, WroteInv
    <2> QED BY <1>2, <2>1, <2>2, <2>3, Zenon DEF Core
  <1> QED BY <1>5, <1>6, <1>7, <1>9, Zenon DEF SInv, Base

\* Every step of a thread, the controller or the handler keeps the invariant.
LEMMA NextInv == SInv /\ [Next]_vars => SInv'
  <1> SUFFICES ASSUME SInv, [Next]_vars PROVE SInv'
    OBVIOUS
  <1>1. ASSUME NEW t \in Thread, NEW b \in BlockNo, NEW d \in Written, sdrw(t, b, TRUE, d) PROVE SInv'
    <2>1. d \in Data /\ TRUE \in BOOLEAN
      BY SdAssumption, Zenon
    <2> QED BY <1>1, <2>1, SdrwStep, Zenon
  <1>2. ASSUME NEW t \in Thread, NEW b \in BlockNo, sdrw(t, b, FALSE, AnyData) PROVE SInv'
    <2>1. AnyData \in Data /\ FALSE \in BOOLEAN
      BY AnyTyped, Zenon
    <2> QED BY <1>2, <2>1, SdrwStep, Zenon
  <1>3. ASSUME NEW t \in Thread, buflist_push(t) \/ sdrw_start(t) \/ sdrw_check(t) \/ sdrw_return(t)
        PROVE  SInv'
    BY <1>3, PushStep, StartStep, CheckStep, ReturnStep, Zenon
  <1>4. CASE emmc_done \/ emmc_glitch \/ sd_intr
    BY <1>4, EmmcDoneStep, EmmcGlitchStep, IntrStep, Zenon
  <1>5. CASE UNCHANGED vars
    <2>1. /\ qnext' = qnext /\ dirty' = dirty /\ valid' = valid /\ blockno' = blockno /\ data' = data
          /\ pc' = pc /\ flag' = flag /\ tmp' = tmp /\ ops' = ops
          /\ disk' = disk /\ cmd' = cmd /\ irq' = irq /\ glitches' = glitches
          /\ failed' = failed /\ overlapped' = overlapped
      BY <1>5, Zenon DEF vars, bufVars, callVars, emmcVars
    <2>2. Base'
      <3>1. TypeOK'
        BY <2>1, Zenon DEF SInv, Base, TypeOK
      <3>2. Acyclic(qnext)' /\ IrqInv' /\ Apart'
        BY <2>1, Zenon DEF SInv, Base, Acyclic, IrqInv, Apart
      <3> QED BY <3>1, <3>2, Zenon DEF Base
    <2>3. front' = front /\ Queued' = Queued /\ InWindow' = InWindow
      BY <2>1, Zenon DEF front, Queued, InWindow
    <2>4. ASSUME Core PROVE Core'
      <3>1. Chain(qnext, Queued)' /\ QueueInv' /\ WindowInv'
        BY <2>1, <2>3, <2>4, Zenon DEF Core, Chain, QueueInv, WindowInv
      <3>2. PushInv' /\ LockInv'
        BY <2>1, <2>3, <2>4, Zenon DEF Core, PushInv, LockInv
      <3>3. BusyInv' /\ CmdInv' /\ WroteInv' /\ DoneInv'
        BY <2>1, <2>3, <2>4, Zenon DEF Core, BusyInv, CmdInv, CmdFor, WroteInv, DoneInv
      <3>4. ~failed'
        BY <2>1, <2>4, Zenon DEF Core
      <3> QED BY <3>1, <3>2, <3>3, <3>4, Zenon DEF Core
    <2>5. overlapped' <=> overlapped
      BY <2>1, Zenon
    <2> QED BY <2>2, <2>4, <2>5, Zenon DEF SInv
  <1> QED BY <1>1, <1>2, <1>3, <1>4, <1>5, Zenon DEF Next

\* The invariant of the driver.
THEOREM SdInvariant == Spec => []SInv
  BY InitInv, NextInv, PTL DEF Spec

\* sd_start is called only when the controller is at rest and there is a
\* request (sd.c:575), for any number of threads and of wrong interrupts.
THEOREM StartsAtRestHolds == Spec => []StartsAtRest
  <1>1. SInv => StartsAtRest
    BY Zenon DEF SInv, Base, Core, StartsAtRest
  <1> QED BY <1>1, SdInvariant, PTL

\* Who sleeps in sdrw is in the queue, a queue with requests keeps the
\* controller busy, and no interrupt finds the queue empty.
THEOREM NobodyForgottenHolds == Spec => []NobodyForgotten
  <1>1. SInv => NobodyForgotten
    <2>1. SUFFICES ASSUME SInv, ~overlapped
                   PROVE  /\ \A t \in Thread : pc[t] = "sleep" => t \in Queued
                          /\ front # NIL => cmd # NIL \/ \E t \in Thread : pc[t] = "lock" /\ flag[t]
                          /\ irq # "none" => front # NIL
      BY Zenon DEF NobodyForgotten
    <2>2. /\ Base /\ Core /\ \A t \in Thread : t \in Queued <=> pc[t] \in {"lock", "sleep"}
      BY <2>1, CoreFacts, Zenon
    <2>3. \A t \in Thread : pc[t] = "sleep" => t \in Queued
      BY <2>2, Zenon
    <2> QED BY <2>2, <2>3, Zenon DEF Base, Core, IrqInv, CmdInv, BusyInv
  <1> QED BY <1>1, SdInvariant, PTL

\* When sdrw returns, the buffer and the card agree.
THEOREM TransferDoneHolds == Spec => []TransferDone
  <1>1. SInv => TransferDone
    BY Zenon DEF SInv, Core, DoneInv, TransferDone
  <1> QED BY <1>1, SdInvariant, PTL
=============================================================================
