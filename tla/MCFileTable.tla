---------------------------- MODULE MCFileTable ----------------------------
(* Instances of FileTable for TLC.                                         *)
EXTENDS FileTable

CONSTANTS p1, p2, i1, i2

TwoProcs == {p1, p2}
Inodes == {i1, i2}
RootOnly == {i1}
ReadRootWriteFile == {<<i1, "r">>, <<i2, "rw">>}
=============================================================================
