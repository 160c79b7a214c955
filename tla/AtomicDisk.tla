----------------------------- MODULE AtomicDisk -----------------------------
(***************************************************************************)
(* What the block cache and its log promise to the file system (the API    *)
(* comments of src/FTOS-FFS/src/fs/cache.h): atomic operations.            *)
(*                                                                         *)
(* `mem' is the content every thread sees through the cache, `stable' the  *)
(* content that a power failure leaves after recovery.  Operations open,   *)
(* write blocks of mem, and close.  The whole of mem becomes stable in one *)
(* step, only at a moment when no operation is half done, and an operation *)
(* returns only after such a step.                                         *)
(***************************************************************************)
CONSTANTS Proc,     \* threads that run atomic operations
          Block,    \* disk blocks outside the log
          Value     \* contents of a block

VARIABLES mem,      \* content seen through the cache
          stable,   \* content that survives a power failure
          phase     \* "idle", "open" (between begin_op and end_op), "closing"
                    \* (inside end_op, not persistent), "durable"

vars == <<mem, stable, phase>>

Init == /\ stable \in [Block -> Value]
        /\ mem = stable
        /\ phase = [p \in Proc |-> "idle"]

Begin(p) == /\ phase[p] = "idle"
            /\ phase' = [phase EXCEPT ![p] = "open"]
            /\ UNCHANGED <<mem, stable>>

Write(p, b, v) == /\ phase[p] = "open"
                  /\ mem' = [mem EXCEPT ![b] = v]
                  /\ UNCHANGED <<stable, phase>>

End(p) == /\ phase[p] = "open"
          /\ phase' = [phase EXCEPT ![p] = "closing"]
          /\ UNCHANGED <<mem, stable>>

Persist == /\ \A p \in Proc : phase[p] # "open"
           /\ stable' = mem
           /\ phase' = [p \in Proc |-> IF phase[p] = "closing" THEN "durable"
                                       ELSE phase[p]]
           /\ UNCHANGED mem

Return(p) == /\ phase[p] = "durable"
             /\ phase' = [phase EXCEPT ![p] = "idle"]
             /\ UNCHANGED <<mem, stable>>

Crash == /\ mem' = stable
         /\ phase' = [p \in Proc |-> "idle"]
         /\ UNCHANGED stable

Next == \/ \E p \in Proc : Begin(p) \/ End(p) \/ Return(p)
        \/ \E p \in Proc, b \in Block, v \in Value : Write(p, b, v)
        \/ Persist
        \/ Crash

Spec == Init /\ [][Next]_vars
=============================================================================
