----------------------------- MODULE BlockStore -----------------------------
(***************************************************************************)
(* What the bitmap, inode and zone layers expect from the two functions of *)
(* src/src/cache.h: an array of blocks in which a read returns the last    *)
(* block written.  A request for a block that cannot be stored may return  *)
(* anything, and disturbs nothing.                                         *)
(***************************************************************************)
EXTENDS Integers

CONSTANTS Requests, \* the block numbers a caller may pass
          Blocks,   \* those of them that can be stored
          Data      \* the contents a block can have

VARIABLES mem,      \* contents of each block
          out       \* what the last call gave back to its caller

vars == <<mem, out>>

Answer(block, data, ret) == [block |-> block, data |-> data, ret |-> ret]

Init == /\ mem \in [Blocks -> Data]
        /\ \E d \in Data : out = Answer(0, d, 0)

Read(b) == /\ b \in Blocks
           /\ out' = Answer(b, mem[b], 0)
           /\ UNCHANGED mem

Write(b, d) == /\ b \in Blocks
               /\ mem' = [mem EXCEPT ![b] = d]
               /\ out' = Answer(b, d, 0)

Lost(b, d, r) == /\ b \notin Blocks
                 /\ out' = Answer(b, d, r)
                 /\ UNCHANGED mem

Next == \E b \in Requests, d \in Data :
           \/ Read(b)
           \/ Write(b, d)
           \/ \E r \in {0, -1} : Lost(b, d, r)

Spec == Init /\ [][Next]_vars
=============================================================================
