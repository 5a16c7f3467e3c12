---------------------------- MODULE ResourcePool ----------------------------
(***************************************************************************)
(* What the callers of alloc_inode/free_inode and alloc_zone/free_zone     *)
(* expect: a pool of numbers.  An allocation hands out a number that is    *)
(* not in use, and it answers 0 only when every number is in use.          *)
(***************************************************************************)
EXTENDS Naturals

CONSTANT Numbers   \* the numbers of the pool; 0 is not one of them

VARIABLES used,    \* the numbers handed out and not given back
          num      \* what the last allocation answered

vars == <<used, num>>

Init == used = {} /\ num = 0

Alloc(n) == /\ n \in Numbers \ used
            /\ used' = used \cup {n}
            /\ num' = n

Exhausted == /\ used = Numbers
             /\ num' = 0
             /\ UNCHANGED used

Release(n) == used' = used \ {n} /\ UNCHANGED num

Reset == used' = {} /\ UNCHANGED num

Next == \/ \E n \in Numbers : Alloc(n) \/ Release(n)
        \/ Exhausted
        \/ Reset

Spec == Init /\ [][Next]_vars
=============================================================================
