------------------------------ MODULE InodeMap ------------------------------
(***************************************************************************)
(* Inode numbers: the allocator half of src/src/inode.c over the inode     *)
(* bitmap.  Number n has bit n-1.  A hint, first_zero_index, spares the    *)
(* scan of the bitmap; bit_count in it means "no hint".                    *)
(*                                                                         *)
(* The bitmap has more bits than the inode table has entries (8192 against *)
(* 5008), and the allocator looks at the bitmap alone.                     *)
(***************************************************************************)
EXTENDS Naturals, Bitmap

CONSTANTS bit_count,   \* bits of the inode bitmap
          ninodes      \* entries of the inode table

ASSUME InodeMapAssumption ==
  /\ bit_count \in Nat \ {0}
  /\ ninodes \in 1 .. bit_count

VARIABLES imap,              \* indices whose bit is 1
          first_zero_index,  \* the hint
          num                \* what the last alloc_inode answered

vars == <<imap, first_zero_index, num>>

Bit == Bits(bit_count)
Number == 1 .. bit_count

\* The maps as my_mkfs leaves them after clear_inodes.
Init == imap = {} /\ first_zero_index = 0 /\ num = 0

-----------------------------------------------------------------------------

ScanKeepsNothing(n) ==
  /\ first_zero_index = bit_count
  /\ LET index == find_first_zero(imap, bit_count)
     IN  /\ index # bit_count
         /\ n = index + 1
  /\ UNCHANGED <<imap, first_zero_index>>

\* No hint: the first zero bit of the whole map is taken ...
AllocByScan(n) ==
  /\ first_zero_index = bit_count
  /\ LET index == find_first_zero(imap, bit_count)
     IN  /\ index # bit_count
         /\ n = index + 1
         /\ imap' = imap \cup {index}
  /\ UNCHANGED first_zero_index

\* ... and 0 is answered if every bit is set.
AllocFails(n) ==
  /\ first_zero_index = bit_count
  /\ find_first_zero(imap, bit_count) = bit_count
  /\ n = 0
  /\ UNCHANGED <<imap, first_zero_index>>

HintKept(n) ==
  /\ first_zero_index # bit_count
  /\ n = first_zero_index + 1
  /\ imap' = imap \cup {first_zero_index}
  /\ UNCHANGED first_zero_index

SetsNextBit(n) ==
  /\ first_zero_index # bit_count
  /\ n = first_zero_index + 1
  /\ imap' = imap \cup {n}
  /\ first_zero_index' = bit_count

\* A hint is used once.
AllocByHint(n) ==
  /\ first_zero_index # bit_count
  /\ n = first_zero_index + 1
  /\ imap' = imap \cup {first_zero_index}
  /\ first_zero_index' = bit_count

\* alloc_inode with answer n.
alloc_inode(n) == AllocByScan(n) \/ AllocFails(n) \/ AllocByHint(n)

\* A lower freed index becomes the hint.  The bit need not have been set:
\* the assertion of line 78 is compiled out.
free_inode(n) ==
  /\ imap' = imap \ {n - 1}
  /\ first_zero_index' = IF n - 1 < first_zero_index THEN n - 1
                         ELSE first_zero_index

clear_inodes == imap' = {} /\ first_zero_index' = 0

Next ==
  \/ \E n \in Number \cup {0} : alloc_inode(n) /\ num' = n
  \/ \E n \in Number : free_inode(n) /\ UNCHANGED num
  \/ clear_inodes /\ UNCHANGED num

Spec == Init /\ [][Next]_vars

-----------------------------------------------------------------------------
(* Properties *)

\* The map holds indices of the bitmap, the hint an index or bit_count.
TypeOK ==
  /\ imap \subseteq Bit
  /\ first_zero_index \in Bit \cup {bit_count}
  /\ num \in Number \cup {0}

\* A hint names a clear bit, whatever was allocated and freed since it was
\* recorded: alloc_inode sets the bit without looking at it.
HintFree == first_zero_index \notin imap

IInv == TypeOK /\ HintFree

Pool == INSTANCE ResourcePool
          WITH Numbers <- Number, used <- {n \in Number : n - 1 \in imap}

\* With its hint the allocator still is a pool: no number in use is handed
\* out a second time, and 0 is answered only when every bit is set.
ImplementsPool == Pool!Spec

\* Expected by the assertion of inode.c:107, which alloc_inode runs into with
\* its own write_inode call: a number handed out is an entry of the table.
InsideTable == num <= ninodes

\* "Remember the first free inode index in imap" (inode.c:11): a hint is
\* the first zero of the map.
HintIsFirst ==
  first_zero_index # bit_count
    => first_zero_index = find_first_zero(imap, bit_count)
=============================================================================
