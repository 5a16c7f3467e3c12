------------------------------ MODULE MCLayout ------------------------------
(* A small device: bytes of two bits, blocks of two bytes, an inode map of *)
(* one block, one block of two inodes, a zone map of two blocks, and three *)
(* zones.                                                                  *)
EXTENDS Layout

ones == [b \in Index |-> 0 .. BITS - 1]
SuperBytes == [b \in Index |-> {0}]
File == [b \in 0 .. I_NODE_BYTES - 1 |-> {}]
Dir == [b \in 0 .. I_NODE_BYTES - 1 |-> {1}]

MCInodes == {File, Dir}
MCContents == {ones}
Dirty == [b \in Stored |->
            IF b \in imap.first_block .. imap.final_block \cup {zmap.final_block}
            THEN {zeros, ones} ELSE {ones}]

AllHabits == {"inside"}
NoHabits == {}
=============================================================================
