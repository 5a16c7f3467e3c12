------------------------------ MODULE MCCache -------------------------------
(***************************************************************************)
(* The cache with two slots over a device of five blocks.  Blocks 1 and 3  *)
(* share slot 1 with block 5, which lies beyond the device; block 2 shares *)
(* slot 0 with block 4, whose I/O fails, with block 6 beyond the device,   *)
(* and with the super block's number 0.                                    *)
(***************************************************************************)
EXTENDS Cache

CONSTANTS zeros, bytes   \* two contents of a block

MCData == {zeros, bytes}
=============================================================================
