------------------------------- MODULE Bitmap -------------------------------
(***************************************************************************)
(* The bitmaps of src/src/bitmap.c, each as the set of its indices whose   *)
(* bit is 1.                                                               *)
(***************************************************************************)
EXTENDS Naturals

Bits(bit_count) == 0 .. bit_count - 1

\* The first index whose bit is 0, or bit_count if there is none.
find_first_zero(ones, bit_count) ==
  LET zs == Bits(bit_count) \ ones
  IN  IF zs = {} THEN bit_count ELSE CHOOSE i \in zs : \A j \in zs : i <= j
=============================================================================
