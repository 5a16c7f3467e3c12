------------------------------ MODULE ZoneMap -------------------------------
(***************************************************************************)
(* Zones: src/src/zone.c over the zone bitmap.  Number n has bit n-1 and   *)
(* lives in block firstdatazone + n - 1.  The most recently freed number   *)
(* is remembered and handed out first; 0 means "none".                     *)
(*                                                                         *)
(* The bitmap has more bits (253952) than the device has zones (249654),   *)
(* and the allocator looks at the bitmap alone.  What is written to a zone *)
(* beyond the device is lost in the block layer, whose result is ignored.  *)
(***************************************************************************)
EXTENDS Naturals, Bitmap

CONSTANTS bit_count,     \* bits of the zone bitmap
          DeviceZones,   \* zones the device really has
          Content,       \* what a zone can hold
          zeros          \* the all-zero content

ASSUME ZoneMapAssumption ==
  /\ bit_count \in Nat \ {0}
  /\ DeviceZones \in 1 .. bit_count
  /\ zeros \in Content

VARIABLES zmap,                \* indices whose bit is 1
          last_free_zone_num,  \* the number freed last, or 0
          zones,               \* contents of the zones of the device
          num                  \* what the last alloc_zone answered

vars == <<zmap, last_free_zone_num, zones, num>>

Bit == Bits(bit_count)
Number == 1 .. bit_count
Stored == 1 .. DeviceZones

\* After the first my_mkfs: no bit set, and whatever the device held.
Init ==
  /\ zmap = {}
  /\ last_free_zone_num = 0
  /\ zones \in [Stored -> Content]
  /\ num = 0

-----------------------------------------------------------------------------

\* The zones after content c is written to zone n.
Written(n, c) == IF n \in Stored THEN [zones EXCEPT ![n] = c] ELSE zones

TakeUnclean(n) ==
  /\ zmap' = zmap \cup {n - 1}
  /\ UNCHANGED zones

TakeSetsNextBit(n) ==
  /\ zmap' = zmap \cup {n}
  /\ zones' = Written(n, zeros)

\* Both ways of choosing a number end in set_bit and a zeroing write_zone.
Take(n) ==
  /\ zmap' = zmap \cup {n - 1}
  /\ zones' = Written(n, zeros)

AllocByScan(n) ==
  /\ last_free_zone_num = 0
  /\ LET index == find_first_zero(zmap, bit_count)
     IN  /\ index # bit_count
         /\ n = index + 1
  /\ Take(n)
  /\ UNCHANGED last_free_zone_num

AllocFails(n) ==
  /\ last_free_zone_num = 0
  /\ find_first_zero(zmap, bit_count) = bit_count
  /\ n = 0
  /\ UNCHANGED <<zmap, last_free_zone_num, zones>>

HintUsedTwice(n) ==
  /\ last_free_zone_num # 0
  /\ n = last_free_zone_num
  /\ Take(n)
  /\ UNCHANGED last_free_zone_num

AllocByHint(n) ==
  /\ last_free_zone_num # 0
  /\ n = last_free_zone_num
  /\ Take(n)
  /\ last_free_zone_num' = 0

\* alloc_zone with answer n.
alloc_zone(n) == AllocByScan(n) \/ AllocFails(n) \/ AllocByHint(n)

FreeKeepsBit(n) ==
  /\ last_free_zone_num' = n
  /\ UNCHANGED <<zmap, zones>>

free_zone(n) ==
  /\ zmap' = zmap \ {n - 1}
  /\ last_free_zone_num' = n
  /\ UNCHANGED zones

write_zone(n, c) ==
  /\ zones' = Written(n, c)
  /\ UNCHANGED <<zmap, last_free_zone_num>>

\* A second my_mkfs: the bits are cleared, the remembered number stays.
clear_zones == zmap' = {} /\ UNCHANGED <<last_free_zone_num, zones>>

\* A new program, which begins with my_mkfs: nothing is remembered.  Zones are
\* what the last program had got to the device.
new_program ==
  /\ zmap' = {} /\ last_free_zone_num' = 0
  /\ zones' \in [Stored -> Content]

Next ==
  \/ \E n \in Number \cup {0} : alloc_zone(n) /\ num' = n
  \/ \E n \in Number : free_zone(n) /\ UNCHANGED num
  \/ \E n \in Number, c \in Content : write_zone(n, c) /\ UNCHANGED num
  \/ clear_zones /\ UNCHANGED num
  \/ new_program /\ UNCHANGED num

Spec == Init /\ [][Next]_vars

-----------------------------------------------------------------------------
(* Properties *)

\* The map holds indices of the bitmap, the hint a zone number or 0.
TypeOK ==
  /\ zmap \subseteq Bit
  /\ last_free_zone_num \in Number \cup {0}
  /\ zones \in [Stored -> Content]
  /\ num \in Number \cup {0}

\* The remembered number is not in use, also after a scan handed out other
\* numbers and after a second my_mkfs: alloc_zone does not check its bit.
HintFree == last_free_zone_num # 0 => last_free_zone_num - 1 \notin zmap

IInv == TypeOK /\ HintFree

Used == {n \in Number : n - 1 \in zmap}

Pool == INSTANCE ResourcePool WITH Numbers <- Number, used <- Used

\* Zone numbers come from a pool: none in use is handed out again, and 0 is
\* answered only when every bit is set.
ImplementsPool == Pool!Spec

\* A zone that comes into use holds zeros, whatever its last owner left in
\* it.  dzi_move_to depends on it: in a new index zone a non-zero word is
\* taken for a zone number (dz.c:71, dz.c:89).
FreshZoneIsZero ==
  [][\A n \in (Used' \ Used) \cap Stored : zones'[n] = zeros]_vars

\* Expected by "Return the # of zone, 0 for failure" (zone.c:18): a number
\* handed out is a zone the device has.
OnDevice == num <= DeviceZones
=============================================================================
