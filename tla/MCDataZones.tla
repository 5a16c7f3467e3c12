---------------------------- MODULE MCDataZones -----------------------------
(* Small instances of DataZones: the data of a block tells which one it    *)
(* is, and reads as zone numbers where it is taken for an index zone.      *)
EXTENDS DataZones

Block == 1 .. NR_DIRECT_ZONES + NR_IND1_ZONES + NR_IND2_ZONES
Marks == [k \in Block |-> {[w \in Word |-> 1 + (k % ZoneBits)]} \cup
                          IF k = 2 THEN {[w \in Word |-> ZoneBits]} ELSE {}]

Short1 == NR_DIRECT_ZONES + NR_IND1_ZONES + U32_PER_BLOCK - 1
OneLong == [i \in Files |-> IF i = 1 THEN Short1 ELSE 1]
TwoShort == [i \in Files |-> IF i = 1 THEN Short1 ELSE 2]
Long == [i \in Files |-> IF i = 1 THEN 7 ELSE 1]

AllHabits == {"short", "exclusive", "closed"}
NotShort == AllHabits \ {"short"}
NotExclusive == AllHabits \ {"exclusive"}
=============================================================================
