------------------------------- MODULE Layout -------------------------------
(***************************************************************************)
(* The file system on its device: which bytes of which blocks hold the     *)
(* super block, the inode bitmap, the inode table, the zone bitmap and the *)
(* zones.  It is bitmap.c, inode.c, zone.c and fs.c down to the bits, with *)
(* the steps of my_mkfs, and a program that may end at any time and be     *)
(* started again: its variables are then as the loader leaves them, and    *)
(* the blocks are what the cache had written back, or older.               *)
(*                                                                         *)
(* disk is what the cache gives to read (BlockStore in Cache).  A byte is  *)
(* the set of its bits that are 1.                                         *)
(***************************************************************************)
EXTENDS Integers, FiniteSets

CONSTANTS
  BITS,                    \* bits of a byte
  BLOCKSIZE,               \* bytes of a block
  I_NODE_BYTES,            \* bytes of an inode
  IMAP_BLOCKS, InodeBlocks, ZMAP_BLOCKS,
  ZONES,                   \* zones, as the super block has it
  DevBlocks,               \* blocks of the device
  Super,                   \* the super block, as bytes
  Inodes,                  \* inodes, as bytes
  RootInode,               \* that of a directory with nothing in it
  Contents,                \* what clients write to zones
  Leftovers,               \* what each block can hold when a program starts
  MaxZone, Freed,          \* bounds: zone numbers that are used, and freed
  Habits                   \* what clients take care of: see InsideTable

INODES_PER_BLOCK == BLOCKSIZE \div I_NODE_BYTES
BIT_PER_BLOCK == BLOCKSIZE * BITS
FIRST_IMAP_BLOCK == 1
FIRST_INODE_BLOCK == FIRST_IMAP_BLOCK + IMAP_BLOCKS
FIRST_ZMAP_BLOCK == FIRST_INODE_BLOCK + InodeBlocks
FIRSTDATAZONE == FIRST_ZMAP_BLOCK + ZMAP_BLOCKS

\* fill_super_block, the field that is calculated.
ninodes == (FIRST_ZMAP_BLOCK - FIRST_INODE_BLOCK) * INODES_PER_BLOCK

Byte == SUBSET (0 .. BITS - 1)
Index == 0 .. BLOCKSIZE - 1
Block == [Index -> Byte]
zeros == [b \in Index |-> {}]
Inode == [0 .. I_NODE_BYTES - 1 -> Byte]
Stored == 0 .. DevBlocks - 1
DeviceZones == DevBlocks - FIRSTDATAZONE

ASSUME LayoutAssumption ==
  /\ {BITS, BLOCKSIZE, I_NODE_BYTES, IMAP_BLOCKS, InodeBlocks, ZMAP_BLOCKS}
       \subseteq Nat \ {0}
  /\ DevBlocks \in Nat /\ DeviceZones > 0
  /\ ninodes \in 1 .. IMAP_BLOCKS * BIT_PER_BLOCK
  /\ {DeviceZones, ZONES, MaxZone} \subseteq 1 .. ZMAP_BLOCKS * BIT_PER_BLOCK
  /\ Freed \subseteq 1 .. MaxZone
  /\ {Super} \cup Contents \subseteq Block
  /\ Leftovers \in [Stored -> SUBSET Block]
  /\ {RootInode} \cup Inodes \subseteq Inode
  /\ Habits \subseteq {"inside"}

VARIABLES
  disk,                \* the blocks as the cache gives them
  fd, devsize,         \* block.c: the device, -1 if it is not open; its size
  stage,               \* how far my_mkfs is, since the program started
  first_zero_index,    \* inode.c: hint, and what alloc_inode answered last
  inum,
  last_free_zone_num,  \* zone.c: hint, and what alloc_zone answered last
  znum,
  saved                \* the inodes last saved (for the properties)

device == <<fd, devsize>>
vars == <<disk, device, stage, first_zero_index, inum, last_free_zone_num,
          znum, saved>>

-----------------------------------------------------------------------------
(* Bitmaps (bitmap.c) *)

create_bitmap(first, count) ==
  [first_block |-> first, final_block |-> first + count - 1,
   bit_count |-> count * BIT_PER_BLOCK]

imap == create_bitmap(FIRST_IMAP_BLOCK, IMAP_BLOCKS)
zmap == create_bitmap(FIRST_ZMAP_BLOCK, ZMAP_BLOCKS)

AtLowBit(map, index) ==
  [block |-> index \div BIT_PER_BLOCK + map.first_block,
   char |-> (index % BIT_PER_BLOCK) \div BITS, bit |-> 0]

AtBitOfBlock(map, index) ==
  [block |-> index \div BIT_PER_BLOCK + map.first_block,
   char |-> (index % BIT_PER_BLOCK) \div BITS, bit |-> index % BIT_PER_BLOCK]

\* The place of a bit.
At(map, index) ==
  [block |-> index \div BIT_PER_BLOCK + map.first_block,
   char |-> (index % BIT_PER_BLOCK) \div BITS,
   bit |-> (index % BIT_PER_BLOCK) % BITS]

get_bit(map, index) ==
  LET p == At(map, index) IN IF p.bit \in disk[p.block][p.char] THEN 1 ELSE 0

\* The blocks after set_bit.
set_bit(map, index, bit) ==
  LET p == At(map, index)
  IN  [disk EXCEPT ![p.block][p.char] =
         IF bit = 1 THEN @ \cup {p.bit} ELSE @ \ {p.bit}]

ClearBitsButLast(map) ==
  [b \in Stored |-> IF b \in map.first_block .. map.final_block - 1 THEN zeros
                    ELSE disk[b]]

clear_bits(map) ==
  [b \in Stored |-> IF b \in map.first_block .. map.final_block THEN zeros
                    ELSE disk[b]]

\* What proc is given and gives back: a result, and whether to end.
Result == [is : Nat, ended : BOOLEAN]

\* proc is called for one bit after the other, the first one always.
iterate_over_bits(map, start, end, proc, result) ==
  LET before[i \in start .. end] ==
        IF i = start THEN [is |-> result, ended |-> FALSE]
        ELSE IF before[i-1].ended THEN before[i-1]
        ELSE proc[<<get_bit(map, i - 1), i - 1, before[i-1]>>]
  IN  before[end].is

\* The procedures, of a bit, its index and a result.
EndOnZero == [c \in {0, 1} \X Nat \X Result |->
                IF c[1] = 0 THEN [is |-> c[2], ended |-> TRUE] ELSE c[3]]
IncrementOnOne == [c \in {0, 1} \X Nat \X Result |->
                     [c[3] EXCEPT !.is = @ + c[1]]]
IncrementOnZero == [c \in {0, 1} \X Nat \X Result |->
                      [c[3] EXCEPT !.is = @ + 1 - c[1]]]

find_first_zero(map) ==
  iterate_over_bits(map, 0, map.bit_count, EndOnZero, map.bit_count)
count_ones(map, end) == iterate_over_bits(map, 0, end, IncrementOnOne, 0)
CountZerosOfMap(map, end) ==
  iterate_over_bits(map, 0, map.bit_count, IncrementOnZero, 0)
count_zeros(map, end) == iterate_over_bits(map, 0, end, IncrementOnZero, 0)

-----------------------------------------------------------------------------
(* Inodes (inode.c) *)

SlotBlock(num) == (num - 1) \div INODES_PER_BLOCK + FIRST_INODE_BLOCK
SlotOffset(num) == ((num - 1) % INODES_PER_BLOCK) * I_NODE_BYTES

read_inode(num) ==
  [b \in 0 .. I_NODE_BYTES - 1 |-> disk[SlotBlock(num)][SlotOffset(num) + b]]

EnteredAtStart(d, num, inode) ==
  [d EXCEPT ![SlotBlock(num)] =
     [b \in Index |-> IF b < I_NODE_BYTES THEN inode[b] ELSE @[b]]]

\* The blocks d after write_inode.
Entered(d, num, inode) ==
  LET slot == SlotOffset(num) .. SlotOffset(num) + I_NODE_BYTES - 1
  IN  [d EXCEPT ![SlotBlock(num)] =
         [b \in Index |-> IF b \in slot THEN inode[b - SlotOffset(num)]
                          ELSE @[b]]]

WithSaved(num, inode) ==
  IF num \in DOMAIN saved THEN [saved EXCEPT ![num] = inode] ELSE saved

\* A client has no more files than the inode table has entries.
InsideTable(num) == "inside" \in Habits => num <= ninodes

alloc_inode(inode) ==
  LET scan == first_zero_index = imap.bit_count
      index == IF scan THEN find_first_zero(imap) ELSE first_zero_index
  IN  IF index = imap.bit_count
      THEN inum' = 0 /\ UNCHANGED <<disk, first_zero_index, saved>>
      ELSE /\ inum' = index + 1
           /\ InsideTable(index + 1)
           /\ disk' = Entered(set_bit(imap, index, 1), index + 1, inode)
           /\ saved' = WithSaved(index + 1, inode)
           /\ first_zero_index' = imap.bit_count

AllocInode ==
  /\ stage = "ready"
  /\ \E inode \in Inodes : alloc_inode(inode)
  /\ UNCHANGED <<device, stage, last_free_zone_num, znum>>

FreeInode(num) ==
  /\ stage = "ready"
  /\ disk' = set_bit(imap, num - 1, 0)
  /\ first_zero_index' = IF num - 1 < first_zero_index THEN num - 1
                         ELSE first_zero_index
  /\ UNCHANGED <<device, stage, inum, last_free_zone_num, znum, saved>>

WriteInode(num, inode) ==
  /\ stage = "ready"
  /\ disk' = Entered(disk, num, inode) /\ saved' = WithSaved(num, inode)
  /\ UNCHANGED <<device, stage, first_zero_index, inum, last_free_zone_num, znum>>

-----------------------------------------------------------------------------
(* Zones (zone.c) *)

\* The blocks d after write_zone: what is not on the device is lost.
Written(d, num, data) ==
  LET b == FIRSTDATAZONE + num - 1
  IN  IF b \in Stored THEN [d EXCEPT ![b] = data] ELSE d

read_zone(num) == disk[FIRSTDATAZONE + num - 1]

AllocZone ==
  LET scan == last_free_zone_num = 0
      index == IF scan THEN find_first_zero(zmap) ELSE last_free_zone_num - 1
  IN  /\ stage = "ready"
      /\ IF scan /\ index = zmap.bit_count
         THEN znum' = 0 /\ UNCHANGED <<disk, last_free_zone_num>>
         ELSE /\ index < MaxZone
              /\ znum' = index + 1
              /\ disk' = Written(set_bit(zmap, index, 1), index + 1, zeros)
              /\ last_free_zone_num' = 0
      /\ UNCHANGED <<device, stage, first_zero_index, inum, saved>>

FreeZone(num) ==
  /\ stage = "ready"
  /\ disk' = set_bit(zmap, num - 1, 0) /\ last_free_zone_num' = num
  /\ UNCHANGED <<device, stage, first_zero_index, inum, znum, saved>>

WriteZone(num, data) ==
  /\ stage = "ready"
  /\ disk' = Written(disk, num, data)
  /\ UNCHANGED <<device, stage, first_zero_index, inum, last_free_zone_num, znum,
                 saved>>

count_occupied_inodes == count_ones(imap, ninodes)
count_free_inodes == count_zeros(imap, ninodes)
count_occupied_zones == count_ones(zmap, ZONES)
count_free_zones == count_zeros(zmap, ZONES)

-----------------------------------------------------------------------------
(* my_mkfs (fs.c), from a fresh program or over a file system in use *)

\* dev_open: open succeeds and fstat fails.  The next dev_open succeeds, with
\* the size 0.
NoStat ==
  /\ stage = "off" /\ fd = -1
  /\ fd' = 0
  /\ UNCHANGED <<disk, devsize, stage, first_zero_index, inum,
                 last_free_zone_num, znum, saved>>

\* The device is there, and the super block is written to it.  On a device of
\* size 0 nothing can be written or read: the model stops.
WriteSuper ==
  /\ stage \in {"off", "ready"}
  /\ IF fd = -1 THEN fd' = 0 /\ devsize' = DevBlocks ELSE UNCHANGED device
  /\ IF devsize' = 0 THEN stage' = "blind" /\ UNCHANGED disk
     ELSE stage' = "maps" /\ disk' = [disk EXCEPT ![0] = Super]
  /\ UNCHANGED <<first_zero_index, inum, last_free_zone_num, znum, saved>>

\* init_imap looks for a zero in the bitmap that was there before.
InitMaps ==
  /\ stage = "maps"
  /\ first_zero_index' = find_first_zero(imap)
  /\ stage' = "inodes"
  /\ UNCHANGED <<disk, device, inum, last_free_zone_num, znum, saved>>

ClearInodesKeepsHint ==
  /\ stage = "inodes"
  /\ disk' = clear_bits(imap)
  /\ stage' = "zones"
  /\ UNCHANGED <<device, first_zero_index, inum, last_free_zone_num, znum, saved>>

ClearInodes ==
  /\ stage = "inodes"
  /\ disk' = clear_bits(imap) /\ first_zero_index' = 0
  /\ stage' = "zones"
  /\ UNCHANGED <<device, inum, last_free_zone_num, znum, saved>>

ClearZones ==
  /\ stage = "zones"
  /\ disk' = clear_bits(zmap)
  /\ stage' = "root"
  /\ UNCHANGED <<device, first_zero_index, inum, last_free_zone_num, znum, saved>>

MakeRoot ==
  /\ stage = "root"
  /\ alloc_inode(RootInode)
  /\ stage' = "ready"
  /\ UNCHANGED <<device, last_free_zone_num, znum>>

-----------------------------------------------------------------------------

\* The devices a program can find.
Left == {d \in [Stored -> UNION {Leftovers[b] : b \in Stored}] :
           \A b \in Stored : d[b] \in Leftovers[b]}

Started ==
  /\ fd' = -1 /\ devsize' = 0 /\ stage' = "off"
  /\ first_zero_index' = 0 /\ last_free_zone_num' = 0

\* The program ends, in the middle of my_mkfs or later, and is started again.
\* Any block may be one the cache had not written back.
Restart ==
  /\ disk' \in Left
  /\ saved' = [n \in 1 .. ninodes |-> read_inode(n)']
  /\ Started
  /\ UNCHANGED <<inum, znum>>

Init ==
  /\ disk \in Left
  /\ saved = [n \in 1 .. ninodes |-> read_inode(n)]
  /\ fd = -1 /\ devsize = 0 /\ stage = "off"
  /\ first_zero_index = 0 /\ last_free_zone_num = 0
  /\ inum = 0 /\ znum = 0

Next ==
  \/ AllocInode \/ AllocZone
  \/ \E n \in 1 .. ninodes : \/ FreeInode(n)
                             \/ \E i \in Inodes : WriteInode(n, i)
  \/ \E n \in Freed : FreeZone(n)
  \/ \E n \in 1 .. MaxZone, c \in Contents : WriteZone(n, c)
  \/ NoStat \/ WriteSuper \/ InitMaps \/ ClearInodes \/ ClearZones \/ MakeRoot
  \/ Restart

Spec == Init /\ [][Next]_vars

-----------------------------------------------------------------------------
(* Properties *)

\* Every variable is of its kind.
TypeOK ==
  /\ disk \in [Stored -> Block]
  /\ fd \in {-1, 0} /\ devsize \in {0, DevBlocks}
  /\ stage \in {"off", "blind", "maps", "inodes", "zones", "root", "ready"}
  /\ first_zero_index \in 0 .. imap.bit_count
  /\ inum \in 0 .. imap.bit_count
  /\ last_free_zone_num \in 0 .. zmap.bit_count
  /\ znum \in 0 .. zmap.bit_count
  /\ saved \in [1 .. ninodes -> Inode]

\* There is a file system between the clearing of the maps and the end of the
\* program or the next my_mkfs.
Live == stage \in {"root", "ready"}

Ones(map) == {i \in 0 .. map.bit_count - 1 : get_bit(map, i) = 1}

IMap == INSTANCE InodeMap
  WITH bit_count <- imap.bit_count, num <- inum,
       imap <- IF Live THEN Ones(imap) ELSE {},
       first_zero_index <- IF Live THEN first_zero_index ELSE 0

ZMap == INSTANCE ZoneMap
  WITH bit_count <- zmap.bit_count, num <- znum,
       zmap <- IF Live THEN Ones(zmap) ELSE {},
       Content <- Contents \cup {zeros} \cup UNION {Leftovers[b] : b \in Stored},
       zones <- [n \in 1 .. DeviceZones |-> read_zone(n)]

\* Bits in bytes in blocks are the inode map: no write to the device that is
\* meant for something else, and nothing left by an earlier program, shows up
\* in it.
ImplementsInodeMap == IMap!Spec

\* The same of the zone map; and a zone changes when it is written to or
\* handed out.
ImplementsZoneMap == ZMap!Spec

\* The super block stays what my_mkfs wrote, and an inode what was saved last
\* under its number, next to others in its block.
BlocksKept ==
  stage = "ready" =>
    /\ disk[0] = Super
    /\ \A n \in 1 .. ninodes : read_inode(n) = saved[n]

\* What print_disk_layout shows: the loops over the bits count all of the bits
\* asked for and no more.
CountsRight ==
  /\ count_occupied_inodes = Cardinality(Ones(imap) \cap 0 .. ninodes - 1)
  /\ count_free_inodes = ninodes - count_occupied_inodes
  /\ count_occupied_zones = Cardinality(Ones(zmap) \cap 0 .. ZONES - 1)
  /\ count_free_zones = ZONES - count_occupied_zones

\* fs.c:63: when my_mkfs ends there is the root directory, number 1, and
\* nothing else, whatever the device or the program had in its maps before.
FormatMakesEmpty ==
  [][stage = "root" /\ stage' = "ready" =>
       /\ inum' = 1 /\ Ones(imap)' = {0} /\ Ones(zmap)' = {}
       /\ read_inode(1)' = RootInode]_vars

-----------------------------------------------------------------------------
(* What a comment of the code says and the code does not do *)

\* block.c:14: dev_open answers the device size if it is successful, so
\* my_mkfs goes on with a device only if it knows its size.
OpenKnowsSize == stage # "off" => devsize = DevBlocks
=============================================================================
