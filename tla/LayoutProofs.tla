---------------------------- MODULE LayoutProofs ----------------------------
(***************************************************************************)
(* Proofs about Layout.tla, for every geometry of the device: the sizes of *)
(* bytes, blocks, inodes and regions, what clients write, and what earlier *)
(* programs left.                                                          *)
(*                                                                         *)
(* No bit, inode or zone shares its place with another (PlaceUnique,       *)
(* Regions), so each write changes what it is for (SetBit, ClearBits,      *)
(* Entering, WritingZone).  The loop over the bits is solved by looking    *)
(* for the first bit at which it would go wrong (LoopResults,              *)
(* FirstZeroLoop, Counting).  Then the bits in the blocks are the sets of  *)
(* InodeMap and ZoneMap, and the blocks behind them its zones.             *)
(***************************************************************************)
EXTENDS Layout, FiniteSetTheorems, TLAPS

\* For LeastNumber, which stands in for induction over the bits.
Bitmaps == INSTANCE BitmapProofs

\* What / and % give, for the arithmetic of bitmap.c and inode.c.
LEMMA DivMod ==
  ASSUME NEW n \in Nat, NEW b \in Nat \ {0}
  PROVE  /\ n \div b \in Nat
         /\ n % b \in 0 .. b - 1
         /\ n = b * (n \div b) + (n % b)
  OBVIOUS

\* The same for leaves that need the types only: the provers are slow with
\* nested divisions.
LEMMA DivModNat ==
  ASSUME NEW n \in Nat, NEW b \in Nat \ {0}
  PROVE  n \div b \in Nat /\ n % b \in Nat
  OBVIOUS

\* A number below c groups of b is in one of the first c groups.
LEMMA DivBound ==
  ASSUME NEW n \in Nat, NEW b \in Nat \ {0}, NEW c \in Nat, n < c * b
  PROVE  n \div b < c
<1>1. SUFFICES ASSUME n \div b >= c PROVE FALSE
  BY DivMod
<1>2. n \div b \in Nat /\ n >= b * (n \div b)
  BY DivMod
<1>3. b * (n \div b) >= b * c
  <2> DEFINE q == n \div b
  <2>1. q \in Nat /\ q >= c BY <1>1, <1>2
  <2> HIDE DEF q
  <2>2. b * (q - c) >= 0 BY <2>1
  <2>3. b * (q - c) = b * q - b * c BY <2>1
  <2> QED BY <2>1, <2>2, <2>3 DEF q
<1> QED BY <1>2, <1>3

\* Bytes and blocks have bits, and a bit of a block is in a byte of the block.
LEMMA PositiveSizes ==
  /\ BITS \in Nat \ {0} /\ BLOCKSIZE \in Nat \ {0}
  /\ BIT_PER_BLOCK \in Nat \ {0}
  /\ \A k \in Nat : k < BIT_PER_BLOCK => k \div BITS < BLOCKSIZE
<1>1. BITS \in Nat \ {0} /\ BLOCKSIZE \in Nat \ {0}
  BY LayoutAssumption DEF LayoutAssumption
<1>2. BLOCKSIZE * BITS \in Nat /\ BLOCKSIZE * BITS > 0
  BY <1>1
<1> QED BY <1>1, <1>2, DivBound DEF BIT_PER_BLOCK

\* bitmap.c:30: the place of a bit of a map is in a block of the map.
LEMMA PlaceInMap ==
  ASSUME NEW first \in Nat, NEW count \in Nat,
         NEW i \in 0 .. create_bitmap(first, count).bit_count - 1
  PROVE  LET p == At(create_bitmap(first, count), i)
         IN  /\ p.block \in first .. create_bitmap(first, count).final_block
             /\ p.char \in Index
             /\ p.bit \in 0 .. BITS - 1
<1> DEFINE r == i % BIT_PER_BLOCK
<1>1. i \in Nat /\ i < count * BIT_PER_BLOCK
  <2>1. count * BIT_PER_BLOCK \in Nat BY PositiveSizes
  <2> QED BY <2>1 DEF create_bitmap
<1>2. i \div BIT_PER_BLOCK \in Nat /\ i \div BIT_PER_BLOCK < count
  BY <1>1, PositiveSizes, DivMod, DivBound
<1>3. r \in Nat /\ r < BIT_PER_BLOCK
  BY <1>1, PositiveSizes, DivMod
<1>4. r \div BITS \in Nat /\ r \div BITS < BLOCKSIZE /\ r % BITS \in 0 .. BITS - 1
  BY <1>3, PositiveSizes, DivMod
<1> QED BY <1>2, <1>4, PositiveSizes DEF At, create_bitmap, Index

\* Quotient and remainder together tell numbers apart.
LEMMA SameParts ==
  ASSUME NEW i \in Nat, NEW j \in Nat, NEW b \in Nat \ {0},
         i \div b = j \div b, i % b = j % b
  PROVE  i = j
<1>1. i = b * (i \div b) + (i % b)
  BY DivMod
<1>2. j = b * (j \div b) + (j % b)
  BY DivMod
<1> QED BY <1>1, <1>2

\* bitmap.c:30: different bits have different places.
LEMMA PlaceUnique ==
  ASSUME NEW map, NEW i \in Nat, NEW j \in Nat,
         map.first_block \in Nat, At(map, i) = At(map, j)
  PROVE  i = j
<1>1. /\ At(map, i).block = At(map, j).block
      /\ At(map, i).char = At(map, j).char
      /\ At(map, i).bit = At(map, j).bit
  OBVIOUS
<1> DEFINE B == BIT_PER_BLOCK
<1>2. /\ i \div B + map.first_block = j \div B + map.first_block
      /\ (i % B) \div BITS = (j % B) \div BITS
      /\ (i % B) % BITS = (j % B) % BITS
  BY <1>1 DEF At
<1>3. B \in Nat \ {0}
  BY PositiveSizes
<1> HIDE DEF B
<1>4. i % B \in Nat /\ j % B \in Nat /\ i \div B \in Nat /\ j \div B \in Nat
  BY <1>3, DivModNat
<1>5. i % B = j % B
  BY <1>2, <1>4, PositiveSizes, SameParts
<1>6. i \div B = j \div B
  BY <1>2, <1>4
<1> QED BY <1>3, <1>5, <1>6, SameParts

-----------------------------------------------------------------------------
(* Bits on a device *)

\* A device with a block for each number; the blocks of a map; whether a bit of
\* a map is 1 on device d, and which are.
Device == [Stored -> Block]
MapBlocks(map) == map.first_block .. map.final_block
BitOf(d, map, i) == At(map, i).bit \in d[At(map, i).block][At(map, i).char]
OnesOf(d, map) == {i \in 0 .. map.bit_count - 1 : BitOf(d, map, i)}

\* p5.h:18: the inode map, the inode table, the zone map and the zones follow
\* each other on the device and do not overlap.
LEMMA Regions ==
  /\ FIRST_INODE_BLOCK \in Nat /\ FIRST_INODE_BLOCK > 1
  /\ FIRST_ZMAP_BLOCK \in Nat /\ FIRST_ZMAP_BLOCK > FIRST_INODE_BLOCK
  /\ FIRSTDATAZONE \in Nat /\ FIRSTDATAZONE > FIRST_ZMAP_BLOCK
  /\ DevBlocks \in Nat /\ DevBlocks > FIRSTDATAZONE
  /\ MapBlocks(imap) = 1 .. FIRST_INODE_BLOCK - 1
  /\ MapBlocks(zmap) = FIRST_ZMAP_BLOCK .. FIRSTDATAZONE - 1
  /\ FIRST_ZMAP_BLOCK = FIRST_INODE_BLOCK + InodeBlocks
<1>1. /\ IMAP_BLOCKS \in Nat \ {0} /\ InodeBlocks \in Nat \ {0}
      /\ ZMAP_BLOCKS \in Nat \ {0} /\ DevBlocks \in Nat /\ DeviceZones > 0
  BY LayoutAssumption DEF LayoutAssumption
<1> QED
  BY <1>1 DEF DeviceZones, FIRSTDATAZONE, FIRST_ZMAP_BLOCK, FIRST_INODE_BLOCK,
              FIRST_IMAP_BLOCK, MapBlocks, imap, zmap, create_bitmap

\* Both maps are on the device, with the places of all their bits.
LEMMA MapsStored ==
  ASSUME NEW map \in {imap, zmap}
  PROVE  /\ map.first_block \in Nat /\ map.bit_count \in Nat \ {0}
         /\ MapBlocks(map) \subseteq Stored
         /\ \A i \in 0 .. map.bit_count - 1 :
               /\ At(map, i).block \in MapBlocks(map)
               /\ At(map, i).char \in Index
               /\ At(map, i).bit \in 0 .. BITS - 1
<1>1. PICK first \in Nat, count \in Nat \ {0} : map = create_bitmap(first, count)
  <2>1. IMAP_BLOCKS \in Nat \ {0} /\ ZMAP_BLOCKS \in Nat \ {0}
    BY LayoutAssumption DEF LayoutAssumption
  <2>2. FIRST_IMAP_BLOCK \in Nat /\ FIRST_ZMAP_BLOCK \in Nat
    BY Regions DEF FIRST_IMAP_BLOCK
  <2> QED BY <2>1, <2>2 DEF imap, zmap
<1>2. map.first_block = first /\ map.final_block = first + count - 1
      /\ map.bit_count = count * BIT_PER_BLOCK
  BY <1>1 DEF create_bitmap
<1>3. map.bit_count \in Nat \ {0}
  BY <1>2, PositiveSizes
<1>4. MapBlocks(map) \subseteq Stored
  BY Regions DEF Stored
<1>5. ASSUME NEW i \in 0 .. map.bit_count - 1
      PROVE  /\ At(map, i).block \in MapBlocks(map)
             /\ At(map, i).char \in Index
             /\ At(map, i).bit \in 0 .. BITS - 1
  BY <1>1, PlaceInMap DEF MapBlocks, create_bitmap
<1> QED BY <1>2, <1>3, <1>4, <1>5

\* Ones, of the model, is OnesOf the blocks of now.
LEMMA OnesAre ==
  ASSUME NEW map
  PROVE  Ones(map) = OnesOf(disk, map)
BY DEF Ones, OnesOf, get_bit, BitOf

\* set_bit changes one bit of its map, no other and no other block.
LEMMA SetBit ==
  ASSUME disk \in Device, NEW map \in {imap, zmap},
         NEW i \in 0 .. map.bit_count - 1, NEW bit \in {0, 1}
  PROVE  /\ set_bit(map, i, bit) \in Device
         /\ \A b \in Stored \ MapBlocks(map) : set_bit(map, i, bit)[b] = disk[b]
         /\ OnesOf(set_bit(map, i, bit), map)
              = IF bit = 1 THEN OnesOf(disk, map) \cup {i}
                ELSE OnesOf(disk, map) \ {i}
<1> DEFINE p == At(map, i)
           byte == IF bit = 1 THEN disk[p.block][p.char] \cup {p.bit}
                   ELSE disk[p.block][p.char] \ {p.bit}
           block == [disk[p.block] EXCEPT ![p.char] = byte]
           d == [disk EXCEPT ![p.block] = block]
<1>1. set_bit(map, i, bit) = d
  BY DEF set_bit
<1>2. /\ p.block \in MapBlocks(map) /\ p.block \in Stored
      /\ p.char \in Index /\ p.bit \in 0 .. BITS - 1
  BY MapsStored
<1>3. disk[p.block] \in [Index -> Byte] /\ disk[p.block][p.char] \in Byte
  BY <1>2 DEF Device, Block
<1>4. byte \in Byte
  BY <1>2, <1>3 DEF Byte
<1>5. block \in Block /\ block[p.char] = byte
      /\ \A c \in Index \ {p.char} : block[c] = disk[p.block][c]
  <2> HIDE DEF byte, p
  <2> QED BY <1>2, <1>3, <1>4 DEF Block
<1>6. d \in Device /\ d[p.block] = block
      /\ \A b \in Stored \ {p.block} : d[b] = disk[b]
  <2> HIDE DEF block, p
  <2> QED BY <1>2, <1>5 DEF Device
<1>7. ASSUME NEW j \in 0 .. map.bit_count - 1
      PROVE  BitOf(d, map, j) <=> IF j = i THEN bit = 1 ELSE BitOf(disk, map, j)
  <2> DEFINE q == At(map, j)
  <2>1. q.block \in Stored /\ q.char \in Index
    BY MapsStored
  <2>2. CASE j = i
    BY <2>2, <1>5, <1>6 DEF BitOf
  <2>3. CASE j # i
    <3>1. q # p
      BY <2>3, PlaceUnique, MapsStored
    <3>2. q.block # p.block \/ q.char # p.char \/ q.bit # p.bit
      BY <3>1 DEF At
    <3> HIDE DEF p, q, d, block, byte
    <3>3. q.bit \in d[q.block][q.char] <=> q.bit \in disk[q.block][q.char]
      <4>1. CASE q.block # p.block
        BY <4>1, <1>6, <2>1
      <4>2. CASE q.block = p.block /\ q.char # p.char
        BY <4>2, <1>5, <1>6, <2>1
      <4>3. CASE q.block = p.block /\ q.char = p.char /\ q.bit # p.bit
        BY <4>3, <1>5, <1>6, <2>1 DEF byte
      <4> QED BY <3>2, <4>1, <4>2, <4>3
    <3> QED BY <3>3, <2>3 DEF BitOf, q
  <2> QED BY <2>2, <2>3
<1>8. OnesOf(d, map) = IF bit = 1 THEN OnesOf(disk, map) \cup {i}
                       ELSE OnesOf(disk, map) \ {i}
  <2> HIDE DEF d
  <2> QED BY <1>7 DEF OnesOf
<1> QED BY <1>1, <1>2, <1>6, <1>8

-----------------------------------------------------------------------------
(* The loop over the bits *)

\* f is the loop of iterate_over_bits over the first end bits.
IsLoop(f, map, end, proc, first) ==
  f = [i \in 0 .. end |->
         IF i = 0 THEN first
         ELSE IF f[i-1].ended THEN f[i-1]
         ELSE proc[<<get_bit(map, i - 1), i - 1, f[i-1]>>]]

\* The recursion of the loop has a solution, so the model's loop is one.
LEMMA LoopDefined ==
  ASSUME NEW map, NEW end \in Nat, NEW proc, NEW first
  PROVE  \E f : IsLoop(f, map, end, proc, first)
<1> DEFINE Goes(r, i) == IF r.ended THEN r ELSE proc[<<get_bit(map, i), i, r>>]
           Is(f, n) == f = [i \in 0 .. n |->
                             IF i = 0 THEN first ELSE Goes(f[i-1], i - 1)]
           None == {n \in 0 .. end : ~ \E f : Is(f, n)}
<1> SUFFICES \E f : Is(f, end)
  BY DEF IsLoop
<1> HIDE DEF Goes
<1>1. SUFFICES ASSUME None # {} PROVE FALSE
  OBVIOUS
<1>2. PICK n \in None : \A m \in None : n <= m
  <2>1. None \in SUBSET Nat
    BY DEF None
  <2> HIDE DEF None
  <2> QED BY <1>1, <2>1, Bitmaps!LeastNumber
<1>3. CASE n = 0
  <2>1. Is([i \in 0 .. 0 |-> first], 0)
    OBVIOUS
  <2> QED BY <1>3, <2>1
<1>4. CASE n > 0
  <2>1. PICK f : Is(f, n - 1)
    <3> HIDE DEF Is
    <3>1. n - 1 \in 0 .. end /\ n - 1 \notin None
      BY <1>2, <1>4
    <3> QED BY <3>1
  <2> DEFINE g == [i \in 0 .. n |-> IF i = n THEN Goes(f[n-1], n - 1) ELSE f[i]]
  <2>2. \A i \in 0 .. n : g[i] = IF i = 0 THEN first ELSE Goes(g[i-1], i - 1)
    BY <2>1, <1>4
  <2>3. Is(g, n)
    BY <2>2
  <2> QED BY <2>3
<1> QED BY <1>3, <1>4

\* The results of the loop over the first end bits, one after each bit.
Results(f, map, end, proc, first) ==
  /\ f[0] = first
  /\ \A i \in 0 .. end - 1 :
        f[i+1] = IF f[i].ended THEN f[i]
                 ELSE proc[<<get_bit(map, i), i, f[i]>>]

\* bitmap.c:81: the loop's answer is the last of its results.
LEMMA LoopResults ==
  ASSUME NEW map, NEW end \in Nat, NEW proc, NEW result
  PROVE  \E f : /\ Results(f, map, end, proc, [is |-> result, ended |-> FALSE])
                /\ iterate_over_bits(map, 0, end, proc, result) = f[end].is
<1> DEFINE first == [is |-> result, ended |-> FALSE]
           f0 == CHOOSE f : IsLoop(f, map, end, proc, first)
<1>3. iterate_over_bits(map, 0, end, proc, result) = f0[end].is
  BY DEF iterate_over_bits, IsLoop
<1> HIDE DEF first
<1>2. IsLoop(f0, map, end, proc, first)
  BY LoopDefined
<1> HIDE DEF f0
<1>4. f0[0] = first
  BY <1>2 DEF IsLoop
<1>5. ASSUME NEW i \in 0 .. end - 1
      PROVE  f0[i+1] = IF f0[i].ended THEN f0[i]
                       ELSE proc[<<get_bit(map, i), i, f0[i]>>]
  <2>1. i + 1 \in 0 .. end /\ i + 1 # 0 /\ (i + 1) - 1 = i
    OBVIOUS
  <2>2. f0[i+1] = IF f0[(i+1)-1].ended THEN f0[(i+1)-1]
                  ELSE proc[<<get_bit(map, (i+1) - 1), (i+1) - 1, f0[(i+1)-1]>>]
    BY <1>2, <2>1 DEF IsLoop
  <2> QED BY <2>1, <2>2
<1>6. Results(f0, map, end, proc, first)
  BY <1>4, <1>5 DEF Results
<1> QED BY <1>3, <1>6 DEF first

\* bitmap.c:153: the loop answers the first zero of the map, or bit_count.
LEMMA FirstZeroLoop ==
  ASSUME NEW map \in {imap, zmap}
  PROVE  find_first_zero(map) = IMap!find_first_zero(Ones(map), map.bit_count)
<1> DEFINE N == map.bit_count
           zs == (0 .. N - 1) \ Ones(map)
<1>0. N \in Nat \ {0}
  BY MapsStored
<1>a. PICK f : /\ Results(f, map, N, EndOnZero, [is |-> N, ended |-> FALSE])
               /\ find_first_zero(map) = f[N].is
  BY <1>0, LoopResults DEF find_first_zero
<1>1. /\ f[0] = [is |-> N, ended |-> FALSE]
      /\ \A i \in 0 .. N - 1 :
            /\ f[i].ended => f[i+1] = f[i]
            /\ ~ f[i].ended => f[i+1] = EndOnZero[<<get_bit(map, i), i, f[i]>>]
  BY <1>a DEF Results
<1> DEFINE Right(n) ==
             \/ f[n] = [is |-> N, ended |-> FALSE] /\ zs \cap 0 .. n - 1 = {}
             \/ \E z \in zs : /\ f[n] = [is |-> z, ended |-> TRUE]
                             /\ \A y \in zs : z <= y
           Wrong == {n \in 0 .. N : ~ Right(n)}
<1> HIDE DEF N
<1>2. ASSUME NEW n \in 0 .. N - 1, Right(n)
      PROVE  Right(n + 1)
  <2>1. CASE f[n] = [is |-> N, ended |-> FALSE] /\ zs \cap 0 .. n - 1 = {}
    <3>0. f[n].ended = FALSE
      BY <2>1
    <3>1. f[n+1] = EndOnZero[<<get_bit(map, n), n, f[n]>>]
      BY <1>1, <3>0
    <3>2. /\ get_bit(map, n) \in {0, 1} /\ n \in Nat /\ f[n] \in Result
      <4>1. get_bit(map, n) \in {0, 1}
        BY DEF get_bit
      <4>2. f[n] \in Result
        BY <1>0, <2>1 DEF Result
      <4> QED BY <1>0, <4>1, <4>2
    <3>3. f[n+1] = IF get_bit(map, n) = 0 THEN [is |-> n, ended |-> TRUE] ELSE f[n]
      BY <3>1, <3>2 DEF EndOnZero
    <3>4. get_bit(map, n) = 0 <=> n \in zs
      BY DEF Ones, N, get_bit
    <3>5. CASE n \in zs
      <4>1. \A y \in zs : n <= y
        BY <1>0, <2>1
      <4> QED BY <3>3, <3>4, <3>5, <4>1
    <3>6. CASE n \notin zs
      <4>1. zs \cap 0 .. n = {}
        BY <1>0, <2>1, <3>6
      <4> QED BY <2>1, <3>3, <3>4, <3>6, <4>1
    <3> QED BY <3>5, <3>6
  <2>2. CASE \E z \in zs : /\ f[n] = [is |-> z, ended |-> TRUE]
                          /\ \A y \in zs : z <= y
    <3>1. f[n].ended = TRUE
      BY <2>2
    <3>2. f[n+1] = f[n]
      BY <1>1, <3>1
    <3> QED BY <2>2, <3>2
  <2> QED BY <1>2, <2>1, <2>2
<1>3. Wrong = {}
  <2>1. SUFFICES ASSUME Wrong # {} PROVE FALSE
    OBVIOUS
  <2>2. PICK n \in Wrong : \A m \in Wrong : n <= m
    <3>1. Wrong \in SUBSET Nat
      BY <1>0
    <3> HIDE DEF Wrong
    <3> QED BY <2>1, <3>1, Bitmaps!LeastNumber
  <2>3. Right(0)
    BY <1>1
  <2>4. n # 0
    BY <2>2, <2>3
  <2>5. n - 1 \in 0 .. N - 1 /\ n - 1 \notin Wrong
    <3>1. n \in 0 .. N
      BY DEF Wrong
    <3> HIDE DEF Wrong
    <3> QED BY <1>0, <2>2, <2>4, <3>1
  <2>6. Right(n - 1)
    <3> HIDE DEF Right
    <3> QED BY <1>0, <2>5
  <2>7. Right((n - 1) + 1)
    <3> HIDE DEF Right
    <3> QED BY <1>2, <2>5, <2>6
  <2>8. (n - 1) + 1 = n
    BY <1>0, <2>2
  <2> HIDE DEF Right
  <2> QED BY <2>2, <2>7, <2>8
<1>4. Right(N)
  <2> HIDE DEF Right
  <2> QED BY <1>0, <1>3
<1>5. CASE zs = {}
  <2>1. f[N] = [is |-> N, ended |-> FALSE]
    BY <1>4, <1>5
  <2>2. f[N].is = N
    BY <2>1
  <2> QED BY <1>a, <1>5, <2>2 DEF IMap!find_first_zero, IMap!Bits, N
<1>6. CASE zs # {}
  <2>1. zs \cap 0 .. N - 1 # {}
    BY <1>6
  <2>a. PICK z \in zs : f[N] = [is |-> z, ended |-> TRUE] /\ \A y \in zs : z <= y
    BY <1>4, <2>1
  <2>2. f[N].is = z /\ \A y \in zs : z <= y
    BY <2>a
  <2>3. \A x \in zs : (\A y \in zs : x <= y) => x = z
    BY <1>0, <2>2
  <2>4. z = CHOOSE i \in zs : \A j \in zs : i <= j
    BY <2>2, <2>3
  <2> QED BY <1>a, <1>6, <2>2, <2>4 DEF IMap!find_first_zero, IMap!Bits, N
<1> QED BY <1>5, <1>6

-----------------------------------------------------------------------------
(* What the other writes do to a device *)

\* clear_bits leaves no one in its map, and every other block as it was.
LEMMA ClearBits ==
  ASSUME disk \in Device, NEW map \in {imap, zmap}
  PROVE  /\ clear_bits(map) \in Device
         /\ \A b \in Stored \ MapBlocks(map) : clear_bits(map)[b] = disk[b]
         /\ OnesOf(clear_bits(map), map) = {}
<1>1. zeros \in Block
  BY DEF zeros, Block, Byte
<1>2. clear_bits(map) \in Device
  BY <1>1 DEF clear_bits, Device
<1>3. \A b \in Stored \ MapBlocks(map) : clear_bits(map)[b] = disk[b]
  BY DEF clear_bits, MapBlocks
<1>4. \A b \in MapBlocks(map) : clear_bits(map)[b] = zeros
  BY MapsStored DEF clear_bits, MapBlocks
<1>5. \A i \in 0 .. map.bit_count - 1 : ~ BitOf(clear_bits(map), map, i)
  BY <1>4, MapsStored DEF BitOf, zeros
<1> QED BY <1>2, <1>3, <1>5 DEF OnesOf

\* write_inode changes one block, of the inode table or behind it.
LEMMA Entering ==
  ASSUME NEW d \in Device, NEW num \in Nat \ {0}, NEW inode \in Inode
  PROVE  /\ Entered(d, num, inode) \in Device
         /\ SlotBlock(num) \in Nat /\ SlotBlock(num) >= FIRST_INODE_BLOCK
         /\ num <= ninodes => SlotBlock(num) < FIRST_ZMAP_BLOCK
         /\ \A b \in Stored \ {SlotBlock(num)} : Entered(d, num, inode)[b] = d[b]
<1>1. INODES_PER_BLOCK \in Nat \ {0} /\ I_NODE_BYTES \in Nat \ {0}
  <2>1. /\ I_NODE_BYTES \in Nat \ {0} /\ InodeBlocks \in Nat \ {0}
        /\ ninodes \in Nat /\ ninodes > 0
    BY PositiveSizes, LayoutAssumption DEF LayoutAssumption
  <2>2. INODES_PER_BLOCK \in Nat
    BY <2>1, PositiveSizes, DivModNat DEF INODES_PER_BLOCK
  <2>3. INODES_PER_BLOCK # 0
    BY <2>1, Regions DEF ninodes
  <2> QED BY <2>1, <2>2, <2>3
<1>2. (num - 1) \div INODES_PER_BLOCK \in Nat /\ (num - 1) % INODES_PER_BLOCK \in Nat
  BY <1>1, DivModNat
<1>3. SlotBlock(num) \in Nat /\ SlotBlock(num) >= FIRST_INODE_BLOCK
  BY <1>2, Regions DEF SlotBlock
<1>4. SlotOffset(num) \in Nat
  BY <1>1, <1>2 DEF SlotOffset
<1>5. ASSUME num <= ninodes PROVE SlotBlock(num) < FIRST_ZMAP_BLOCK
  <2>1. InodeBlocks \in Nat /\ num - 1 \in Nat
    BY LayoutAssumption DEF LayoutAssumption
  <2>2. FIRST_ZMAP_BLOCK - FIRST_INODE_BLOCK = InodeBlocks
    BY <2>1, Regions
  <2>3. num - 1 < InodeBlocks * INODES_PER_BLOCK
    <3>1. InodeBlocks * INODES_PER_BLOCK \in Nat
      BY <1>1, <2>1
    <3> QED BY <1>5, <2>2, <3>1 DEF ninodes
  <2>4. (num - 1) \div INODES_PER_BLOCK < InodeBlocks
    BY <1>1, <2>1, <2>3, DivBound
  <2> QED BY <1>2, <2>1, <2>4, Regions DEF SlotBlock
<1> DEFINE slot == SlotOffset(num) .. SlotOffset(num) + I_NODE_BYTES - 1
           block == [b \in Index |-> IF b \in slot THEN inode[b - SlotOffset(num)]
                                     ELSE d[SlotBlock(num)][b]]
<1>6. Entered(d, num, inode) = [d EXCEPT ![SlotBlock(num)] = block]
  BY DEF Entered
<1>7. ASSUME SlotBlock(num) \in Stored PROVE block \in Block
  <2>1. d[SlotBlock(num)] \in [Index -> Byte]
    BY <1>7 DEF Device, Block
  <2>2. \A b \in Index \cap slot : b - SlotOffset(num) \in 0 .. I_NODE_BYTES - 1
    BY <1>1, <1>4 DEF Index
  <2>3. \A b \in Index \cap slot : inode[b - SlotOffset(num)] \in Byte
    <3> HIDE DEF slot
    <3> QED BY <2>2 DEF Inode
  <2> HIDE DEF slot
  <2> QED BY <2>1, <2>3 DEF Block
<1> HIDE DEF block
<1>8. Entered(d, num, inode) \in Device
  BY <1>6, <1>7 DEF Device
<1>9. \A b \in Stored \ {SlotBlock(num)} : Entered(d, num, inode)[b] = d[b]
  BY <1>6 DEF Device
<1> QED BY <1>3, <1>5, <1>8, <1>9

\* write_zone changes a block behind the maps, if any.
LEMMA WritingZone ==
  ASSUME NEW d \in Device, NEW num \in Nat \ {0}, NEW data \in Block
  PROVE  /\ Written(d, num, data) \in Device
         /\ \A b \in Stored : b # FIRSTDATAZONE + num - 1
                                => Written(d, num, data)[b] = d[b]
         /\ FIRSTDATAZONE + num - 1 \in Stored
               => Written(d, num, data)[FIRSTDATAZONE + num - 1] = data
BY DEF Written, Device

\* The ones of a map are in its blocks.
LEMMA SameOnes ==
  ASSUME NEW map \in {imap, zmap}, NEW d \in Device, NEW e \in Device,
         \A b \in MapBlocks(map) : d[b] = e[b]
  PROVE  OnesOf(d, map) = OnesOf(e, map)
BY MapsStored DEF OnesOf, BitOf

\* A scan answers a bit that is 0, or bit_count.
LEMMA OnesRange ==
  ASSUME NEW map \in {imap, zmap}
  PROVE  /\ Ones(map) \subseteq 0 .. map.bit_count - 1
         /\ find_first_zero(map) \in 0 .. map.bit_count
         /\ find_first_zero(map) \notin Ones(map)
<1>1. Ones(map) \subseteq 0 .. map.bit_count - 1
  BY DEF Ones
<1>2. find_first_zero(map) = IMap!find_first_zero(Ones(map), map.bit_count)
  BY FirstZeroLoop
<1> DEFINE zs == (0 .. map.bit_count - 1) \ Ones(map)
<1>3. CASE zs = {}
  <2>1. find_first_zero(map) = map.bit_count
    BY <1>2, <1>3 DEF IMap!find_first_zero, IMap!Bits
  <2> QED BY <1>1, <2>1, MapsStored
<1>4. CASE zs # {}
  <2>1. \E i \in zs : \A j \in zs : i <= j
    <3>1. zs \in SUBSET Nat
      OBVIOUS
    <3> HIDE DEF zs
    <3> QED BY <1>4, <3>1, Bitmaps!LeastNumber
  <2>2. find_first_zero(map) \in zs
    BY <1>2, <1>4, <2>1 DEF IMap!find_first_zero, IMap!Bits
  <2> QED BY <1>1, <2>2, MapsStored
<1> QED BY <1>3, <1>4

-----------------------------------------------------------------------------
(* Type correctness *)

\* What is remembered of an inode bitmap that was cleared, and not used yet.
CleanStart == stage = "zones" => first_zero_index = 0 /\ Ones(imap) = {}

\* ClearZones shows the inode map as it is, where it was empty by definition
\* until then: that it really is empty has to be carried along.
IInv == TypeOK /\ CleanStart

\* The facts about the constants and the sizes of the maps, in one place.
LEMMA Constants ==
  /\ zeros \in Block /\ Super \in Block /\ Contents \subseteq Block
  /\ Inodes \subseteq Inode /\ RootInode \in Inode
  /\ Left \subseteq Device
  /\ ninodes \in 1 .. imap.bit_count
  /\ MaxZone \in 1 .. zmap.bit_count /\ Freed \subseteq 1 .. zmap.bit_count
  /\ imap.bit_count \in Nat \ {0} /\ zmap.bit_count \in Nat \ {0}
<1>1. zeros \in Block
  BY DEF zeros, Block, Byte
<1>2. imap.bit_count \in Nat \ {0} /\ zmap.bit_count \in Nat \ {0}
  BY MapsStored
<1>3. /\ imap.bit_count = IMAP_BLOCKS * BIT_PER_BLOCK
      /\ zmap.bit_count = ZMAP_BLOCKS * BIT_PER_BLOCK
  BY DEF imap, zmap, create_bitmap
<1>4. /\ ninodes \in 1 .. imap.bit_count
      /\ MaxZone \in 1 .. zmap.bit_count /\ Freed \subseteq 1 .. zmap.bit_count
  BY <1>2, <1>3, LayoutAssumption DEF LayoutAssumption
<1>5. Left \subseteq Device
  BY LayoutAssumption DEF LayoutAssumption, Left, Device
<1> QED BY <1>1, <1>2, <1>4, <1>5, LayoutAssumption DEF LayoutAssumption

\* The bytes of an inode on device d.
InodeOf(d, num) ==
  [b \in 0 .. I_NODE_BYTES - 1 |-> d[SlotBlock(num)][SlotOffset(num) + b]]

\* inode.c:98: an inode of the table lies in one block.
LEMMA TableSlot ==
  ASSUME NEW num \in 1 .. ninodes
  PROVE  /\ I_NODE_BYTES \in Nat \ {0}
         /\ SlotOffset(num) \in Nat
         /\ \A b \in 0 .. I_NODE_BYTES - 1 : SlotOffset(num) + b \in Index
<1>1. num \in Nat \ {0} /\ num <= ninodes
  BY Constants
<1>2. /\ I_NODE_BYTES \in Nat \ {0} /\ InodeBlocks \in Nat \ {0}
      /\ ninodes \in Nat /\ ninodes > 0
  BY Constants, LayoutAssumption DEF LayoutAssumption
<1>3. INODES_PER_BLOCK \in Nat
  BY <1>2, PositiveSizes, DivModNat DEF INODES_PER_BLOCK
<1>4. INODES_PER_BLOCK # 0
  BY <1>2, Regions DEF ninodes
<1> DEFINE r == (num - 1) % INODES_PER_BLOCK
<1>5. r \in 0 .. INODES_PER_BLOCK - 1
  <2>1. num - 1 \in Nat
    BY <1>1
  <2> QED BY <2>1, <1>3, <1>4, DivMod
<1>6. INODES_PER_BLOCK * I_NODE_BYTES <= BLOCKSIZE
  <2>1. /\ BLOCKSIZE = I_NODE_BYTES * (BLOCKSIZE \div I_NODE_BYTES)
                       + (BLOCKSIZE % I_NODE_BYTES)
        /\ BLOCKSIZE % I_NODE_BYTES \in Nat
    BY <1>2, PositiveSizes, DivMod
  <2> QED BY <1>2, <1>3, <2>1 DEF INODES_PER_BLOCK
<1>7. r * I_NODE_BYTES + I_NODE_BYTES <= INODES_PER_BLOCK * I_NODE_BYTES
  <2>1. (r + 1) * I_NODE_BYTES = r * I_NODE_BYTES + I_NODE_BYTES
    BY <1>2, <1>5
  <2>2. (INODES_PER_BLOCK - (r + 1)) * I_NODE_BYTES >= 0
    BY <1>2, <1>3, <1>5
  <2>3. (INODES_PER_BLOCK - (r + 1)) * I_NODE_BYTES
          = INODES_PER_BLOCK * I_NODE_BYTES - (r + 1) * I_NODE_BYTES
    BY <1>2, <1>3, <1>5
  <2>4. r * I_NODE_BYTES \in Nat /\ INODES_PER_BLOCK * I_NODE_BYTES \in Nat
    BY <1>2, <1>3, <1>5
  <2> HIDE DEF r
  <2> QED BY <1>2, <2>1, <2>2, <2>3, <2>4
<1>8. SlotOffset(num) \in Nat /\ SlotOffset(num) + I_NODE_BYTES <= BLOCKSIZE
  <2>1. SlotOffset(num) = r * I_NODE_BYTES
    BY DEF SlotOffset
  <2>2. r * I_NODE_BYTES \in Nat /\ INODES_PER_BLOCK * I_NODE_BYTES \in Nat
    BY <1>2, <1>3, <1>5
  <2> HIDE DEF r
  <2> QED BY <1>2, <1>6, <1>7, <2>1, <2>2, PositiveSizes
<1> QED BY <1>2, <1>8, PositiveSizes DEF Index

\* An inode of the table is bytes of one block.
LEMMA ReadingInode ==
  ASSUME NEW d \in Device, NEW num \in 1 .. ninodes
  PROVE  /\ InodeOf(d, num) \in Inode
         /\ SlotBlock(num) \in FIRST_INODE_BLOCK .. FIRST_ZMAP_BLOCK - 1
<1>1. SlotBlock(num) \in FIRST_INODE_BLOCK .. FIRST_ZMAP_BLOCK - 1
  <2>1. RootInode \in Inode /\ num \in Nat \ {0} /\ num <= ninodes
    BY Constants
  <2>2. /\ SlotBlock(num) \in Nat /\ SlotBlock(num) >= FIRST_INODE_BLOCK
        /\ SlotBlock(num) < FIRST_ZMAP_BLOCK
    BY <2>1, Entering
  <2> QED BY <2>2, Regions
<1>2. d[SlotBlock(num)] \in [Index -> Byte]
  <2>1. SlotBlock(num) \in Stored
    BY <1>1, Regions DEF Stored
  <2> QED BY <2>1 DEF Device, Block
<1> QED BY <1>1, <1>2, TableSlot DEF InodeOf, Inode

\* A program that has just started finds blocks and inodes, in any state.
LEMMA InitIInv == Init => IInv
<1> SUFFICES ASSUME Init PROVE IInv
  OBVIOUS
<1>1. disk \in Device
  BY Constants DEF Init
<1>2. saved \in [1 .. ninodes -> Inode]
  BY <1>1, ReadingInode DEF Init, InodeOf, read_inode
<1>3. 0 \in 0 .. imap.bit_count /\ 0 \in 0 .. zmap.bit_count
  BY Constants
<1> QED BY <1>1, <1>2, <1>3 DEF Init, IInv, TypeOK, CleanStart, Device

\* alloc_inode keeps the types, takes the bit of its answer and changes no
\* other bit of the inode bitmap.
LEMMA AllocInodeEffect ==
  ASSUME TypeOK, NEW inode \in Inode, alloc_inode(inode)
  PROVE  /\ disk' \in Device /\ inum' \in 0 .. imap.bit_count
         /\ first_zero_index' \in 0 .. imap.bit_count
         /\ saved' \in [1 .. ninodes -> Inode]
         /\ IMap!find_first_zero(Ones(imap), imap.bit_count) = find_first_zero(imap)
         /\ \/ /\ first_zero_index = imap.bit_count
               /\ find_first_zero(imap) = imap.bit_count
               /\ inum' = 0 /\ disk' = disk
               /\ first_zero_index' = first_zero_index
            \/ \E index \in 0 .. imap.bit_count - 1 :
                  /\ index = IF first_zero_index = imap.bit_count
                             THEN find_first_zero(imap) ELSE first_zero_index
                  /\ inum' = index + 1
                  /\ OnesOf(disk', imap) = Ones(imap) \cup {index}
                  /\ first_zero_index' = imap.bit_count
                  /\ InsideTable(index + 1)
                  /\ \A b \in Stored \ (MapBlocks(imap) \cup {SlotBlock(index + 1)}) :
                        disk'[b] = disk[b]
<1> DEFINE index == IF first_zero_index = imap.bit_count
                    THEN find_first_zero(imap) ELSE first_zero_index
           d == set_bit(imap, index, 1)
<1>0. disk \in Device /\ first_zero_index \in 0 .. imap.bit_count
      /\ saved \in [1 .. ninodes -> Inode]
  BY DEF TypeOK, Device
<1>1. index \in 0 .. imap.bit_count /\ imap.bit_count \in Nat \ {0}
  BY <1>0, OnesRange, Constants
<1>2. IMap!find_first_zero(Ones(imap), imap.bit_count) = find_first_zero(imap)
  BY FirstZeroLoop
<1>3. CASE index = imap.bit_count
  <2>1. inum' = 0 /\ UNCHANGED <<disk, first_zero_index, saved>>
    BY <1>3 DEF alloc_inode
  <2>2. first_zero_index = imap.bit_count
    BY <1>3
  <2> QED BY <1>0, <1>1, <1>2, <1>3, <2>1, <2>2
<1>4. CASE index # imap.bit_count
  <2>1. /\ inum' = index + 1 /\ InsideTable(index + 1)
        /\ disk' = Entered(d, index + 1, inode)
        /\ saved' = WithSaved(index + 1, inode)
        /\ first_zero_index' = imap.bit_count
    BY <1>4 DEF alloc_inode
  <2>2. index \in 0 .. imap.bit_count - 1
    BY <1>1, <1>4
  <2> HIDE DEF index
  <2>3. /\ d \in Device
        /\ \A b \in Stored \ MapBlocks(imap) : d[b] = disk[b]
        /\ OnesOf(d, imap) = OnesOf(disk, imap) \cup {index}
    BY <1>0, <2>2, SetBit
  <2> HIDE DEF d
  <2>a. index + 1 \in Nat \ {0}
    BY <2>2, Constants
  <2>4. /\ disk' \in Device
        /\ SlotBlock(index + 1) \in Nat /\ SlotBlock(index + 1) >= FIRST_INODE_BLOCK
        /\ \A b \in Stored \ {SlotBlock(index + 1)} : disk'[b] = d[b]
    BY <2>1, <2>3, <2>a, Entering
  <2>5. \A b \in MapBlocks(imap) : disk'[b] = d[b]
    <3>1. \A b \in MapBlocks(imap) : b \in Stored /\ b # SlotBlock(index + 1)
      BY <2>4, Regions, MapsStored
    <3> QED BY <3>1, <2>4
  <2>6. OnesOf(disk', imap) = Ones(imap) \cup {index}
    BY <2>3, <2>4, <2>5, SameOnes, OnesAre
  <2>7. saved' \in [1 .. ninodes -> Inode]
    BY <1>0, <2>1 DEF WithSaved
  <2>8. inum' \in 0 .. imap.bit_count /\ first_zero_index' \in 0 .. imap.bit_count
    BY <1>1, <2>1, <2>2
  <2>9. \A b \in Stored \ (MapBlocks(imap) \cup {SlotBlock(index + 1)}) :
          disk'[b] = disk[b]
    BY <2>3, <2>4
  <2> QED BY <1>2, <2>1, <2>2, <2>4, <2>6, <2>7, <2>8, <2>9 DEF index
<1> QED BY <1>3, <1>4

\* alloc_zone keeps the types, takes the bit of its answer, zeroes the zone and
\* changes nothing else.
LEMMA AllocZoneEffect ==
  ASSUME TypeOK, AllocZone
  PROVE  /\ disk' \in Device /\ znum' \in 0 .. zmap.bit_count
         /\ last_free_zone_num' \in 0 .. zmap.bit_count
         /\ IMap!find_first_zero(Ones(zmap), zmap.bit_count) = find_first_zero(zmap)
         /\ \/ /\ last_free_zone_num = 0 /\ find_first_zero(zmap) = zmap.bit_count
               /\ znum' = 0 /\ disk' = disk
               /\ last_free_zone_num' = last_free_zone_num
            \/ \E index \in 0 .. zmap.bit_count - 1 :
                  /\ index = IF last_free_zone_num = 0 THEN find_first_zero(zmap)
                             ELSE last_free_zone_num - 1
                  /\ znum' = index + 1 /\ last_free_zone_num' = 0
                  /\ OnesOf(disk', zmap) = Ones(zmap) \cup {index}
                  /\ \A b \in Stored \ MapBlocks(zmap) :
                        disk'[b] = IF b = FIRSTDATAZONE + index THEN zeros ELSE disk[b]
<1> DEFINE index == IF last_free_zone_num = 0 THEN find_first_zero(zmap)
                    ELSE last_free_zone_num - 1
           d == set_bit(zmap, index, 1)
<1>0. disk \in Device /\ last_free_zone_num \in 0 .. zmap.bit_count
  BY DEF TypeOK, Device
<1>1. index \in 0 .. zmap.bit_count /\ zmap.bit_count \in Nat \ {0}
  BY <1>0, OnesRange, Constants
<1>2. IMap!find_first_zero(Ones(zmap), zmap.bit_count) = find_first_zero(zmap)
  BY FirstZeroLoop
<1>3. CASE last_free_zone_num = 0 /\ index = zmap.bit_count
  <2>1. znum' = 0 /\ UNCHANGED <<disk, last_free_zone_num>>
    BY <1>3 DEF AllocZone
  <2> QED BY <1>0, <1>1, <1>2, <1>3, <2>1
<1>4. CASE ~ (last_free_zone_num = 0 /\ index = zmap.bit_count)
  <2>1. /\ znum' = index + 1 /\ last_free_zone_num' = 0
        /\ disk' = Written(d, index + 1, zeros)
    BY <1>4 DEF AllocZone
  <2>2. index \in 0 .. zmap.bit_count - 1
    BY <1>0, <1>1, <1>4
  <2> HIDE DEF index
  <2>3. /\ d \in Device
        /\ \A b \in Stored \ MapBlocks(zmap) : d[b] = disk[b]
        /\ OnesOf(d, zmap) = OnesOf(disk, zmap) \cup {index}
    BY <1>0, <2>2, SetBit
  <2> HIDE DEF d
  <2>4. index + 1 \in Nat \ {0} /\ zeros \in Block
        /\ FIRSTDATAZONE + (index + 1) - 1 = FIRSTDATAZONE + index
    BY <2>2, Constants, Regions
  <2>5. /\ disk' \in Device
        /\ \A b \in Stored : b # FIRSTDATAZONE + index => disk'[b] = d[b]
        /\ FIRSTDATAZONE + index \in Stored => disk'[FIRSTDATAZONE + index] = zeros
    BY <2>1, <2>3, <2>4, WritingZone
  <2>6. \A b \in MapBlocks(zmap) : disk'[b] = d[b]
    <3>1. \A b \in MapBlocks(zmap) : b \in Stored /\ b # FIRSTDATAZONE + index
      BY <2>2, Regions, MapsStored
    <3> QED BY <3>1, <2>5
  <2>7. OnesOf(disk', zmap) = Ones(zmap) \cup {index}
    BY <2>3, <2>5, <2>6, SameOnes, OnesAre
  <2>8. znum' \in 0 .. zmap.bit_count /\ last_free_zone_num' \in 0 .. zmap.bit_count
    BY <1>1, <2>1, <2>2
  <2>9. \A b \in Stored \ MapBlocks(zmap) :
          disk'[b] = IF b = FIRSTDATAZONE + index THEN zeros ELSE disk[b]
    BY <2>3, <2>5
  <2> QED BY <1>2, <2>1, <2>2, <2>5, <2>7, <2>8, <2>9 DEF index
<1> QED BY <1>3, <1>4

\* The ones of a map in the next state are those of the blocks then.
LEMMA OnesNext ==
  Ones(imap)' = OnesOf(disk', imap) /\ Ones(zmap)' = OnesOf(disk', zmap)
BY DEF Ones, OnesOf, get_bit, BitOf, At, imap, zmap, create_bitmap

\* Every operation, step of my_mkfs and restart keeps the invariant.
LEMMA NextIInv == IInv /\ [Next]_vars => IInv'
<1> SUFFICES ASSUME IInv, [Next]_vars PROVE IInv'
  OBVIOUS
<1>0. /\ TypeOK /\ disk \in Device
      /\ first_zero_index \in 0 .. imap.bit_count /\ inum \in 0 .. imap.bit_count
      /\ last_free_zone_num \in 0 .. zmap.bit_count /\ znum \in 0 .. zmap.bit_count
      /\ saved \in [1 .. ninodes -> Inode]
  BY DEF IInv, TypeOK, Device
<1> USE DEF device
<1>1. CASE AllocInode
  <2>1. PICK inode \in Inodes : alloc_inode(inode)
    BY <1>1 DEF AllocInode
  <2>2. inode \in Inode
    BY Constants
  <2>3. /\ disk' \in Device /\ inum' \in 0 .. imap.bit_count
        /\ first_zero_index' \in 0 .. imap.bit_count
        /\ saved' \in [1 .. ninodes -> Inode]
    BY <1>0, <2>1, <2>2, AllocInodeEffect
  <2> QED BY <1>0, <1>1, <2>3 DEF AllocInode, IInv, TypeOK, CleanStart, Device
<1>2. CASE AllocZone
  <2>1. /\ disk' \in Device /\ znum' \in 0 .. zmap.bit_count
        /\ last_free_zone_num' \in 0 .. zmap.bit_count
    BY <1>0, <1>2, AllocZoneEffect
  <2> QED BY <1>0, <1>2, <2>1 DEF AllocZone, IInv, TypeOK, CleanStart, Device
<1>3. ASSUME NEW n \in 1 .. ninodes, FreeInode(n) PROVE IInv'
  <2>1. n - 1 \in 0 .. imap.bit_count - 1
    BY Constants
  <2>2. disk' \in Device
    BY <1>0, <1>3, <2>1, SetBit DEF FreeInode
  <2>3. first_zero_index' \in 0 .. imap.bit_count
    BY <1>0, <1>3, <2>1, Constants DEF FreeInode
  <2> QED BY <1>0, <1>3, <2>2, <2>3 DEF FreeInode, IInv, TypeOK, CleanStart, Device
<1>4. ASSUME NEW n \in 1 .. ninodes, NEW i \in Inodes, WriteInode(n, i) PROVE IInv'
  <2>1. n \in Nat \ {0} /\ i \in Inode
    BY Constants
  <2>2. disk' \in Device
    BY <1>0, <1>4, <2>1, Entering DEF WriteInode
  <2>3. saved' \in [1 .. ninodes -> Inode]
    BY <1>0, <1>4, <2>1 DEF WriteInode, WithSaved
  <2> QED BY <1>0, <1>4, <2>2, <2>3 DEF WriteInode, IInv, TypeOK, CleanStart, Device
<1>5. ASSUME NEW n \in Freed, FreeZone(n) PROVE IInv'
  <2>1. n - 1 \in 0 .. zmap.bit_count - 1 /\ n \in 0 .. zmap.bit_count
    BY Constants
  <2>2. disk' \in Device
    BY <1>0, <1>5, <2>1, SetBit DEF FreeZone
  <2> QED BY <1>0, <1>5, <2>1, <2>2 DEF FreeZone, IInv, TypeOK, CleanStart, Device
<1>6. ASSUME NEW n \in 1 .. MaxZone, NEW c \in Contents, WriteZone(n, c) PROVE IInv'
  <2>1. n \in Nat \ {0} /\ c \in Block
    BY Constants
  <2>2. disk' \in Device
    BY <1>0, <1>6, <2>1, WritingZone DEF WriteZone
  <2> QED BY <1>0, <1>6, <2>2 DEF WriteZone, IInv, TypeOK, CleanStart, Device
<1>7. CASE NoStat
  BY <1>0, <1>7 DEF NoStat, IInv, TypeOK, CleanStart
<1>8. CASE WriteSuper
  <2>1. disk' \in Device
    BY <1>0, <1>8, Constants DEF WriteSuper, Device
  <2>2. /\ fd' \in {-1, 0} /\ devsize' \in {0, DevBlocks}
        /\ stage' \in {"blind", "maps"}
    BY <1>0, <1>8 DEF WriteSuper, TypeOK
  <2> QED BY <1>0, <1>8, <2>1, <2>2 DEF WriteSuper, IInv, TypeOK, CleanStart, Device
<1>9. CASE InitMaps
  <2>1. first_zero_index' \in 0 .. imap.bit_count
    BY <1>9, OnesRange DEF InitMaps
  <2> QED BY <1>0, <1>9, <2>1 DEF InitMaps, IInv, TypeOK, CleanStart
<1>10. CASE ClearInodes
  <2>1. disk' \in Device /\ OnesOf(disk', imap) = {}
    BY <1>0, <1>10, ClearBits DEF ClearInodes
  <2>2. 0 \in 0 .. imap.bit_count
    BY Constants
  <2> QED BY <1>0, <1>10, <2>1, <2>2, OnesNext
          DEF ClearInodes, IInv, TypeOK, CleanStart, Device
<1>11. CASE ClearZones
  <2>1. disk' \in Device
    BY <1>0, <1>11, ClearBits DEF ClearZones
  <2> QED BY <1>0, <1>11, <2>1 DEF ClearZones, IInv, TypeOK, CleanStart, Device
<1>12. CASE MakeRoot
  <2>1. RootInode \in Inode /\ alloc_inode(RootInode)
    BY <1>12, Constants DEF MakeRoot
  <2>2. /\ disk' \in Device /\ inum' \in 0 .. imap.bit_count
        /\ first_zero_index' \in 0 .. imap.bit_count
        /\ saved' \in [1 .. ninodes -> Inode]
    BY <1>0, <2>1, AllocInodeEffect
  <2> QED BY <1>0, <1>12, <2>2 DEF MakeRoot, IInv, TypeOK, CleanStart, Device
<1>13. CASE Restart
  <2>1. disk' \in Device
    BY <1>13, Constants DEF Restart
  <2>2. saved' \in [1 .. ninodes -> Inode]
    <3>1. \A n \in 1 .. ninodes : read_inode(n)' \in Inode
      BY <2>1, ReadingInode DEF read_inode, InodeOf
    <3> QED BY <1>13, <3>1 DEF Restart
  <2>3. 0 \in 0 .. imap.bit_count /\ 0 \in 0 .. zmap.bit_count
    BY Constants
  <2> QED BY <1>0, <1>13, <2>1, <2>2, <2>3
          DEF Restart, Started, IInv, TypeOK, CleanStart, Device
<1>14. CASE UNCHANGED vars
  BY <1>0, <1>14, OnesAre, OnesNext DEF vars, IInv, TypeOK, CleanStart
<1> QED
  BY <1>1, <1>2, <1>3, <1>4, <1>5, <1>6, <1>7, <1>8, <1>9, <1>10, <1>11, <1>12,
     <1>13, <1>14 DEF Next

\* The invariant holds of every state.
LEMMA SpecIInv == Spec => []IInv
BY InitIInv, NextIInv, PTL DEF Spec

\* Every state of the device and of the library's variables is well-typed: in
\* particular no bit, slot or zone is written outside its block.
THEOREM LayoutTypeCorrect == Spec => []TypeOK
<1>1. IInv => TypeOK
  BY DEF IInv
<1> QED BY <1>1, SpecIInv, PTL

-----------------------------------------------------------------------------
(* Refinement *)

\* A step that leaves the blocks of a map alone leaves its ones.
LEMMA MapUntouched ==
  ASSUME disk \in Device, disk' \in Device, NEW map \in {imap, zmap},
         \A b \in MapBlocks(map) : disk'[b] = disk[b]
  PROVE  OnesOf(disk', map) = Ones(map)
BY SameOnes, OnesAre

\* Writing to the table or to zones leaves the inode map as it is.
LEMMA InodeMapUntouched ==
  ASSUME IInv, IInv',
         \/ \E n \in 1 .. ninodes, i \in Inodes : WriteInode(n, i)
         \/ \E n \in Freed : FreeZone(n)
         \/ \E n \in 1 .. MaxZone, c \in Contents : WriteZone(n, c)
         \/ AllocZone \/ ClearZones
  PROVE  Ones(imap)' = Ones(imap)
<1>0. disk \in Device /\ disk' \in Device /\ TypeOK
  BY DEF IInv, TypeOK, Device
<1>1. \A b \in MapBlocks(imap) : b \in Stored /\ b \notin MapBlocks(zmap)
                                /\ b < FIRST_INODE_BLOCK /\ b < FIRSTDATAZONE
  BY Regions, MapsStored
<1>2. SUFFICES \A b \in MapBlocks(imap) : disk'[b] = disk[b]
  BY <1>0, MapUntouched, OnesNext
<1>3. ASSUME NEW n \in 1 .. ninodes, NEW i \in Inodes, WriteInode(n, i)
      PROVE  \A b \in MapBlocks(imap) : disk'[b] = disk[b]
  <2>1. n \in Nat \ {0} /\ i \in Inode
    BY Constants
  <2>2. /\ SlotBlock(n) >= FIRST_INODE_BLOCK /\ SlotBlock(n) \in Nat
        /\ \A b \in Stored \ {SlotBlock(n)} : disk'[b] = disk[b]
    BY <1>0, <1>3, <2>1, Entering DEF WriteInode
  <2> QED BY <1>1, <2>2, Regions
<1>4. ASSUME NEW n \in Freed, FreeZone(n)
      PROVE  \A b \in MapBlocks(imap) : disk'[b] = disk[b]
  <2>1. n - 1 \in 0 .. zmap.bit_count - 1
    BY Constants
  <2>2. \A b \in Stored \ MapBlocks(zmap) : disk'[b] = disk[b]
    BY <1>0, <1>4, <2>1, SetBit DEF FreeZone
  <2> QED BY <1>1, <2>2
<1>5. ASSUME NEW n \in 1 .. MaxZone, NEW c \in Contents, WriteZone(n, c)
      PROVE  \A b \in MapBlocks(imap) : disk'[b] = disk[b]
  <2>1. n \in Nat \ {0} /\ c \in Block
    BY Constants
  <2>2. \A b \in Stored : b # FIRSTDATAZONE + n - 1 => disk'[b] = disk[b]
    BY <1>0, <1>5, <2>1, WritingZone DEF WriteZone
  <2> QED BY <1>1, <2>1, <2>2, Regions
<1>6. CASE AllocZone
  <2>1. \/ disk' = disk
        \/ \E index \in 0 .. zmap.bit_count - 1 :
              \A b \in Stored \ MapBlocks(zmap) :
                 disk'[b] = IF b = FIRSTDATAZONE + index THEN zeros ELSE disk[b]
    BY <1>0, <1>6, AllocZoneEffect
  <2> QED BY <1>1, <2>1, Regions, Constants
<1>7. CASE ClearZones
  <2>1. \A b \in Stored \ MapBlocks(zmap) : disk'[b] = disk[b]
    BY <1>0, <1>7, ClearBits DEF ClearZones
  <2> QED BY <1>1, <2>1
<1> QED BY <1>3, <1>4, <1>5, <1>6, <1>7

\* alloc_inode on the device is alloc_inode of the inode map.
LEMMA AllocInodeRefines ==
  ASSUME IInv, Live, Live', NEW inode \in Inode, alloc_inode(inode)
  PROVE  IMap!Next
<1>0. TypeOK /\ imap.bit_count \in Nat \ {0}
  BY Constants DEF IInv
<1>1. IMap!Number = 1 .. imap.bit_count
  BY DEF IMap!Number
<1>2. IMap!find_first_zero(Ones(imap), imap.bit_count) = find_first_zero(imap)
  BY <1>0, AllocInodeEffect
<1>3. CASE /\ first_zero_index = imap.bit_count
           /\ find_first_zero(imap) = imap.bit_count
           /\ inum' = 0 /\ disk' = disk
           /\ first_zero_index' = first_zero_index
  <2>1. Ones(imap)' = Ones(imap)
    BY <1>3, OnesAre, OnesNext
  <2>2. IMap!AllocFails(0)
    BY <1>2, <1>3, <2>1 DEF IMap!AllocFails, Live
  <2> QED BY <1>3, <2>2 DEF IMap!Next, IMap!alloc_inode
<1>4. ASSUME NEW index \in 0 .. imap.bit_count - 1,
             index = IF first_zero_index = imap.bit_count
                     THEN find_first_zero(imap) ELSE first_zero_index,
             inum' = index + 1,
             OnesOf(disk', imap) = Ones(imap) \cup {index},
             first_zero_index' = imap.bit_count
      PROVE  IMap!Next
  <2>1. Ones(imap)' = Ones(imap) \cup {index}
    BY <1>4, OnesNext
  <2>2. index + 1 \in IMap!Number /\ index # imap.bit_count
    BY <1>0, <1>1
  <2>3. IMap!alloc_inode(index + 1)
    <3>1. CASE first_zero_index = imap.bit_count
      <4>1. IMap!AllocByScan(index + 1)
        BY <1>2, <1>4, <2>1, <2>2, <3>1 DEF IMap!AllocByScan, Live
      <4> QED BY <4>1 DEF IMap!alloc_inode
    <3>2. CASE first_zero_index # imap.bit_count
      <4>1. IMap!AllocByHint(index + 1)
        BY <1>4, <2>1, <3>2 DEF IMap!AllocByHint, Live
      <4> QED BY <4>1 DEF IMap!alloc_inode
    <3> QED BY <3>1, <3>2
  <2> QED BY <1>4, <2>2, <2>3 DEF IMap!Next
<1> QED
  <2> HIDE DEF Live
  <2> QED BY <1>0, <1>3, <1>4, AllocInodeEffect

\* For every geometry, and whatever earlier programs left on the device, the
\* bits in the blocks of the inode bitmap are the inode map of InodeMap: also
\* with inode numbers beyond the table.
THEOREM LayoutImplementsInodeMap == Spec => ImplementsInodeMap
<1>1. Init => IMap!Init
  BY DEF Init, Live, IMap!Init
<1>2. IInv /\ IInv' /\ [Next]_vars => [IMap!Next]_IMap!vars
  <2> SUFFICES ASSUME IInv, IInv', [Next]_vars
               PROVE  [IMap!Next]_IMap!vars
    OBVIOUS
  <2> USE DEF Live
  <2>1. ASSUME NEW n \in 1 .. ninodes, FreeInode(n) PROVE IMap!Next
    <3>1. n - 1 \in 0 .. imap.bit_count - 1 /\ n \in IMap!Number
      BY Constants DEF IMap!Number
    <3>2. Ones(imap)' = Ones(imap) \ {n - 1}
      <4>1. disk \in Device
        BY DEF IInv, TypeOK, Device
      <4>2. OnesOf(disk', imap) = OnesOf(disk, imap) \ {n - 1}
        BY <2>1, <3>1, <4>1, SetBit DEF FreeInode
      <4> QED BY <4>2, OnesAre, OnesNext
    <3>3. IMap!free_inode(n)
      BY <2>1, <3>2 DEF FreeInode, IMap!free_inode
    <3> QED BY <2>1, <3>1, <3>3 DEF IMap!Next, FreeInode
  <2>2. CASE AllocInode \/ MakeRoot
    <3>1. PICK inode \in Inode : alloc_inode(inode)
      BY <2>2, Constants DEF AllocInode, MakeRoot
    <3>2. Live /\ Live'
      BY <2>2 DEF AllocInode, MakeRoot
    <3> QED BY <3>1, <3>2, AllocInodeRefines
  <2>3. CASE \/ \E n \in 1 .. ninodes, i \in Inodes : WriteInode(n, i)
             \/ \E n \in Freed : FreeZone(n)
             \/ \E n \in 1 .. MaxZone, c \in Contents : WriteZone(n, c)
             \/ AllocZone
    <3>1. Ones(imap)' = Ones(imap)
      BY <2>3, InodeMapUntouched
    <3>2. UNCHANGED <<stage, first_zero_index, inum>>
      BY <2>3 DEF WriteInode, FreeZone, WriteZone, AllocZone
    <3> QED BY <3>1, <3>2 DEF IMap!vars
  <2>4. CASE ClearZones
    <3>1. Ones(imap)' = Ones(imap)
      BY <2>4, InodeMapUntouched
    <3>2. Ones(imap) = {} /\ first_zero_index = 0
      BY <2>4 DEF ClearZones, IInv, CleanStart
    <3> QED BY <2>4, <3>1, <3>2 DEF ClearZones, IMap!vars
  <2>5. CASE NoStat \/ WriteSuper \/ InitMaps \/ ClearInodes \/ Restart
    <3>1. stage' \notin {"root", "ready"} /\ inum' = inum
      BY <2>5 DEF NoStat, WriteSuper, InitMaps, ClearInodes, Restart, Started
    <3>2. IMap!clear_inodes
      BY <3>1 DEF IMap!clear_inodes
    <3> QED BY <3>1, <3>2 DEF IMap!Next
  <2>6. CASE UNCHANGED vars
    <3>1. Ones(imap)' = Ones(imap)
      BY <2>6, OnesAre, OnesNext DEF vars
    <3> QED BY <2>6, <3>1 DEF vars, IMap!vars
  <2> QED
    BY <2>1, <2>2, <2>3, <2>4, <2>5, <2>6 DEF Next
<1> QED
  BY <1>1, <1>2, SpecIInv, PTL DEF Spec, ImplementsInodeMap, IMap!Spec

-----------------------------------------------------------------------------
(* Refinement: zones *)

\* The zones that are on device d.
ZonesOf(d) == [n \in 1 .. DeviceZones |-> d[FIRSTDATAZONE + n - 1]]

\* The zones the zone map is shown, now and in the next state.
LEMMA ZonesAre ==
  /\ [n \in 1 .. DeviceZones |-> read_zone(n)] = ZonesOf(disk)
  /\ [n \in 1 .. DeviceZones |-> read_zone(n)]' = ZonesOf(disk')
BY DEF ZonesOf, read_zone, DeviceZones, FIRSTDATAZONE, FIRST_ZMAP_BLOCK,
       FIRST_INODE_BLOCK, FIRST_IMAP_BLOCK

\* A zone number is one of a block behind the maps, and of a block of the
\* device exactly if it is at most the number of zones there.
LEMMA ZoneBlock ==
  /\ DeviceZones \in Nat \ {0}
  /\ \A n \in Nat \ {0} : /\ FIRSTDATAZONE + n - 1 \in Nat
                          /\ FIRSTDATAZONE + n - 1 \in Stored
                               <=> n \in 1 .. DeviceZones
                          /\ FIRSTDATAZONE + n - 1 \notin MapBlocks(zmap)
                          /\ FIRSTDATAZONE + n - 1 \notin MapBlocks(imap)
  /\ \A m, n \in Nat \ {0} :
        FIRSTDATAZONE + m - 1 = FIRSTDATAZONE + n - 1 <=> m = n
<1>1. DeviceZones = DevBlocks - FIRSTDATAZONE
  BY DEF DeviceZones
<1> QED BY <1>1, Regions DEF Stored

\* What happens in front of the zone map leaves the zone map and the zones.
LEMMA InFront ==
  ASSUME disk \in Device, disk' \in Device,
         \A b \in Stored : b >= FIRST_ZMAP_BLOCK => disk'[b] = disk[b]
  PROVE  /\ Ones(zmap)' = Ones(zmap)
         /\ ZonesOf(disk') = ZonesOf(disk)
<1>1. \A b \in MapBlocks(zmap) : b \in Stored /\ b >= FIRST_ZMAP_BLOCK
  BY Regions, MapsStored
<1>2. Ones(zmap)' = Ones(zmap)
  BY <1>1, MapUntouched, OnesNext
<1>3. \A n \in 1 .. DeviceZones : /\ FIRSTDATAZONE + n - 1 \in Stored
                                  /\ FIRSTDATAZONE + n - 1 >= FIRST_ZMAP_BLOCK
  BY ZoneBlock, Regions
<1> QED BY <1>2, <1>3 DEF ZonesOf

\* alloc_inode, free_inode and write_inode write in front of the zone map, as
\* long as inode numbers are inside the table.
LEMMA InodesInFront ==
  ASSUME IInv, IInv', "inside" \in Habits,
         \/ \E inode \in Inode : alloc_inode(inode)
         \/ \E n \in 1 .. ninodes : FreeInode(n)
         \/ \E n \in 1 .. ninodes, i \in Inodes : WriteInode(n, i)
  PROVE  \A b \in Stored : b >= FIRST_ZMAP_BLOCK => disk'[b] = disk[b]
<1>0. TypeOK /\ disk \in Device
  BY DEF IInv, TypeOK, Device
<1>1. \A b \in Stored : b >= FIRST_ZMAP_BLOCK => b \notin MapBlocks(imap)
  BY Regions
<1>2. ASSUME NEW inode \in Inode, alloc_inode(inode)
      PROVE  \A b \in Stored : b >= FIRST_ZMAP_BLOCK => disk'[b] = disk[b]
  <2>1. CASE disk' = disk
    BY <2>1
  <2>2. ASSUME NEW index \in 0 .. imap.bit_count - 1, InsideTable(index + 1),
               \A b \in Stored \ (MapBlocks(imap) \cup {SlotBlock(index + 1)}) :
                  disk'[b] = disk[b]
        PROVE  \A b \in Stored : b >= FIRST_ZMAP_BLOCK => disk'[b] = disk[b]
    <3>1. index + 1 \in Nat \ {0} /\ index + 1 <= ninodes
      BY <2>2, Constants DEF InsideTable
    <3>2. SlotBlock(index + 1) \in Nat /\ SlotBlock(index + 1) < FIRST_ZMAP_BLOCK
      BY <1>0, <3>1, Constants, Entering
    <3> QED BY <1>1, <2>2, <3>2, Regions DEF Stored
  <2> QED BY <1>0, <1>2, <2>1, <2>2, AllocInodeEffect
<1>3. ASSUME NEW n \in 1 .. ninodes, FreeInode(n)
      PROVE  \A b \in Stored : b >= FIRST_ZMAP_BLOCK => disk'[b] = disk[b]
  <2>1. n - 1 \in 0 .. imap.bit_count - 1
    BY Constants
  <2> QED BY <1>0, <1>1, <1>3, <2>1, SetBit DEF FreeInode
<1>4. ASSUME NEW n \in 1 .. ninodes, NEW i \in Inodes, WriteInode(n, i)
      PROVE  \A b \in Stored : b >= FIRST_ZMAP_BLOCK => disk'[b] = disk[b]
  <2>1. n \in Nat \ {0} /\ n <= ninodes /\ i \in Inode
    BY Constants
  <2>2. /\ SlotBlock(n) \in Nat /\ SlotBlock(n) < FIRST_ZMAP_BLOCK
        /\ \A b \in Stored \ {SlotBlock(n)} : disk'[b] = disk[b]
    BY <1>0, <1>4, <2>1, Entering DEF WriteInode
  <2> QED BY <2>2, Regions DEF Stored
<1> QED BY <1>2, <1>3, <1>4

\* alloc_zone on the device is alloc_zone of the zone map.
LEMMA AllocZoneRefines ==
  ASSUME IInv, AllocZone
  PROVE  ZMap!Next
<1>0. TypeOK /\ disk \in Device /\ zmap.bit_count \in Nat \ {0}
      /\ last_free_zone_num \in 0 .. zmap.bit_count
  BY Constants DEF IInv, TypeOK, Device
<1>1. ZMap!Number = 1 .. zmap.bit_count
  BY DEF ZMap!Number
<1>2. ZMap!find_first_zero(Ones(zmap), zmap.bit_count) = find_first_zero(zmap)
  BY <1>0, AllocZoneEffect DEF ZMap!find_first_zero, IMap!find_first_zero,
     ZMap!Bits, IMap!Bits
<1>3. Live /\ Live' /\ ZMap!Stored = 1 .. DeviceZones
  BY DEF AllocZone, Live, ZMap!Stored
<1>4. CASE /\ last_free_zone_num = 0
           /\ find_first_zero(zmap) = zmap.bit_count
           /\ znum' = 0 /\ disk' = disk
           /\ last_free_zone_num' = last_free_zone_num
  <2>1. Ones(zmap)' = Ones(zmap)
    BY <1>4, OnesAre, OnesNext
  <2>2. ZonesOf(disk') = ZonesOf(disk)
    BY <1>4
  <2>3. ZMap!AllocFails(0)
    BY <1>2, <1>3, <1>4, <2>1, <2>2, ZonesAre DEF ZMap!AllocFails
  <2> QED BY <1>4, <2>3 DEF ZMap!Next, ZMap!alloc_zone
<1>5. ASSUME NEW index \in 0 .. zmap.bit_count - 1,
             index = IF last_free_zone_num = 0
                     THEN find_first_zero(zmap) ELSE last_free_zone_num - 1,
             znum' = index + 1, last_free_zone_num' = 0,
             OnesOf(disk', zmap) = Ones(zmap) \cup {index},
             \A b \in Stored \ MapBlocks(zmap) :
                disk'[b] = IF b = FIRSTDATAZONE + index THEN zeros ELSE disk[b]
      PROVE  ZMap!Next
  <2>1. Ones(zmap)' = Ones(zmap) \cup {index}
    BY <1>5, OnesNext
  <2>2. /\ index + 1 \in ZMap!Number /\ index # zmap.bit_count
        /\ (index + 1) - 1 = index /\ index + 1 \in Nat \ {0}
    BY <1>0, <1>1
  <2>3. \A n \in 1 .. DeviceZones :
          disk'[FIRSTDATAZONE + n - 1]
             = IF n = index + 1 THEN zeros ELSE disk[FIRSTDATAZONE + n - 1]
    <3>1. TAKE n \in 1 .. DeviceZones
    <3>2. n \in Nat \ {0}
      BY ZoneBlock
    <3>3. FIRSTDATAZONE + n - 1 \in Stored \ MapBlocks(zmap)
      BY <3>2, ZoneBlock
    <3>4. FIRSTDATAZONE + n - 1 = FIRSTDATAZONE + index <=> n = index + 1
      BY <3>2, <2>2, Regions
    <3> QED BY <1>5, <3>3, <3>4
  <2>4. ZonesOf(disk') = IF index + 1 \in 1 .. DeviceZones
                         THEN [ZonesOf(disk) EXCEPT ![index + 1] = zeros]
                         ELSE ZonesOf(disk)
    BY <2>3 DEF ZonesOf
  <2>5. ZMap!Take(index + 1)
    BY <1>3, <2>1, <2>2, <2>4, ZonesAre DEF ZMap!Take, ZMap!Written
  <2>6. ZMap!alloc_zone(index + 1)
    <3>1. CASE last_free_zone_num = 0
      <4>1. ZMap!AllocByScan(index + 1)
        BY <1>2, <1>3, <1>5, <2>2, <2>5, <3>1 DEF ZMap!AllocByScan
      <4> QED BY <4>1 DEF ZMap!alloc_zone
    <3>2. CASE last_free_zone_num # 0
      <4>1. index + 1 = last_free_zone_num
        BY <1>0, <1>5, <3>2
      <4>2. ZMap!AllocByHint(index + 1)
        BY <1>5, <2>5, <3>2, <4>1 DEF ZMap!AllocByHint
      <4> QED BY <4>2 DEF ZMap!alloc_zone
    <3> QED BY <3>1, <3>2
  <2> QED BY <1>5, <2>2, <2>6 DEF ZMap!Next
<1> QED BY <1>0, <1>4, <1>5, AllocZoneEffect

\* For every geometry: the bits in the blocks of the zone bitmap and the blocks
\* behind it are the zone map and the zones of ZoneMap, for clients with no
\* more files than the inode table has room for (see MCTableEnd).
THEOREM LayoutImplementsZoneMap ==
  ASSUME "inside" \in Habits
  PROVE  Spec => ImplementsZoneMap
<1>0. ZMap!Stored = 1 .. DeviceZones /\ ZMap!Number = 1 .. zmap.bit_count
  BY DEF ZMap!Stored, ZMap!Number
<1> DEFINE C == Contents \cup {zeros} \cup UNION {Leftovers[b] : b \in Stored}
<1>1. \A d \in Left : ZonesOf(d) \in [1 .. DeviceZones -> C]
  <2>1. \A n \in 1 .. DeviceZones : FIRSTDATAZONE + n - 1 \in Stored
    BY ZoneBlock
  <2> QED BY <2>1 DEF Left, ZonesOf
<1>2. Init => ZMap!Init
  BY <1>0, <1>1, ZonesAre DEF Init, Live, ZMap!Init
<1>3. IInv /\ IInv' /\ [Next]_vars => [ZMap!Next]_ZMap!vars
  <2> SUFFICES ASSUME IInv, IInv', [Next]_vars
               PROVE  [ZMap!Next]_ZMap!vars
    OBVIOUS
  <2>0. TypeOK /\ disk \in Device /\ disk' \in Device
    BY DEF IInv, TypeOK, Device
  <2>1. CASE AllocZone
    BY <2>1, AllocZoneRefines
  <2>2. CASE \/ AllocInode \/ MakeRoot
             \/ \E n \in 1 .. ninodes : FreeInode(n)
             \/ \E n \in 1 .. ninodes, i \in Inodes : WriteInode(n, i)
    <3>1. \A b \in Stored : b >= FIRST_ZMAP_BLOCK => disk'[b] = disk[b]
      BY <2>2, InodesInFront, Constants DEF AllocInode, MakeRoot
    <3>2. Ones(zmap)' = Ones(zmap) /\ ZonesOf(disk') = ZonesOf(disk)
      BY <2>0, <3>1, InFront
    <3>3. Live /\ Live' /\ UNCHANGED <<last_free_zone_num, znum>>
      BY <2>2 DEF AllocInode, MakeRoot, FreeInode, WriteInode, Live
    <3> QED BY <3>2, <3>3, ZonesAre DEF ZMap!vars
  <2>3. ASSUME NEW n \in Freed, FreeZone(n) PROVE ZMap!Next
    <3>1. n - 1 \in 0 .. zmap.bit_count - 1 /\ n \in ZMap!Number
      BY <1>0, Constants
    <3>2. /\ Ones(zmap)' = Ones(zmap) \ {n - 1}
          /\ \A b \in Stored \ MapBlocks(zmap) : disk'[b] = disk[b]
      <4>1. /\ OnesOf(disk', zmap) = OnesOf(disk, zmap) \ {n - 1}
            /\ \A b \in Stored \ MapBlocks(zmap) : disk'[b] = disk[b]
        BY <2>0, <2>3, <3>1, SetBit DEF FreeZone
      <4> QED BY <4>1, OnesAre, OnesNext
    <3>3. ZonesOf(disk') = ZonesOf(disk)
      <4>1. \A m \in 1 .. DeviceZones :
              FIRSTDATAZONE + m - 1 \in Stored \ MapBlocks(zmap)
        BY ZoneBlock
      <4> QED BY <3>2, <4>1 DEF ZonesOf
    <3>4. /\ Live /\ Live' /\ last_free_zone_num' = n /\ UNCHANGED znum
      BY <2>3 DEF FreeZone, Live
    <3>5. ZMap!free_zone(n)
      BY <3>2, <3>3, <3>4, ZonesAre DEF ZMap!free_zone
    <3> QED BY <3>1, <3>4, <3>5 DEF ZMap!Next
  <2>4. ASSUME NEW n \in 1 .. MaxZone, NEW c \in Contents, WriteZone(n, c)
        PROVE  ZMap!Next
    <3>1. n \in ZMap!Number /\ n \in Nat \ {0} /\ c \in Block
      BY <1>0, Constants
    <3>2. disk' = Written(disk, n, c)
      BY <2>4 DEF WriteZone
    <3>3. /\ \A b \in Stored : b # FIRSTDATAZONE + n - 1 => disk'[b] = disk[b]
          /\ FIRSTDATAZONE + n - 1 \in Stored
                => disk'[FIRSTDATAZONE + n - 1] = c
      BY <2>0, <3>1, <3>2, WritingZone
    <3>4. Ones(zmap)' = Ones(zmap)
      <4>1. \A b \in MapBlocks(zmap) : b \in Stored /\ b # FIRSTDATAZONE + n - 1
        BY <3>1, ZoneBlock, MapsStored
      <4>2. OnesOf(disk', zmap) = Ones(zmap)
        BY <2>0, <3>3, <4>1, MapUntouched
      <4> QED BY <4>2, OnesNext
    <3>5. \A m \in 1 .. DeviceZones :
            disk'[FIRSTDATAZONE + m - 1]
               = IF m = n THEN c ELSE disk[FIRSTDATAZONE + m - 1]
      BY <3>1, <3>3, ZoneBlock
    <3>6. ZonesOf(disk') = IF n \in 1 .. DeviceZones
                           THEN [ZonesOf(disk) EXCEPT ![n] = c]
                           ELSE ZonesOf(disk)
      BY <3>5 DEF ZonesOf
    <3>7. Live /\ Live' /\ UNCHANGED <<last_free_zone_num, znum>>
      BY <2>4 DEF WriteZone, Live
    <3>8. ZMap!write_zone(n, c)
      BY <1>0, <3>4, <3>6, <3>7, ZonesAre DEF ZMap!write_zone, ZMap!Written
    <3> QED BY <3>1, <3>7, <3>8 DEF ZMap!Next
  <2>5. CASE NoStat \/ WriteSuper \/ InitMaps \/ ClearInodes
    <3>1. \A b \in Stored : b >= FIRST_ZMAP_BLOCK => disk'[b] = disk[b]
      <4>1. ASSUME ClearInodes
            PROVE  \A b \in Stored : b >= FIRST_ZMAP_BLOCK => disk'[b] = disk[b]
        <5>1. \A b \in Stored \ MapBlocks(imap) : disk'[b] = disk[b]
          BY <2>0, <4>1, ClearBits DEF ClearInodes
        <5> QED BY <5>1, Regions
      <4>2. ASSUME WriteSuper
            PROVE  \A b \in Stored : b >= FIRST_ZMAP_BLOCK => disk'[b] = disk[b]
        BY <2>0, <4>2, Regions DEF WriteSuper, Device
      <4> QED BY <2>5, <4>1, <4>2 DEF NoStat, InitMaps
    <3>2. ZonesOf(disk') = ZonesOf(disk)
      BY <2>0, <3>1, InFront
    <3>3. ~ Live' /\ UNCHANGED <<last_free_zone_num, znum>>
      BY <2>5 DEF NoStat, WriteSuper, InitMaps, ClearInodes, Live
    <3>4. ZMap!clear_zones /\ UNCHANGED znum
      BY <3>2, <3>3, ZonesAre DEF ZMap!clear_zones
    <3> QED BY <3>4 DEF ZMap!Next
  <2>6. CASE ClearZones
    <3>1. /\ OnesOf(disk', zmap) = {}
          /\ \A b \in Stored \ MapBlocks(zmap) : disk'[b] = disk[b]
      BY <2>0, <2>6, ClearBits DEF ClearZones
    <3>2. Ones(zmap)' = {} /\ ZonesOf(disk') = ZonesOf(disk)
      BY <3>1, OnesNext, ZoneBlock DEF ZonesOf
    <3>3. ZMap!clear_zones /\ UNCHANGED znum
      BY <2>6, <3>2, ZonesAre DEF ZMap!clear_zones, ClearZones
    <3> QED BY <3>3 DEF ZMap!Next
  <2>7. CASE Restart
    <3>1. ZonesOf(disk') \in [1 .. DeviceZones -> C]
      BY <1>1, <2>7, Constants DEF Restart
    <3>2. ~ Live' /\ last_free_zone_num' = 0 /\ UNCHANGED znum
      BY <2>7 DEF Restart, Started, Live
    <3>3. ZMap!new_program
      BY <1>0, <3>1, <3>2, ZonesAre DEF ZMap!new_program
    <3> QED BY <3>2, <3>3 DEF ZMap!Next
  <2>8. CASE UNCHANGED vars
    <3>1. Ones(zmap)' = Ones(zmap) /\ ZonesOf(disk') = ZonesOf(disk)
      BY <2>8, OnesAre, OnesNext DEF vars
    <3> QED BY <2>8, <3>1, ZonesAre DEF vars, Live, ZMap!vars
  <2> QED
    BY <2>1, <2>2, <2>3, <2>4, <2>5, <2>6, <2>7, <2>8 DEF Next
<1> QED
  BY <1>2, <1>3, SpecIInv, PTL DEF Spec, ImplementsZoneMap, ZMap!Spec

-----------------------------------------------------------------------------
(* The super block and the inode table *)

\* inode.c:114: two inodes of one block do not overlap.
LEMMA SlotsApart ==
  ASSUME NEW m \in Nat \ {0}, NEW n \in Nat \ {0}, m # n,
         SlotBlock(m) = SlotBlock(n)
  PROVE  /\ SlotOffset(m) \in Nat /\ SlotOffset(n) \in Nat
         /\ \/ SlotOffset(m) + I_NODE_BYTES <= SlotOffset(n)
            \/ SlotOffset(n) + I_NODE_BYTES <= SlotOffset(m)
<1>1. /\ I_NODE_BYTES \in Nat \ {0} /\ InodeBlocks \in Nat \ {0}
      /\ ninodes \in Nat /\ ninodes > 0
  BY Constants, LayoutAssumption DEF LayoutAssumption
<1>2. INODES_PER_BLOCK \in Nat \ {0}
  <2>1. INODES_PER_BLOCK \in Nat
    BY <1>1, PositiveSizes, DivModNat DEF INODES_PER_BLOCK
  <2>2. INODES_PER_BLOCK # 0
    BY <1>1, Regions DEF ninodes
  <2> QED BY <2>1, <2>2
<1> DEFINE r == (m - 1) % INODES_PER_BLOCK
           s == (n - 1) % INODES_PER_BLOCK
           q == (m - 1) \div INODES_PER_BLOCK
           p == (n - 1) \div INODES_PER_BLOCK
<1>3. m - 1 \in Nat /\ n - 1 \in Nat
  OBVIOUS
<1>4. r \in Nat /\ s \in Nat /\ q \in Nat /\ p \in Nat
  BY <1>2, <1>3, DivModNat
<1>5. SlotOffset(m) = r * I_NODE_BYTES /\ SlotOffset(n) = s * I_NODE_BYTES
  BY DEF SlotOffset
<1>6. q = p
  <2>1. q + FIRST_INODE_BLOCK = p + FIRST_INODE_BLOCK
    BY DEF SlotBlock
  <2> HIDE DEF q, p
  <2> QED BY <1>4, <2>1, Regions
<1>7. r # s
  <2>1. m - 1 # n - 1
    OBVIOUS
  <2> QED BY <1>2, <1>3, <1>6, <2>1, SameParts
<1> HIDE DEF r, s
<1>8. ASSUME NEW a \in Nat, NEW b \in Nat, a < b
      PROVE  a * I_NODE_BYTES + I_NODE_BYTES <= b * I_NODE_BYTES
  <2>1. (b - (a + 1)) * I_NODE_BYTES >= 0
    BY <1>1, <1>8
  <2>2. (b - (a + 1)) * I_NODE_BYTES
          = b * I_NODE_BYTES - (a * I_NODE_BYTES + I_NODE_BYTES)
    BY <1>1
  <2>3. a * I_NODE_BYTES \in Nat /\ b * I_NODE_BYTES \in Nat
    BY <1>1
  <2> QED BY <1>1, <2>1, <2>2, <2>3
<1>9. r * I_NODE_BYTES \in Nat /\ s * I_NODE_BYTES \in Nat
  BY <1>1, <1>4
<1>10. r < s \/ s < r
  BY <1>4, <1>7
<1> QED BY <1>4, <1>5, <1>8, <1>9, <1>10

\* inode.c:104: after write_inode, read_inode gives what was written, and under
\* other numbers what it gave before.
LEMMA EnteredRead ==
  ASSUME NEW d \in Device, NEW m \in Nat \ {0}, NEW inode \in Inode,
         NEW n \in 1 .. ninodes
  PROVE  InodeOf(Entered(d, m, inode), n)
           = IF m = n THEN inode ELSE InodeOf(d, n)
<1> DEFINE slot == SlotOffset(m) .. SlotOffset(m) + I_NODE_BYTES - 1
           block == [b \in Index |-> IF b \in slot THEN inode[b - SlotOffset(m)]
                                     ELSE d[SlotBlock(m)][b]]
           e == Entered(d, m, inode)
<1>0. /\ n \in Nat \ {0} /\ I_NODE_BYTES \in Nat \ {0}
      /\ \A b \in 0 .. I_NODE_BYTES - 1 : SlotOffset(n) + b \in Index
      /\ SlotOffset(n) \in Nat
  BY Constants, TableSlot
<1>1. e = [d EXCEPT ![SlotBlock(m)] = block]
  BY DEF Entered
<1>2. SlotBlock(n) \in Stored
  BY ReadingInode, Regions DEF Stored
<1>3. CASE SlotBlock(m) # SlotBlock(n)
  <2>1. e[SlotBlock(n)] = d[SlotBlock(n)]
    BY <1>1, <1>3 DEF Device
  <2> QED BY <1>3, <2>1 DEF InodeOf
<1>4. CASE m = n
  <2>1. e[SlotBlock(n)] = block
    BY <1>1, <1>2, <1>4 DEF Device
  <2>2. \A b \in 0 .. I_NODE_BYTES - 1 : block[SlotOffset(n) + b] = inode[b]
    <3>1. TAKE b \in 0 .. I_NODE_BYTES - 1
    <3>2. SlotOffset(n) + b \in slot /\ (SlotOffset(n) + b) - SlotOffset(m) = b
      BY <1>0, <1>4
    <3>3. SlotOffset(n) + b \in Index
      BY <1>0
    <3> HIDE DEF slot
    <3> QED BY <3>2, <3>3
  <2> QED BY <1>4, <2>1, <2>2 DEF InodeOf, Inode
<1>5. CASE SlotBlock(m) = SlotBlock(n) /\ m # n
  <2>1. e[SlotBlock(n)] = block
    BY <1>1, <1>2, <1>5 DEF Device
  <2>2. \A b \in 0 .. I_NODE_BYTES - 1 :
          block[SlotOffset(n) + b] = d[SlotBlock(n)][SlotOffset(n) + b]
    <3>1. TAKE b \in 0 .. I_NODE_BYTES - 1
    <3>2. SlotOffset(n) + b \notin slot
      BY <1>0, <1>5, SlotsApart
    <3>3. SlotOffset(n) + b \in Index
      BY <1>0
    <3> HIDE DEF slot
    <3> QED BY <1>5, <3>2, <3>3
  <2> QED BY <1>5, <2>1, <2>2 DEF InodeOf
<1> QED BY <1>3, <1>4, <1>5

\* The super block is there once my_mkfs wrote it; the table has what was saved
\* last; and my_mkfs makes the root directory in empty maps.
SuperWritten == stage \notin {"off", "blind"} => disk[0] = Super
TableKept == \A n \in 1 .. ninodes : InodeOf(disk, n) = saved[n]
EmptyForRoot ==
  stage = "root" => /\ first_zero_index = 0
                    /\ Ones(imap) = {} /\ Ones(zmap) = {}

Kept == SuperWritten /\ TableKept /\ EmptyForRoot

\* The super block and the table are what they were if their blocks are.
LEMMA StillKept ==
  ASSUME IInv, IInv', Kept, UNCHANGED saved,
         \A b \in {0} \cup (FIRST_INODE_BLOCK .. FIRST_ZMAP_BLOCK - 1) :
            disk'[b] = disk[b]
  PROVE  disk'[0] = disk[0] /\ \A n \in 1 .. ninodes : InodeOf(disk', n) = saved'[n]
<1>1. disk \in Device
  BY DEF IInv, TypeOK, Device
<1>2. \A n \in 1 .. ninodes : SlotBlock(n) \in FIRST_INODE_BLOCK .. FIRST_ZMAP_BLOCK - 1
  BY <1>1, ReadingInode
<1>3. \A n \in 1 .. ninodes : InodeOf(disk', n) = InodeOf(disk, n)
  BY <1>2 DEF InodeOf
<1> QED BY <1>3 DEF Kept, TableKept

\* alloc_inode writes one inode and keeps the others and the super block.
LEMMA AllocKeeps ==
  ASSUME IInv, Kept, NEW inode \in Inode, alloc_inode(inode)
  PROVE  /\ disk'[0] = disk[0]
         /\ \A n \in 1 .. ninodes : InodeOf(disk', n) = saved'[n]
<1> DEFINE index == IF first_zero_index = imap.bit_count
                    THEN find_first_zero(imap) ELSE first_zero_index
           d == set_bit(imap, index, 1)
<1>0. /\ TypeOK /\ disk \in Device /\ first_zero_index \in 0 .. imap.bit_count
      /\ saved \in [1 .. ninodes -> Inode]
  BY DEF IInv, TypeOK, Device
<1>1. index \in 0 .. imap.bit_count /\ imap.bit_count \in Nat \ {0}
  BY <1>0, OnesRange, Constants
<1>2. CASE index = imap.bit_count
  <2>1. UNCHANGED <<disk, saved>>
    BY <1>2 DEF alloc_inode
  <2> QED BY <2>1 DEF Kept, TableKept
<1>3. CASE index # imap.bit_count
  <2>1. disk' = Entered(d, index + 1, inode) /\ saved' = WithSaved(index + 1, inode)
    BY <1>3 DEF alloc_inode
  <2>2. index \in 0 .. imap.bit_count - 1 /\ index + 1 \in Nat \ {0}
    BY <1>1, <1>3
  <2> HIDE DEF index
  <2>3. d \in Device /\ \A b \in Stored \ MapBlocks(imap) : d[b] = disk[b]
    BY <1>0, <2>2, SetBit
  <2> HIDE DEF d
  <2>4. disk'[0] = disk[0]
    <3>1. SlotBlock(index + 1) \in Nat /\ SlotBlock(index + 1) >= FIRST_INODE_BLOCK
          /\ \A b \in Stored \ {SlotBlock(index + 1)} : disk'[b] = d[b]
      BY <2>1, <2>2, <2>3, Entering
    <3>2. 0 \in Stored /\ 0 \notin MapBlocks(imap) /\ 0 # SlotBlock(index + 1)
      BY <3>1, Regions DEF Stored
    <3> QED BY <2>3, <3>1, <3>2
  <2>5. ASSUME NEW n \in 1 .. ninodes
        PROVE  InodeOf(disk', n) = saved'[n]
    <3>1. InodeOf(d, n) = saved[n]
      <4>1. SlotBlock(n) \in Stored /\ SlotBlock(n) \notin MapBlocks(imap)
        BY <1>0, ReadingInode, Regions DEF Stored
      <4>2. InodeOf(d, n) = InodeOf(disk, n)
        BY <2>3, <4>1 DEF InodeOf
      <4> QED BY <4>2 DEF Kept, TableKept
    <3>2. InodeOf(disk', n) = IF index + 1 = n THEN inode ELSE InodeOf(d, n)
      BY <2>1, <2>2, <2>3, EnteredRead
    <3>3. saved'[n] = IF index + 1 = n THEN inode ELSE saved[n]
      BY <1>0, <2>1 DEF WithSaved
    <3> QED BY <3>1, <3>2, <3>3
  <2> QED BY <2>4, <2>5
<1> QED BY <1>2, <1>3

\* At the start the table is whatever it is.
LEMMA InitKept == Init => Kept
BY DEF Init, Kept, SuperWritten, TableKept, EmptyForRoot, InodeOf, read_inode

\* Every step keeps the super block, the table and the empty maps of my_mkfs.
LEMMA NextKept == IInv /\ IInv' /\ Kept /\ [Next]_vars => Kept'
<1> SUFFICES ASSUME IInv, IInv', Kept, [Next]_vars PROVE Kept'
  OBVIOUS
<1> DEFINE Table == FIRST_INODE_BLOCK .. FIRST_ZMAP_BLOCK - 1
           Same == \A b \in {0} \cup Table : disk'[b] = disk[b]
           Saved == \A n \in 1 .. ninodes : InodeOf(disk', n) = saved'[n]
<1>0. /\ TypeOK /\ disk \in Device /\ disk' \in Device
      /\ saved \in [1 .. ninodes -> Inode]
  BY DEF IInv, TypeOK, Device
<1>1. \A b \in {0} \cup Table : /\ b \in Stored /\ b < FIRSTDATAZONE
                               /\ b \notin MapBlocks(imap)
                               /\ b \notin MapBlocks(zmap)
  BY Regions DEF Stored
<1>2. TableKept' <=> Saved
  BY DEF TableKept, InodeOf, SlotBlock, SlotOffset, FIRST_INODE_BLOCK, FIRST_IMAP_BLOCK
<1>3. ASSUME UNCHANGED saved, Same PROVE disk'[0] = disk[0] /\ Saved
  BY <1>3, StillKept
<1>4. ASSUME disk'[0] = disk[0], Saved, stage' = stage, stage = "ready"
      PROVE  Kept'
  BY <1>2, <1>4 DEF Kept, SuperWritten, EmptyForRoot
<1> HIDE DEF Same, Saved
<1>5. CASE AllocInode \/ MakeRoot
  <2>1. PICK inode \in Inode : alloc_inode(inode)
    BY <1>5, Constants DEF AllocInode, MakeRoot
  <2>2. disk'[0] = disk[0] /\ Saved
    BY <2>1, AllocKeeps DEF Saved
  <2> QED BY <1>2, <1>5, <2>2
          DEF AllocInode, MakeRoot, Kept, SuperWritten, EmptyForRoot
<1>6. CASE AllocZone
  <2>1. Same
    <3>1. \/ disk' = disk
          \/ \E index \in 0 .. zmap.bit_count - 1 :
                \A b \in Stored \ MapBlocks(zmap) :
                   disk'[b] = IF b = FIRSTDATAZONE + index THEN zeros ELSE disk[b]
      BY <1>0, <1>6, AllocZoneEffect
    <3> QED BY <1>1, <3>1, Regions, Constants DEF Same
  <2> QED BY <1>3, <1>4, <1>6, <2>1 DEF AllocZone
<1>7. ASSUME NEW n \in 1 .. ninodes, FreeInode(n) PROVE Kept'
  <2>1. n - 1 \in 0 .. imap.bit_count - 1
    BY Constants
  <2>2. Same
    BY <1>0, <1>1, <1>7, <2>1, SetBit DEF FreeInode, Same
  <2> QED BY <1>3, <1>4, <1>7, <2>2 DEF FreeInode
<1>8. ASSUME NEW n \in 1 .. ninodes, NEW i \in Inodes, WriteInode(n, i) PROVE Kept'
  <2>1. n \in Nat \ {0} /\ i \in Inode
    BY Constants
  <2>2. disk' = Entered(disk, n, i) /\ saved' = [saved EXCEPT ![n] = i]
    BY <1>0, <1>8 DEF WriteInode, WithSaved
  <2>3. disk'[0] = disk[0]
    <3>1. 0 \in Stored /\ 0 # SlotBlock(n)
      BY <1>0, <1>1, <2>1, Entering, Regions
    <3> QED BY <1>0, <2>1, <2>2, <3>1, Entering
  <2>4. ASSUME NEW m \in 1 .. ninodes PROVE InodeOf(disk', m) = saved'[m]
    <3>1. InodeOf(disk', m) = IF n = m THEN i ELSE InodeOf(disk, m)
      BY <1>0, <2>1, <2>2, EnteredRead
    <3> QED BY <1>0, <2>2, <3>1 DEF Kept, TableKept
  <2> QED BY <1>4, <1>8, <2>3, <2>4 DEF WriteInode, Saved
<1>9. ASSUME NEW n \in Freed, FreeZone(n) PROVE Kept'
  <2>1. n - 1 \in 0 .. zmap.bit_count - 1
    BY Constants
  <2>2. Same
    BY <1>0, <1>1, <1>9, <2>1, SetBit DEF FreeZone, Same
  <2> QED BY <1>3, <1>4, <1>9, <2>2 DEF FreeZone
<1>10. ASSUME NEW n \in 1 .. MaxZone, NEW c \in Contents, WriteZone(n, c) PROVE Kept'
  <2>1. n \in Nat \ {0} /\ c \in Block
    BY Constants
  <2>2. \A b \in Stored : b # FIRSTDATAZONE + n - 1 => disk'[b] = disk[b]
    BY <1>0, <1>10, <2>1, WritingZone DEF WriteZone
  <2>3. Same
    BY <1>1, <2>1, <2>2, Regions DEF Same
  <2> QED BY <1>3, <1>4, <1>10, <2>3 DEF WriteZone
<1>11. CASE NoStat
  <2>1. Same
    BY <1>11 DEF NoStat, Same
  <2> QED BY <1>2, <1>3, <1>11, <2>1 DEF NoStat, Kept, SuperWritten, EmptyForRoot
<1>12. CASE WriteSuper
  <2>1. \A n \in 1 .. ninodes : InodeOf(disk', n) = InodeOf(disk, n)
    <3>1. ASSUME NEW n \in 1 .. ninodes PROVE SlotBlock(n) # 0
      BY <1>0, ReadingInode, Regions
    <3>2. \A b \in Stored \ {0} : disk'[b] = disk[b]
      BY <1>0, <1>12 DEF WriteSuper, Device
    <3>3. \A n \in 1 .. ninodes : SlotBlock(n) \in Stored
      BY <1>0, <1>1, ReadingInode
    <3> QED BY <3>1, <3>2, <3>3 DEF InodeOf
  <2>2. Saved
    BY <1>12, <2>1 DEF Saved, Kept, TableKept, WriteSuper
  <2>3. SuperWritten'
    BY <1>0, <1>1, <1>12 DEF WriteSuper, SuperWritten, Device
  <2> QED BY <1>2, <1>12, <2>2, <2>3 DEF WriteSuper, Kept, EmptyForRoot
<1>13. CASE InitMaps
  <2>1. Same
    BY <1>13 DEF InitMaps, Same
  <2> QED BY <1>2, <1>3, <1>13, <2>1 DEF InitMaps, Kept, SuperWritten, EmptyForRoot
<1>14. CASE ClearInodes
  <2>1. Same
    BY <1>0, <1>1, <1>14, ClearBits DEF ClearInodes, Same
  <2> QED BY <1>2, <1>3, <1>14, <2>1 DEF ClearInodes, Kept, SuperWritten, EmptyForRoot
<1>15. CASE ClearZones
  <2>1. Same /\ Ones(zmap)' = {}
    BY <1>0, <1>1, <1>15, ClearBits, OnesNext DEF ClearZones, Same
  <2>2. Ones(imap)' = Ones(imap)
    BY <1>15, InodeMapUntouched
  <2>3. EmptyForRoot'
    BY <1>15, <2>1, <2>2 DEF ClearZones, EmptyForRoot, IInv, CleanStart
  <2> QED BY <1>2, <1>3, <1>15, <2>1, <2>3 DEF ClearZones, Kept, SuperWritten
<1>16. CASE Restart
  <2>1. TableKept'
    <3>1. \A n \in 1 .. ninodes : saved'[n] = read_inode(n)'
      BY <1>16 DEF Restart
    <3>2. \A n \in 1 .. ninodes : read_inode(n)' = InodeOf(disk', n)
      BY DEF read_inode, InodeOf, SlotBlock, SlotOffset, FIRST_INODE_BLOCK,
             FIRST_IMAP_BLOCK
    <3> QED BY <1>2, <3>1, <3>2 DEF Saved
  <2> QED BY <1>16, <2>1 DEF Restart, Started, Kept, SuperWritten, EmptyForRoot
<1>17. CASE UNCHANGED vars
  <2>1. Ones(imap)' = Ones(imap) /\ Ones(zmap)' = Ones(zmap)
    BY <1>17, OnesAre, OnesNext DEF vars
  <2>2. Same /\ UNCHANGED saved
    BY <1>17 DEF vars, Same
  <2> QED BY <1>2, <1>3, <1>17, <2>1, <2>2 DEF vars, Kept, SuperWritten, EmptyForRoot
<1> QED
  BY <1>5, <1>6, <1>7, <1>8, <1>9, <1>10, <1>11, <1>12, <1>13, <1>14, <1>15,
     <1>16, <1>17 DEF Next

\* For every geometry, and also when inode numbers run past the table: the super
\* block stays what my_mkfs wrote, and every inode of the table is what was
\* saved last under its number.
THEOREM LayoutBlocksKept == Spec => []BlocksKept
<1>1. Kept => BlocksKept
  BY DEF Kept, SuperWritten, TableKept, BlocksKept, InodeOf, read_inode
<1> QED BY <1>1, InitKept, NextKept, SpecIInv, PTL DEF Spec

\* fs.c:63: my_mkfs ends with the root directory, number 1, and nothing else,
\* whatever the device or the program had in its maps before.
THEOREM LayoutFormatMakesEmpty == Spec => FormatMakesEmpty
<1> DEFINE Empty == stage = "root" /\ stage' = "ready" =>
                      /\ inum' = 1 /\ Ones(imap)' = {0} /\ Ones(zmap)' = {}
                      /\ read_inode(1)' = RootInode
<1>1. IInv /\ IInv' /\ Kept /\ Kept' /\ [Next]_vars => [Empty]_vars
  <2> SUFFICES ASSUME IInv, IInv', Kept, Kept', Next, stage = "root", stage' = "ready"
               PROVE  /\ inum' = 1 /\ Ones(imap)' = {0} /\ Ones(zmap)' = {}
                      /\ read_inode(1)' = RootInode
    BY DEF vars
  <2>0. TypeOK /\ disk \in Device /\ disk' \in Device
        /\ saved \in [1 .. ninodes -> Inode]
    BY DEF IInv, TypeOK, Device
  <2>1. MakeRoot /\ alloc_inode(RootInode) /\ RootInode \in Inode
    BY Constants DEF Next, AllocInode, AllocZone, FreeInode, WriteInode, FreeZone,
       WriteZone, NoStat, WriteSuper, InitMaps, ClearInodes, ClearZones, MakeRoot,
       Restart, Started
  <2>2. first_zero_index = 0 /\ Ones(imap) = {} /\ Ones(zmap) = {}
    BY DEF Kept, EmptyForRoot
  <2>3. imap.bit_count # 0 /\ 1 \in 1 .. ninodes
    BY Constants
  <2>4. /\ inum' = 1 /\ saved' = WithSaved(1, RootInode)
        /\ disk' = Entered(set_bit(imap, 0, 1), 1, RootInode)
    BY <2>1, <2>2, <2>3 DEF alloc_inode
  <2>5. /\ OnesOf(disk', imap) = {0}
        /\ \A b \in Stored \ (MapBlocks(imap) \cup {SlotBlock(1)}) :
              disk'[b] = disk[b]
    BY <2>0, <2>1, <2>2, <2>3, AllocInodeEffect
  <2>6. Ones(zmap)' = {}
    <3>1. SlotBlock(1) < FIRST_ZMAP_BLOCK /\ SlotBlock(1) \in Nat
      BY <2>0, <2>3, ReadingInode, Regions
    <3>2. \A b \in MapBlocks(zmap) : b \in Stored /\ b \notin MapBlocks(imap)
                                     /\ b # SlotBlock(1)
      BY <3>1, Regions, MapsStored
    <3>3. OnesOf(disk', zmap) = Ones(zmap)
      BY <2>0, <2>5, <3>2, MapUntouched
    <3> QED BY <2>2, <3>3, OnesNext
  <2>7. read_inode(1)' = RootInode
    <3>1. saved'[1] = RootInode
      BY <2>0, <2>3, <2>4 DEF WithSaved
    <3>2. read_inode(1)' = saved'[1]
      BY <2>3 DEF Kept, TableKept, InodeOf, read_inode
    <3> QED BY <3>1, <3>2
  <2> QED BY <2>4, <2>5, <2>6, <2>7, OnesNext
<1>2. Spec => []Kept
  BY InitKept, NextKept, SpecIInv, PTL DEF Spec
<1> QED BY <1>1, <1>2, SpecIInv, PTL DEF Spec, FormatMakesEmpty

-----------------------------------------------------------------------------
(* Counting *)

\* bitmap.c:112, 131: the two counting loops count the ones and the zeros among
\* the first end bits of a map.
LEMMA Counting ==
  ASSUME NEW map \in {imap, zmap}, NEW end \in 0 .. map.bit_count
  PROVE  /\ count_ones(map, end) = Cardinality(Ones(map) \cap 0 .. end - 1)
         /\ count_zeros(map, end) = end - count_ones(map, end)
<1> DEFINE First(n) == Ones(map) \cap 0 .. n - 1
           start == [is |-> 0, ended |-> FALSE]
<1>0. end \in Nat /\ start \in Result
  BY MapsStored DEF Result
<1>1. PICK f : /\ Results(f, map, end, IncrementOnOne, start)
               /\ count_ones(map, end) = f[end].is
  BY <1>0, LoopResults DEF count_ones
<1>2. PICK g : /\ Results(g, map, end, IncrementOnZero, start)
               /\ count_zeros(map, end) = g[end].is
  BY <1>0, LoopResults DEF count_zeros
<1> DEFINE Right(n) ==
             /\ IsFiniteSet(First(n)) /\ Cardinality(First(n)) \in 0 .. n
             /\ f[n] = [is |-> Cardinality(First(n)), ended |-> FALSE]
             /\ g[n] = [is |-> n - Cardinality(First(n)), ended |-> FALSE]
           Wrong == {n \in 0 .. end : ~ Right(n)}
<1>3. Right(0)
  <2>1. First(0) = {}
    OBVIOUS
  <2>2. IsFiniteSet({}) /\ Cardinality({}) = 0
    BY FS_EmptySet
  <2>3. f[0] = start /\ g[0] = start
    BY <1>1, <1>2 DEF Results
  <2>4. IsFiniteSet(First(0)) /\ Cardinality(First(0)) = 0
    <3> HIDE DEF First
    <3> QED BY <2>1, <2>2
  <2> HIDE DEF First
  <2>5. 0 - Cardinality(First(0)) = 0 /\ Cardinality(First(0)) \in 0 .. 0
    BY <2>4
  <2>6. /\ f[0] = [is |-> Cardinality(First(0)), ended |-> FALSE]
        /\ g[0] = [is |-> 0 - Cardinality(First(0)), ended |-> FALSE]
    BY <2>3, <2>4, <2>5
  <2> QED BY <2>4, <2>5, <2>6
<1>4. ASSUME NEW n \in 0 .. end - 1, Right(n)
      PROVE  Right(n + 1)
  <2> DEFINE c == Cardinality(First(n))
  <2>a. n \in Nat /\ n \in 0 .. map.bit_count - 1 /\ map.bit_count \in Nat
    BY <1>0, <1>4, MapsStored
  <2>b. c \in Nat /\ c <= n /\ IsFiniteSet(First(n))
    <3> HIDE DEF First
    <3> QED BY <1>4, <2>a
  <2>0. n \in Nat /\ n \in 0 .. map.bit_count - 1 /\ c \in Nat /\ c <= n
        /\ IsFiniteSet(First(n))
    BY <2>a, <2>b
  <2>1. get_bit(map, n) \in {0, 1} /\ (get_bit(map, n) = 1 <=> n \in Ones(map))
    BY <2>0 DEF get_bit, Ones
  <2>2. First(n + 1) = IF n \in Ones(map) THEN First(n) \cup {n} ELSE First(n)
    BY <2>0
  <2>3. n \notin First(n)
    BY <2>0
  <2>4. /\ IsFiniteSet(First(n) \cup {n})
        /\ Cardinality(First(n) \cup {n}) = c + 1
    <3> HIDE DEF First
    <3> QED BY <2>0, <2>3, FS_AddElement
  <2>5. /\ IsFiniteSet(First(n + 1))
        /\ Cardinality(First(n + 1)) = c + get_bit(map, n)
    <3> HIDE DEF First
    <3> QED BY <2>0, <2>1, <2>2, <2>4
  <2>6. /\ f[n] \in Result /\ f[n].is = c /\ f[n].ended = FALSE
        /\ g[n] \in Result /\ g[n].is = n - c /\ g[n].ended = FALSE
    <3> HIDE DEF First
    <3> QED BY <1>4, <2>0 DEF Result
  <2>7. /\ f[n+1] = IncrementOnOne[<<get_bit(map, n), n, f[n]>>]
        /\ g[n+1] = IncrementOnZero[<<get_bit(map, n), n, g[n]>>]
    BY <1>1, <1>2, <2>6 DEF Results
  <2>8. /\ f[n+1] = [f[n] EXCEPT !.is = c + get_bit(map, n)]
        /\ g[n+1] = [g[n] EXCEPT !.is = n - c + 1 - get_bit(map, n)]
    <3> HIDE DEF c
    <3> QED BY <2>0, <2>1, <2>6, <2>7 DEF IncrementOnOne, IncrementOnZero
  <2>9. /\ f[n+1] = [is |-> c + get_bit(map, n), ended |-> FALSE]
        /\ g[n+1] = [is |-> n - c + 1 - get_bit(map, n), ended |-> FALSE]
    <3> HIDE DEF c
    <3> QED BY <2>6, <2>8 DEF Result
  <2>10. c + get_bit(map, n) \in 0 .. n + 1
         /\ n - c + 1 - get_bit(map, n) = (n + 1) - (c + get_bit(map, n))
    <3> HIDE DEF c
    <3> QED BY <2>0, <2>1
  <2> HIDE DEF c, First
  <2> QED BY <2>5, <2>9, <2>10
<1>5. Wrong = {}
  <2>1. SUFFICES ASSUME Wrong # {} PROVE FALSE
    OBVIOUS
  <2>2. PICK n \in Wrong : \A m \in Wrong : n <= m
    <3>1. Wrong \in SUBSET Nat
      BY <1>0
    <3> HIDE DEF Wrong
    <3> QED BY <2>1, <3>1, Bitmaps!LeastNumber
  <2> HIDE DEF Right
  <2>3. n # 0
    BY <1>3, <2>2
  <2>4. n - 1 \in 0 .. end - 1 /\ Right(n - 1)
    BY <1>0, <2>2, <2>3
  <2>5. Right((n - 1) + 1)
    BY <1>4, <2>4
  <2> QED BY <1>0, <2>2, <2>5
<1>6. Right(end)
  <2> HIDE DEF Right
  <2> QED BY <1>0, <1>5
<1>7. f[end].is = Cardinality(First(end)) /\ g[end].is = end - Cardinality(First(end))
  <2> HIDE DEF First
  <2> QED BY <1>6
<1> QED BY <1>1, <1>2, <1>7

\* fs.c:89: what print_disk_layout shows of inodes and zones, free and occupied,
\* are the numbers of bits that are 0 and 1 among those asked for.
THEOREM LayoutCountsRight == Spec => []CountsRight
<1>1. IInv => CountsRight
  <2>1. ninodes \in 0 .. imap.bit_count /\ ZONES \in 0 .. zmap.bit_count
    BY Constants, MapsStored, LayoutAssumption
       DEF LayoutAssumption, zmap, create_bitmap
  <2> QED BY <2>1, Counting DEF CountsRight, count_occupied_inodes,
             count_free_inodes, count_occupied_zones, count_free_zones
<1> QED BY <1>1, SpecIInv, PTL
=============================================================================
