-------------------------- MODULE DataZonesProofs ---------------------------
(***************************************************************************)
(* Proofs about DataZones.tla, for every number of files and descriptors,  *)
(* every size of an inode and of an index zone and every number of zones.  *)
(*                                                                         *)
(* Types is the inductive form of TypeOK: whatever clients do.  The rest   *)
(* is about clients with all the habits (AllHabits).  There is then an R   *)
(* says of each zone which file it belongs to and what for (Fits), and the *)
(* index zones of a file of n blocks name n zones (Shape): those of a file *)
(* that is open are what its iterator goes by (Opened), those of one that  *)
(* is not are what the inode table says (Stored).  These make up Sound.    *)
(* Besides, a zone in use is one that a call has in hand or that a file    *)
(* reaches (NoLeak), and descriptors of one file agree on it (Pairs).      *)
(* Each action has a lemma for each part: ...Types, ...Near, ...Fits,      *)
(* ...Shape, ...NoLeak.                                                    *)
(***************************************************************************)
EXTENDS DataZones, FiniteSetTheorems, TLAPS

-----------------------------------------------------------------------------
(* Kinds of values, and what the operators give *)

\* What the scan of the zone bitmap answers, and LeastNumber.
Bitmaps == INSTANCE BitmapProofs

\* What is assumed of the constants, for leaves that need no more.
LEMMA Sizes ==
  /\ NR_DIRECT_ZONES \in Nat \ {0} /\ U32_PER_BLOCK \in Nat \ {0}
  /\ ZoneBits \in Nat \ {0} /\ MAX_OPEN_FILES \in Nat \ {0}
  /\ Files \subseteq Nat \ {0}
  /\ BLOCKSIZE \in Number /\ Tail \in Number
  /\ NR_IND1_ZONES = U32_PER_BLOCK /\ NR_IND2_ZONES \in Nat
BY DataZonesAssumption DEF DataZonesAssumption, Number, NR_IND1_ZONES, NR_IND2_ZONES

\* The scan of ZoneMap is that of Bitmap.
LEMMA SameScan ==
  ASSUME NEW s, NEW n
  PROVE  ZMap!find_first_zero(s, n) = Bitmaps!find_first_zero(s, n)
BY DEF ZMap!find_first_zero, Bitmaps!find_first_zero, ZMap!Bits, Bitmaps!Bits

\* The kinds of TypeOK.
Zone == 0 .. ZoneBits
Inode == [blocks : Nat, direct : [1 .. NR_DIRECT_ZONES -> Zone],
          ind1 : Zone, ind2 : Zone]
Iterator == [count : Nat, num : Nat, place : {"direct", "ind1", "ind2"},
             index : Word \cup (-1 .. NR_DIRECT_ZONES - 1),
             index2 : 0 .. U32_PER_BLOCK, znum : Zone, asize : Zone,
             znum1 : Zone, zbuf1 : Table, znum2 : Zone, zbuf2 : Table]
Descriptor == [used : BOOLEAN, inode_nr : Files \cup {0}, inode : Inode,
               past : BOOLEAN, dzi : Iterator]

\* Type correctness, part by part.
StoreOK ==
  /\ zmap \subseteq 0 .. ZoneBits - 1
  /\ last_free_zone_num \in Zone
  /\ zones \in [Number -> Table]
TableOK == itab \in [Files -> Inode] /\ files \subseteq Files
CallOK ==
  /\ pc \in {"idle", "write", "move", "save", "moved", "ruined"}
  /\ doing \in {"none", "read", "add"} /\ cfd \in Fd /\ new_zone \in Zone
  /\ doing = "none" <=> pc = "idle"
  /\ new_zone # 0 <=> doing = "add" /\ pc # "write"
ShownOK == out \in Table \cup {<<>>} /\ spoiled \subseteq Files

\* TypeOK is the conjunction of these parts.
LEMMA TypeParts ==
  TypeOK <=> StoreOK /\ TableOK /\ fp \in [Fd -> Descriptor] /\ CallOK /\ ShownOK
<1>1. ZMap!TypeOK <=> StoreOK
  BY Sizes DEF ZMap!TypeOK, ZMap!Bit, ZMap!Bits, ZMap!Number, ZMap!Stored, StoreOK,
     Zone, Number
<1> QED BY <1>1 DEF TypeOK, TableOK, CallOK, ShownOK, Zone, Inode, Iterator, Descriptor

\* zone.c:18: alloc_zone sets one clear bit and fills that zone with zeros, or
\* answers 0 and changes nothing; either way no hint is left.
LEMMA Alloc ==
  ASSUME StoreOK, ZMap!HintFree, NEW n \in Zone, ZMap!alloc_zone(n)
  PROVE  /\ last_free_zone_num' = 0
         /\ \/ /\ n \in Number
               /\ n - 1 \notin zmap
               /\ zmap' = zmap \cup {n - 1}
               /\ zones' = [zones EXCEPT ![n] = EmptyTable]
            \/ /\ n = 0
               /\ UNCHANGED <<zmap, zones>>
<1>0. ZoneBits \in Nat \ {0} /\ zmap \subseteq 0 .. ZoneBits - 1
      /\ last_free_zone_num \in Zone
  BY Sizes DEF StoreOK
<1> DEFINE index == ZMap!find_first_zero(zmap, ZoneBits)
<1>1. /\ index \in 0 .. ZoneBits
      /\ index \notin zmap
  BY <1>0, SameScan, Bitmaps!FindFirstZero DEF Bitmaps!Bits
<1>2. CASE ZMap!AllocByScan(n)
  BY <1>0, <1>1, <1>2 DEF ZMap!AllocByScan, ZMap!Take, ZMap!Written, ZMap!Stored, Number
<1>3. CASE ZMap!AllocFails(n)
  BY <1>0, <1>1, <1>3 DEF ZMap!AllocFails
<1>4. CASE ZMap!AllocByHint(n)
  BY <1>0, <1>4 DEF ZMap!AllocByHint, ZMap!Take, ZMap!Written, ZMap!Stored, ZMap!HintFree,
     Number, Zone
<1> QED BY <1>2, <1>3, <1>4 DEF ZMap!alloc_zone

\* What an empty zone, a new inode and a free descriptor are.
LEMMA UnusedType ==
  EmptyTable \in Table /\ Fresh \in Inode /\ Unused \in Descriptor
<1>1. EmptyTable \in Table
  BY Sizes DEF EmptyTable, Table
<1>2. Fresh \in Inode
  BY Sizes DEF Fresh, Inode, Zone
<1>3. 0 \in Zone /\ 0 \in 0 .. U32_PER_BLOCK /\ 0 \in -1 .. NR_DIRECT_ZONES - 1
  BY Sizes DEF Zone
<1>4. MakeIterator(Fresh) \in Iterator
  BY <1>1, <1>3 DEF MakeIterator, Iterator, Fresh
<1> QED BY <1>1, <1>2, <1>4 DEF Unused, Descriptor

\* The iterator that is made for an inode.
LEMMA MakeIteratorType ==
  ASSUME NEW inode \in Inode
  PROVE  MakeIterator(inode) \in Iterator
<1>1. 0 \in Zone /\ 0 \in 0 .. U32_PER_BLOCK /\ 0 \in -1 .. NR_DIRECT_ZONES - 1
  BY Sizes DEF Zone
<1> QED BY <1>1, UnusedType DEF MakeIterator, Iterator, Inode

\* What is read is a table, from zone 0 too.
LEMMA ReadZoneType ==
  ASSUME StoreOK, NEW n
  PROVE  read_zone(n) \in Table
BY UnusedType DEF StoreOK, read_zone

\* What is in a word of a table is a zone number or 0.
LEMMA WordType ==
  ASSUME NEW t \in Table, NEW w \in Word
  PROVE  t[w] \in Zone
BY DEF Table, Zone

\* The groups of blocks are as many as the words of ind2.
LEMMA GroupBound ==
  ASSUME NEW need \in Nat \ {0}, need <= NR_IND2_ZONES
  PROVE  /\ need \div NR_IND1_ZONES \in 0 .. U32_PER_BLOCK
         /\ (need % NR_IND1_ZONES) - 1 \in Word \cup {-1}
<1>1. PICK u, q, r : u = U32_PER_BLOCK /\ q = need \div u /\ r = need % u
  OBVIOUS
<1>2. u \in Nat \ {0} /\ q \in Nat /\ r \in 0 .. u - 1
  BY <1>1, Sizes
<1>3. need = u * q + r
  BY <1>1, <1>2
<1>4. need <= u * u
  BY <1>1 DEF NR_IND2_ZONES
<1>5. q <= u
  <2> SUFFICES ASSUME q >= u + 1 PROVE FALSE
    BY <1>2
  <2>1. u * q >= u * (u + 1)
    BY <1>2
  <2>2. u * (u + 1) = u * u + u
    BY <1>2
  <2> QED BY <1>2, <1>3, <1>4, <2>1, <2>2
<1> QED BY <1>1, <1>2, <1>5 DEF NR_IND1_ZONES, Word

\* As many blocks as a file can have.
Most == NR_DIRECT_ZONES + NR_IND1_ZONES + NR_IND2_ZONES

\* dz.c:36: the place of block k, before any index zone is read.
LEMMA PlacedParts ==
  ASSUME NEW d \in Iterator, NEW k \in 1 .. Most
  PROVE  LET e == Placed(d, k)
         IN  /\ e \in Iterator /\ e.num = k /\ e.count = d.count /\ e.znum = d.znum
             /\ e.znum1 = d.znum1 /\ e.zbuf1 = d.zbuf1
             /\ e.znum2 = d.znum2 /\ e.zbuf2 = d.zbuf2
             /\ e.place = "direct" <=> k <= NR_DIRECT_ZONES
             /\ e.place = "ind1" <=> /\ k > NR_DIRECT_ZONES
                                     /\ k <= NR_DIRECT_ZONES + NR_IND1_ZONES
             /\ e.place = "direct" => e.index = k - 1
             /\ e.place = "ind1" => e.index = k - NR_DIRECT_ZONES - 1
             /\ e.place = "ind2" =>
                  LET need == k - NR_DIRECT_ZONES - NR_IND1_ZONES
                  IN  /\ need > 0 /\ e.index2 = need \div NR_IND1_ZONES
                      /\ e.index = (need % NR_IND1_ZONES) - 1
<1> DEFINE need == k - NR_DIRECT_ZONES - NR_IND1_ZONES
           at == [d EXCEPT !.num = k, !.asize = IF k = d.count THEN Tail ELSE BLOCKSIZE]
<1>1. /\ k \in Nat \ {0} /\ need \in Int /\ BLOCKSIZE \in Zone /\ Tail \in Zone
      /\ NR_DIRECT_ZONES \in Nat \ {0} /\ NR_IND1_ZONES \in Nat \ {0} /\ NR_IND2_ZONES \in Nat
      /\ NR_IND1_ZONES = U32_PER_BLOCK
  BY Sizes DEF Zone, Number, Most
<1>2. need <= NR_IND2_ZONES
  BY <1>1 DEF Most
<1>3. /\ at \in Iterator /\ at.num = k /\ at.count = d.count /\ at.znum = d.znum
      /\ at.znum1 = d.znum1 /\ at.zbuf1 = d.zbuf1
      /\ at.znum2 = d.znum2 /\ at.zbuf2 = d.zbuf2
  BY <1>1 DEF Iterator
<1>4. Placed(d, k) = IF k <= NR_DIRECT_ZONES
                     THEN [at EXCEPT !.place = "direct", !.index = k - 1]
                     ELSE IF need <= 0
                     THEN [at EXCEPT !.place = "ind1", !.index = k - NR_DIRECT_ZONES - 1]
                     ELSE [at EXCEPT !.place = "ind2",
                                     !.index2 = need \div NR_IND1_ZONES,
                                     !.index = (need % NR_IND1_ZONES) - 1]
  BY DEF Placed
<1>50. PICK e : e = Placed(d, k)
  OBVIOUS
<1> HIDE DEF at
<1> SUFFICES
      /\ e \in Iterator /\ e.num = k /\ e.count = d.count /\ e.znum = d.znum
      /\ e.znum1 = d.znum1 /\ e.zbuf1 = d.zbuf1
      /\ e.znum2 = d.znum2 /\ e.zbuf2 = d.zbuf2
      /\ \/ /\ e.place = "direct" /\ k <= NR_DIRECT_ZONES /\ e.index = k - 1
         \/ /\ e.place = "ind1" /\ ~ (k <= NR_DIRECT_ZONES)
            /\ k <= NR_DIRECT_ZONES + NR_IND1_ZONES
            /\ e.index = k - NR_DIRECT_ZONES - 1
         \/ /\ e.place = "ind2" /\ ~ (k <= NR_DIRECT_ZONES)
            /\ ~ (k <= NR_DIRECT_ZONES + NR_IND1_ZONES)
            /\ need > 0 /\ e.index2 = need \div NR_IND1_ZONES
            /\ e.index = (need % NR_IND1_ZONES) - 1
  BY <1>1, <1>50
<1>5. CASE k <= NR_DIRECT_ZONES
  <2>1. k - 1 \in -1 .. NR_DIRECT_ZONES - 1
    BY <1>1, <1>5
  <2>2. Placed(d, k) = [at EXCEPT !.place = "direct", !.index = k - 1]
    BY <1>4, <1>5
  <2>3. e = [at EXCEPT !.place = "direct", !.index = k - 1]
    BY <1>50, <2>2
  <2>4. /\ e \in Iterator /\ e.place = "direct" /\ e.index = k - 1
        /\ e.num = at.num /\ e.count = at.count /\ e.znum = at.znum
        /\ e.znum1 = at.znum1 /\ e.zbuf1 = at.zbuf1
        /\ e.znum2 = at.znum2 /\ e.zbuf2 = at.zbuf2
    BY <1>3, <2>1, <2>3 DEF Iterator
  <2> QED BY <1>3, <1>5, <2>4
<1>6. CASE k > NR_DIRECT_ZONES /\ need <= 0
  <2>1. k - NR_DIRECT_ZONES - 1 \in Word
    BY <1>1, <1>6 DEF Word
  <2>2. Placed(d, k) = [at EXCEPT !.place = "ind1", !.index = k - NR_DIRECT_ZONES - 1]
    BY <1>1, <1>4, <1>6
  <2>3. k <= NR_DIRECT_ZONES + NR_IND1_ZONES
    BY <1>1, <1>6
  <2>4. ~ (k <= NR_DIRECT_ZONES)
    BY <1>1, <1>6
  <2>5. e = [at EXCEPT !.place = "ind1", !.index = k - NR_DIRECT_ZONES - 1]
    BY <1>50, <2>2
  <2>6. /\ e \in Iterator /\ e.place = "ind1" /\ e.index = k - NR_DIRECT_ZONES - 1
        /\ e.num = at.num /\ e.count = at.count /\ e.znum = at.znum
        /\ e.znum1 = at.znum1 /\ e.zbuf1 = at.zbuf1
        /\ e.znum2 = at.znum2 /\ e.zbuf2 = at.zbuf2
    BY <1>3, <2>1, <2>5 DEF Iterator
  <2> QED BY <1>3, <2>3, <2>4, <2>6
<1>7. CASE k > NR_DIRECT_ZONES /\ need > 0
  <2>1. need \in Nat \ {0}
    BY <1>1, <1>7
  <2>2. PICK i2, i1 : i2 = need \div NR_IND1_ZONES /\ i1 = (need % NR_IND1_ZONES) - 1
    OBVIOUS
  <2>3. i2 \in 0 .. U32_PER_BLOCK /\ i1 \in Word \cup {-1}
    BY <1>2, <2>1, <2>2, GroupBound
  <2>4. i1 \in Word \cup (-1 .. NR_DIRECT_ZONES - 1)
    BY <1>1, <2>3
  <2>5. Placed(d, k) = [at EXCEPT !.place = "ind2", !.index2 = i2, !.index = i1]
    BY <1>1, <1>4, <1>7, <2>2
  <2>6. ~ (k <= NR_DIRECT_ZONES + NR_IND1_ZONES)
    BY <1>1, <1>7
  <2>7. ~ (k <= NR_DIRECT_ZONES)
    BY <1>1, <1>7
  <2>8. /\ e \in Iterator /\ e.place = "ind2" /\ e.index = i1 /\ e.index2 = i2
        /\ e.num = at.num /\ e.count = at.count /\ e.znum = at.znum
        /\ e.znum1 = at.znum1 /\ e.zbuf1 = at.zbuf1
        /\ e.znum2 = at.znum2 /\ e.zbuf2 = at.zbuf2
    <3>1. e = [at EXCEPT !.place = "ind2", !.index2 = i2, !.index = i1]
      BY <1>50, <2>5
    <3> QED BY <1>3, <2>3, <2>4, <3>1 DEF Iterator
  <2> QED BY <1>3, <1>7, <2>2, <2>6, <2>7, <2>8
<1> QED BY <1>1, <1>5, <1>6, <1>7

\* read_at_znum1, read_at_znum2
LEMMA ReadAtType ==
  ASSUME StoreOK, NEW d \in Iterator, NEW n \in Zone
  PROVE  ReadAt1(d, n) \in Iterator /\ ReadAt2(d, n) \in Iterator
<1>1. read_zone(n) \in Table
  BY ReadZoneType
<1> QED BY <1>1 DEF ReadAt1, ReadAt2, Iterator

\* A word of a copy of an index zone.
LEMMA WordAtType ==
  ASSUME NEW d \in Iterator
  PROVE  /\ zbuf2_at(d, d.index2) \in Zone
         /\ d.place # "direct" /\ d.index \in Word \cup {-1} => zbuf1_at(d, d.index) \in Zone
<1>1. d.index2 = U32_PER_BLOCK \/ d.index2 \in Word
  BY Sizes DEF Iterator, Word
<1>2. d.zbuf1 \in Table /\ d.zbuf2 \in Table /\ d.znum2 \in Zone /\ d.asize \in Zone
  BY DEF Iterator
<1> QED BY <1>1, <1>2, WordType DEF zbuf1_at, zbuf2_at

\* dzi_move_to, with the index zones there, step by step.
LEMMA ArrivedParts ==
  ASSUME NEW d, NEW inode
  PROVE  LET d2 == ReadAt2(d, inode.ind2)
             n == IF d.place = "ind1" THEN inode.ind1 ELSE zbuf2_at(d2, d2.index2)
             d1 == ReadAt1(IF d.place = "ind1" THEN d ELSE d2, n)
             m == zbuf1_at(d1, d.index)
         IN  /\ d.place = "direct" =>
                  Arrived(d, inode) = [d EXCEPT !.znum = inode.direct[d.index + 1]]
             /\ d.place \in {"ind1", "ind2"} =>
                  Arrived(d, inode) = IF m = 0 THEN d1 ELSE [d1 EXCEPT !.znum = m]
BY DEF Arrived, ReadAt2

\* The index of an iterator is one of the table its place says, and it is on a
\* zone only if it has been sent to a block.
Within(d) ==
  /\ d.num \in 0 .. Most
  /\ d.num = 0 => d.znum = 0
  /\ d.place = "direct" => d.index \in 0 .. NR_DIRECT_ZONES - 1
  /\ d.place # "direct" => d.index \in Word \cup {-1}

\* A descriptor in use: an iterator counts the blocks of its file, which are
\* not too many.  It is ahead of the inode by the blocks that my_write has added
\* and not yet, or never, counted in the size.
Counting(f) ==
  /\ f.inode_nr \in Files /\ f.inode.blocks <= f.dzi.count
  /\ f.dzi.count <= MaxBlocks[f.inode_nr]

\* A file that grows stays short enough.
Lengths ==
  /\ \A i \in Files : itab[i].blocks <= MaxBlocks[i]
  /\ \A fd \in Fd : Within(fp[fd].dzi) /\ (fp[fd].used => Counting(fp[fd]))
  /\ pc # "idle" => fp[cfd].used
  /\ pc \notin {"idle", "write"} => fp[cfd].dzi.num # 0
  /\ pc = "write" => doing = "add"
  /\ doing = "add" /\ pc # "write" =>
       /\ fp[cfd].dzi.count < MaxBlocks[fp[cfd].inode_nr]
       /\ fp[cfd].dzi.num = fp[cfd].dzi.count + 1

\* Type correctness, with what it depends on.
Types ==
  /\ StoreOK /\ TableOK /\ fp \in [Fd -> Descriptor] /\ CallOK /\ ShownOK
  /\ ZMap!HintFree /\ Lengths

\* Bounds on lengths.
LEMMA Bounds ==
  ASSUME NEW i \in Files
  PROVE  MaxBlocks[i] \in 0 .. Most /\ Most \in Nat
<1>1. Most \in Nat
  BY Sizes DEF Most
<1>2. MaxBlocks \in [Files -> 0 .. Most]
  BY DataZonesAssumption DEF DataZonesAssumption, Most
<1> QED BY <1>1, <1>2

\* A descriptor with another iterator.
LEMMA NewIterator ==
  ASSUME NEW f \in Descriptor, NEW d \in Iterator, NEW g, g = [f EXCEPT !.dzi = d]
  PROVE  /\ g \in Descriptor /\ g.used = f.used /\ g.inode_nr = f.inode_nr
         /\ g.inode = f.inode /\ g.dzi = d
         /\ d.count = f.dzi.count /\ Counting(f) => Counting(g)
BY DEF Descriptor, Counting

\* The place of a block is one of a table.
LEMMA PlacedWithin ==
  ASSUME NEW d \in Iterator, NEW k \in 1 .. Most
  PROVE  Within(Placed(d, k))
<1>1. PICK e : e = Placed(d, k)
  OBVIOUS
<1> DEFINE need == k - NR_DIRECT_ZONES - NR_IND1_ZONES
<1>2. /\ NR_DIRECT_ZONES \in Nat \ {0} /\ NR_IND1_ZONES \in Nat \ {0} /\ NR_IND2_ZONES \in Nat
      /\ NR_IND1_ZONES = U32_PER_BLOCK /\ k \in Nat \ {0} /\ need \in Int
  BY Sizes
<1>3. /\ e.place \in {"direct", "ind1", "ind2"}
      /\ e.place = "direct" <=> k <= NR_DIRECT_ZONES
      /\ e.place = "ind1" <=> (k > NR_DIRECT_ZONES /\ k <= NR_DIRECT_ZONES + NR_IND1_ZONES)
      /\ e.place = "direct" => e.index = k - 1
      /\ e.place = "ind1" => e.index = k - NR_DIRECT_ZONES - 1
      /\ e.place = "ind2" => need > 0 /\ e.index = (need % NR_IND1_ZONES) - 1
  BY <1>1, PlacedParts DEF Iterator
<1>50. e.num = k
  BY <1>1, PlacedParts
<1>51. e.num \in 0 .. Most /\ e.num # 0
  BY <1>50
<1>4. CASE e.place = "direct"
  BY <1>1, <1>2, <1>3, <1>4, <1>51 DEF Within
<1>5. CASE e.place = "ind1"
  BY <1>1, <1>2, <1>3, <1>5, <1>51 DEF Within, Word
<1>6. CASE e.place = "ind2"
  <2>1. need \in Nat \ {0} /\ need <= NR_IND2_ZONES
    BY <1>2, <1>3, <1>6 DEF Most
  <2>2. e.index \in Word \cup {-1}
    BY <1>3, <1>6, <2>1, GroupBound
  <2> QED BY <1>1, <1>6, <1>51, <2>2 DEF Within
<1> QED BY <1>3, <1>4, <1>5, <1>6

\* read_at_znum1 and read_at_znum2 move nothing.
LEMMA ReadAtParts ==
  ASSUME StoreOK, NEW d \in Iterator, NEW n \in Zone, NEW e,
         e = ReadAt1(d, n) \/ e = ReadAt2(d, n)
  PROVE  /\ e \in Iterator /\ e.count = d.count /\ e.num = d.num /\ e.place = d.place
         /\ e.index = d.index /\ e.index2 = d.index2 /\ e.znum = d.znum
         /\ e.asize = d.asize
<1>1. read_zone(n) \in Table
  BY ReadZoneType
<1> QED BY <1>1 DEF ReadAt1, ReadAt2, Iterator

\* An iterator that arrives counts as before and stays in place.
LEMMA ArrivedType ==
  ASSUME StoreOK, NEW d \in Iterator, NEW inode \in Inode, Within(d)
  PROVE  LET e == Arrived(d, inode)
         IN  /\ e \in Iterator /\ e.count = d.count /\ e.num = d.num
             /\ e.place = d.place /\ e.index = d.index /\ e.index2 = d.index2
             /\ e.asize = d.asize
<1>1. inode.ind1 \in Zone /\ inode.ind2 \in Zone
  BY DEF Inode
<1>2. CASE d.place = "direct"
  <2>1. d.index + 1 \in 1 .. NR_DIRECT_ZONES
    BY <1>2, Sizes DEF Within
  <2>2. inode.direct[d.index + 1] \in Zone
    BY <2>1 DEF Inode
  <2>3. Arrived(d, inode) = [d EXCEPT !.znum = inode.direct[d.index + 1]]
    BY <1>2, ArrivedParts
  <2> QED BY <2>2, <2>3 DEF Iterator
<1>3. CASE d.place \in {"ind1", "ind2"}
  <2>1. PICK d2 : d2 = ReadAt2(d, inode.ind2)
    OBVIOUS
  <2>2. /\ d2 \in Iterator /\ d2.count = d.count /\ d2.num = d.num /\ d2.place = d.place
        /\ d2.index = d.index /\ d2.index2 = d.index2 /\ d2.asize = d.asize
    BY <1>1, <2>1, ReadAtParts
  <2>3. PICK n : n = IF d.place = "ind1" THEN inode.ind1 ELSE zbuf2_at(d2, d2.index2)
    OBVIOUS
  <2>4. n \in Zone
    BY <1>1, <2>2, <2>3, WordAtType
  <2>5. PICK b : b = IF d.place = "ind1" THEN d ELSE d2
    OBVIOUS
  <2>6. PICK d1 : d1 = ReadAt1(b, n)
    OBVIOUS
  <2>7. /\ d1 \in Iterator /\ d1.count = d.count /\ d1.num = d.num /\ d1.place = d.place
        /\ d1.index = d.index /\ d1.index2 = d.index2 /\ d1.asize = d.asize
    <3>1. /\ b \in Iterator /\ b.count = d.count /\ b.num = d.num /\ b.place = d.place
          /\ b.index = d.index /\ b.index2 = d.index2 /\ b.asize = d.asize
      BY <2>2, <2>5
    <3> QED BY <2>4, <2>6, <3>1, ReadAtParts
  <2>8. PICK m : m = zbuf1_at(d1, d.index)
    OBVIOUS
  <2>9. m \in Zone
    BY <1>3, <2>7, <2>8, WordAtType DEF Within
  <2>10. Arrived(d, inode) = IF m = 0 THEN d1 ELSE [d1 EXCEPT !.znum = m]
    BY <1>3, <2>1, <2>3, <2>5, <2>6, <2>8, ArrivedParts
  <2> QED BY <2>7, <2>9, <2>10 DEF Iterator
<1> QED BY <1>2, <1>3 DEF Iterator

\* dzi_redirect moves nothing either.
LEMMA RedirectedType ==
  ASSUME NEW d \in Iterator, NEW n \in Zone, Within(d)
  PROVE  LET e == Redirected(d, n)
         IN  /\ e \in Iterator /\ e.count = d.count /\ e.num = d.num
             /\ e.place = d.place /\ e.index = d.index
<1>1. n \in 0 .. ZoneBits
  BY DEF Zone
<1>2. CASE d.place = "direct"
  <2>1. Redirected(d, n) = [d EXCEPT !.znum = n]
    BY <1>2 DEF Redirected
  <2> QED BY <2>1 DEF Iterator
<1>3. CASE d.place # "direct" /\ d.index = -1
  <2>1. Redirected(d, n) = [d EXCEPT !.znum = n, !.asize = n]
    BY <1>3 DEF Redirected
  <2> QED BY <2>1 DEF Iterator
<1>4. CASE d.place # "direct" /\ d.index # -1
  <2>1. Redirected(d, n) = [d EXCEPT !.znum = n, !.zbuf1[d.index] = n]
    BY <1>4 DEF Redirected
  <2>2. [d.zbuf1 EXCEPT ![d.index] = n] \in Table
    BY <1>1 DEF Iterator, Table
  <2>3. Redirected(d, n) = [d EXCEPT !.znum = n, !.zbuf1 = [d.zbuf1 EXCEPT ![d.index] = n]]
    BY <2>1
  <2> QED BY <2>2, <2>3 DEF Iterator
<1> QED BY <1>2, <1>3, <1>4

-----------------------------------------------------------------------------
(* Type correctness *)

\* Types hold at first.
LEMMA InitTypes == Init => Types
<1> SUFFICES ASSUME Init PROVE Types
  OBVIOUS
<1>1. StoreOK /\ TableOK /\ fp \in [Fd -> Descriptor] /\ ShownOK
  BY UnusedType, Sizes DEF Init, StoreOK, TableOK, ShownOK, Zone
<1>2. CallOK
  BY Sizes DEF Init, CallOK, Zone, Fd
<1>3. \A fd \in Fd : Within(fp[fd].dzi) /\ ~ fp[fd].used
  BY Sizes DEF Most, Init, Unused, MakeIterator, Within
<1>4. \A i \in Files : itab[i].blocks <= MaxBlocks[i]
  BY Bounds, Sizes DEF Init, Fresh
<1> QED BY <1>1, <1>2, <1>3, <1>4 DEF Types, Lengths, Init, ZMap!HintFree

\* One descriptor is replaced, nothing else that Types is about is changed but
\* where a call is.
LEMMA OneDescriptor ==
  ASSUME Types, NEW fd \in Fd, NEW g \in Descriptor,
         fp' = [fp EXCEPT ![fd] = g], UNCHANGED table,
         Within(g.dzi), g.used => Counting(g),
         StoreOK', ZMap!HintFree', CallOK', ShownOK',
         pc' # "idle" => cfd' = fd /\ g.used,
         pc' \notin {"idle", "write"} => g.dzi.num # 0,
         pc' = "write" => doing' = "add",
         doing' = "add" /\ pc' # "write" => /\ g.dzi.count < MaxBlocks[g.inode_nr]
                                            /\ g.dzi.num = g.dzi.count + 1
  PROVE  Types'
<1>1. fp' \in [Fd -> Descriptor] /\ TableOK'
  BY DEF Types, TableOK, table
<1>2. \A c \in Fd : fp'[c] = IF c = fd THEN g ELSE fp[c]
  BY DEF Types
<1>3. CallOK' => (doing' = "add" => pc' # "idle")
  BY DEF CallOK
<1>4. Lengths'
  BY <1>2, <1>3 DEF Types, Lengths, table
<1> QED BY <1>1, <1>4 DEF Types

\* The descriptor of a call.
LEMMA Caller ==
  ASSUME Types, pc # "idle"
  PROVE  /\ cfd \in Fd /\ fp[cfd] \in Descriptor /\ fp[cfd].used /\ Within(fp[cfd].dzi)
         /\ (pc # "write" => fp[cfd].dzi.num # 0) /\ fp[cfd].inode_nr \in Files
         /\ fp[cfd].inode \in Inode /\ fp[cfd].dzi \in Iterator
         /\ Counting(fp[cfd])
BY DEF Types, CallOK, Lengths, Counting, Descriptor

\* my_creat keeps the types.
LEMMA my_creatTypes ==
  ASSUME Types, NEW i \in Files, my_creat(i)
  PROVE  Types'
<1>1. Fresh \in Inode /\ Fresh.blocks = 0
  BY UnusedType DEF Fresh
<1>2. TableOK'
  BY <1>1 DEF Types, my_creat, TableOK
<1>3. Lengths'
  BY <1>1, Bounds DEF Types, my_creat, TableOK, Lengths, call
<1> QED BY <1>2, <1>3 DEF Types, my_creat, store, call, StoreOK, CallOK, ShownOK, ZMap!HintFree

\* What a descriptor that is opened is like.
LEMMA OpenedParts ==
  ASSUME StoreOK, NEW i \in Files, NEW inode \in Inode, inode.blocks <= MaxBlocks[i],
         NEW g,
         g = [used |-> TRUE, inode_nr |-> i, inode |-> inode, past |-> FALSE,
              dzi |-> IF inode.blocks = 0 THEN MakeIterator(inode)
                      ELSE Arrived(Placed(MakeIterator(inode), 1), inode)]
  PROVE  g \in Descriptor /\ Within(g.dzi) /\ Counting(g)
<1>1. PICK start : start = MakeIterator(inode)
  OBVIOUS
<1>2. start \in Iterator /\ start.count = inode.blocks /\ Within(start)
  BY <1>1, MakeIteratorType, Sizes DEF MakeIterator, Within, Most
<1>3. PICK first : first = Placed(start, 1)
  OBVIOUS
<1>4. 1 \in 1 .. Most
  BY Sizes DEF Most
<1>5. first \in Iterator /\ first.count = inode.blocks /\ Within(first) /\ first.num = 1
  BY <1>2, <1>3, <1>4, PlacedParts, PlacedWithin
<1>6. PICK there : there = Arrived(first, inode)
  OBVIOUS
<1>7. there \in Iterator /\ there.count = inode.blocks /\ Within(there)
  BY <1>5, <1>6, ArrivedType DEF Within
<1>8. g.dzi = start \/ g.dzi = there
  BY <1>1, <1>3, <1>6
<1>9. inode.blocks \in Nat
  BY DEF Inode
<1> QED BY <1>2, <1>7, <1>8, <1>9 DEF Descriptor, Counting

\* my_open keeps the types.
LEMMA my_openTypes ==
  ASSUME Types, NEW i \in Files, my_open(i)
  PROVE  Types'
<1>1. itab[i] \in Inode /\ itab[i].blocks <= MaxBlocks[i]
  BY DEF Types, TableOK, Lengths
<1>2. PICK fd \in Fd :
         fp' = [fp EXCEPT ![fd] =
                  [used |-> TRUE, inode_nr |-> i, inode |-> itab[i],
                   past |-> FALSE,
                   dzi |-> IF itab[i].blocks = 0 THEN MakeIterator(itab[i])
                           ELSE Arrived(Placed(MakeIterator(itab[i]), 1), itab[i])]]
  BY DEF my_open
<1>3. PICK g : g = [used |-> TRUE, inode_nr |-> i, inode |-> itab[i],
                    past |-> FALSE,
                    dzi |-> IF itab[i].blocks = 0 THEN MakeIterator(itab[i])
                            ELSE Arrived(Placed(MakeIterator(itab[i]), 1), itab[i])]
  OBVIOUS
<1>4. g \in Descriptor /\ Within(g.dzi) /\ Counting(g)
  BY <1>1, <1>3, OpenedParts DEF Types
<1>5. fp' = [fp EXCEPT ![fd] = g]
  BY <1>2, <1>3
<1>6. /\ UNCHANGED <<store, table, call, spoiled>> /\ out' = <<>> /\ pc = "idle"
  BY DEF my_open
<1>7. StoreOK' /\ ZMap!HintFree' /\ CallOK' /\ ShownOK' /\ pc' = "idle" /\ doing' = "none"
  BY <1>6 DEF Types, store, call, StoreOK, CallOK, ShownOK, ZMap!HintFree
<1> QED BY <1>4, <1>5, <1>6, <1>7, OneDescriptor

\* my_close keeps the types.
LEMMA my_closeTypes ==
  ASSUME Types, NEW fd \in Fd, my_close(fd)
  PROVE  Types'
<1>1. fp[fd] \in Descriptor /\ Counting(fp[fd])
  BY DEF Types, my_close, Lengths
<1>2. /\ fp[fd].inode \in Inode /\ fp[fd].inode_nr \in Files
      /\ fp[fd].inode.blocks <= MaxBlocks[fp[fd].inode_nr]
  BY <1>1, Bounds DEF Descriptor, Inode, Iterator, Counting
<1>3. TableOK' /\ \A i \in Files : itab'[i].blocks <= MaxBlocks[i]
  BY <1>2 DEF Types, TableOK, my_close, Lengths
<1>4. Within(Unused.dzi) /\ ~ Unused.used /\ Unused \in Descriptor
  BY Sizes, UnusedType DEF Unused, MakeIterator, Within, Most
<1>5. fp' \in [Fd -> Descriptor]
  BY <1>4 DEF Types, my_close
<1>6. Lengths'
  BY <1>3, <1>4 DEF Types, Lengths, my_close, call, CallOK
<1> QED BY <1>3, <1>5, <1>6 DEF Types, my_close, store, call, StoreOK, CallOK, ShownOK,
           ZMap!HintFree

\* The zone clear_data_zones frees last is one it frees.
LEMMA LastCleared ==
  ASSUME NEW inode \in Inode, Cleared(inode) # {}
  PROVE  ClearedLast(inode) \in Cleared(inode)
<1> DEFINE J == DirectPrefix(inode)
           direct == {inode.direct[k] : k \in J}
<1>1. NR_DIRECT_ZONES \in Nat \ {0} /\ J \subseteq 1 .. NR_DIRECT_ZONES
  BY Sizes DEF DirectPrefix
<1>2. direct \subseteq Cleared(inode)
  BY DEF Cleared
<1>3. CASE J = 1 .. NR_DIRECT_ZONES
  <2>1. inode.direct[NR_DIRECT_ZONES] \in direct
    BY <1>1, <1>3
  <2>2. CASE inode.ind1 = 0
    BY <1>2, <1>3, <2>1, <2>2 DEF ClearedLast
  <2>3. CASE inode.ind1 # 0 /\ inode.ind2 = 0
    BY <1>3, <2>3 DEF ClearedLast, Cleared
  <2>4. CASE inode.ind1 # 0 /\ inode.ind2 # 0
    BY <1>3, <2>4 DEF ClearedLast, Cleared
  <2> QED BY <2>2, <2>3, <2>4
<1>4. CASE J # 1 .. NR_DIRECT_ZONES
  <2>1. J # {}
    BY <1>4 DEF Cleared
  <2>2. PICK c \in J : \A k \in J : k <= c
    <3> DEFINE S == {n \in Nat : n > 0 /\ n \notin J}
    <3>1. NR_DIRECT_ZONES + 1 \in S
      BY <1>1
    <3>2. PICK n \in S : \A m \in S : n <= m
      <4>1. S \in SUBSET Nat /\ S # {}
        BY <3>1
      <4> QED BY <4>1, Bitmaps!LeastNumber
    <3>3. \A k \in J : k < n
      <4> SUFFICES ASSUME NEW k \in J, k >= n PROVE FALSE
        BY <1>1, <3>2
      <4>1. n \in 1 .. k /\ n \in 1 .. NR_DIRECT_ZONES
        BY <1>1, <3>2
      <4>2. \A l \in 1 .. k : inode.direct[l] # 0
        BY DEF DirectPrefix
      <4>3. \A l \in 1 .. n : inode.direct[l] # 0
        BY <1>1, <4>1, <4>2, <3>2
      <4>4. n \in J
        BY <4>1, <4>3 DEF DirectPrefix
      <4> QED BY <3>2, <4>4
    <3>4. n - 1 \in J
      <4>1. PICK k \in J : TRUE
        BY <2>1
      <4>2. n - 1 \in Nat \ {0} /\ n - 1 < n
        BY <1>1, <3>2, <3>3, <4>1
      <4> QED BY <3>2, <4>2
    <3> QED BY <1>1, <3>2, <3>3, <3>4
  <2>3. J = 1 .. c
    <3>1. \A l \in 1 .. c : l \in J
      BY <1>1, <2>2 DEF DirectPrefix
    <3>2. \A k \in J : k \in 1 .. c
      BY <1>1, <2>2
    <3> QED BY <3>1, <3>2
  <2>4. Cardinality(J) = c
    BY <1>1, <2>2, <2>3, FS_Interval
  <2>5. ClearedLast(inode) = inode.direct[c]
    BY <1>4, <2>4 DEF ClearedLast
  <2> QED BY <1>2, <2>2, <2>5
<1> QED BY <1>3, <1>4

\* What is freed are zones that are named somewhere.
LEMMA ClearedType ==
  ASSUME StoreOK, NEW inode \in Inode
  PROVE  Cleared(inode) \subseteq Zone
<1>1. \A n : \A w \in Word : read_zone(n)[w] \in Zone
  BY ReadZoneType, WordType
<1>2. \A n : Named(read_zone(n)) \subseteq Zone /\ Groups(read_zone(n)) \subseteq Zone
  BY <1>1 DEF Named, Groups, Prefix
<1>3. \A k \in DirectPrefix(inode) : inode.direct[k] \in Zone
  BY DEF DirectPrefix, Inode
<1>4. inode.ind1 \in Zone /\ inode.ind2 \in Zone
  BY DEF Inode
<1> QED BY <1>2, <1>3, <1>4 DEF Cleared

\* my_remove keeps the types.
LEMMA my_removeTypes ==
  ASSUME Types, NEW i \in Files, my_remove(i)
  PROVE  Types'
<1>1. PICK C, last : C = Cleared(itab[i]) /\ last = ClearedLast(itab[i])
  OBVIOUS
<1>2. itab[i] \in Inode
  BY DEF Types, TableOK
<1>3. C \subseteq Zone /\ (C # {} => last \in C)
  BY <1>1, <1>2, ClearedType, LastCleared DEF Types
<1>4. /\ zmap' = zmap \ {z - 1 : z \in C}
      /\ last_free_zone_num' = IF C = {} THEN last_free_zone_num ELSE last
  BY <1>1 DEF my_remove
<1>5. StoreOK' /\ ZMap!HintFree'
  BY <1>3, <1>4 DEF Types, StoreOK, my_remove, ZMap!HintFree
<1>6. Lengths'
  BY DEF Types, Lengths, my_remove, call
<1> QED BY <1>5, <1>6 DEF Types, my_remove, call, TableOK, CallOK, ShownOK

\* An iterator that is sent to a block in reach.
LEMMA SentParts ==
  ASSUME NEW f \in Descriptor, NEW k \in 1 .. Most, NEW g,
         g = [f EXCEPT !.dzi = Placed(@, k)]
  PROVE  /\ g \in Descriptor /\ g.used = f.used /\ g.inode_nr = f.inode_nr
         /\ g.inode = f.inode /\ g.dzi = Placed(f.dzi, k) /\ g.dzi.num = k
         /\ Within(g.dzi) /\ (Counting(f) => Counting(g))
<1>1. f.dzi \in Iterator
  BY DEF Descriptor
<1>2. PICK d : d = Placed(f.dzi, k)
  OBVIOUS
<1>3. d \in Iterator /\ d.count = f.dzi.count /\ d.num = k /\ Within(d)
  BY <1>1, <1>2, PlacedParts, PlacedWithin
<1>4. g = [f EXCEPT !.dzi = d]
  BY <1>2
<1> QED BY <1>2, <1>3, <1>4, NewIterator

\* ReadOn keeps the types.
LEMMA ReadOnTypes ==
  ASSUME Types, NEW fd \in Fd, ReadOn(fd)
  PROVE  Types'
<1>1. PICK f : f = fp[fd]
  OBVIOUS
<1>2. /\ f \in Descriptor /\ f.used /\ Counting(f) /\ f.dzi.num < f.inode.blocks
      /\ fp' = [fp EXCEPT ![fd].dzi = Placed(@, @.num + 1)] /\ pc' = "move"
      /\ doing' = "read" /\ cfd' = fd /\ out' = <<>>
      /\ UNCHANGED <<store, table, new_zone, spoiled>> /\ pc = "idle"
  BY <1>1 DEF Types, Lengths, ReadOn
<1>3. PICK k : k = f.dzi.num + 1
  OBVIOUS
<1>4. k \in 1 .. Most
  <2>1. /\ f.dzi.num \in Nat /\ f.inode.blocks \in Nat /\ f.dzi.count \in Nat
        /\ f.inode.blocks <= f.dzi.count
        /\ f.dzi.count <= MaxBlocks[f.inode_nr] /\ f.inode_nr \in Files
    BY <1>2 DEF Descriptor, Iterator, Inode, Counting
  <2>2. MaxBlocks[f.inode_nr] \in 0 .. Most /\ Most \in Nat
    BY <2>1, Bounds
  <2> QED BY <1>2, <1>3, <2>1, <2>2
<1>5. PICK g : g = [f EXCEPT !.dzi = Placed(@, k)]
  OBVIOUS
<1>6. g \in Descriptor /\ g.used /\ Within(g.dzi) /\ Counting(g) /\ g.dzi.num # 0
  BY <1>2, <1>4, <1>5, SentParts
<1>7. fp' = [fp EXCEPT ![fd] = g]
  BY <1>1, <1>2, <1>3, <1>5 DEF Types
<1>8. StoreOK' /\ ZMap!HintFree' /\ ShownOK' /\ CallOK'
  BY <1>2 DEF Types, store, StoreOK, ZMap!HintFree, ShownOK, CallOK
<1>9. UNCHANGED table
  BY <1>2
<1> QED BY <1>2, <1>6, <1>7, <1>8, <1>9, OneDescriptor

\* What an allocation leaves of the store.
LEMMA AllocTypes ==
  ASSUME StoreOK, ZMap!HintFree, NEW n \in Zone, ZMap!alloc_zone(n)
  PROVE  StoreOK' /\ ZMap!HintFree'
<1>1. EmptyTable \in Table /\ 0 \in Zone
  BY UnusedType, Sizes DEF Zone
<1>2. \A z \in Number : z - 1 \in 0 .. ZoneBits - 1
  BY Sizes DEF Number
<1>3. zmap \subseteq 0 .. ZoneBits - 1 /\ zones \in [Number -> Table]
  BY DEF StoreOK
<1>4. CASE /\ last_free_zone_num' = 0 /\ n \in Number
           /\ zmap' = zmap \cup {n - 1} /\ zones' = [zones EXCEPT ![n] = EmptyTable]
  <2>1. zmap' \subseteq 0 .. ZoneBits - 1
    BY <1>2, <1>3, <1>4
  <2>2. zones' \in [Number -> Table]
    BY <1>1, <1>3, <1>4
  <2> QED BY <1>1, <1>4, <2>1, <2>2 DEF StoreOK, ZMap!HintFree
<1>5. CASE last_free_zone_num' = 0 /\ UNCHANGED <<zmap, zones>>
  BY <1>1, <1>3, <1>5 DEF StoreOK, ZMap!HintFree
<1> QED BY <1>4, <1>5, Alloc

\* AddBlock keeps the types.
LEMMA AddBlockTypes ==
  ASSUME Types, NEW z \in Number, AddBlock(z)
  PROVE  Types'
<1>1. PICK f : f = fp[cfd]
  OBVIOUS
<1>2. /\ f.dzi.count < MaxBlocks[f.inode_nr] /\ ZMap!alloc_zone(z) /\ z # 0
      /\ fp' = [fp EXCEPT ![cfd].dzi = Placed(@, @.count + 1)] /\ pc' = "move"
      /\ new_zone' = z /\ pc = "write" /\ UNCHANGED <<table, doing, cfd, out, spoiled>>
  BY <1>1 DEF AddBlock, Writing, Room
<1>20. /\ f \in Descriptor /\ f.used /\ Counting(f) /\ doing = "add" /\ cfd \in Fd
  BY <1>1, <1>2, Caller DEF Types, Lengths
<1>3. PICK k : k = f.dzi.count + 1
  OBVIOUS
<1>4. f.dzi.count \in Nat /\ f.inode_nr \in Files
  BY <1>20 DEF Descriptor, Iterator, Counting
<1>5. k \in 1 .. Most
  <2>1. MaxBlocks[f.inode_nr] \in 0 .. Most /\ Most \in Nat
    BY <1>4, Bounds
  <2> QED BY <1>2, <1>3, <1>4, <2>1
<1>50. f.dzi \in Iterator
  BY <1>20 DEF Descriptor
<1>6. PICK g : g = [f EXCEPT !.dzi = Placed(@, k)]
  OBVIOUS
<1>7. /\ g \in Descriptor /\ g.used /\ Within(g.dzi) /\ Counting(g) /\ g.dzi.num = k
      /\ g.inode = f.inode /\ g.inode_nr = f.inode_nr /\ g.dzi.num # 0
      /\ g.dzi.count = f.dzi.count
  BY <1>20, <1>5, <1>50, <1>6, SentParts, PlacedParts
<1>8. fp' = [fp EXCEPT ![cfd] = g]
  BY <1>1, <1>2, <1>20, <1>3, <1>6 DEF Types
<1>9. z \in Zone
  BY Sizes DEF Zone, Number
<1>10. StoreOK' /\ ZMap!HintFree' /\ ShownOK' /\ CallOK'
  BY <1>2, <1>20, <1>9, AllocTypes DEF Types, ShownOK, CallOK
<1>11. /\ UNCHANGED table /\ (g.used => Counting(g)) /\ pc' = "move"
       /\ (pc' # "idle" => cfd' = cfd /\ g.used)
       /\ (pc' \notin {"idle", "write"} => g.dzi.num # 0)
       /\ (doing' = "add" /\ pc' # "write" => /\ g.dzi.count < MaxBlocks[g.inode_nr]
                                              /\ g.dzi.num = g.dzi.count + 1)
  BY <1>2, <1>3, <1>4, <1>7
<1> QED BY <1>20, <1>7, <1>8, <1>10, <1>11, OneDescriptor

\* The file of a call is replaced in the middle of it.
LEMMA CallGoesOn ==
  ASSUME Types, pc \in {"move", "save", "moved"}, NEW g \in Descriptor,
         fp' = [fp EXCEPT ![cfd] = g],
         UNCHANGED <<table, doing, cfd, new_zone>>,
         pc' \in {"move", "save", "moved"},
         StoreOK', ZMap!HintFree', ShownOK',
         Within(g.dzi), g.used, g.inode_nr = fp[cfd].inode_nr,
         g.inode.blocks = fp[cfd].inode.blocks, g.dzi.count = fp[cfd].dzi.count,
         g.dzi.num = fp[cfd].dzi.num
  PROVE  Types'
<1>1. CallOK' /\ cfd \in Fd /\ cfd' = cfd
  BY DEF Types, CallOK
<1>2. Counting(g)
  BY <1>1 DEF Types, Lengths, Counting, CallOK
<1>3. doing' = "add" => /\ g.dzi.count < MaxBlocks[g.inode_nr]
                        /\ g.dzi.num = g.dzi.count + 1
  BY DEF Types, Lengths
<1>4. g.dzi.num # 0 /\ doing' = doing
  BY DEF Types, Lengths
<1> QED BY <1>1, <1>2, <1>3, <1>4, OneDescriptor

\* BuildInd1 and BuildInd2 keep the types.
LEMMA BuildIndTypes ==
  ASSUME Types, NEW z \in Number, BuildInd1(z) \/ BuildInd2(z)
  PROVE  Types'
<1>1. PICK f : f = fp[cfd]
  OBVIOUS
<1>2. PICK g : \/ g = [f EXCEPT !.inode.ind1 = z] /\ BuildInd1(z)
               \/ g = [f EXCEPT !.inode.ind2 = z] /\ BuildInd2(z)
  OBVIOUS
<1>3. /\ pc = "move" /\ ZMap!alloc_zone(z) /\ UNCHANGED <<table, call, out, spoiled>>
      /\ fp' = [fp EXCEPT ![cfd] = g]
  BY <1>1, <1>2 DEF BuildInd1, BuildInd2, Moving, Types
<1>4. f \in Descriptor /\ f.used /\ Within(f.dzi) /\ f.inode \in Inode
  BY <1>1, <1>3, Caller
<1>5. z \in Zone
  BY Sizes DEF Zone, Number
<1>6. PICK m \in Inode : m.blocks = f.inode.blocks /\ g = [f EXCEPT !.inode = m]
  <2>1. CASE g = [f EXCEPT !.inode.ind1 = z]
    <3>1. [f.inode EXCEPT !.ind1 = z] \in Inode
          /\ [f.inode EXCEPT !.ind1 = z].blocks = f.inode.blocks
      BY <1>4, <1>5 DEF Inode
    <3> QED BY <2>1, <3>1
  <2>2. CASE g = [f EXCEPT !.inode.ind2 = z]
    <3>1. [f.inode EXCEPT !.ind2 = z] \in Inode
          /\ [f.inode EXCEPT !.ind2 = z].blocks = f.inode.blocks
      BY <1>4, <1>5 DEF Inode
    <3> QED BY <2>2, <3>1
  <2> QED BY <1>2, <2>1, <2>2
<1>7. /\ g \in Descriptor /\ g.used /\ g.inode_nr = f.inode_nr /\ g.dzi = f.dzi
      /\ g.inode.blocks = f.inode.blocks
  BY <1>4, <1>6 DEF Descriptor
<1>8. StoreOK' /\ ZMap!HintFree' /\ ShownOK'
  BY <1>3, <1>5, AllocTypes DEF Types, ShownOK
<1>9. UNCHANGED <<table, doing, cfd, new_zone>> /\ pc' = "move"
  BY <1>3 DEF call
<1>10. g.dzi.count = f.dzi.count /\ g.dzi.num = f.dzi.num /\ Within(g.dzi)
  BY <1>4, <1>7
<1> QED BY <1>1, <1>3, <1>7, <1>8, <1>9, <1>10, CallGoesOn

\* BuildTable keeps the types.
LEMMA BuildTableTypes ==
  ASSUME Types, NEW z \in Number, BuildTable(z)
  PROVE  Types'
<1>1. PICK f, d, e : /\ f = fp[cfd] /\ d = ReadAt2(f.dzi, f.inode.ind2)
                     /\ e = [d EXCEPT !.zbuf2[d.index2] = z]
  OBVIOUS
<1>2. /\ pc = "move" /\ ZMap!alloc_zone(z) /\ pc' = "save"
      /\ UNCHANGED <<table, doing, cfd, new_zone, out, spoiled>>
      /\ fp' = [fp EXCEPT ![cfd].dzi = e]
  BY <1>1 DEF BuildTable, Moving
<1>3. /\ f \in Descriptor /\ f.used /\ Within(f.dzi) /\ f.inode \in Inode
      /\ f.dzi \in Iterator /\ cfd \in Fd
  BY <1>1, <1>2, Caller
<1>4. z \in Zone /\ z \in 0 .. ZoneBits
  BY Sizes DEF Zone, Number
<1>5. /\ d \in Iterator /\ d.count = f.dzi.count /\ d.num = f.dzi.num
      /\ d.place = f.dzi.place /\ d.index = f.dzi.index /\ d.znum = f.dzi.znum
  <2>1. f.inode.ind2 \in Zone
    BY <1>3 DEF Inode
  <2> QED BY <1>1, <1>3, <2>1, ReadAtParts DEF Types
<1>6. /\ e \in Iterator /\ e.count = d.count /\ e.num = d.num /\ e.place = d.place
      /\ e.index = d.index /\ e.znum = d.znum
  <2>1. PICK t : t = [d.zbuf2 EXCEPT ![d.index2] = z]
    OBVIOUS
  <2>2. t \in Table
    BY <1>4, <1>5, <2>1 DEF Iterator, Table
  <2>3. e = [d EXCEPT !.zbuf2 = t]
    BY <1>1, <2>1
  <2> QED BY <1>5, <2>2, <2>3 DEF Iterator
<1>7. PICK g : g = [f EXCEPT !.dzi = e]
  OBVIOUS
<1>8. g \in Descriptor /\ g.used /\ g.inode_nr = f.inode_nr /\ g.inode = f.inode /\ g.dzi = e
  BY <1>3, <1>6, <1>7, NewIterator
<1>9. fp' = [fp EXCEPT ![cfd] = g]
  BY <1>1, <1>2, <1>3, <1>7 DEF Types
<1>10. Within(e)
  BY <1>3, <1>5, <1>6 DEF Within
<1>11. StoreOK' /\ ZMap!HintFree' /\ ShownOK'
  BY <1>2, <1>4, AllocTypes DEF Types, ShownOK
<1>12. UNCHANGED <<table, doing, cfd, new_zone>>
  BY <1>2
<1>13. g.inode.blocks = f.inode.blocks /\ g.dzi.count = f.dzi.count
       /\ g.dzi.num = f.dzi.num /\ Within(g.dzi)
  BY <1>5, <1>6, <1>8, <1>10
<1> QED BY <1>1, <1>2, <1>8, <1>9, <1>11, <1>12, <1>13, CallGoesOn

\* Writing a table to a zone.
LEMMA WriteTypes ==
  ASSUME StoreOK, NEW n, NEW t \in Table, ZMap!write_zone(n, t)
  PROVE  /\ StoreOK' /\ UNCHANGED <<zmap, last_free_zone_num>>
         /\ zones' = IF n \in Number THEN [zones EXCEPT ![n] = t] ELSE zones
BY DEF StoreOK, ZMap!write_zone, ZMap!Written, ZMap!Stored, Number

\* SaveTable keeps the types.
LEMMA SaveTableTypes ==
  ASSUME Types, SaveTable
  PROVE  Types'
<1>1. fp[cfd].dzi.zbuf2 \in Table
  BY Caller DEF SaveTable, Iterator
<1>2. StoreOK' /\ UNCHANGED <<zmap, last_free_zone_num>>
  BY <1>1, WriteTypes DEF SaveTable, Types
<1>3. TableOK' /\ CallOK' /\ ShownOK' /\ ZMap!HintFree' /\ fp' = fp
  BY <1>2 DEF Types, SaveTable, table, TableOK, CallOK, ShownOK, ZMap!HintFree
<1>4. Lengths'
  BY DEF Types, SaveTable, table, Lengths
<1> QED BY <1>2, <1>3, <1>4 DEF Types

\* NoIndexZone keeps the types.
LEMMA NoIndexZoneTypes ==
  ASSUME Types, NoIndexZone
  PROVE  Types'
<1>1. PICK f, d : f = fp[cfd] /\ d = IF Lacks("table") THEN ReadAt2(f.dzi, f.inode.ind2)
                                     ELSE f.dzi
  OBVIOUS
<1>2. /\ pc = "move" /\ ZMap!alloc_zone(0) /\ pc' = "moved"
      /\ spoiled' = spoiled \cup {f.inode_nr}
      /\ UNCHANGED <<table, doing, cfd, new_zone, out>>
  BY <1>1 DEF NoIndexZone, Moving
<1>3. /\ f \in Descriptor /\ f.used /\ Within(f.dzi) /\ f.inode \in Inode
      /\ f.dzi \in Iterator /\ cfd \in Fd /\ f.inode_nr \in Files
  BY <1>1, <1>2, Caller
<1>4. /\ d \in Iterator /\ d.count = f.dzi.count /\ d.num = f.dzi.num
      /\ d.place = f.dzi.place /\ d.index = f.dzi.index /\ d.znum = f.dzi.znum
  <2>1. f.inode.ind2 \in Zone
    BY <1>3 DEF Inode
  <2> QED BY <1>1, <1>3, <2>1, ReadAtParts DEF Types
<1>5. PICK g : g = [f EXCEPT !.dzi = d]
  OBVIOUS
<1>6. g \in Descriptor /\ g.used /\ g.inode_nr = f.inode_nr /\ g.inode = f.inode /\ g.dzi = d
  BY <1>3, <1>4, <1>5, NewIterator
<1>7. fp' = [fp EXCEPT ![cfd] = g]
  BY <1>1, <1>3, <1>5 DEF Types, NoIndexZone
<1>8. Within(g.dzi)
  BY <1>3, <1>4, <1>6 DEF Within
<1>9. StoreOK' /\ ZMap!HintFree' /\ ShownOK'
  <2>1. 0 \in Zone
    BY Sizes DEF Zone
  <2> QED BY <1>2, <1>3, <2>1, AllocTypes DEF Types, ShownOK
<1>10. UNCHANGED <<table, doing, cfd, new_zone>>
  BY <1>2
<1>11. g.inode.blocks = f.inode.blocks /\ g.dzi.count = f.dzi.count
       /\ g.dzi.num = f.dzi.num
  BY <1>4, <1>6
<1> QED BY <1>1, <1>2, <1>6, <1>7, <1>8, <1>9, <1>10, <1>11, CallGoesOn

\* Arrive keeps the types.
LEMMA ArriveTypes ==
  ASSUME Types, Arrive
  PROVE  Types'
<1>1. PICK f, d : f = fp[cfd] /\ d = Arrived(f.dzi, f.inode)
  OBVIOUS
<1>2. /\ pc = "move" /\ pc' = "moved"
      /\ UNCHANGED <<store, table, doing, cfd, new_zone, out, spoiled>>
  BY DEF Arrive, Moving
<1>3. /\ f \in Descriptor /\ f.used /\ Within(f.dzi) /\ f.inode \in Inode
      /\ f.dzi \in Iterator /\ cfd \in Fd /\ f.dzi.num # 0
  BY <1>1, <1>2, Caller
<1>4. /\ d \in Iterator /\ d.count = f.dzi.count /\ d.num = f.dzi.num
      /\ d.place = f.dzi.place /\ d.index = f.dzi.index
  BY <1>1, <1>3, ArrivedType DEF Types
<1>5. PICK g : g = [f EXCEPT !.dzi = d]
  OBVIOUS
<1>6. g \in Descriptor /\ g.used /\ g.inode_nr = f.inode_nr /\ g.inode = f.inode /\ g.dzi = d
  BY <1>3, <1>4, <1>5, NewIterator
<1>7. fp' = [fp EXCEPT ![cfd] = g]
  BY <1>1, <1>3, <1>5 DEF Types, Arrive
<1>8. Within(g.dzi)
  BY <1>3, <1>4, <1>6 DEF Within
<1>9. StoreOK' /\ ZMap!HintFree' /\ ShownOK'
  BY <1>2 DEF Types, store, StoreOK, ZMap!HintFree, ShownOK
<1>10. UNCHANGED <<table, doing, cfd, new_zone>>
  BY <1>2
<1>11. g.inode.blocks = f.inode.blocks /\ g.dzi.count = f.dzi.count
       /\ g.dzi.num = f.dzi.num
  BY <1>4, <1>6
<1> QED BY <1>1, <1>2, <1>6, <1>7, <1>8, <1>9, <1>10, <1>11, CallGoesOn

\* What clients write.
LEMMA DataType ==
  ASSUME NEW k \in 0 .. Most, k # 0
  PROVE  Data[k] \subseteq Table
<1>1. k \in 1 .. Most
  OBVIOUS
<1>2. Data \in [1 .. Most -> SUBSET Table]
  BY DataZonesAssumption DEF DataZonesAssumption, Most
<1> QED BY <1>1, <1>2

\* The variables of a call are well typed when it has returned.
LEMMA ReturnType == Return => CallOK' /\ pc' = "idle" /\ doing' = "none"
BY Sizes DEF Return, CallOK, Zone, Fd

\* ReadBlock keeps the types.
LEMMA ReadBlockTypes ==
  ASSUME Types, ReadBlock
  PROVE  Types'
<1>1. CallOK' /\ pc' = "idle" /\ doing' = "none"
  BY ReturnType DEF ReadBlock
<1>2. /\ out' = read_zone(fp[cfd].dzi.znum) /\ UNCHANGED <<store, table, fp, spoiled>>
  BY DEF ReadBlock
<1>3. out' \in Table
  BY <1>2, ReadZoneType DEF Types
<1>4. StoreOK' /\ TableOK' /\ ShownOK' /\ ZMap!HintFree' /\ fp' \in [Fd -> Descriptor]
  BY <1>2, <1>3 DEF Types, store, table, StoreOK, TableOK, ShownOK, ZMap!HintFree
<1>5. Lengths'
  BY <1>1, <1>2 DEF Types, Lengths, table
<1> QED BY <1>1, <1>4, <1>5 DEF Types

\* WriteBlock keeps the types.
LEMMA WriteBlockTypes ==
  ASSUME Types, WriteBlock
  PROVE  Types'
<1>1. PICK f, d, new, saved :
         /\ f = fp[cfd] /\ d = f.dzi /\ new = Redirected(d, new_zone)
         /\ saved = IF d.place = "direct" THEN zones
                    ELSE [zones EXCEPT ![d.znum1] = new.zbuf1]
  OBVIOUS
<1>2. /\ pc = "moved" /\ doing = "add"
      /\ UNCHANGED <<zmap, last_free_zone_num, table, doing, cfd, out, spoiled>>
  BY DEF WriteBlock
<1>3. /\ f \in Descriptor /\ f.used /\ Within(d) /\ f.inode \in Inode
      /\ d \in Iterator /\ cfd \in Fd /\ d.num # 0 /\ Counting(f) /\ f.inode_nr \in Files
  BY <1>1, <1>2, Caller
<1>4. new_zone \in Zone /\ d.num \in 0 .. Most
  BY <1>3 DEF Types, CallOK, Within
<1>5. CASE d.place # "direct" /\ d.znum1 = 0
  <2>1. pc' = "ruined" /\ UNCHANGED <<zones, fp, new_zone>>
    BY <1>1, <1>5 DEF WriteBlock
  <2>2. StoreOK' /\ TableOK' /\ CallOK' /\ ShownOK' /\ ZMap!HintFree'
        /\ fp' \in [Fd -> Descriptor]
    BY <1>2, <2>1 DEF Types, StoreOK, TableOK, table, CallOK, ShownOK, ZMap!HintFree
  <2>3. Lengths'
    BY <1>2, <2>1 DEF Types, Lengths, table
  <2> QED BY <2>2, <2>3 DEF Types
<1>6. CASE ~ (d.place # "direct" /\ d.znum1 = 0)
  <2>1. PICK b \in Data[d.num] : zones' = [saved EXCEPT ![new_zone] = b]
    BY <1>1, <1>6 DEF WriteBlock
  <2>2. PICK dir : dir = IF d.place # "direct" THEN f.inode.direct
                         ELSE [f.inode.direct EXCEPT ![d.index + 1] = new_zone]
    OBVIOUS
  <2>3. /\ pc' = "write" /\ new_zone' = 0
        /\ fp' = [fp EXCEPT
             ![cfd].dzi = [new EXCEPT !.count = @ + 1],
             ![cfd].inode.direct = IF d.place # "direct" THEN @
                                   ELSE [@ EXCEPT ![d.index + 1] = new_zone]]
    BY <1>1, <1>6 DEF WriteBlock
  <2>4. /\ new \in Iterator /\ new.count = d.count /\ new.num = d.num
        /\ new.place = d.place /\ new.index = d.index
    BY <1>1, <1>3, <1>4, RedirectedType
  <2>5. PICK e : e = [new EXCEPT !.count = @ + 1]
    OBVIOUS
  <2>6. /\ e \in Iterator /\ e.count = d.count + 1 /\ e.num = d.num
        /\ e.place = d.place /\ e.index = d.index
    BY <2>4, <2>5 DEF Iterator
  <2>7. PICK m : m = [f.inode EXCEPT !.direct = dir]
    OBVIOUS
  <2>8. m \in Inode /\ m.blocks = f.inode.blocks
    <3>1. dir \in [1 .. NR_DIRECT_ZONES -> Zone]
      BY <1>3, <1>4, <2>2 DEF Inode
    <3> QED BY <1>3, <2>7, <3>1 DEF Inode
  <2>9. PICK g : g = [f EXCEPT !.dzi = e, !.inode = m]
    OBVIOUS
  <2>10. /\ g \in Descriptor /\ g.used /\ g.inode_nr = f.inode_nr /\ g.inode = m
         /\ g.dzi = e
    BY <1>3, <2>6, <2>8, <2>9 DEF Descriptor
  <2>11. fp' = [fp EXCEPT ![cfd] = g]
    <3>1. fp'[cfd] = [f EXCEPT !.dzi = e, !.inode = m]
      BY <1>1, <1>3, <2>2, <2>3, <2>5, <2>7 DEF Types, Descriptor, Inode
    <3> QED BY <1>3, <2>3, <2>9, <3>1 DEF Types
  <2>12. CallOK'
    BY <1>2, <2>3, Sizes DEF Types, CallOK, Zone
  <2>13. new.zbuf1 \in Table /\ b \in Table
    BY <1>3, <1>4, <2>1, <2>4, DataType DEF Iterator
  <2>14. StoreOK' /\ ZMap!HintFree' /\ ShownOK'
    <3>1. saved \in [Number -> Table]
      BY <1>1, <2>13 DEF Types, StoreOK
    <3>2. zones' \in [Number -> Table]
      BY <2>1, <2>13, <3>1
    <3> QED BY <1>2, <3>2 DEF Types, StoreOK, ZMap!HintFree, ShownOK
  <2>15. Within(e)
    <3>1. e.num = 0 => e.znum = 0
      BY <1>3, <2>6
    <3> QED BY <1>3, <2>6, <3>1 DEF Within
  <2>16. Counting(g)
    <3>1. d.count < MaxBlocks[f.inode_nr]
      BY <1>1, <1>2 DEF Types, Lengths
    <3>2. MaxBlocks[f.inode_nr] \in Nat /\ f.inode.blocks \in Nat /\ d.count \in Nat
      BY <1>3, Bounds DEF Inode, Iterator
    <3> QED BY <1>1, <1>3, <2>6, <2>8, <2>10, <3>1, <3>2 DEF Counting
  <2>17. pc' = "write" /\ doing' = "add" /\ cfd' = cfd
    BY <1>2, <2>3
  <2> QED BY <1>2, <1>3, <2>6, <2>10, <2>11, <2>12, <2>14, <2>15, <2>16, <2>17,
             OneDescriptor
<1> QED BY <1>5, <1>6

\* my_write keeps the types.
LEMMA my_writeTypes ==
  ASSUME Types, NEW fd \in Fd, my_write(fd)
  PROVE  Types'
<1>1. /\ pc' = "write" /\ doing' = "add" /\ cfd' = fd /\ out' = <<>> /\ pc = "idle"
      /\ fp[fd].used /\ UNCHANGED <<table, fp, new_zone, spoiled>>
  BY DEF my_write
<1>2. StoreOK' /\ UNCHANGED <<zmap, last_free_zone_num>>
  <2>1. CASE fp[fd].dzi.znum = 0
    BY <2>1 DEF my_write, store, Types, StoreOK
  <2>2. CASE fp[fd].dzi.znum # 0
    <3>1. fp[fd].dzi.num \in 0 .. Most /\ fp[fd].dzi.num # 0
      BY <2>2 DEF Types, Lengths, Within
    <3>2. PICK b \in Data[fp[fd].dzi.num] : ZMap!write_zone(fp[fd].dzi.znum, b)
      BY <2>2 DEF my_write
    <3>3. b \in Table
      BY <3>1, <3>2, DataType
    <3> QED BY <3>2, <3>3, WriteTypes DEF Types
  <2> QED BY <2>1, <2>2
<1>3. CallOK'
  BY <1>1 DEF Types, CallOK
<1>4. TableOK' /\ ShownOK' /\ ZMap!HintFree' /\ fp' \in [Fd -> Descriptor]
  BY <1>1, <1>2 DEF Types, table, TableOK, ShownOK, ZMap!HintFree
<1>5. Lengths'
  BY <1>1 DEF Types, table, Lengths
<1> QED BY <1>2, <1>3, <1>4, <1>5 DEF Types

\* A descriptor whose file is as it was, but for its length or its offset.
LEMMA OtherLength ==
  ASSUME NEW f \in Descriptor, Counting(f), NEW g, NEW p \in BOOLEAN,
         \/ g = [f EXCEPT !.past = p]
         \/ g = [f EXCEPT !.inode.blocks = f.dzi.count]
  PROVE  /\ g \in Descriptor /\ g.used = f.used /\ g.inode_nr = f.inode_nr
         /\ g.dzi = f.dzi /\ Counting(g)
         /\ g.inode.direct = f.inode.direct
         /\ g.inode.ind1 = f.inode.ind1 /\ g.inode.ind2 = f.inode.ind2
<1>1. /\ f.dzi.count \in Nat /\ f.inode \in Inode
  BY DEF Descriptor, Iterator
<1>2. CASE g = [f EXCEPT !.past = p]
  BY <1>2 DEF Descriptor, Counting
<1>3. CASE g = [f EXCEPT !.inode.blocks = f.dzi.count]
  <2>1. PICK m : m = [f.inode EXCEPT !.blocks = f.dzi.count]
    OBVIOUS
  <2>2. m \in Inode /\ m.blocks = f.dzi.count /\ m.direct = f.inode.direct
        /\ m.ind1 = f.inode.ind1 /\ m.ind2 = f.inode.ind2
    BY <1>1, <2>1 DEF Inode
  <2>3. g = [f EXCEPT !.inode = m]
    BY <1>3, <2>1
  <2> QED BY <1>1, <2>2, <2>3 DEF Descriptor, Counting
<1> QED BY <1>2, <1>3

\* The ways out of my_write that leave the iterator alone.
LEMMA WriteEnds ==
  ASSUME Types, NoDataZone \/ WriteDone
  PROVE  /\ pc = "write" /\ doing = "add" /\ pc' = "idle" /\ doing' = "none"
         /\ CallOK' /\ UNCHANGED <<zmap, zones, table, out>>
         /\ StoreOK' /\ ZMap!HintFree'
         /\ \E g \in Descriptor, p \in BOOLEAN :
               /\ fp' = [fp EXCEPT ![cfd] = g]
               /\ \/ g = [fp[cfd] EXCEPT !.past = p] /\ NoDataZone
                  \/ g = [fp[cfd] EXCEPT !.inode.blocks = fp[cfd].dzi.count] /\ WriteDone
<1>1. pc = "write" /\ UNCHANGED <<table, out>> /\ Return
  BY DEF NoDataZone, WriteDone, Writing
<1>2. doing = "add" /\ cfd \in Fd
  BY <1>1, Caller DEF Types, Lengths
<1>3. CallOK' /\ pc' = "idle" /\ doing' = "none"
  BY <1>1, ReturnType
<1>4. UNCHANGED <<zmap, zones>> /\ StoreOK' /\ ZMap!HintFree'
  <2>1. CASE NoDataZone
    <3>1. 0 \in Zone /\ ZMap!alloc_zone(0)
      BY <2>1, Sizes DEF NoDataZone, Zone
    <3>2. UNCHANGED <<zmap, zones>>
      BY <3>1, Alloc DEF Types, Number
    <3> QED BY <3>1, <3>2, AllocTypes DEF Types
  <2>2. CASE WriteDone
    BY <2>2 DEF WriteDone, store, Types, StoreOK, ZMap!HintFree
  <2> QED BY <2>1, <2>2
<1>50. fp[cfd] \in Descriptor /\ Counting(fp[cfd])
  BY <1>1, Caller
<1>5. CASE NoDataZone
  <2>1. PICK p : p = (fp[cfd].dzi.znum # 0)
    OBVIOUS
  <2>2. p \in BOOLEAN
    BY <2>1
  <2>3. PICK g : g = [fp[cfd] EXCEPT !.past = p]
    OBVIOUS
  <2>4. fp' = [fp EXCEPT ![cfd] = g]
    BY <1>2, <1>5, <2>1, <2>3 DEF NoDataZone, Types
  <2>5. g \in Descriptor
    BY <1>50, <2>2, <2>3, OtherLength
  <2> QED BY <1>1, <1>2, <1>3, <1>4, <1>5, <2>2, <2>3, <2>4, <2>5
<1>6. CASE WriteDone
  <2>1. PICK g : g = [fp[cfd] EXCEPT !.inode.blocks = fp[cfd].dzi.count]
    OBVIOUS
  <2>2. fp' = [fp EXCEPT ![cfd] = g]
    BY <1>2, <1>6, <2>1 DEF WriteDone, Types
  <2>3. g \in Descriptor
    BY <1>50, <2>1, OtherLength
  <2>4. TRUE \in BOOLEAN
    OBVIOUS
  <2> QED BY <1>1, <1>2, <1>3, <1>4, <1>6, <2>1, <2>2, <2>3, <2>4
<1> QED BY <1>5, <1>6

\* NoDataZone and WriteDone keep the types.
LEMMA WriteEndsTypes ==
  ASSUME Types, NoDataZone \/ WriteDone
  PROVE  Types'
<1>1. /\ pc = "write" /\ pc' = "idle" /\ doing' = "none" /\ CallOK'
      /\ UNCHANGED <<table, out>> /\ StoreOK' /\ ZMap!HintFree'
  BY WriteEnds
<1>2. PICK g \in Descriptor, p \in BOOLEAN :
        /\ fp' = [fp EXCEPT ![cfd] = g]
        /\ \/ g = [fp[cfd] EXCEPT !.past = p]
           \/ g = [fp[cfd] EXCEPT !.inode.blocks = fp[cfd].dzi.count]
  BY WriteEnds
<1>3. /\ cfd \in Fd /\ fp[cfd] \in Descriptor /\ Within(fp[cfd].dzi)
      /\ Counting(fp[cfd]) /\ fp[cfd].inode_nr \in Files
  BY <1>1, Caller
<1>4. g \in Descriptor /\ Within(g.dzi) /\ Counting(g)
  BY <1>2, <1>3, OtherLength
<1>5. ShownOK'
  BY <1>1, <1>3 DEF Types, ShownOK, NoDataZone, WriteDone
<1> QED BY <1>1, <1>2, <1>3, <1>4, <1>5, OneDescriptor

\* Every step keeps the types.
LEMMA NextTypes == Types /\ [Next]_vars => Types'
<1> SUFFICES ASSUME Types, [Next]_vars PROVE Types'
  OBVIOUS
<1>1. CASE UNCHANGED vars
  BY <1>1 DEF vars, store, table, call, Types, StoreOK, TableOK, CallOK, ShownOK,
     ZMap!HintFree, Lengths
<1>2. ASSUME NEW i \in Files, my_creat(i) \/ my_open(i) \/ my_remove(i) PROVE Types'
  BY <1>2, my_creatTypes, my_openTypes, my_removeTypes
<1>3. ASSUME NEW fd \in Fd, my_close(fd) \/ ReadOn(fd) \/ my_write(fd) PROVE Types'
  BY <1>3, my_closeTypes, ReadOnTypes, my_writeTypes
<1>4. ASSUME NEW z \in Number, AddBlock(z) PROVE Types'
  BY <1>4, AddBlockTypes
<1>5. ASSUME NEW z \in Number, BuildInd1(z) \/ BuildInd2(z) \/ BuildTable(z) PROVE Types'
  BY <1>5, BuildIndTypes, BuildTableTypes
<1>6. CASE SaveTable \/ NoIndexZone \/ Arrive \/ ReadBlock \/ WriteBlock
  BY <1>6, SaveTableTypes, NoIndexZoneTypes, ArriveTypes, ReadBlockTypes, WriteBlockTypes
<1>7. CASE NoDataZone \/ WriteDone
  BY <1>7, WriteEndsTypes
<1> QED BY <1>1, <1>2, <1>3, <1>4, <1>5, <1>6, <1>7 DEF Next

\* Types is an invariant.
LEMMA SpecTypes == Spec => []Types
<1>1. Init => Types
  BY InitTypes
<1>2. Types /\ [Next]_vars => Types'
  BY NextTypes
<1> QED BY <1>1, <1>2, PTL DEF Spec

\* dz.c: whatever clients do, no index of an index zone, of a word or of a
\* direct zone is out of the range its code has for it.
THEOREM DataZonesTypeCorrect == Spec => []TypeOK
<1>1. Types => TypeOK
  BY TypeParts DEF Types
<1> QED BY <1>1, SpecTypes, PTL

-----------------------------------------------------------------------------
(* What each zone is for *)

\* A zone that is for nothing.
Nobody == <<0, "none">>

\* R says of each zone whose it is and what for: every inode and every iterator
\* goes by it.
InodeFits(R, i, m) ==
  /\ \A k \in 1 .. NR_DIRECT_ZONES : m.direct[k] # 0 => R[m.direct[k]] = <<i, "data">>
  /\ m.ind1 # 0 => R[m.ind1] = <<i, "ind1">>
  /\ m.ind2 # 0 => R[m.ind2] = <<i, "ind2">>

\* The words of an index zone.
NamesData(R, i, t) == \A w \in Word : t[w] # 0 => R[t[w]] = <<i, "data">>
NamesTables(R, i, t) == \A w \in Word : t[w] # 0 => R[t[w]] = <<i, "ind1">>

\* What an iterator on file i goes by is the file's.
IteratorFits(R, i, d) ==
  /\ d.znum # 0 => R[d.znum] = <<i, "data">>
  /\ d.znum1 # 0 => R[d.znum1] = <<i, "ind1">>
  /\ d.znum2 # 0 => R[d.znum2] = <<i, "ind2">>
  /\ NamesData(R, i, d.zbuf1) /\ NamesTables(R, i, d.zbuf2)

\* Index zones name zones of the same file.
TablesFit(R, zs) == \A z \in Number, i \in Files :
  /\ R[z] = <<i, "ind1">> => NamesData(R, i, zs[z])
  /\ R[z] = <<i, "ind2">> => NamesTables(R, i, zs[z])

\* What a descriptor goes by is its file's.
FileFits(R, f) ==
  f.used => /\ f.inode_nr \in files
            /\ InodeFits(R, f.inode_nr, f.inode) /\ IteratorFits(R, f.inode_nr, f.dzi)

\* Zones that are for something are marked, and the one in hand is for nothing
\* yet.
Fits(R) ==
  /\ \A i \in files : InodeFits(R, i, itab[i])
  /\ \A fd \in Fd : FileFits(R, fp[fd])
  /\ TablesFit(R, zones)
  /\ \A z \in Number : R[z] # Nobody => z - 1 \in zmap
  /\ new_zone # 0 => new_zone - 1 \in zmap /\ R[new_zone] = Nobody

\* One more zone is for something: what fitted fits still.
LEMMA MoreFits ==
  ASSUME NEW R, NEW S, NEW i \in Files, NEW n,
         \A z \in Number : z # n => S[z] = R[z], R[n] = Nobody
  PROVE  /\ \A m \in Inode : InodeFits(R, i, m) => InodeFits(S, i, m)
         /\ \A d \in Iterator : IteratorFits(R, i, d) => IteratorFits(S, i, d)
         /\ \A t \in Table : /\ NamesData(R, i, t) => NamesData(S, i, t)
                             /\ NamesTables(R, i, t) => NamesTables(S, i, t)
<1>1. \A k : <<i, k>> # Nobody
  BY Sizes DEF Nobody
<1>2. \A z \in Zone : \A k : z # 0 /\ R[z] = <<i, k>> => S[z] = <<i, k>>
  BY <1>1 DEF Zone, Number
<1>3. \A m \in Inode : InodeFits(R, i, m) => InodeFits(S, i, m)
  BY <1>2 DEF Inode, InodeFits
<1>4. \A t \in Table : /\ NamesData(R, i, t) => NamesData(S, i, t)
                       /\ NamesTables(R, i, t) => NamesTables(S, i, t)
  BY <1>2, WordType DEF NamesData, NamesTables
<1>5. \A d \in Iterator : IteratorFits(R, i, d) => IteratorFits(S, i, d)
  BY <1>2, <1>4 DEF Iterator, IteratorFits
<1> QED BY <1>3, <1>4, <1>5

\* The zone that is allocated is empty, whatever it is for.
LEMMA MoreTables ==
  ASSUME NEW R, NEW S, NEW n \in Number, NEW zs \in [Number -> Table],
         \A z \in Number : z # n => S[z] = R[z], R[n] = Nobody,
         TablesFit(R, zs)
  PROVE  TablesFit(S, [zs EXCEPT ![n] = EmptyTable])
<1> DEFINE zt == [zs EXCEPT ![n] = EmptyTable]
<1> SUFFICES ASSUME NEW z \in Number, NEW i \in Files
             PROVE  /\ S[z] = <<i, "ind1">> => NamesData(S, i, zt[z])
                    /\ S[z] = <<i, "ind2">> => NamesTables(S, i, zt[z])
  BY DEF TablesFit
<1>1. CASE z = n
  <2>1. \A w \in Word : zt[z][w] = 0
    BY <1>1 DEF EmptyTable
  <2> QED BY <2>1 DEF NamesData, NamesTables
<1>2. CASE z # n
  <2>1. zt[z] = zs[z] /\ zs[z] \in Table /\ S[z] = R[z]
    BY <1>2
  <2> QED BY <2>1, MoreFits DEF TablesFit
<1> QED BY <1>1, <1>2

\* Moving as far as the place of a block.
LEMMA PlacedFits ==
  ASSUME NEW R, NEW i, NEW d \in Iterator, NEW k \in 1 .. Most, IteratorFits(R, i, d)
  PROVE  IteratorFits(R, i, Placed(d, k))
<1>1. PICK e : e = Placed(d, k)
  OBVIOUS
<1>2. /\ e.znum = d.znum /\ e.znum1 = d.znum1 /\ e.zbuf1 = d.zbuf1
      /\ e.znum2 = d.znum2 /\ e.zbuf2 = d.zbuf2
  BY <1>1, PlacedParts
<1> QED BY <1>1, <1>2 DEF IteratorFits

\* Reading an index zone that is the file's.
LEMMA ReadAtFits ==
  ASSUME NEW R, NEW i \in Files, NEW d \in Iterator, NEW n \in Zone,
         IteratorFits(R, i, d), TablesFit(R, zones), StoreOK
  PROVE  /\ (n # 0 => R[n] = <<i, "ind1">>) => IteratorFits(R, i, ReadAt1(d, n))
         /\ (n # 0 => R[n] = <<i, "ind2">>) => IteratorFits(R, i, ReadAt2(d, n))
<1>1. n = 0 \/ n \in Number
  BY DEF Zone, Number
<1>2. PICK t : t = read_zone(n)
  OBVIOUS
<1>3. t = IF n = 0 THEN EmptyTable ELSE zones[n]
  BY <1>1, <1>2, Sizes DEF read_zone, Number
<1>4. NamesData(R, i, EmptyTable) /\ NamesTables(R, i, EmptyTable)
  BY DEF NamesData, NamesTables, EmptyTable
<1>5. ASSUME n # 0 => R[n] = <<i, "ind1">>
      PROVE  IteratorFits(R, i, ReadAt1(d, n))
  <2>1. NamesData(R, i, t)
    BY <1>1, <1>3, <1>4, <1>5 DEF TablesFit
  <2>2. CASE d.znum1 = n
    BY <2>2 DEF ReadAt1
  <2>3. CASE d.znum1 # n
    <3>1. PICK e : e = [d EXCEPT !.zbuf1 = t, !.znum1 = n]
      OBVIOUS
    <3>2. /\ e.znum = d.znum /\ e.znum1 = n /\ e.zbuf1 = t
          /\ e.znum2 = d.znum2 /\ e.zbuf2 = d.zbuf2
      BY <3>1 DEF Iterator
    <3>3. e = ReadAt1(d, n)
      BY <1>2, <2>3, <3>1 DEF ReadAt1
    <3> QED BY <1>5, <2>1, <3>2, <3>3 DEF IteratorFits
  <2> QED BY <2>2, <2>3
<1>6. ASSUME n # 0 => R[n] = <<i, "ind2">>
      PROVE  IteratorFits(R, i, ReadAt2(d, n))
  <2>1. NamesTables(R, i, t)
    BY <1>1, <1>3, <1>4, <1>6 DEF TablesFit
  <2>2. CASE d.znum2 = n
    BY <2>2 DEF ReadAt2
  <2>3. CASE d.znum2 # n
    <3>1. PICK e : e = [d EXCEPT !.zbuf2 = t, !.znum2 = n]
      OBVIOUS
    <3>2. /\ e.znum = d.znum /\ e.znum2 = n /\ e.zbuf2 = t
          /\ e.znum1 = d.znum1 /\ e.zbuf1 = d.zbuf1
      BY <3>1 DEF Iterator
    <3>3. e = ReadAt2(d, n)
      BY <1>2, <2>3, <3>1 DEF ReadAt2
    <3> QED BY <1>6, <2>1, <3>2, <3>3 DEF IteratorFits
  <2> QED BY <2>2, <2>3
<1> QED BY <1>5, <1>6

-----------------------------------------------------------------------------
(* Files short enough *)

\* The first length that the habit short does not allow.
ShortMost == NR_DIRECT_ZONES + NR_IND1_ZONES + U32_PER_BLOCK

\* An iterator that has been sent to a block is in its place, and no place has
\* index -1.
Put(d) ==
  d.num # 0 =>
    /\ d.num < ShortMost
    /\ d.place = "direct" => d.num <= NR_DIRECT_ZONES /\ d.index = d.num - 1
    /\ d.place = "ind1" => /\ d.num > NR_DIRECT_ZONES
                           /\ d.num <= NR_DIRECT_ZONES + NR_IND1_ZONES
                           /\ d.index = d.num - NR_DIRECT_ZONES - 1
    /\ d.place = "ind2" => /\ d.num > NR_DIRECT_ZONES + NR_IND1_ZONES
                           /\ d.index = d.num - NR_DIRECT_ZONES - NR_IND1_ZONES - 1
                           /\ d.index2 = 0

\* What is left of a number less than the divisor.
LEMMA NoGroup ==
  ASSUME NEW need \in Nat, need < NR_IND1_ZONES
  PROVE  need \div NR_IND1_ZONES = 0 /\ need % NR_IND1_ZONES = need
<1>1. PICK u, q, r : u = NR_IND1_ZONES /\ q = need \div u /\ r = need % u
  OBVIOUS
<1>2. u \in Nat \ {0} /\ q \in Nat /\ r \in 0 .. u - 1 /\ need < u
  BY <1>1, Sizes
<1>3. need = u * q + r
  BY <1>1, <1>2
<1>4. q = 0
  <2> SUFFICES ASSUME q >= 1 PROVE FALSE
    BY <1>2
  <2>1. u * q >= u * 1
    BY <1>2
  <2> QED BY <1>2, <1>3, <2>1
<1>5. u * q = 0
  BY <1>2, <1>4
<1> QED BY <1>1, <1>2, <1>3, <1>4, <1>5

\* dzi_move_to puts it there.
LEMMA PlacedPut ==
  ASSUME NEW d \in Iterator, NEW k \in 1 .. Most, k < ShortMost
  PROVE  Put(Placed(d, k))
<1>1. PICK e : e = Placed(d, k)
  OBVIOUS
<1> DEFINE need == k - NR_DIRECT_ZONES - NR_IND1_ZONES
<1>2. /\ NR_DIRECT_ZONES \in Nat \ {0} /\ NR_IND1_ZONES \in Nat \ {0}
      /\ NR_IND1_ZONES = U32_PER_BLOCK /\ k \in Nat \ {0} /\ need \in Int
      /\ need < NR_IND1_ZONES
  BY Sizes DEF ShortMost
<1>3. /\ e.num = k /\ e.place \in {"direct", "ind1", "ind2"}
      /\ e.place = "direct" <=> k <= NR_DIRECT_ZONES
      /\ e.place = "ind1" <=> (k > NR_DIRECT_ZONES /\ k <= NR_DIRECT_ZONES + NR_IND1_ZONES)
      /\ e.place = "direct" => e.index = k - 1
      /\ e.place = "ind1" => e.index = k - NR_DIRECT_ZONES - 1
      /\ e.place = "ind2" => /\ need > 0 /\ e.index2 = need \div NR_IND1_ZONES
                             /\ e.index = (need % NR_IND1_ZONES) - 1
  BY <1>1, PlacedParts DEF Iterator
<1>4. CASE e.place = "direct"
  BY <1>1, <1>2, <1>3, <1>4 DEF Put
<1>5. CASE e.place = "ind1"
  BY <1>1, <1>2, <1>3, <1>5 DEF Put
<1>6. CASE e.place = "ind2"
  <2>1. need \in Nat \ {0}
    BY <1>2, <1>3, <1>6
  <2>2. e.index2 = 0 /\ e.index = need - 1
    BY <1>2, <1>3, <1>6, <2>1, NoGroup
  <2>3. k > NR_DIRECT_ZONES + NR_IND1_ZONES
    BY <1>2, <2>1
  <2> QED BY <1>1, <1>2, <1>3, <1>6, <2>2, <2>3 DEF Put
<1> QED BY <1>3, <1>4, <1>5, <1>6

\* Index zones are gone by at one of their words.
LEMMA PutWords ==
  ASSUME NEW d \in Iterator, Put(d), d.num # 0, d.place # "direct"
  PROVE  d.index \in Word /\ (d.place = "ind2" => d.index2 = 0 /\ d.index2 \in Word)
BY Sizes DEF Put, Word, ShortMost, Iterator

\* An iterator that arrives is on a zone of data, by way of index zones.
LEMMA ArrivedFits ==
  ASSUME NEW R, NEW i \in Files, NEW d \in Iterator, NEW m \in Inode,
         InodeFits(R, i, m), IteratorFits(R, i, d), TablesFit(R, zones), StoreOK,
         Within(d), Put(d), d.num # 0
  PROVE  IteratorFits(R, i, Arrived(d, m))
<1>1. m.ind1 \in Zone /\ m.ind2 \in Zone
  BY DEF Inode
<1>2. CASE d.place = "direct"
  <2>1. PICK n, e : n = m.direct[d.index + 1] /\ e = [d EXCEPT !.znum = n]
    OBVIOUS
  <2>2. n # 0 => R[n] = <<i, "data">>
    <3>1. d.index + 1 \in 1 .. NR_DIRECT_ZONES
      BY <1>2, Sizes DEF Within
    <3> QED BY <2>1, <3>1 DEF InodeFits
  <2>3. e = Arrived(d, m)
    BY <1>2, <2>1, ArrivedParts
  <2>4. /\ e.znum = n /\ e.znum1 = d.znum1 /\ e.zbuf1 = d.zbuf1
        /\ e.znum2 = d.znum2 /\ e.zbuf2 = d.zbuf2
    BY <2>1 DEF Iterator
  <2> QED BY <2>2, <2>3, <2>4 DEF IteratorFits
<1>3. CASE d.place # "direct"
  <2>0. d.index \in Word /\ (d.place = "ind2" => d.index2 \in Word)
        /\ d.place \in {"ind1", "ind2"}
    BY <1>3, PutWords DEF Iterator
  <2>1. PICK d2 : d2 = ReadAt2(d, m.ind2)
    OBVIOUS
  <2>2. d2 \in Iterator /\ d2.place = d.place /\ d2.index = d.index /\ d2.index2 = d.index2
    BY <1>1, <2>1, ReadAtParts
  <2>3. IteratorFits(R, i, d2)
    BY <1>1, <2>1, ReadAtFits DEF InodeFits
  <2>4. PICK n : n = IF d.place = "ind1" THEN m.ind1 ELSE zbuf2_at(d2, d2.index2)
    OBVIOUS
  <2>5. n \in Zone /\ (n # 0 => R[n] = <<i, "ind1">>)
    <3>1. CASE d.place = "ind1"
      BY <1>1, <2>4, <3>1 DEF InodeFits
    <3>2. CASE d.place = "ind2"
      <4>1. d.index2 # U32_PER_BLOCK
        BY <2>0, <3>2, Sizes DEF Word
      <4>2. n = d2.zbuf2[d.index2]
        BY <2>2, <2>4, <3>2, <4>1 DEF zbuf2_at
      <4>3. n \in Zone
        BY <2>2, <2>4, <3>2, WordAtType
      <4> QED BY <2>0, <2>3, <3>2, <4>2, <4>3 DEF IteratorFits, NamesTables
    <3> QED BY <2>0, <3>1, <3>2
  <2>6. PICK b : b = IF d.place = "ind1" THEN d ELSE d2
    OBVIOUS
  <2>7. b \in Iterator /\ b.index = d.index /\ IteratorFits(R, i, b)
    BY <2>2, <2>3, <2>6
  <2>8. PICK d1 : d1 = ReadAt1(b, n)
    OBVIOUS
  <2>9. d1 \in Iterator /\ IteratorFits(R, i, d1)
    BY <2>5, <2>7, <2>8, ReadAtParts, ReadAtFits
  <2>10. PICK z : z = zbuf1_at(d1, d.index)
    OBVIOUS
  <2>11. z = d1.zbuf1[d.index]
    BY <2>0, <2>10, Sizes DEF zbuf1_at, Word
  <2>12. z # 0 => R[z] = <<i, "data">>
    BY <2>0, <2>9, <2>11 DEF IteratorFits, NamesData
  <2>13. Arrived(d, m) = IF z = 0 THEN d1 ELSE [d1 EXCEPT !.znum = z]
    BY <2>0, <2>1, <2>4, <2>6, <2>8, <2>10, ArrivedParts
  <2>14. CASE z = 0
    BY <2>9, <2>13, <2>14
  <2>15. CASE z # 0
    <3>1. PICK e : e = [d1 EXCEPT !.znum = z]
      OBVIOUS
    <3>2. /\ e.znum = z /\ e.znum1 = d1.znum1 /\ e.zbuf1 = d1.zbuf1
          /\ e.znum2 = d1.znum2 /\ e.zbuf2 = d1.zbuf2
      BY <2>9, <3>1 DEF Iterator
    <3>3. e = Arrived(d, m)
      BY <2>13, <2>15, <3>1
    <3> QED BY <2>9, <2>12, <2>15, <3>2, <3>3 DEF IteratorFits
  <2> QED BY <2>14, <2>15
<1> QED BY <1>2, <1>3

\* dzi_redirect gives the new zone the purpose of data.
LEMMA RedirectedFits ==
  ASSUME NEW R, NEW i \in Files, NEW d \in Iterator, NEW n \in Number,
         R[n] = <<i, "data">>, IteratorFits(R, i, d),
         d.place = "direct" \/ d.index \in Word
  PROVE  IteratorFits(R, i, Redirected(d, n))
<1>1. CASE d.place = "direct"
  <2>1. PICK e : e = [d EXCEPT !.znum = n]
    OBVIOUS
  <2>2. e = Redirected(d, n)
    BY <1>1, <2>1 DEF Redirected
  <2>3. /\ e.znum = n /\ e.znum1 = d.znum1 /\ e.zbuf1 = d.zbuf1
        /\ e.znum2 = d.znum2 /\ e.zbuf2 = d.zbuf2
    BY <2>1 DEF Iterator
  <2> QED BY <2>2, <2>3 DEF IteratorFits
<1>2. CASE d.place # "direct"
  <2>1. d.index \in Word /\ d.index # -1
    BY <1>2, Sizes DEF Word
  <2>2. PICK t : t = [d.zbuf1 EXCEPT ![d.index] = n]
    OBVIOUS
  <2>3. NamesData(R, i, t)
    <3>1. \A w \in Word : t[w] = IF w = d.index THEN n ELSE d.zbuf1[w]
      BY <2>1, <2>2 DEF Iterator, Table
    <3> QED BY <3>1 DEF NamesData, IteratorFits
  <2>4. PICK e : e = [d EXCEPT !.znum = n, !.zbuf1 = t]
    OBVIOUS
  <2>5. e = Redirected(d, n)
    BY <1>2, <2>1, <2>2, <2>4 DEF Redirected
  <2>6. /\ e.znum = n /\ e.znum1 = d.znum1 /\ e.zbuf1 = t
        /\ e.znum2 = d.znum2 /\ e.zbuf2 = d.zbuf2
    BY <2>4 DEF Iterator
  <2> QED BY <2>3, <2>5, <2>6 DEF IteratorFits
<1> QED BY <1>1, <1>2

-----------------------------------------------------------------------------
(* Every step leaves each zone to one file *)

\* What the clients keep to.
AllHabits == {"short", "exclusive", "closed"} \subseteq Habits

\* No file reaches the first block at index -1.
Near ==
  /\ \A i \in Files : itab[i].blocks < ShortMost
  /\ \A fd \in Fd : Put(fp[fd].dzi) /\ (fp[fd].used => fp[fd].dzi.count < ShortMost)

\* A file that is written to has one descriptor.
Alone ==
  doing = "add" => \A fd \in Fd : fp[fd].used /\ fp[fd].inode_nr = fp[cfd].inode_nr
                                    => fd = cfd

\* The files of descriptors in use are there, and are where the zones say.
LEMMA DescriptorFits ==
  ASSUME Types, NEW R, NEW S, Fits(R),
         NEW fd \in Fd, NEW g \in Descriptor, fp' = [fp EXCEPT ![fd] = g],
         UNCHANGED table,
         \A i \in Files : /\ \A m \in Inode : InodeFits(R, i, m) => InodeFits(S, i, m)
                          /\ \A d \in Iterator : IteratorFits(R, i, d) => IteratorFits(S, i, d),
         FileFits(S, g), TablesFit(S, zones'),
         \A z \in Number : S[z] # Nobody => z - 1 \in zmap',
         new_zone' # 0 => new_zone' - 1 \in zmap' /\ S[new_zone'] = Nobody
  PROVE  Fits(S)'
<1>1. \A i \in files' : InodeFits(S, i, itab'[i])
  BY DEF Fits, Types, TableOK, table
<1>2. \A c \in Fd : FileFits(S, fp[c])
  BY DEF Fits, FileFits, Types, Lengths, Counting, Descriptor
<1>3. \A c \in Fd : fp'[c] = IF c = fd THEN g ELSE fp[c]
  BY DEF Types
<1>4. \A c \in Fd : FileFits(S, fp[c])' 
  <2>1. files' = files
    BY DEF table
  <2> QED BY <1>2, <1>3, <2>1 DEF FileFits
<1> QED BY <1>1, <1>4 DEF Fits

\* If nothing new is for anything, the same zones are.
LEMMA SameFits ==
  ASSUME Types, NEW R, Fits(R),
         NEW fd \in Fd, NEW g \in Descriptor, fp' = [fp EXCEPT ![fd] = g],
         UNCHANGED table, FileFits(R, g), TablesFit(R, zones'),
         zmap \subseteq zmap', new_zone' \in {0, new_zone}
  PROVE  Fits(R)'
<1>1. \A z \in Number : R[z] # Nobody => z - 1 \in zmap'
  BY DEF Fits
<1>2. new_zone' # 0 => new_zone' - 1 \in zmap' /\ R[new_zone'] = Nobody
  BY DEF Fits
<1> QED BY <1>1, <1>2, DescriptorFits

\* my_creat makes a file without zones.
LEMMA my_creatFits ==
  ASSUME Types, NEW R, Fits(R), NEW i \in Files, my_creat(i)
  PROVE  Fits(R)'
<1>1. /\ itab' = [itab EXCEPT ![i] = Fresh] /\ files' = files \cup {i}
      /\ UNCHANGED <<zmap, last_free_zone_num, zones, fp, doing, new_zone>>
  BY DEF my_creat, store, call
<1>2. InodeFits(R, i, Fresh)
  BY DEF Fresh, InodeFits
<1>3. \A j \in files' : InodeFits(R, j, itab'[j])
  BY <1>1, <1>2 DEF Types, TableOK, Fits
<1>4. \A fd \in Fd : FileFits(R, fp[fd])'
  BY <1>1 DEF Fits, FileFits
<1> QED BY <1>1, <1>3, <1>4 DEF Fits

\* my_open starts an iterator on the inode of the table.
LEMMA my_openFits ==
  ASSUME AllHabits, Types, Near, NEW R, Fits(R), NEW i \in Files, my_open(i)
  PROVE  Fits(R)'
<1>1. itab[i] \in Inode /\ itab[i].blocks <= MaxBlocks[i] /\ i \in files
      /\ InodeFits(R, i, itab[i])
  BY DEF Types, TableOK, Lengths, Fits, my_open
<1>2. PICK m, g : /\ m = itab[i]
                  /\ g = [used |-> TRUE, inode_nr |-> i, inode |-> m, past |-> FALSE,
                          dzi |-> IF m.blocks = 0 THEN MakeIterator(m)
                                  ELSE Arrived(Placed(MakeIterator(m), 1), m)]
  OBVIOUS
<1>3. PICK fd \in Fd : fp' = [fp EXCEPT ![fd] = g]
  BY <1>2 DEF my_open
<1>4. g \in Descriptor
  BY <1>1, <1>2, OpenedParts DEF Types
<1>5. PICK start, first : start = MakeIterator(m) /\ first = Placed(start, 1)
  OBVIOUS
<1>6. start \in Iterator /\ IteratorFits(R, i, start)
  <2>1. start \in Iterator
    BY <1>1, <1>2, <1>5, MakeIteratorType
  <2>2. /\ start.znum = 0 /\ start.znum1 = 0 /\ start.znum2 = 0
        /\ start.zbuf1 = EmptyTable /\ start.zbuf2 = EmptyTable
    BY <1>5 DEF MakeIterator
  <2> QED BY <2>1, <2>2 DEF IteratorFits, NamesData, NamesTables, EmptyTable
<1>7. 1 \in 1 .. Most /\ 1 < ShortMost
  BY Sizes DEF Most, ShortMost
<1>8. /\ first \in Iterator /\ first.num = 1 /\ Within(first) /\ Put(first)
      /\ IteratorFits(R, i, first)
  BY <1>5, <1>6, <1>7, PlacedParts, PlacedWithin, PlacedPut, PlacedFits
<1>9. IteratorFits(R, i, Arrived(first, m))
  <2>1. TablesFit(R, zones) /\ StoreOK
    BY DEF Fits, Types
  <2> QED BY <1>1, <1>2, <1>8, <2>1, ArrivedFits
<1>10. IteratorFits(R, i, g.dzi) /\ g.inode = m /\ g.inode_nr = i
  BY <1>2, <1>5, <1>6, <1>9
<1>11. FileFits(R, g)
  BY <1>1, <1>2, <1>10 DEF FileFits
<1>12. UNCHANGED <<zmap, zones, table, doing, new_zone>>
  BY DEF my_open, store, call
<1>13. TablesFit(R, zones')
  BY <1>12 DEF Fits
<1> QED BY <1>3, <1>4, <1>11, <1>12, <1>13, SameFits

\* my_close puts the inode back.
LEMMA my_closeFits ==
  ASSUME Types, NEW R, Fits(R), NEW fd \in Fd, my_close(fd)
  PROVE  Fits(R)'
<1>1. /\ itab' = [itab EXCEPT ![fp[fd].inode_nr] = fp[fd].inode]
      /\ fp' = [fp EXCEPT ![fd] = Unused] /\ fp[fd].used
      /\ UNCHANGED <<zmap, zones, files, doing, new_zone>>
  BY DEF my_close, store, call
<1>2. InodeFits(R, fp[fd].inode_nr, fp[fd].inode)
  BY <1>1 DEF Fits, FileFits
<1>3. \A j \in files' : InodeFits(R, j, itab'[j])
  BY <1>1, <1>2 DEF Types, TableOK, Fits
<1>4. \A c \in Fd : FileFits(R, fp[c])'
  BY <1>1 DEF Fits, FileFits, Types, Unused
<1> QED BY <1>1, <1>3, <1>4 DEF Fits

\* What is freed is the file's.
LEMMA ClearedFits ==
  ASSUME Types, NEW R, Fits(R), NEW i \in Files, NEW m \in Inode, InodeFits(R, i, m)
  PROVE  \A z \in Cleared(m) : \E k : R[z] = <<i, k>>
<1> DEFINE Of(z) == \E k : R[z] = <<i, k>>
<1>0. TablesFit(R, zones) /\ m.ind1 \in Zone /\ m.ind2 \in Zone
  BY DEF Fits, Inode
<1>1. \A k \in DirectPrefix(m) : Of(m.direct[k])
  <2> SUFFICES ASSUME NEW k \in DirectPrefix(m) PROVE Of(m.direct[k])
    OBVIOUS
  <2>1. k \in 1 .. NR_DIRECT_ZONES /\ k \in 1 .. k
    BY Sizes DEF DirectPrefix
  <2>2. m.direct[k] # 0
    BY <2>1 DEF DirectPrefix
  <2> QED BY <2>1, <2>2 DEF InodeFits
<1>2. ASSUME NEW t \in Number, R[t] = <<i, "ind1">>
      PROVE  \A z \in Named(read_zone(t)) : Of(z)
  <2>1. \A w \in Prefix(zones[t]) : w \in Word /\ zones[t][w] # 0
    BY DEF Prefix, Word
  <2>2. NamesData(R, i, zones[t])
    BY <1>0, <1>2 DEF TablesFit
  <2> QED BY <2>1, <2>2 DEF Named, read_zone, NamesData
<1>3. m.ind1 # 0 => Of(m.ind1) /\ \A z \in Named(read_zone(m.ind1)) : Of(z)
  <2> SUFFICES ASSUME m.ind1 # 0
               PROVE  Of(m.ind1) /\ \A z \in Named(read_zone(m.ind1)) : Of(z)
    OBVIOUS
  <2>1. R[m.ind1] = <<i, "ind1">> /\ m.ind1 \in Number
    BY <1>0 DEF InodeFits, Zone, Number
  <2> QED BY <1>2, <2>1
<1>4. m.ind2 # 0 =>
        /\ Of(m.ind2)
        /\ \A t \in Groups(read_zone(m.ind2)) : t \in Number /\ R[t] = <<i, "ind1">>
  <2> SUFFICES ASSUME m.ind2 # 0
               PROVE  /\ Of(m.ind2)
                      /\ \A t \in Groups(read_zone(m.ind2)) :
                            t \in Number /\ R[t] = <<i, "ind1">>
    OBVIOUS
  <2>1. R[m.ind2] = <<i, "ind2">> /\ m.ind2 \in Number
    BY <1>0 DEF InodeFits, Zone, Number
  <2>2. PICK u : u = zones[m.ind2]
    OBVIOUS
  <2>3. u \in Table /\ NamesTables(R, i, u) /\ read_zone(m.ind2) = u
    BY <1>0, <2>1, <2>2 DEF TablesFit, read_zone, Types, StoreOK
  <2>4. \A w \in Prefix(u) : w \in Word /\ u[w] # 0 /\ u[w] \in Zone
    BY <2>3, WordType DEF Prefix, Word
  <2>5. \A t \in Groups(u) : \E w \in Prefix(u) : t = u[w]
    BY DEF Groups
  <2> QED BY <2>1, <2>3, <2>4, <2>5 DEF NamesTables, Zone, Number
<1> HIDE DEF Of
<1>5. ASSUME NEW z \in Cleared(m) PROVE Of(z)
  <2>1. \/ \E k \in DirectPrefix(m) : z = m.direct[k]
        \/ m.ind1 # 0 /\ (z = m.ind1 \/ z \in Named(read_zone(m.ind1)))
        \/ m.ind2 # 0 /\ \/ z = m.ind2
                          \/ z \in Groups(read_zone(m.ind2))
                          \/ \E t \in Groups(read_zone(m.ind2)) : z \in Named(read_zone(t))
    BY DEF Cleared
  <2>2. CASE \E k \in DirectPrefix(m) : z = m.direct[k]
    BY <1>1, <2>2
  <2>3. CASE m.ind1 # 0 /\ (z = m.ind1 \/ z \in Named(read_zone(m.ind1)))
    BY <1>3, <2>3
  <2>4. CASE m.ind2 # 0 /\ z = m.ind2
    BY <1>4, <2>4
  <2>5. CASE m.ind2 # 0 /\ z \in Groups(read_zone(m.ind2))
    <3>1. R[z] = <<i, "ind1">>
      BY <1>4, <2>5
    <3> QED BY <3>1 DEF Of
  <2>6. CASE m.ind2 # 0 /\ \E t \in Groups(read_zone(m.ind2)) : z \in Named(read_zone(t))
    BY <1>2, <1>4, <2>6
  <2> QED BY <2>1, <2>2, <2>3, <2>4, <2>5, <2>6
<1> QED BY <1>5 DEF Of

\* my_remove leaves the zones of other files to them.
LEMMA my_removeFits ==
  ASSUME AllHabits, Types, NEW R, Fits(R), NEW i \in Files, my_remove(i)
  PROVE  \E S : Fits(S)'
<1> DEFINE S == [z \in Number |-> IF \E k : R[z] = <<i, k>> THEN Nobody ELSE R[z]]
<1>1. /\ files' = files \ {i} /\ zmap' = zmap \ {z - 1 : z \in Cleared(itab[i])}
      /\ UNCHANGED <<zones, itab, fp, doing, new_zone>> /\ i \in files
      /\ Sharing(i) = {} /\ pc = "idle" /\ doing = "none"
  BY DEF my_remove, RemoveHabits, AllHabits, call, Types, CallOK
<1>2. \A j \in Files : \A k : j # i => \A z \in Number : R[z] = <<j, k>> => S[z] = <<j, k>>
  BY DEF Nobody
<1>3. \A z \in Number : S[z] # Nobody => S[z] = R[z] /\ ~ \E k : R[z] = <<i, k>>
  OBVIOUS
<1>4. \A j \in Files : \A k : \A z \in Number : S[z] = <<j, k>> => R[z] = <<j, k>> /\ j # i
  <2>1. \A j \in Files : \A k : <<j, k>> # Nobody
    BY Sizes DEF Nobody
  <2> QED BY <1>3, <2>1
<1> HIDE DEF S
<1>5. \A j \in Files \ {i} : \A m \in Inode : InodeFits(R, j, m) => InodeFits(S, j, m)
  <2> SUFFICES ASSUME NEW j \in Files \ {i}, NEW m \in Inode, InodeFits(R, j, m)
               PROVE  InodeFits(S, j, m)
    OBVIOUS
  <2>1. \A n \in Zone : n # 0 => n \in Number
    BY DEF Zone, Number
  <2>2. \A n \in Zone : \A k : n # 0 /\ R[n] = <<j, k>> => S[n] = <<j, k>>
    BY <1>2, <2>1
  <2>3. /\ m.direct \in [1 .. NR_DIRECT_ZONES -> Zone] /\ m.ind1 \in Zone /\ m.ind2 \in Zone
    BY DEF Inode
  <2> QED BY <2>2, <2>3 DEF InodeFits
<1>6. \A j \in Files \ {i} : \A t \in Table :
         /\ NamesData(R, j, t) => NamesData(S, j, t)
         /\ NamesTables(R, j, t) => NamesTables(S, j, t)
  <2>1. \A t \in Table, w \in Word : t[w] # 0 => t[w] \in Number
    BY WordType DEF Zone, Number
  <2> QED BY <1>2, <2>1 DEF NamesData, NamesTables
<1>7. \A j \in Files \ {i} : \A d \in Iterator : IteratorFits(R, j, d) => IteratorFits(S, j, d)
  BY <1>2, <1>6 DEF Iterator, IteratorFits, Zone, Number
<1>8. \A j \in files' : InodeFits(S, j, itab'[j])
  BY <1>1, <1>5 DEF Fits, Types, TableOK
<1>9. \A fd \in Fd : FileFits(S, fp[fd])'
  <2> SUFFICES ASSUME NEW fd \in Fd, fp[fd].used PROVE FileFits(S, fp[fd])'
    BY <1>1 DEF FileFits
  <2>1. FileFits(R, fp[fd]) /\ fp[fd] \in Descriptor
    BY DEF Fits, Types
  <2>2. fp[fd].inode_nr # i /\ fp[fd].inode_nr \in Files
    BY <1>1 DEF Sharing, Types, Lengths, Counting
  <2>3. fp[fd].inode \in Inode /\ fp[fd].dzi \in Iterator
    BY <2>1 DEF Descriptor
  <2> QED BY <1>1, <1>5, <1>7, <2>1, <2>2, <2>3 DEF FileFits
<1>10. TablesFit(S, zones')
  <2>1. TablesFit(R, zones) /\ \A z \in Number : zones[z] \in Table
    BY DEF Fits, Types, StoreOK
  <2> QED BY <1>1, <1>4, <1>6, <2>1 DEF TablesFit
<1>11. \A z \in Number : S[z] # Nobody => z - 1 \in zmap'
  <2> SUFFICES ASSUME NEW z \in Number, S[z] # Nobody PROVE z - 1 \in zmap'
    OBVIOUS
  <2>1. R[z] # Nobody /\ ~ \E k : R[z] = <<i, k>>
    BY <1>3
  <2>2. z - 1 \in zmap
    BY <2>1 DEF Fits
  <2>3. \A y \in Cleared(itab[i]) : \E k : R[y] = <<i, k>>
    BY <1>1, ClearedFits DEF Fits, Types, TableOK
  <2>4. \A y \in Cleared(itab[i]) : y \in Zone
    BY ClearedType DEF Types, TableOK
  <2>5. z \notin Cleared(itab[i]) /\ z \in Nat
    BY <2>1, <2>3, Sizes DEF Number
  <2> QED BY <1>1, <2>2, <2>4, <2>5 DEF Zone
<1>12. new_zone' = 0
  BY <1>1 DEF Types, CallOK
<1>13. Fits(S)'
  BY <1>8, <1>9, <1>10, <1>11, <1>12 DEF Fits
<1> QED BY <1>13

\* ReadOn moves the iterator no further than the place.
LEMMA ReadOnFits ==
  ASSUME Types, NEW R, Fits(R), NEW fd \in Fd, ReadOn(fd)
  PROVE  Fits(R)'
<1>1. PICK f, k : f = fp[fd] /\ k = f.dzi.num + 1
  OBVIOUS
<1>2. PICK g : g = [f EXCEPT !.dzi = Placed(@, k)]
  OBVIOUS
<1>3. /\ f \in Descriptor /\ f.used /\ Counting(f) /\ f.dzi.num < f.inode.blocks
      /\ fp' = [fp EXCEPT ![fd] = g] /\ FileFits(R, f)
      /\ UNCHANGED <<zmap, zones, table, new_zone>>
  BY <1>1, <1>2 DEF Types, Lengths, ReadOn, Fits, store
<1>4. k \in 1 .. Most
  <2>1. /\ f.dzi.num \in Nat /\ f.inode.blocks \in Nat /\ f.dzi.count \in Nat
        /\ f.inode.blocks <= f.dzi.count
        /\ f.dzi.count <= MaxBlocks[f.inode_nr] /\ f.inode_nr \in Files
    BY <1>3 DEF Descriptor, Iterator, Inode, Counting
  <2>2. MaxBlocks[f.inode_nr] \in 0 .. Most /\ Most \in Nat
    BY <2>1, Bounds
  <2> QED BY <1>1, <1>3, <2>1, <2>2
<1>5. /\ g \in Descriptor /\ g.used /\ g.inode_nr = f.inode_nr
      /\ g.inode = f.inode /\ g.dzi = Placed(f.dzi, k)
  BY <1>2, <1>3, <1>4, SentParts
<1>6. f.dzi \in Iterator
  BY <1>3 DEF Descriptor
<1>7. FileFits(R, g)
  BY <1>3, <1>4, <1>5, <1>6, PlacedFits DEF FileFits
<1>8. TablesFit(R, zones')
  BY <1>3 DEF Fits
<1> QED BY <1>3, <1>5, <1>7, <1>8, SameFits

\* A zone that is allocated was for nothing, and is empty.
LEMMA AllocFits ==
  ASSUME Types, NEW R, Fits(R), NEW n \in Number, ZMap!alloc_zone(n)
  PROVE  /\ R[n] = Nobody /\ n - 1 \notin zmap /\ zmap' = zmap \cup {n - 1}
         /\ zones' = [zones EXCEPT ![n] = EmptyTable]
         /\ \A S : (\A z \in Number : z # n => S[z] = R[z]) => TablesFit(S, zones')
<1>1. n \in Zone /\ n # 0
  BY Sizes DEF Zone, Number
<1>2. /\ n - 1 \notin zmap /\ zmap' = zmap \cup {n - 1}
      /\ zones' = [zones EXCEPT ![n] = EmptyTable]
  BY <1>1, Alloc DEF Types
<1>3. R[n] = Nobody
  BY <1>2 DEF Fits
<1>4. zones \in [Number -> Table] /\ TablesFit(R, zones)
  BY DEF Types, StoreOK, Fits
<1> QED BY <1>2, <1>3, <1>4, MoreTables

\* AddBlock has a zone in hand that is for nothing yet.
LEMMA AddBlockFits ==
  ASSUME Types, NEW R, Fits(R), NEW z \in Number, AddBlock(z)
  PROVE  Fits(R)'
<1>1. PICK f, k : f = fp[cfd] /\ k = f.dzi.count + 1
  OBVIOUS
<1>2. PICK g : g = [f EXCEPT !.dzi = Placed(@, k)]
  OBVIOUS
<1>0. pc = "write"
  BY DEF AddBlock, Writing
<1>3. /\ f \in Descriptor /\ f.used /\ Counting(f) /\ cfd \in Fd /\ FileFits(R, f)
  BY <1>0, <1>1, Caller DEF Fits
<1>30. /\ f.dzi.count < MaxBlocks[f.inode_nr] /\ fp' = [fp EXCEPT ![cfd] = g]
       /\ new_zone' = z /\ UNCHANGED table /\ ZMap!alloc_zone(z)
  BY <1>1, <1>2, <1>3 DEF AddBlock, Writing, Room, Types
<1>4. k \in 1 .. Most
  <2>1. f.dzi.count \in Nat /\ f.inode_nr \in Files
    BY <1>3 DEF Descriptor, Iterator, Counting
  <2>2. MaxBlocks[f.inode_nr] \in 0 .. Most /\ Most \in Nat
    BY <2>1, Bounds
  <2> QED BY <1>1, <1>30, <2>1, <2>2
<1>5. /\ g \in Descriptor /\ g.used /\ g.inode_nr = f.inode_nr
      /\ g.inode = f.inode /\ g.dzi = Placed(f.dzi, k)
  BY <1>2, <1>3, <1>4, SentParts
<1>6. f.dzi \in Iterator
  BY <1>3 DEF Descriptor
<1>7. FileFits(R, g)
  BY <1>3, <1>4, <1>5, <1>6, PlacedFits DEF FileFits
<1>8. R[z] = Nobody /\ zmap' = zmap \cup {z - 1} /\ TablesFit(R, zones')
  BY <1>30, AllocFits
<1>9. \A y \in Number : R[y] # Nobody => y - 1 \in zmap'
  BY <1>8 DEF Fits
<1> QED BY <1>3, <1>30, <1>5, <1>7, <1>8, <1>9, DescriptorFits

\* Which index zone is missing.
LEMMA MissingParts ==
  ASSUME NEW d, NEW m, NEW w, w = zbuf2_at(ReadAt2(d, m.ind2), d.index2)
  PROVE  /\ Missing(d, m) = "ind1" => d.place = "ind1" /\ m.ind1 = 0
         /\ Missing(d, m) = "ind2" => d.place = "ind2" /\ m.ind2 = 0
         /\ Missing(d, m) = "table" => d.place = "ind2" /\ m.ind2 # 0 /\ w = 0
         /\ Missing(d, m) = "none" => /\ d.place = "ind1" => m.ind1 # 0
                                      /\ d.place = "ind2" => m.ind2 # 0 /\ w # 0
         /\ Missing(d, m) \in {"ind1", "ind2", "table", "none"}
BY DEF Missing

\* The zone in hand, when another is allocated.
LEMMA HandFits ==
  ASSUME Types, NEW R, Fits(R), NEW z \in Number, z - 1 \notin zmap, R[z] = Nobody,
         zmap' = zmap \cup {z - 1}, UNCHANGED new_zone,
         NEW S, \A y \in Number : y # z => S[y] = R[y]
  PROVE  /\ \A y \in Number : S[y] # Nobody => y - 1 \in zmap'
         /\ new_zone' # 0 => new_zone' - 1 \in zmap' /\ S[new_zone'] = Nobody
<1>1. \A y \in Number : S[y] # Nobody => y - 1 \in zmap'
  BY DEF Fits
<1>2. ASSUME new_zone # 0 PROVE new_zone - 1 \in zmap /\ S[new_zone] = Nobody
  <2>1. new_zone - 1 \in zmap /\ R[new_zone] = Nobody /\ new_zone # z
    BY <1>2 DEF Fits
  <2>2. new_zone \in Number
    BY <1>2, Sizes DEF Types, CallOK, Zone, Number
  <2> QED BY <2>1, <2>2
<1> QED BY <1>1, <1>2

\* BuildInd1 and BuildInd2 find a use for a zone that has none.
LEMMA BuildIndFits ==
  ASSUME Types, NEW R, Fits(R), NEW z \in Number, BuildInd1(z) \/ BuildInd2(z)
  PROVE  \E S : Fits(S)'
<1>1. PICK f, i : f = fp[cfd] /\ i = f.inode_nr
  OBVIOUS
<1>2. PICK g, k : \/ g = [f EXCEPT !.inode.ind1 = z] /\ k = "ind1" /\ BuildInd1(z)
                  \/ g = [f EXCEPT !.inode.ind2 = z] /\ k = "ind2" /\ BuildInd2(z)
  OBVIOUS
<1>3. /\ pc = "move" /\ ZMap!alloc_zone(z) /\ UNCHANGED <<table, call, out, spoiled>>
      /\ fp' = [fp EXCEPT ![cfd] = g]
  BY <1>1, <1>2 DEF BuildInd1, BuildInd2, Moving, Types
<1>4. /\ f \in Descriptor /\ f.used /\ f.inode \in Inode /\ f.dzi \in Iterator
      /\ i \in Files /\ cfd \in Fd /\ FileFits(R, f)
  BY <1>1, <1>3, Caller DEF Fits
<1>5. z \in Zone /\ z # 0
  BY Sizes DEF Zone, Number
<1>6. /\ R[z] = Nobody /\ z - 1 \notin zmap /\ zmap' = zmap \cup {z - 1}
      /\ \A S : (\A y \in Number : y # z => S[y] = R[y]) => TablesFit(S, zones')
  BY <1>3, AllocFits
<1>7. PICK S : S = [y \in Number |-> IF y = z THEN <<i, k>> ELSE R[y]]
  OBVIOUS
<1>8. S[z] = <<i, k>> /\ \A y \in Number : y # z => S[y] = R[y]
  BY <1>7
<1>9. /\ \A j \in Files : /\ \A m \in Inode : InodeFits(R, j, m) => InodeFits(S, j, m)
                          /\ \A d \in Iterator : IteratorFits(R, j, d) => IteratorFits(S, j, d)
  BY <1>6, <1>8, MoreFits
<1>10. InodeFits(S, i, f.inode) /\ IteratorFits(S, i, f.dzi) /\ i \in files
  BY <1>1, <1>4, <1>9 DEF FileFits
<1>11. PICK m : /\ m \in Inode /\ g = [f EXCEPT !.inode = m] /\ m.direct = f.inode.direct
                /\ k = "ind1" => m.ind1 = z /\ m.ind2 = f.inode.ind2
                /\ k # "ind1" => m.ind1 = f.inode.ind1 /\ m.ind2 = z /\ k = "ind2"
  <2>1. CASE g = [f EXCEPT !.inode.ind1 = z] /\ k = "ind1"
    <3>1. PICK m : m = [f.inode EXCEPT !.ind1 = z]
      OBVIOUS
    <3>2. m \in Inode /\ m.ind1 = z /\ m.ind2 = f.inode.ind2 /\ m.direct = f.inode.direct
      BY <1>4, <1>5, <3>1 DEF Inode
    <3>3. g = [f EXCEPT !.inode = m]
      BY <2>1, <3>1
    <3> QED BY <2>1, <3>2, <3>3
  <2>2. CASE g = [f EXCEPT !.inode.ind2 = z] /\ k = "ind2"
    <3>1. PICK m : m = [f.inode EXCEPT !.ind2 = z]
      OBVIOUS
    <3>2. m \in Inode /\ m.ind2 = z /\ m.ind1 = f.inode.ind1 /\ m.direct = f.inode.direct
      BY <1>4, <1>5, <3>1 DEF Inode
    <3>3. g = [f EXCEPT !.inode = m]
      BY <2>2, <3>1
    <3> QED BY <2>2, <3>2, <3>3
  <2> QED BY <1>2, <2>1, <2>2
<1>12. InodeFits(S, i, m)
  BY <1>8, <1>10, <1>11 DEF InodeFits
<1>13. g \in Descriptor /\ g.inode_nr = i /\ g.inode = m /\ g.dzi = f.dzi
  BY <1>1, <1>4, <1>11 DEF Descriptor
<1>14. FileFits(S, g)
  BY <1>10, <1>12, <1>13 DEF FileFits
<1>15. TablesFit(S, zones')
  BY <1>6, <1>8
<1>16. UNCHANGED <<doing, new_zone>> /\ UNCHANGED table
  BY <1>3 DEF call
<1>17. /\ \A y \in Number : S[y] # Nobody => y - 1 \in zmap'
       /\ new_zone' # 0 => new_zone' - 1 \in zmap' /\ S[new_zone'] = Nobody
  BY <1>6, <1>8, <1>16, HandFits
<1>18. Fits(S)'
  BY <1>3, <1>4, <1>9, <1>13, <1>14, <1>15, <1>16, <1>17, DescriptorFits
<1> QED BY <1>18

\* BuildTable finds a use for a zone too, in the copy of ind2.
LEMMA BuildTableFits ==
  ASSUME Types, Near, NEW R, Fits(R), NEW z \in Number, BuildTable(z)
  PROVE  \E S : Fits(S)'
<1>1. PICK f, d, e, i : /\ f = fp[cfd] /\ d = ReadAt2(f.dzi, f.inode.ind2)
                        /\ e = [d EXCEPT !.zbuf2[d.index2] = z] /\ i = f.inode_nr
  OBVIOUS
<1>2. /\ pc = "move" /\ ZMap!alloc_zone(z) /\ Lacks("table")
      /\ UNCHANGED <<table, doing, cfd, new_zone, out, spoiled>>
      /\ fp' = [fp EXCEPT ![cfd].dzi = e]
  BY <1>1 DEF BuildTable, Moving
<1>3. /\ f \in Descriptor /\ f.used /\ f.inode \in Inode /\ f.dzi \in Iterator
      /\ i \in Files /\ cfd \in Fd /\ FileFits(R, f) /\ f.dzi.num # 0 /\ Put(f.dzi)
  BY <1>1, <1>2, Caller DEF Fits, Near
<1>4. z \in Zone /\ z # 0 /\ z \in 0 .. ZoneBits
  BY Sizes DEF Zone, Number
<1>5. /\ R[z] = Nobody /\ z - 1 \notin zmap /\ zmap' = zmap \cup {z - 1}
      /\ \A S : (\A y \in Number : y # z => S[y] = R[y]) => TablesFit(S, zones')
  BY <1>2, AllocFits
<1>6. PICK S : S = [y \in Number |-> IF y = z THEN <<i, "ind1">> ELSE R[y]]
  OBVIOUS
<1>7. S[z] = <<i, "ind1">> /\ \A y \in Number : y # z => S[y] = R[y]
  BY <1>6
<1>8. /\ \A j \in Files : /\ \A m \in Inode : InodeFits(R, j, m) => InodeFits(S, j, m)
                          /\ \A b \in Iterator : IteratorFits(R, j, b) => IteratorFits(S, j, b)
  BY <1>5, <1>7, MoreFits
<1>9. f.dzi.place = "ind2" /\ f.inode.ind2 # 0 /\ f.inode.ind2 \in Zone
  BY <1>1, <1>2, <1>3, MissingParts DEF Lacks, Inode
<1>10. /\ InodeFits(S, i, f.inode) /\ i \in files
       /\ InodeFits(R, i, f.inode) /\ IteratorFits(R, i, f.dzi)
  BY <1>1, <1>3, <1>8 DEF FileFits
<1>11. /\ d \in Iterator /\ d.index2 = f.dzi.index2 /\ IteratorFits(R, i, d)
  <2>1. TablesFit(R, zones) /\ StoreOK
    BY DEF Fits, Types
  <2>2. d \in Iterator /\ d.index2 = f.dzi.index2
    BY <1>1, <1>3, <1>9, <2>1, ReadAtParts
  <2>3. f.inode.ind2 # 0 => R[f.inode.ind2] = <<i, "ind2">>
    BY <1>10 DEF InodeFits
  <2> QED BY <1>1, <1>3, <1>9, <1>10, <2>1, <2>2, <2>3, ReadAtFits
<1>12. d.index2 \in Word
  BY <1>3, <1>9, <1>11, PutWords
<1>13. IteratorFits(S, i, d)
  BY <1>3, <1>8, <1>11
<1>14. PICK t : t = [d.zbuf2 EXCEPT ![d.index2] = z]
  OBVIOUS
<1>15. t \in Table /\ NamesTables(S, i, t)
  <2>1. d.zbuf2 \in Table /\ NamesTables(S, i, d.zbuf2)
    BY <1>11, <1>13 DEF Iterator, IteratorFits
  <2>2. \A w \in Word : t[w] = IF w = d.index2 THEN z ELSE d.zbuf2[w]
    BY <1>14, <2>1 DEF Table
  <2>3. t \in Table
    BY <1>4, <1>14, <2>1 DEF Table
  <2> QED BY <1>7, <2>1, <2>2, <2>3 DEF NamesTables
<1>16. e = [d EXCEPT !.zbuf2 = t]
  BY <1>1, <1>14
<1>17. /\ e \in Iterator /\ e.znum = d.znum /\ e.znum1 = d.znum1 /\ e.zbuf1 = d.zbuf1
       /\ e.znum2 = d.znum2 /\ e.zbuf2 = t
  BY <1>11, <1>15, <1>16 DEF Iterator
<1>18. IteratorFits(S, i, e)
  BY <1>13, <1>15, <1>17 DEF IteratorFits
<1>19. PICK g : g = [f EXCEPT !.dzi = e]
  OBVIOUS
<1>20. g \in Descriptor /\ g.inode_nr = i /\ g.inode = f.inode /\ g.dzi = e
  <2>1. f \in Descriptor /\ e \in Iterator /\ f.inode_nr = i
    BY <1>1, <1>3, <1>17
  <2>2. /\ g \in Descriptor /\ g.inode_nr = f.inode_nr
        /\ g.inode = f.inode /\ g.dzi = e
    BY <1>19, <2>1, NewIterator
  <2> QED BY <2>1, <2>2
<1>21. fp' = [fp EXCEPT ![cfd] = g]
  BY <1>1, <1>2, <1>3, <1>19 DEF Types
<1>22. FileFits(S, g)
  BY <1>10, <1>18, <1>20 DEF FileFits
<1>23. TablesFit(S, zones') /\ UNCHANGED table
  BY <1>2, <1>5, <1>7
<1>24. /\ \A y \in Number : S[y] # Nobody => y - 1 \in zmap'
       /\ new_zone' # 0 => new_zone' - 1 \in zmap' /\ S[new_zone'] = Nobody
  BY <1>2, <1>5, <1>7, HandFits
<1>25. Fits(S)'
  BY <1>3, <1>8, <1>20, <1>21, <1>22, <1>23, <1>24, DescriptorFits
<1> QED BY <1>25

\* A table is written to a zone it is right for.
LEMMA WrittenFits ==
  ASSUME NEW R, NEW zs \in [Number -> Table], TablesFit(R, zs), NEW n \in Number, NEW t \in Table,
         \A i \in Files : /\ R[n] = <<i, "ind1">> => NamesData(R, i, t)
                          /\ R[n] = <<i, "ind2">> => NamesTables(R, i, t)
  PROVE  TablesFit(R, [zs EXCEPT ![n] = t])
<1>1. \A z \in Number : [zs EXCEPT ![n] = t][z] = IF z = n THEN t ELSE zs[z]
  OBVIOUS
<1> QED BY <1>1 DEF TablesFit

\* SaveTable writes the copy of ind2 to ind2.
LEMMA SaveTableFits ==
  ASSUME Types, NEW R, Fits(R), SaveTable
  PROVE  Fits(R)'
<1>1. PICK n, t, i : n = fp[cfd].dzi.znum2 /\ t = fp[cfd].dzi.zbuf2 /\ i = fp[cfd].inode_nr
  OBVIOUS
<1>2. /\ pc = "save" /\ ZMap!write_zone(n, t)
      /\ UNCHANGED <<table, fp, doing, cfd, new_zone, out, spoiled>>
  BY <1>1 DEF SaveTable
<1>3. /\ fp[cfd].dzi \in Iterator /\ fp[cfd].used /\ cfd \in Fd /\ FileFits(R, fp[cfd])
  BY <1>2, Caller DEF Fits
<1>4. t \in Table /\ NamesTables(R, i, t) /\ (n # 0 => R[n] = <<i, "ind2">>)
  BY <1>1, <1>3 DEF Iterator, FileFits, IteratorFits
<1>5. /\ UNCHANGED <<zmap, last_free_zone_num>>
      /\ zones' = IF n \in Number THEN [zones EXCEPT ![n] = t] ELSE zones
  BY <1>2, <1>4, WriteTypes DEF Types
<1>6. n \in Number => n # 0
  BY Sizes DEF Number
<1>7. zones \in [Number -> Table] /\ TablesFit(R, zones)
  BY DEF Types, StoreOK, Fits
<1>8. ASSUME n \in Number PROVE TablesFit(R, zones')
  <2>1. R[n] = <<i, "ind2">>
    BY <1>4, <1>6, <1>8
  <2>2. \A j \in Files : /\ R[n] = <<j, "ind1">> => NamesData(R, j, t)
                         /\ R[n] = <<j, "ind2">> => NamesTables(R, j, t)
    BY <1>4, <2>1
  <2> QED BY <1>4, <1>5, <1>7, <1>8, <2>2, WrittenFits
<1>9. TablesFit(R, zones')
  BY <1>5, <1>7, <1>8
<1> QED BY <1>2, <1>5, <1>9 DEF Fits, FileFits, table

\* A call goes on without a use for another zone.
LEMMA GoesOnFits ==
  ASSUME Types, NEW R, Fits(R), pc # "idle", NEW d \in Iterator,
         fp' = [fp EXCEPT ![cfd].dzi = d], UNCHANGED <<table, doing, new_zone, zmap, zones>>,
         IteratorFits(R, fp[cfd].inode_nr, d)
  PROVE  Fits(R)'
<1>1. PICK f : f = fp[cfd]
  OBVIOUS
<1>2. f \in Descriptor /\ f.used /\ cfd \in Fd /\ FileFits(R, f)
  BY <1>1, Caller DEF Fits
<1>3. PICK g : g = [f EXCEPT !.dzi = d]
  OBVIOUS
<1>4. g \in Descriptor /\ g.inode_nr = f.inode_nr /\ g.inode = f.inode /\ g.dzi = d
      /\ g.used
  BY <1>2, <1>3, NewIterator
<1>5. fp' = [fp EXCEPT ![cfd] = g]
  BY <1>1, <1>2, <1>3 DEF Types
<1>6. FileFits(R, g)
  BY <1>1, <1>2, <1>4 DEF FileFits
<1>7. TablesFit(R, zones') /\ zmap \subseteq zmap' /\ UNCHANGED table
      /\ new_zone' \in {0, new_zone}
  BY DEF Fits
<1> QED BY <1>2, <1>4, <1>5, <1>6, <1>7, SameFits

\* NoIndexZone may have read ind2.
LEMMA NoIndexZoneFits ==
  ASSUME Types, NEW R, Fits(R), NoIndexZone
  PROVE  Fits(R)'
<1>1. PICK f, d : f = fp[cfd] /\ d = IF Lacks("table") THEN ReadAt2(f.dzi, f.inode.ind2)
                                     ELSE f.dzi
  OBVIOUS
<1>2. /\ pc = "move" /\ ZMap!alloc_zone(0) /\ UNCHANGED <<table, doing, cfd, new_zone, out>>
      /\ fp' = [fp EXCEPT ![cfd].dzi = d]
  <2>1. fp' = [fp EXCEPT ![cfd].dzi = IF Lacks("table") THEN ReadAt2(@, f.inode.ind2) ELSE @]
    BY <1>1 DEF NoIndexZone
  <2>2. fp \in [Fd -> Descriptor]
    BY DEF Types
  <2> QED BY <1>1, <2>1, <2>2 DEF NoIndexZone, Moving
<1>3. /\ f.dzi \in Iterator /\ f.inode \in Inode /\ f.inode_nr \in Files /\ FileFits(R, f)
      /\ f.used
  BY <1>1, <1>2, Caller DEF Fits
<1>4. InodeFits(R, f.inode_nr, f.inode) /\ IteratorFits(R, f.inode_nr, f.dzi)
  BY <1>3 DEF FileFits
<1>5. d \in Iterator /\ IteratorFits(R, f.inode_nr, d)
  <2>1. CASE Lacks("table")
    <3>1. d = ReadAt2(f.dzi, f.inode.ind2) /\ f.inode.ind2 \in Zone
      BY <1>1, <1>3, <2>1 DEF Inode
    <3>2. TablesFit(R, zones) /\ StoreOK
      BY DEF Fits, Types
    <3>3. f.inode.ind2 # 0 => R[f.inode.ind2] = <<f.inode_nr, "ind2">>
      BY <1>4 DEF InodeFits
    <3>4. d \in Iterator
      BY <1>3, <3>1, <3>2, ReadAtParts
    <3> QED BY <1>3, <1>4, <3>1, <3>2, <3>3, <3>4, ReadAtFits
  <2>2. CASE ~ Lacks("table")
    BY <1>1, <1>3, <1>4, <2>2
  <2> QED BY <2>1, <2>2
<1>6. UNCHANGED <<zmap, zones>>
  <2>1. 0 \in Zone /\ 0 \notin Number
    BY Sizes DEF Zone, Number
  <2> QED BY <1>2, <2>1, Alloc DEF Types
<1> QED BY <1>1, <1>2, <1>5, <1>6, GoesOnFits

\* Arrive reads index zones of the file and finds a zone of data.
LEMMA ArriveFits ==
  ASSUME Types, Near, NEW R, Fits(R), Arrive
  PROVE  Fits(R)'
<1>1. PICK f, d : f = fp[cfd] /\ d = Arrived(f.dzi, f.inode)
  OBVIOUS
<1>2. /\ pc = "move" /\ UNCHANGED <<store, table, doing, cfd, new_zone, out, spoiled>>
      /\ fp' = [fp EXCEPT ![cfd].dzi = d]
  <2>1. fp' = [fp EXCEPT ![cfd].dzi = Arrived(@, f.inode)]
    BY <1>1 DEF Arrive
  <2>2. fp \in [Fd -> Descriptor]
    BY DEF Types
  <2> QED BY <1>1, <2>1, <2>2 DEF Arrive, Moving
<1>3. /\ f.dzi \in Iterator /\ f.inode \in Inode /\ f.inode_nr \in Files /\ FileFits(R, f)
      /\ f.used /\ Within(f.dzi) /\ Put(f.dzi) /\ f.dzi.num # 0
  BY <1>1, <1>2, Caller DEF Fits, Near
<1>4. InodeFits(R, f.inode_nr, f.inode) /\ IteratorFits(R, f.inode_nr, f.dzi)
  BY <1>3 DEF FileFits
<1>5. TablesFit(R, zones) /\ StoreOK
  BY DEF Fits, Types
<1>6. d \in Iterator /\ IteratorFits(R, f.inode_nr, d)
  BY <1>1, <1>3, <1>4, <1>5, ArrivedType, ArrivedFits
<1>7. UNCHANGED <<zmap, zones>>
  BY <1>2 DEF store
<1> QED BY <1>1, <1>2, <1>6, <1>7, GoesOnFits

\* my_write writes data to a zone of data.
LEMMA my_writeFits ==
  ASSUME Types, NEW R, Fits(R), NEW fd \in Fd, my_write(fd)
  PROVE  Fits(R)'
<1>1. PICK n, i : n = fp[fd].dzi.znum /\ i = fp[fd].inode_nr
  OBVIOUS
<1>5. UNCHANGED <<table, fp, new_zone, spoiled>>
  BY DEF my_write
<1>50. CASE n = 0
  <2>1. UNCHANGED <<zmap, zones>>
    BY <1>1, <1>50 DEF my_write, store
  <2> QED BY <1>5, <2>1 DEF Fits, FileFits, table
<1>51. CASE n # 0
  <2>2. fp[fd].dzi.num \in 0 .. Most /\ fp[fd].dzi.num # 0 /\ fp[fd].used
    BY <1>1, <1>51 DEF Types, Lengths, Within, my_write
  <2>3. PICK t \in Data[fp[fd].dzi.num] : ZMap!write_zone(n, t)
    BY <1>1, <1>51 DEF my_write
  <2>4. t \in Table
    BY <2>2, <2>3, DataType
  <2>6. n \in Number /\ R[n] = <<i, "data">>
    <3>1. fp[fd].dzi \in Iterator /\ FileFits(R, fp[fd])
      BY DEF Types, Fits, Descriptor
    <3> QED BY <1>1, <1>51, <2>2, <3>1, Sizes DEF FileFits, IteratorFits, Iterator, Zone, Number
  <2>7. UNCHANGED zmap /\ zones' = [zones EXCEPT ![n] = t]
    BY <2>3, <2>4, <2>6, WriteTypes DEF Types
  <2>8. zones \in [Number -> Table] /\ TablesFit(R, zones)
    BY DEF Types, StoreOK, Fits
  <2>9. TablesFit(R, zones')
    <3>1. \A j \in Files : /\ R[n] = <<j, "ind1">> => NamesData(R, j, t)
                           /\ R[n] = <<j, "ind2">> => NamesTables(R, j, t)
      BY <2>6
    <3> QED BY <2>4, <2>6, <2>7, <2>8, <3>1, WrittenFits
  <2> QED BY <1>5, <2>7, <2>9 DEF Fits, FileFits, table
<1> QED BY <1>50, <1>51

\* NoDataZone and WriteDone leave all zones to what they are for.
LEMMA WriteEndsFits ==
  ASSUME Types, NEW R, Fits(R), NoDataZone \/ WriteDone
  PROVE  Fits(R)'
<1>1. /\ pc = "write" /\ UNCHANGED <<zmap, zones, table>>
  BY WriteEnds
<1>2. PICK g \in Descriptor, p \in BOOLEAN :
        /\ fp' = [fp EXCEPT ![cfd] = g]
        /\ \/ g = [fp[cfd] EXCEPT !.past = p]
           \/ g = [fp[cfd] EXCEPT !.inode.blocks = fp[cfd].dzi.count]
  BY WriteEnds
<1>3. /\ cfd \in Fd /\ fp[cfd] \in Descriptor /\ Counting(fp[cfd]) /\ FileFits(R, fp[cfd])
  BY <1>1, Caller DEF Fits
<1>4. /\ g.used = fp[cfd].used /\ g.inode_nr = fp[cfd].inode_nr /\ g.dzi = fp[cfd].dzi
      /\ g.inode.direct = fp[cfd].inode.direct
      /\ g.inode.ind1 = fp[cfd].inode.ind1 /\ g.inode.ind2 = fp[cfd].inode.ind2
  BY <1>2, <1>3, OtherLength
<1>5. FileFits(R, g)
  BY <1>3, <1>4 DEF FileFits, InodeFits
<1>6. TablesFit(R, zones') /\ new_zone' = 0
  BY <1>1 DEF Fits, NoDataZone, WriteDone, Return
<1> QED BY <1>1, <1>2, <1>3, <1>5, <1>6, SameFits

\* WriteBlock finds the use of data for the zone in hand.
LEMMA WriteBlockFits ==
  ASSUME Types, Near, NEW R, Fits(R), WriteBlock
  PROVE  \E S : Fits(S)'
<1>1. PICK f, d, i, n, new, saved :
         /\ f = fp[cfd] /\ d = f.dzi /\ i = f.inode_nr /\ n = new_zone
         /\ new = Redirected(d, n)
         /\ saved = IF d.place = "direct" THEN zones
                    ELSE [zones EXCEPT ![d.znum1] = new.zbuf1]
  OBVIOUS
<1>2. /\ pc = "moved" /\ doing = "add"
      /\ UNCHANGED <<zmap, last_free_zone_num, table, doing, cfd, out, spoiled>>
  BY DEF WriteBlock
<1>3. /\ f \in Descriptor /\ f.used /\ f.inode \in Inode /\ Within(d) /\ Put(d)
      /\ d \in Iterator /\ cfd \in Fd /\ d.num # 0 /\ i \in Files /\ FileFits(R, f)
  BY <1>1, <1>2, Caller DEF Fits, Near
<1>4. /\ n \in Number /\ d.num \in 0 .. Most /\ n \in Zone /\ R[n] = Nobody
      /\ n - 1 \in zmap
  BY <1>1, <1>2, <1>3, Sizes DEF Types, CallOK, Within, Zone, Number, Fits
<1>5. CASE d.place # "direct" /\ d.znum1 = 0
  <2>1. pc' = "ruined" /\ UNCHANGED <<zones, fp, new_zone>>
    BY <1>1, <1>5 DEF WriteBlock
  <2> QED BY <1>2, <2>1 DEF Fits, FileFits, table
<1>6. CASE ~ (d.place # "direct" /\ d.znum1 = 0)
  <2>1. PICK b \in Data[d.num] : zones' = [saved EXCEPT ![n] = b]
    BY <1>1, <1>6 DEF WriteBlock
  <2>2. PICK dir : dir = IF d.place # "direct" THEN f.inode.direct
                         ELSE [f.inode.direct EXCEPT ![d.index + 1] = n]
    OBVIOUS
  <2>3. /\ new_zone' = 0
        /\ fp' = [fp EXCEPT
             ![cfd].dzi = [new EXCEPT !.count = @ + 1],
             ![cfd].inode.direct = IF d.place # "direct" THEN @
                                   ELSE [@ EXCEPT ![d.index + 1] = n]]
    BY <1>1, <1>6 DEF WriteBlock
  <2>4. /\ new \in Iterator /\ new.count = d.count
    BY <1>1, <1>3, <1>4, RedirectedType
  <2>5. PICK e, c : e = [new EXCEPT !.count = c] /\ c = new.count + 1
    OBVIOUS
  <2>6. /\ e \in Iterator /\ e.znum = new.znum /\ e.znum1 = new.znum1
        /\ e.znum2 = new.znum2 /\ e.zbuf1 = new.zbuf1 /\ e.zbuf2 = new.zbuf2
    <3>1. c \in Nat
      BY <2>4, <2>5 DEF Iterator
    <3> QED BY <2>4, <2>5, <3>1 DEF Iterator
  <2>7. PICK m : m = [f.inode EXCEPT !.direct = dir]
    OBVIOUS
  <2>8. m \in Inode /\ m.direct = dir /\ m.ind1 = f.inode.ind1 /\ m.ind2 = f.inode.ind2
    <3>1. dir \in [1 .. NR_DIRECT_ZONES -> Zone]
      BY <1>3, <1>4, <2>2 DEF Inode
    <3> QED BY <1>3, <2>7, <3>1 DEF Inode
  <2>9. PICK g : g = [f EXCEPT !.dzi = e, !.inode = m]
    OBVIOUS
  <2>10. /\ g \in Descriptor /\ g.used /\ g.inode_nr = i /\ g.inode = m /\ g.dzi = e
    BY <1>1, <1>3, <2>6, <2>8, <2>9 DEF Descriptor
  <2>11. fp' = [fp EXCEPT ![cfd] = g]
    <3>1. fp'[cfd] = [f EXCEPT !.dzi = e, !.inode = m]
      BY <1>1, <1>3, <2>2, <2>3, <2>5, <2>7 DEF Types, Descriptor, Inode
    <3> QED BY <1>3, <2>3, <2>9, <3>1 DEF Types
  <2>12. PICK S : S = [y \in Number |-> IF y = n THEN <<i, "data">> ELSE R[y]]
    OBVIOUS
  <2>13. S[n] = <<i, "data">> /\ \A y \in Number : y # n => S[y] = R[y]
    BY <1>4, <2>12
  <2>14. \A j \in Files :
            /\ \A p \in Inode : InodeFits(R, j, p) => InodeFits(S, j, p)
            /\ \A q \in Iterator : IteratorFits(R, j, q) => IteratorFits(S, j, q)
            /\ \A t \in Table : /\ NamesData(R, j, t) => NamesData(S, j, t)
                                /\ NamesTables(R, j, t) => NamesTables(S, j, t)
    BY <1>4, <2>13, MoreFits
  <2>15. /\ InodeFits(S, i, f.inode) /\ IteratorFits(S, i, d) /\ IteratorFits(R, i, d)
         /\ i \in files
    BY <1>1, <1>3, <2>14 DEF FileFits
  <2>16. InodeFits(S, i, m)
    <3>1. f.inode.direct \in [1 .. NR_DIRECT_ZONES -> Zone]
      BY <1>3 DEF Inode
    <3>2. \A k \in 1 .. NR_DIRECT_ZONES : dir[k] = n \/ dir[k] = f.inode.direct[k]
      BY <2>2, <3>1
    <3> QED BY <2>8, <2>13, <2>15, <3>2 DEF InodeFits
  <2>17. IteratorFits(S, i, new)
    <3>1. d.place = "direct" \/ d.index \in Word
      BY <1>3, PutWords
    <3> QED BY <1>1, <1>3, <1>4, <2>13, <2>15, <3>1, RedirectedFits
  <2>18. IteratorFits(S, i, e)
    BY <2>6, <2>17 DEF IteratorFits
  <2>19. FileFits(S, g)
    BY <2>10, <2>15, <2>16, <2>18 DEF FileFits
  <2>20. zones \in [Number -> Table] /\ TablesFit(S, zones)
    <3>1. zones \in [Number -> Table] /\ TablesFit(R, zones)
      BY DEF Types, StoreOK, Fits
    <3>2. \A z \in Number, j \in Files : z # n =>
             /\ S[z] = <<j, "ind1">> => NamesData(S, j, zones[z])
             /\ S[z] = <<j, "ind2">> => NamesTables(S, j, zones[z])
      BY <2>13, <2>14, <3>1 DEF TablesFit
    <3>3. \A j \in Files : S[n] # <<j, "ind1">> /\ S[n] # <<j, "ind2">>
      BY <2>13
    <3> QED BY <3>1, <3>2, <3>3 DEF TablesFit
  <2>21. saved \in [Number -> Table] /\ TablesFit(S, saved)
    <3>1. CASE d.place = "direct"
      BY <1>1, <2>20, <3>1
    <3>2. CASE d.place # "direct"
      <4>1. d.znum1 \in Number /\ new.zbuf1 \in Table
        BY <1>3, <1>6, <2>4, <3>2, Sizes DEF Iterator, Zone, Number
      <4>2. saved = [zones EXCEPT ![d.znum1] = new.zbuf1]
        BY <1>1, <3>2
      <4>3. S[d.znum1] = <<i, "ind1">> /\ NamesData(S, i, new.zbuf1)
        BY <1>6, <2>15, <2>17, <3>2 DEF IteratorFits
      <4>4. \A j \in Files : /\ S[d.znum1] = <<j, "ind1">> => NamesData(S, j, new.zbuf1)
                             /\ S[d.znum1] = <<j, "ind2">> => NamesTables(S, j, new.zbuf1)
        BY <4>3
      <4>5. saved \in [Number -> Table]
        BY <2>20, <4>1, <4>2
      <4> QED BY <2>20, <4>1, <4>2, <4>4, <4>5, WrittenFits
    <3> QED BY <3>1, <3>2
  <2>22. TablesFit(S, zones')
    <3>1. b \in Table
      BY <1>3, <1>4, <2>1, DataType
    <3>2. \A j \in Files : /\ S[n] = <<j, "ind1">> => NamesData(S, j, b)
                           /\ S[n] = <<j, "ind2">> => NamesTables(S, j, b)
      BY <2>13
    <3> QED BY <1>4, <2>1, <2>21, <3>1, <3>2, WrittenFits
  <2>23. \A y \in Number : S[y] # Nobody => y - 1 \in zmap'
    BY <1>2, <1>4, <2>13 DEF Fits
  <2>24. new_zone' = 0 /\ UNCHANGED table
    BY <1>2, <2>3
  <2>25. Fits(S)'
    BY <1>3, <2>10, <2>11, <2>14, <2>19, <2>22, <2>23, <2>24, DescriptorFits
  <2> QED BY <2>25
<1> QED BY <1>5, <1>6

\* One descriptor is replaced.
LEMMA OneNear ==
  ASSUME Types, Near, NEW fd \in Fd, NEW g, fp' = [fp EXCEPT ![fd] = g], UNCHANGED table,
         Put(g.dzi), g.used => g.dzi.count < ShortMost
  PROVE  Near'
<1>1. \A c \in Fd : fp'[c] = IF c = fd THEN g ELSE fp[c]
  BY DEF Types
<1> QED BY <1>1 DEF Near, table

\* An iterator is in its place for what it is at.
LEMMA SamePut ==
  ASSUME NEW d, NEW e, Put(d),
         e.num = d.num, e.place = d.place, e.index = d.index, e.index2 = d.index2
  PROVE  Put(e)
BY DEF Put

\* my_open and my_close keep what Near says.
LEMMA OpenCloseNear ==
  ASSUME Types, Near, NEW i \in Files, NEW c \in Fd, my_open(i) \/ my_close(c)
  PROVE  Near'
<1>1. CASE my_open(i)
  <2>1. PICK m : m = itab[i]
    OBVIOUS
  <2>2. m \in Inode /\ m.blocks < ShortMost
    BY <2>1 DEF Types, TableOK, Near
  <2>3. PICK fd, g : /\ fd \in Fd /\ fp' = [fp EXCEPT ![fd] = g]
                     /\ g = [used |-> TRUE, inode_nr |-> i, inode |-> m, past |-> FALSE,
                             dzi |-> IF m.blocks = 0 THEN MakeIterator(m)
                                     ELSE Arrived(Placed(MakeIterator(m), 1), m)]
    BY <1>1, <2>1 DEF my_open
  <2>4. PICK start, first, there : /\ start = MakeIterator(m) /\ first = Placed(start, 1)
                                   /\ there = Arrived(first, m)
    OBVIOUS
  <2>5. start \in Iterator /\ start.num = 0 /\ Put(start) /\ start.count = m.blocks
    BY <2>2, <2>4, MakeIteratorType DEF MakeIterator, Put
  <2>6. 1 \in 1 .. Most /\ 1 < ShortMost
    BY Sizes DEF Most, ShortMost
  <2>7. first \in Iterator /\ Within(first) /\ Put(first) /\ first.count = start.count
    BY <2>4, <2>5, <2>6, PlacedParts, PlacedWithin, PlacedPut
  <2>8. there.num = first.num /\ there.place = first.place /\ there.index = first.index
        /\ there.index2 = first.index2 /\ there.count = first.count
    BY <2>2, <2>4, <2>7, ArrivedType DEF Types
  <2>9. Put(there)
    BY <2>7, <2>8, SamePut
  <2>10. Put(g.dzi) /\ g.dzi.count < ShortMost
    BY <2>2, <2>3, <2>4, <2>5, <2>7, <2>8, <2>9
  <2>11. UNCHANGED table
    BY <1>1 DEF my_open
  <2> QED BY <2>3, <2>10, <2>11, OneNear
<1>2. CASE my_close(c)
  <2>1. itab' = [itab EXCEPT ![fp[c].inode_nr] = fp[c].inode] /\ fp' = [fp EXCEPT ![c] = Unused]
        /\ fp[c].used
    BY <1>2 DEF my_close
  <2>2. Put(Unused.dzi) /\ ~ Unused.used
    BY DEF Unused, MakeIterator, Put
  <2>3. /\ fp[c].inode.blocks \in Nat /\ fp[c].dzi.count \in Nat
        /\ fp[c].inode.blocks <= fp[c].dzi.count /\ fp[c].dzi.count < ShortMost
        /\ ShortMost \in Nat
    BY <2>1, Sizes DEF Near, Types, Lengths, Counting, Descriptor, Inode, Iterator, ShortMost
  <2>4. fp[c].inode.blocks < ShortMost
    BY <2>3
  <2> QED BY <2>1, <2>2, <2>4 DEF Near, Types, TableOK
<1> QED BY <1>1, <1>2

\* A my_write goes on to another block.
Adding == \E z \in Number : AddBlock(z)
Reading == \E fd \in Fd : ReadOn(fd)

\* ReadOn goes on within the file, AddBlock by one block.
LEMMA SendNear ==
  ASSUME AllHabits, Types, Near, Reading \/ Adding
  PROVE  Near'
<1>0. PICK fd \in Fd : ReadOn(fd) \/ (Adding /\ fd = cfd)
  <2>1. cfd \in Fd
    BY DEF Types, CallOK
  <2>2. CASE Reading
    BY <2>2 DEF Reading
  <2>3. CASE Adding
    BY <2>1, <2>3
  <2> QED BY <2>2, <2>3
<1>1. PICK f : f = fp[fd]
  OBVIOUS
<1>2. PICK k, g : /\ g = [f EXCEPT !.dzi = Placed(@, k)]
                  /\ \/ ReadOn(fd) /\ k = f.dzi.num + 1
                     \/ Adding /\ fd = cfd /\ k = f.dzi.count + 1
  BY <1>0
<1>3. f \in Descriptor /\ f.used /\ Counting(f) /\ f.dzi.count < ShortMost
  BY <1>0, <1>1, Caller DEF Types, Lengths, ReadOn, Adding, AddBlock, Writing, Near
<1>4. fp' = [fp EXCEPT ![fd] = g] /\ UNCHANGED table
  BY <1>1, <1>2 DEF ReadOn, Adding, AddBlock, Types
<1>5. k \in 1 .. Most /\ k < ShortMost
  <2>1. /\ f.dzi.num \in Nat /\ f.inode.blocks \in Nat /\ f.dzi.count \in Nat
        /\ f.inode.blocks <= f.dzi.count
        /\ f.dzi.count <= MaxBlocks[f.inode_nr] /\ f.inode_nr \in Files
    BY <1>3 DEF Descriptor, Iterator, Inode, Counting
  <2>2. MaxBlocks[f.inode_nr] \in 0 .. Most /\ Most \in Nat /\ ShortMost \in Nat
    <3>1. ShortMost \in Nat
      BY Sizes DEF ShortMost
    <3> QED BY <2>1, <3>1, Bounds
  <2>3. CASE ReadOn(fd) /\ k = f.dzi.num + 1
    <3>1. f.dzi.num < f.inode.blocks
      BY <1>1, <2>3 DEF ReadOn
    <3> QED BY <1>3, <2>1, <2>2, <2>3, <3>1
  <2>4. CASE Adding /\ fd = cfd /\ k = f.dzi.count + 1
    <3>1. f.dzi.count < MaxBlocks[f.inode_nr] /\ k < ShortMost
      BY <1>1, <2>4 DEF Adding, AddBlock, Writing, Room, Short, AllHabits, ShortMost
    <3> QED BY <2>1, <2>2, <2>4, <3>1
  <2> QED BY <1>2, <2>3, <2>4
<1>60. g.dzi = Placed(f.dzi, k) /\ f.dzi \in Iterator
  BY <1>2, <1>3, <1>5, SentParts DEF Descriptor
<1>6. g.dzi = Placed(f.dzi, k) /\ g.dzi.count = f.dzi.count /\ f.dzi \in Iterator
  BY <1>5, <1>60, PlacedParts
<1>7. Put(g.dzi)
  BY <1>5, <1>6, PlacedPut
<1> QED BY <1>3, <1>4, <1>6, <1>7, OneNear

\* In the middle of a call the iterator stays in its place, and an inode gets
\* no more blocks than it has been sent to.
LEMMA CallNear ==
  ASSUME Types, Near,
         \/ \E z \in Number : BuildInd1(z) \/ BuildInd2(z) \/ BuildTable(z)
         \/ NoIndexZone \/ Arrive
  PROVE  Near'
<1>1. PICK f : f = fp[cfd]
  OBVIOUS
<1>2. pc = "move"
  BY DEF BuildInd1, BuildInd2, BuildTable, NoIndexZone, Arrive, Moving
<1>3. /\ f \in Descriptor /\ f.used /\ f.inode \in Inode /\ Within(f.dzi) /\ Put(f.dzi)
      /\ f.dzi \in Iterator /\ cfd \in Fd /\ f.dzi.count < ShortMost
  BY <1>1, <1>2, Caller DEF Near
<1>4. f.inode.ind1 \in Zone /\ f.inode.ind2 \in Zone
  BY <1>3 DEF Inode
<1>5. UNCHANGED table
  BY DEF BuildInd1, BuildInd2, BuildTable, NoIndexZone, Arrive
<1>6. ASSUME NEW d, d.num = f.dzi.num, d.place = f.dzi.place, d.index = f.dzi.index,
             d.index2 = f.dzi.index2, d.count = f.dzi.count, fp' = [fp EXCEPT ![cfd].dzi = d]
      PROVE  Near'
  <2>1. PICK g : g = [f EXCEPT !.dzi = d]
    OBVIOUS
  <2>2. g.dzi = d
    BY <1>3, <2>1 DEF Descriptor
  <2>3. fp' = [fp EXCEPT ![cfd] = g]
    BY <1>1, <1>3, <1>6, <2>1 DEF Types
  <2>4. Put(g.dzi)
    BY <1>3, <1>6, <2>2, SamePut
  <2>5. g.dzi.count < ShortMost
    BY <1>3, <1>6, <2>2
  <2> QED BY <1>3, <1>5, <2>3, <2>4, <2>5, OneNear
<1>7. PICK d2 : d2 = ReadAt2(f.dzi, f.inode.ind2)
  OBVIOUS
<1>8. /\ d2 \in Iterator /\ d2.num = f.dzi.num /\ d2.place = f.dzi.place /\ d2.index = f.dzi.index
      /\ d2.index2 = f.dzi.index2 /\ d2.count = f.dzi.count
  BY <1>3, <1>4, <1>7, ReadAtParts DEF Types
<1>9. ASSUME NEW z \in Number, BuildInd1(z) \/ BuildInd2(z) PROVE Near'
  <2>1. PICK g : \/ g = [f EXCEPT !.inode.ind1 = z] /\ BuildInd1(z)
                 \/ g = [f EXCEPT !.inode.ind2 = z] /\ BuildInd2(z)
    BY <1>9
  <2>2. g.dzi = f.dzi
    BY <1>3, <2>1 DEF Descriptor, Inode
  <2>3. fp' = [fp EXCEPT ![cfd] = g]
    BY <1>1, <1>3, <2>1 DEF Types, BuildInd1, BuildInd2
  <2> QED BY <1>3, <1>5, <2>2, <2>3, OneNear
<1>10. ASSUME NEW z \in Number, BuildTable(z) PROVE Near'
  <2>1. PICK e : e = [d2 EXCEPT !.zbuf2[d2.index2] = z]
    OBVIOUS
  <2>2. e.num = d2.num /\ e.place = d2.place /\ e.index = d2.index /\ e.index2 = d2.index2
        /\ e.count = d2.count
    BY <1>8, <2>1 DEF Iterator
  <2>3. fp' = [fp EXCEPT ![cfd].dzi = e]
    BY <1>1, <1>7, <1>10, <2>1 DEF BuildTable
  <2> QED BY <1>6, <1>8, <2>2, <2>3
<1>11. CASE NoIndexZone
  <2>1. PICK e : e = IF Lacks("table") THEN d2 ELSE f.dzi
    OBVIOUS
  <2>2. fp' = [fp EXCEPT ![cfd].dzi = e]
    BY <1>1, <1>3, <1>7, <1>11, <2>1 DEF NoIndexZone, Types
  <2> QED BY <1>6, <1>8, <2>1, <2>2
<1>12. CASE Arrive
  <2>1. PICK e : e = Arrived(f.dzi, f.inode)
    OBVIOUS
  <2>2. e.num = f.dzi.num /\ e.place = f.dzi.place /\ e.index = f.dzi.index
        /\ e.index2 = f.dzi.index2 /\ e.count = f.dzi.count
    BY <1>3, <2>1, ArrivedType DEF Types
  <2>3. fp' = [fp EXCEPT ![cfd].dzi = e]
    BY <1>1, <1>3, <1>12, <2>1 DEF Arrive, Types
  <2> QED BY <1>6, <2>2, <2>3
<1> QED BY <1>9, <1>10, <1>11, <1>12

\* A block is added where the iterator has been sent.
LEMMA WriteBlockNear ==
  ASSUME Types, Near, WriteBlock
  PROVE  Near'
<1>1. PICK f, d, new : f = fp[cfd] /\ d = f.dzi /\ new = Redirected(d, new_zone)
  OBVIOUS
<1>2. /\ pc = "moved" /\ doing = "add" /\ UNCHANGED table
  BY DEF WriteBlock
<1>3. /\ f \in Descriptor /\ f.used /\ f.inode \in Inode /\ Within(d) /\ Put(d)
      /\ d \in Iterator /\ cfd \in Fd /\ d.num # 0 /\ d.num = d.count + 1
  BY <1>1, <1>2, Caller DEF Near, Types, Lengths
<1>4. new_zone \in Zone
  BY DEF Types, CallOK
<1>5. CASE d.place # "direct" /\ d.znum1 = 0
  <2>1. UNCHANGED fp
    BY <1>1, <1>5 DEF WriteBlock
  <2> QED BY <1>2, <2>1 DEF Near, table
<1>6. CASE ~ (d.place # "direct" /\ d.znum1 = 0)
  <2>1. fp' = [fp EXCEPT
             ![cfd].dzi = [new EXCEPT !.count = @ + 1],
             ![cfd].inode.direct = IF d.place # "direct" THEN @
                                   ELSE [@ EXCEPT ![d.index + 1] = new_zone]]
    BY <1>1, <1>6 DEF WriteBlock
  <2>2. PICK e, m : /\ e = [new EXCEPT !.count = @ + 1]
                    /\ m = [f.inode EXCEPT !.direct = IF d.place # "direct" THEN @
                                                ELSE [@ EXCEPT ![d.index + 1] = new_zone]]
    OBVIOUS
  <2>3. PICK g : g = [f EXCEPT !.dzi = e, !.inode = m]
    OBVIOUS
  <2>4. g.dzi = e /\ g.inode = m /\ g.used = f.used
    BY <1>3, <2>2, <2>3 DEF Descriptor, Inode
  <2>5. fp' = [fp EXCEPT ![cfd] = g]
    <3>1. fp'[cfd] = [f EXCEPT !.dzi = e, !.inode = m]
      BY <1>1, <1>3, <2>1, <2>2 DEF Types, Descriptor, Inode
    <3> QED BY <1>3, <2>1, <2>3, <3>1 DEF Types
  <2>6. /\ new \in Iterator /\ new.count = d.count /\ new.num = d.num /\ new.place = d.place /\ new.index = d.index
        /\ new.index2 = d.index2
    <3>1. new.index2 = d.index2
      BY <1>1, <1>3 DEF Redirected, Iterator
    <3> QED BY <1>1, <1>3, <1>4, <3>1, RedirectedType
  <2>7. e.num = d.num /\ e.place = d.place /\ e.index = d.index /\ e.index2 = d.index2
        /\ e.count = d.count + 1
    BY <2>2, <2>6 DEF Iterator
  <2>8. Put(g.dzi)
    BY <1>3, <2>4, <2>7, SamePut
  <2>9. g.dzi.count < ShortMost
    BY <1>3, <2>4, <2>7 DEF Put
  <2> QED BY <1>2, <1>3, <2>5, <2>8, <2>9, OneNear
<1> QED BY <1>5, <1>6

\* The ways out of my_write leave the iterator in its place.
LEMMA WriteEndsNear ==
  ASSUME Types, Near, NoDataZone \/ WriteDone
  PROVE  Near'
<1>1. /\ pc = "write" /\ UNCHANGED table
  BY WriteEnds
<1>2. PICK g \in Descriptor, p \in BOOLEAN :
        /\ fp' = [fp EXCEPT ![cfd] = g]
        /\ \/ g = [fp[cfd] EXCEPT !.past = p]
           \/ g = [fp[cfd] EXCEPT !.inode.blocks = fp[cfd].dzi.count]
  BY WriteEnds
<1>3. /\ cfd \in Fd /\ fp[cfd] \in Descriptor /\ Counting(fp[cfd]) /\ Put(fp[cfd].dzi)
      /\ fp[cfd].dzi.count < ShortMost
  BY <1>1, Caller DEF Near
<1>4. g.dzi = fp[cfd].dzi
  BY <1>2, <1>3, OtherLength
<1> QED BY <1>1, <1>2, <1>3, <1>4, OneNear

\* Every step keeps what Near says.
LEMMA NextNear == AllHabits /\ Types /\ Near /\ [Next]_vars => Near'
<1> SUFFICES ASSUME AllHabits, Types, Near, [Next]_vars PROVE Near'
  OBVIOUS
<1>1. CASE UNCHANGED vars
  BY <1>1 DEF vars, table, Near
<1>2. ASSUME NEW i \in Files, my_creat(i) \/ my_open(i) \/ my_remove(i) PROVE Near'
  <2>1. CASE my_creat(i)
    <3>1. itab' = [itab EXCEPT ![i] = Fresh] /\ UNCHANGED fp
      BY <2>1 DEF my_creat
    <3>2. Fresh.blocks < ShortMost
      BY Sizes DEF Fresh, ShortMost
    <3> QED BY <3>1, <3>2 DEF Near, Types, TableOK
  <2>2. CASE my_open(i)
    <3>1. 0 \in Fd
      BY Sizes DEF Fd
    <3> QED BY <2>2, <3>1, OpenCloseNear
  <2>3. CASE my_remove(i)
    BY <2>3 DEF my_remove, Near
  <2> QED BY <1>2, <2>1, <2>2, <2>3
<1>3. ASSUME NEW fd \in Fd, my_close(fd) \/ ReadOn(fd) \/ my_write(fd) PROVE Near'
  <2>1. CASE my_close(fd)
    <3>1. PICK i \in Files : TRUE
      BY <2>1 DEF my_close, Types, Lengths, Counting
    <3> QED BY <2>1, OpenCloseNear
  <2>2. CASE ReadOn(fd)
    BY <2>2, SendNear DEF Reading
  <2>3. CASE my_write(fd)
    BY <2>3 DEF my_write, table, Near
  <2> QED BY <1>3, <2>1, <2>2, <2>3
<1>4. ASSUME NEW z \in Number, AddBlock(z) PROVE Near'
  BY <1>4, SendNear DEF Adding
<1>5. ASSUME NEW z \in Number, BuildInd1(z) \/ BuildInd2(z) \/ BuildTable(z) PROVE Near'
  BY <1>5, CallNear
<1>6. CASE NoIndexZone \/ Arrive
  BY <1>6, CallNear
<1>7. CASE SaveTable \/ ReadBlock
  BY <1>7 DEF SaveTable, ReadBlock, table, Near
<1>8. CASE WriteBlock
  BY <1>8, WriteBlockNear
<1>9. CASE NoDataZone \/ WriteDone
  BY <1>9, WriteEndsNear
<1> QED BY <1>1, <1>2, <1>3, <1>4, <1>5, <1>6, <1>7, <1>8, <1>9 DEF Next

\* A file has no other descriptor while it grows.
LEMMA NextAlone == AllHabits /\ Types /\ Alone /\ [Next]_vars => Alone'
<1> SUFFICES ASSUME AllHabits, Types, Alone, [Next]_vars, doing' = "add" PROVE Alone'
  BY DEF Alone
<1>1. CASE doing = "add"
  <2>1. pc # "idle" /\ cfd \in Fd
    BY <1>1 DEF Types, CallOK
  <2>2. /\ cfd' = cfd
        /\ \/ UNCHANGED fp
           \/ /\ \A c \in Fd \ {cfd} : fp'[c] = fp[c]
              /\ fp'[cfd].inode_nr = fp[cfd].inode_nr
    <3>1. fp \in [Fd -> Descriptor] /\ fp[cfd] \in Descriptor
      BY <2>1 DEF Types
    <3>2. CASE UNCHANGED vars
      BY <3>2 DEF vars, call
    <3>3. CASE \E z \in Number : BuildInd1(z) \/ BuildInd2(z)
      BY <3>1, <3>3 DEF BuildInd1, BuildInd2, call, Descriptor
    <3>4. CASE \E z \in Number : BuildTable(z)
      BY <3>1, <3>4 DEF BuildTable, Descriptor
    <3>5. CASE SaveTable
      BY <3>5 DEF SaveTable
    <3>6. CASE NoIndexZone
      BY <3>1, <3>6 DEF NoIndexZone, Descriptor
    <3>7. CASE Arrive
      BY <3>1, <3>7 DEF Arrive, Descriptor
    <3>8. CASE ReadBlock \/ WriteBlock
      BY <3>1, <3>8 DEF ReadBlock, WriteBlock, Return, Descriptor
    <3>9. CASE \E z \in Number : AddBlock(z)
      BY <3>1, <3>9 DEF AddBlock, Descriptor
    <3>10. CASE NoDataZone \/ WriteDone
      BY <3>10 DEF NoDataZone, WriteDone, Return
    <3> QED BY <2>1, <3>2, <3>3, <3>4, <3>5, <3>6, <3>7, <3>8, <3>9, <3>10
            DEF Next, my_creat, my_open, my_remove, my_close, ReadOn, my_write
  <2> QED BY <1>1, <2>1, <2>2 DEF Alone
<1>2. CASE doing # "add"
  <2>1. PICK fd \in Fd : my_write(fd)
    <3>1. pc # "write"
      BY <1>2 DEF Types, Lengths
    <3> QED BY <1>2, <3>1 DEF Next, vars, call, my_creat, my_open, my_remove, my_close, ReadOn,
       AddBlock, Writing, BuildInd1, BuildInd2, BuildTable, SaveTable, NoIndexZone, Arrive,
       ReadBlock, WriteBlock, NoDataZone, WriteDone, Return
  <2>2. UNCHANGED fp /\ cfd' = fd
    BY <2>1 DEF my_write
  <2>3. Sharing(fp[fd].inode_nr) = {fd}
    BY <2>1 DEF my_write, WriteHabits, AllHabits
  <2> QED BY <2>2, <2>3 DEF Alone, Sharing
<1> QED BY <1>1, <1>2

\* Every step leaves each zone to one file.
LEMMA NextFits ==
  ASSUME AllHabits, Types, Near, NEW R, Fits(R), [Next]_vars
  PROVE  \E S : Fits(S)'
<1>1. CASE UNCHANGED vars
  BY <1>1 DEF vars, store, table, call, Fits, FileFits
<1>2. ASSUME NEW i \in Files, my_creat(i) \/ my_open(i) \/ my_remove(i) PROVE \E S : Fits(S)'
  BY <1>2, my_creatFits, my_openFits, my_removeFits
<1>3. ASSUME NEW fd \in Fd, my_close(fd) \/ ReadOn(fd) \/ my_write(fd) PROVE \E S : Fits(S)'
  BY <1>3, my_closeFits, ReadOnFits, my_writeFits
<1>4. ASSUME NEW z \in Number, AddBlock(z) PROVE \E S : Fits(S)'
  BY <1>4, AddBlockFits
<1>5. ASSUME NEW z \in Number, BuildInd1(z) \/ BuildInd2(z) \/ BuildTable(z)
      PROVE  \E S : Fits(S)'
  BY <1>5, BuildIndFits, BuildTableFits
<1>6. CASE SaveTable \/ NoIndexZone \/ Arrive \/ WriteBlock
  BY <1>6, SaveTableFits, NoIndexZoneFits, ArriveFits, WriteBlockFits
<1>7. CASE ReadBlock
  BY <1>7 DEF ReadBlock, Return, store, table, Fits, FileFits
<1>8. CASE NoDataZone \/ WriteDone
  BY <1>8, WriteEndsFits
<1> QED BY <1>1, <1>2, <1>3, <1>4, <1>5, <1>6, <1>7, <1>8 DEF Next

-----------------------------------------------------------------------------
(* How far the index zones of a file go *)

\* The zone of block k of a file short enough, when zs is in the zones.
ZoneIn(zs, m, k) ==
  LET word(n, w) == IF n = 0 THEN 0 ELSE zs[n][w]
  IN  IF k <= NR_DIRECT_ZONES THEN m.direct[k]
      ELSE IF k <= NR_DIRECT_ZONES + NR_IND1_ZONES THEN word(m.ind1, k - NR_DIRECT_ZONES - 1)
      ELSE word(word(m.ind2, 0), k - NR_DIRECT_ZONES - NR_IND1_ZONES - 1)

\* The first n words of an index zone name zones.
Full(t, n) == \A w \in Word : t[w] # 0 <=> w < n

\* An inode of n blocks, with index zones for no block beyond p.
DirectShape(m, n) == \A k \in 1 .. NR_DIRECT_ZONES : m.direct[k] # 0 <=> k <= n
Ind1Shape(zs, m, n, p) ==
  /\ n > NR_DIRECT_ZONES => m.ind1 # 0
  /\ m.ind1 # 0 => p > NR_DIRECT_ZONES /\ Full(zs[m.ind1], n - NR_DIRECT_ZONES)
Ind2Shape(zs, m, n, p) ==
  /\ n > NR_DIRECT_ZONES + NR_IND1_ZONES => m.ind2 # 0 /\ zs[m.ind2][0] # 0
  /\ m.ind2 # 0 =>
       /\ p > NR_DIRECT_ZONES + NR_IND1_ZONES
       /\ \A w \in Word : w # 0 => zs[m.ind2][w] = 0
       /\ zs[m.ind2][0] # 0 => Full(zs[zs[m.ind2][0]], n - NR_DIRECT_ZONES - NR_IND1_ZONES)
Shape(zs, m, n, p) == DirectShape(m, n) /\ Ind1Shape(zs, m, n, p) /\ Ind2Shape(zs, m, n, p)

\* Copies of index zones agree with them.
Copy1(zs, d) == d.znum1 # 0 => d.zbuf1 = zs[d.znum1]
Copy2(zs, d) == d.znum2 # 0 => d.zbuf2 = zs[d.znum2]

\* The iterator is on the zone of its block.
On(zs, m, d) == d.num # 0 => d.znum = ZoneIn(zs, m, d.num)

\* The iterator has a copy of the index zone that names its block.
At(zs, m, d) ==
  /\ d.place = "ind1" => m.ind1 # 0 /\ d.znum1 = m.ind1
  /\ d.place = "ind2" => m.ind2 # 0 /\ zs[m.ind2][0] # 0 /\ d.znum1 = zs[m.ind2][0]

\* A new table is entered into the copy of ind2 and not yet into ind2.
Saving(zs, m, d) ==
  LET z == d.zbuf2[0]
  IN  /\ d.place = "ind2" /\ d.znum2 = m.ind2 /\ m.ind2 # 0
      /\ z # 0 /\ zs[m.ind2][0] = 0 /\ zs[z] = EmptyTable
      /\ d.zbuf2 = [zs[m.ind2] EXCEPT ![0] = z]

\* The index zones of a file are the same in zs and zt.
Kept(R, i, zs, zt) ==
  \A z \in Number : R[z] = <<i, "ind1">> \/ R[z] = <<i, "ind2">> => zt[z] = zs[z]

\* The zone of a block, in each of the ranges.
LEMMA ZoneOfParts ==
  ASSUME NEW m, NEW k \in Nat \ {0}, k < ShortMost
  PROVE  ZoneOf(m, k) = ZoneIn(zones, m, k) /\ ZoneOf(m, k)' = ZoneIn(zones', m, k)
<1>1. PICK k1, k2 : k1 = k - NR_DIRECT_ZONES - 1 /\ k2 = k1 - NR_IND1_ZONES
  OBVIOUS
<1>2. NR_DIRECT_ZONES \in Nat \ {0} /\ U32_PER_BLOCK \in Nat \ {0} /\ NR_IND1_ZONES = U32_PER_BLOCK
  BY Sizes
<1>3. k1 \in Int /\ k2 \in Int /\ k2 < U32_PER_BLOCK
  BY <1>1, <1>2 DEF ShortMost
<1>4. k2 >= 0 => k2 \div U32_PER_BLOCK = 0 /\ k2 % U32_PER_BLOCK = k2
  BY <1>2, <1>3, NoGroup
<1>5. /\ ZoneOf(m, k) =
           IF k1 < 0 THEN m.direct[k]
           ELSE IF k2 < 0 THEN IF m.ind1 = 0 THEN 0 ELSE zones[m.ind1][k1]
           ELSE LET t == IF m.ind2 = 0 THEN 0 ELSE zones[m.ind2][k2 \div U32_PER_BLOCK]
                IN  IF t = 0 THEN 0 ELSE zones[t][k2 % U32_PER_BLOCK]
      /\ ZoneOf(m, k)' =
           IF k1 < 0 THEN m.direct[k]
           ELSE IF k2 < 0 THEN IF m.ind1 = 0 THEN 0 ELSE zones'[m.ind1][k1]
           ELSE LET t == IF m.ind2 = 0 THEN 0 ELSE zones'[m.ind2][k2 \div U32_PER_BLOCK]
                IN  IF t = 0 THEN 0 ELSE zones'[t][k2 % U32_PER_BLOCK]
  BY <1>1 DEF ZoneOf
<1>6. CASE k <= NR_DIRECT_ZONES
  BY <1>1, <1>2, <1>5, <1>6 DEF ZoneIn
<1>7. CASE k > NR_DIRECT_ZONES /\ k <= NR_DIRECT_ZONES + NR_IND1_ZONES
  BY <1>1, <1>2, <1>5, <1>7 DEF ZoneIn
<1>8. CASE k > NR_DIRECT_ZONES + NR_IND1_ZONES
  <2>1. ~ (k1 < 0) /\ ~ (k2 < 0) /\ k2 >= 0
    BY <1>1, <1>2, <1>8
  <2>2. /\ ZoneOf(m, k) = LET t == IF m.ind2 = 0 THEN 0 ELSE zones[m.ind2][0]
                          IN  IF t = 0 THEN 0 ELSE zones[t][k2]
        /\ ZoneOf(m, k)' = LET t == IF m.ind2 = 0 THEN 0 ELSE zones'[m.ind2][0]
                           IN  IF t = 0 THEN 0 ELSE zones'[t][k2]
    BY <1>4, <1>5, <2>1
  <2>3. /\ k2 = k - NR_DIRECT_ZONES - NR_IND1_ZONES - 1
        /\ ~ (k <= NR_DIRECT_ZONES) /\ ~ (k <= NR_DIRECT_ZONES + NR_IND1_ZONES)
    BY <1>1, <1>2, <1>8
  <2> QED BY <2>2, <2>3 DEF ZoneIn
<1> QED BY <1>2, <1>6, <1>7, <1>8

\* The index zones of an inode, and the one word 0 of ind2 names, are the file's.
IndexZones(R, zs, i, m) ==
  /\ 0 \in Word
  /\ m.ind1 # 0 => m.ind1 \in Number /\ R[m.ind1] = <<i, "ind1">>
  /\ m.ind2 # 0 => /\ m.ind2 \in Number /\ R[m.ind2] = <<i, "ind2">>
                   /\ zs[m.ind2] \in Table /\ zs[m.ind2][0] \in Zone
                   /\ zs[m.ind2][0] # 0 => /\ zs[m.ind2][0] \in Number
                                           /\ R[zs[m.ind2][0]] = <<i, "ind1">>

LEMMA FirstTable ==
  ASSUME NEW zs \in [Number -> Table], NEW R, TablesFit(R, zs), NEW i \in Files,
         NEW m \in Inode, InodeFits(R, i, m)
  PROVE  IndexZones(R, zs, i, m)
<1>1. 0 \in Word
  BY Sizes DEF Word
<1>2. \A n \in Zone : n # 0 => n \in Number
  BY Sizes DEF Zone, Number
<1>3. m.ind1 # 0 => m.ind1 \in Number /\ R[m.ind1] = <<i, "ind1">>
  BY <1>2 DEF Inode, InodeFits
<1>4. m.ind2 # 0 => m.ind2 \in Number /\ R[m.ind2] = <<i, "ind2">>
  BY <1>2 DEF Inode, InodeFits
<1>5. ASSUME m.ind2 # 0
      PROVE  /\ zs[m.ind2] \in Table /\ zs[m.ind2][0] \in Zone
             /\ zs[m.ind2][0] # 0 => R[zs[m.ind2][0]] = <<i, "ind1">>
  <2>1. zs[m.ind2] \in Table
    BY <1>4, <1>5
  <2>2. NamesTables(R, i, zs[m.ind2])
    BY <1>4, <1>5 DEF TablesFit
  <2> QED BY <1>1, <2>1, <2>2, WordType DEF NamesTables
<1> QED BY <1>1, <1>2, <1>3, <1>4, <1>5 DEF IndexZones

\* What is found by way of index zones that are the same is the same.
LEMMA KeptShape ==
  ASSUME NEW zs \in [Number -> Table], NEW zt \in [Number -> Table],
         NEW R, TablesFit(R, zs), NEW i \in Files, NEW m \in Inode,
         InodeFits(R, i, m), Kept(R, i, zs, zt)
  PROVE  /\ \A n, p : Shape(zs, m, n, p) => Shape(zt, m, n, p)
         /\ \A k : ZoneIn(zt, m, k) = ZoneIn(zs, m, k)
         /\ \A d : At(zs, m, d) => At(zt, m, d)
<1>0. IndexZones(R, zs, i, m)
  BY FirstTable
<1>1. m.ind1 # 0 => zt[m.ind1] = zs[m.ind1]
  BY <1>0 DEF Kept, IndexZones
<1>2. m.ind2 # 0 => /\ zt[m.ind2] = zs[m.ind2]
                    /\ zs[m.ind2][0] # 0 => zt[zs[m.ind2][0]] = zs[zs[m.ind2][0]]
  BY <1>0 DEF Kept, IndexZones
<1>3. \A n, p : Shape(zs, m, n, p) => Shape(zt, m, n, p)
  BY <1>1, <1>2 DEF Shape, Ind1Shape, Ind2Shape
<1>4. \A d : At(zs, m, d) => At(zt, m, d)
  BY <1>1, <1>2 DEF At
<1> QED BY <1>1, <1>2, <1>3, <1>4 DEF ZoneIn

\* Copies that agreed do.
LEMMA KeptCopies ==
  ASSUME NEW R, NEW i \in Files, NEW d \in Iterator, IteratorFits(R, i, d),
         NEW zs, NEW zt, Kept(R, i, zs, zt)
  PROVE  /\ Copy1(zs, d) => Copy1(zt, d)
         /\ Copy2(zs, d) => Copy2(zt, d)
<1>1. \A n \in Zone : n # 0 => n \in Number
  BY Sizes DEF Zone, Number
<1>2. d.znum1 # 0 => zt[d.znum1] = zs[d.znum1]
  BY <1>1 DEF Iterator, IteratorFits, Kept
<1>3. d.znum2 # 0 => zt[d.znum2] = zs[d.znum2]
  BY <1>1 DEF Iterator, IteratorFits, Kept
<1> QED BY <1>2, <1>3 DEF Copy1, Copy2

-----------------------------------------------------------------------------
(* Copies of index zones *)

\* Reading an index zone leaves copies that agree.
LEMMA ReadAtCopies ==
  ASSUME StoreOK, NEW d \in Iterator, NEW n \in Zone, Copy1(zones, d), Copy2(zones, d), NEW e
  PROVE  /\ e = ReadAt1(d, n) => /\ Copy1(zones, e) /\ Copy2(zones, e) /\ e.znum1 = n
                                 /\ n # 0 => e.zbuf1 = zones[n]
         /\ e = ReadAt2(d, n) => /\ Copy1(zones, e) /\ Copy2(zones, e) /\ e.znum2 = n
                                 /\ n # 0 => e.zbuf2 = zones[n]
<1>1. n # 0 => read_zone(n) = zones[n]
  BY DEF Zone, Number, read_zone
<1>2. ASSUME e = ReadAt1(d, n)
      PROVE  /\ Copy1(zones, e) /\ Copy2(zones, e) /\ e.znum1 = n
             /\ n # 0 => e.zbuf1 = zones[n]
  <2>1. CASE d.znum1 = n
    BY <1>2, <2>1 DEF ReadAt1, Copy1
  <2>2. CASE d.znum1 # n
    <3>1. e = [d EXCEPT !.zbuf1 = read_zone(n), !.znum1 = n]
      BY <1>2, <2>2 DEF ReadAt1
    <3>2. e.zbuf1 = read_zone(n) /\ e.znum1 = n /\ e.znum2 = d.znum2 /\ e.zbuf2 = d.zbuf2
      BY <3>1 DEF Iterator
    <3> QED BY <1>1, <3>2 DEF Copy1, Copy2
  <2> QED BY <2>1, <2>2
<1>3. ASSUME e = ReadAt2(d, n)
      PROVE  /\ Copy1(zones, e) /\ Copy2(zones, e) /\ e.znum2 = n
             /\ n # 0 => e.zbuf2 = zones[n]
  <2>1. CASE d.znum2 = n
    BY <1>3, <2>1 DEF ReadAt2, Copy2
  <2>2. CASE d.znum2 # n
    <3>1. e = [d EXCEPT !.zbuf2 = read_zone(n), !.znum2 = n]
      BY <1>3, <2>2 DEF ReadAt2
    <3>2. e.zbuf2 = read_zone(n) /\ e.znum2 = n /\ e.znum1 = d.znum1 /\ e.zbuf1 = d.zbuf1
      BY <3>1 DEF Iterator
    <3> QED BY <1>1, <3>2 DEF Copy1, Copy2
  <2> QED BY <2>1, <2>2
<1> QED BY <1>2, <1>3

\* The word of ind2 an iterator goes by is that of the zone.
LEMMA TableWord ==
  ASSUME StoreOK, NEW d \in Iterator, Copy1(zones, d), Copy2(zones, d), Put(d), d.num # 0,
         d.place = "ind2", NEW n \in Zone, n # 0
  PROVE  zbuf2_at(ReadAt2(d, n), d.index2) = zones[n][0]
<1>1. PICK e : e = ReadAt2(d, n)
  OBVIOUS
<1>2. e.zbuf2 = zones[n]
  BY <1>1, ReadAtCopies
<1>3. d.index2 = 0 /\ U32_PER_BLOCK # 0
  BY Sizes DEF Put
<1> QED BY <1>1, <1>2, <1>3 DEF zbuf2_at

\* The zone of the block an iterator has been sent to, by its place.
LEMMA PlaceZone ==
  ASSUME NEW zs, NEW m, NEW d \in Iterator, Put(d), d.num # 0
  PROVE  /\ d.place = "direct" => /\ ZoneIn(zs, m, d.num) = m.direct[d.index + 1]
                                  /\ d.index + 1 = d.num /\ d.num \in 1 .. NR_DIRECT_ZONES
         /\ d.place = "ind1" => /\ d.index = d.num - NR_DIRECT_ZONES - 1
                                /\ m.ind1 # 0 => ZoneIn(zs, m, d.num) = zs[m.ind1][d.index]
         /\ d.place = "ind2" =>
              /\ d.index = d.num - NR_DIRECT_ZONES - NR_IND1_ZONES - 1
              /\ m.ind2 # 0 /\ zs[m.ind2][0] # 0 =>
                   ZoneIn(zs, m, d.num) = zs[zs[m.ind2][0]][d.index]
<1>1. NR_DIRECT_ZONES \in Nat \ {0} /\ NR_IND1_ZONES \in Nat \ {0} /\ d.num \in Nat \ {0}
  BY Sizes DEF Iterator
<1>2. CASE d.place = "direct"
  <2>1. d.num <= NR_DIRECT_ZONES /\ d.index = d.num - 1
    BY <1>2 DEF Put
  <2>2. d.index + 1 = d.num
    BY <1>1, <2>1
  <2> QED BY <1>1, <1>2, <2>1, <2>2 DEF ZoneIn
<1>3. CASE d.place = "ind1"
  <2>1. /\ d.num > NR_DIRECT_ZONES /\ d.num <= NR_DIRECT_ZONES + NR_IND1_ZONES
        /\ d.index = d.num - NR_DIRECT_ZONES - 1
    BY <1>3 DEF Put
  <2>2. ~ (d.num <= NR_DIRECT_ZONES)
    BY <1>1, <2>1
  <2> QED BY <1>3, <2>1, <2>2 DEF ZoneIn
<1>4. CASE d.place = "ind2"
  <2>1. /\ d.num > NR_DIRECT_ZONES + NR_IND1_ZONES
        /\ d.index = d.num - NR_DIRECT_ZONES - NR_IND1_ZONES - 1
    BY <1>4 DEF Put
  <2>2. ~ (d.num <= NR_DIRECT_ZONES) /\ ~ (d.num <= NR_DIRECT_ZONES + NR_IND1_ZONES)
    BY <1>1, <2>1
  <2> QED BY <1>4, <2>1, <2>2 DEF ZoneIn
<1> QED BY <1>2, <1>3, <1>4 DEF Iterator

\* An iterator that arrives has copies that agree, that of the index zone of
\* its block among them, and is on its zone, if there is one.
LEMMA ArrivedCopies ==
  ASSUME StoreOK, NEW d \in Iterator, NEW m \in Inode, Within(d), Put(d), d.num # 0,
         Copy1(zones, d), Copy2(zones, d), Missing(d, m) = "none", NEW e, e = Arrived(d, m)
  PROVE  /\ Copy1(zones, e) /\ Copy2(zones, e) /\ At(zones, m, e)
         /\ ZoneIn(zones, m, d.num) # 0 => e.znum = ZoneIn(zones, m, d.num)
<1>1. m.ind1 \in Zone /\ m.ind2 \in Zone
  BY DEF Inode
<1>2. e.place = d.place
  BY ArrivedType
<1>3. CASE d.place = "direct"
  <2>1. e = [d EXCEPT !.znum = m.direct[d.index + 1]]
    BY <1>3, ArrivedParts
  <2>2. /\ e.znum = m.direct[d.index + 1] /\ e.znum1 = d.znum1 /\ e.znum2 = d.znum2
        /\ e.zbuf1 = d.zbuf1 /\ e.zbuf2 = d.zbuf2
    BY <2>1 DEF Iterator
  <2>3. Copy1(zones, e) /\ Copy2(zones, e) /\ At(zones, m, e)
    BY <1>2, <1>3, <2>2 DEF Copy1, Copy2, At
  <2> QED BY <1>3, <2>2, <2>3, PlaceZone
<1>4. CASE d.place \in {"ind1", "ind2"}
  <2>1. PICK d2 : d2 = ReadAt2(d, m.ind2)
    OBVIOUS
  <2>2. d2 \in Iterator /\ Copy1(zones, d2) /\ Copy2(zones, d2) /\ d2.index2 = d.index2
    <3>1. d2 \in Iterator /\ d2.index2 = d.index2
      BY <1>1, <2>1, ReadAtParts
    <3>2. Copy1(zones, d2) /\ Copy2(zones, d2)
      BY <1>1, <2>1, ReadAtCopies
    <3> QED BY <3>1, <3>2
  <2>3. PICK n : n = IF d.place = "ind1" THEN m.ind1 ELSE zbuf2_at(d2, d2.index2)
    OBVIOUS
  <2>4. /\ d.place = "ind1" => n = m.ind1 /\ m.ind1 # 0
        /\ d.place = "ind2" => n = zones[m.ind2][0] /\ m.ind2 # 0 /\ n # 0
    <3>1. CASE d.place = "ind1"
      BY <2>3, <3>1, MissingParts
    <3>2. CASE d.place = "ind2"
      <4>1. m.ind2 # 0 /\ zbuf2_at(d2, d.index2) # 0
        BY <2>1, <3>2, MissingParts
      <4>2. zbuf2_at(d2, d.index2) = zones[m.ind2][0]
        BY <1>1, <2>1, <3>2, <4>1, TableWord
      <4> QED BY <2>2, <2>3, <3>2, <4>1, <4>2
    <3> QED BY <1>4, <3>1, <3>2
  <2>5. n \in Zone /\ n # 0
    <3>1. zbuf2_at(d2, d2.index2) \in Zone
      BY <2>2, WordAtType
    <3> QED BY <1>1, <1>4, <2>3, <2>4, <3>1
  <2>6. PICK b : b = IF d.place = "ind1" THEN d ELSE d2
    OBVIOUS
  <2>7. b \in Iterator /\ Copy1(zones, b) /\ Copy2(zones, b)
    BY <2>2, <2>6
  <2>8. PICK d1 : d1 = ReadAt1(b, n)
    OBVIOUS
  <2>9. /\ d1 \in Iterator /\ Copy1(zones, d1) /\ Copy2(zones, d1) /\ d1.znum1 = n
        /\ d1.zbuf1 = zones[n]
    BY <2>5, <2>7, <2>8, ReadAtParts, ReadAtCopies
  <2>10. PICK w : w = zbuf1_at(d1, d.index)
    OBVIOUS
  <2>11. e = IF w = 0 THEN d1 ELSE [d1 EXCEPT !.znum = w]
    BY <1>4, <2>1, <2>3, <2>6, <2>8, <2>10, ArrivedParts
  <2>12. /\ e.znum1 = n /\ e.zbuf1 = zones[n] /\ e.znum2 = d1.znum2 /\ e.zbuf2 = d1.zbuf2
         /\ w # 0 => e.znum = w
    BY <2>9, <2>11 DEF Iterator
  <2>13. w = zones[n][d.index]
    <3>1. d.index # -1
      BY <1>4, PutWords, Sizes DEF Word
    <3> QED BY <2>9, <2>10, <3>1 DEF zbuf1_at
  <2>14. Copy1(zones, e) /\ Copy2(zones, e) /\ At(zones, m, e)
    BY <1>2, <1>4, <2>4, <2>9, <2>12 DEF Copy1, Copy2, At
  <2>15. ZoneIn(zones, m, d.num) = w
    <3>1. CASE d.place = "ind1"
      BY <2>4, <2>13, <3>1, PlaceZone
    <3>2. CASE d.place = "ind2"
      BY <2>4, <2>5, <2>13, <3>2, PlaceZone
    <3> QED BY <1>4, <3>1, <3>2
  <2> QED BY <2>12, <2>14, <2>15
<1> QED BY <1>3, <1>4 DEF Iterator

-----------------------------------------------------------------------------
(* Files at rest, and files in a call *)

\* A file that has not been refused a zone it could not do without.
Sane(f) == f.used /\ f.inode_nr \notin spoiled

\* It between calls, and in a call: there the iterator counts its blocks.
Resting(zs, m, d) ==
  /\ Shape(zs, m, m.blocks, m.blocks) /\ Copy1(zs, d) /\ Copy2(zs, d)
  /\ d.num <= m.blocks /\ d.count = m.blocks /\ On(zs, m, d)
InCall(zs, m, d, stage, purpose) ==
  /\ Shape(zs, m, d.count, d.count + IF purpose = "add" /\ stage # "write" THEN 1 ELSE 0)
  /\ Copy1(zs, d) /\ (stage # "save" => Copy2(zs, d))
  /\ purpose = "read" => d.num <= d.count /\ d.count = m.blocks
  /\ stage = "write" => d.num <= d.count /\ On(zs, m, d)
  /\ stage = "save" => purpose = "add" /\ Saving(zs, m, d)
  /\ stage = "moved" => At(zs, m, d) /\ (purpose = "read" => On(zs, m, d))

\* Files that are open, and files that are not.
Opened == \A fd \in Fd : Sane(fp[fd]) =>
            IF pc # "idle" /\ cfd = fd
            THEN InCall(zones, fp[fd].inode, fp[fd].dzi, pc, doing)
            ELSE Resting(zones, fp[fd].inode, fp[fd].dzi)
Stored == \A i \in files \ spoiled :
            Sharing(i) = {} => Shape(zones, itab[i], itab[i].blocks, itab[i].blocks)

\* Index zones that are the same leave a file at rest so.
LEMMA KeptResting ==
  ASSUME NEW zs \in [Number -> Table], NEW zt \in [Number -> Table],
         NEW R, TablesFit(R, zs), NEW i \in Files, NEW m \in Inode, NEW d \in Iterator,
         InodeFits(R, i, m), IteratorFits(R, i, d), Kept(R, i, zs, zt), Resting(zs, m, d)
  PROVE  Resting(zt, m, d)
<1>1. Shape(zt, m, m.blocks, m.blocks) /\ ZoneIn(zt, m, d.num) = ZoneIn(zs, m, d.num)
  BY KeptShape DEF Resting
<1>2. Copy1(zt, d) /\ Copy2(zt, d)
  BY KeptCopies DEF Resting
<1> QED BY <1>1, <1>2 DEF Resting, On

\* One file is changed, and the index zones of no other.
LEMMA OneOpened ==
  ASSUME Types, StoreOK', NEW R, Fits(R), Opened, NEW fd \in Fd, NEW g,
         fp' = [fp EXCEPT ![fd] = g], spoiled \subseteq spoiled',
         pc # "idle" => cfd = fd, pc' # "idle" => cfd' = fd,
         \A c \in Fd \ {fd} : fp[c].used /\ fp[c].inode_nr \notin spoiled' =>
                                Kept(R, fp[c].inode_nr, zones, zones'),
         g.used /\ g.inode_nr \notin spoiled' =>
           IF pc' # "idle" THEN InCall(zones', g.inode, g.dzi, pc', doing')
           ELSE Resting(zones', g.inode, g.dzi)
  PROVE  Opened'
<1>1. \A c \in Fd : fp'[c] = IF c = fd THEN g ELSE fp[c]
  BY DEF Types
<1>2. ASSUME NEW c \in Fd \ {fd}, fp[c].used, fp[c].inode_nr \notin spoiled'
      PROVE  Resting(zones', fp[c].inode, fp[c].dzi)
  <2>1. Resting(zones, fp[c].inode, fp[c].dzi)
    BY <1>2 DEF Opened, Sane
  <2>2. /\ fp[c].inode_nr \in Files /\ fp[c].inode \in Inode /\ fp[c].dzi \in Iterator
        /\ InodeFits(R, fp[c].inode_nr, fp[c].inode)
        /\ IteratorFits(R, fp[c].inode_nr, fp[c].dzi)
    BY <1>2 DEF Types, Lengths, Counting, Descriptor, Fits, FileFits
  <2>3. zones \in [Number -> Table] /\ zones' \in [Number -> Table] /\ TablesFit(R, zones)
    BY DEF Types, StoreOK, Fits
  <2>4. Kept(R, fp[c].inode_nr, zones, zones')
    BY <1>2
  <2> QED BY <2>1, <2>2, <2>3, <2>4, KeptResting
<1>3. ASSUME NEW c \in Fd, Sane(fp[c])'
      PROVE  IF pc' # "idle" /\ cfd' = c
             THEN InCall(zones', fp'[c].inode, fp'[c].dzi, pc', doing')
             ELSE Resting(zones', fp'[c].inode, fp'[c].dzi)
  <2>1. CASE c = fd
    BY <1>1, <1>3, <2>1 DEF Sane
  <2>2. CASE c # fd
    BY <1>1, <1>2, <1>3, <2>2 DEF Sane
  <2> QED BY <2>1, <2>2
<1> QED BY <1>3 DEF Opened

\* Nothing is opened or closed, and files that are closed are left alone.
LEMMA StoredKept ==
  ASSUME Types, StoreOK', NEW R, Fits(R), Stored, UNCHANGED table, spoiled \subseteq spoiled',
         \A c \in Fd : fp'[c].used = fp[c].used /\ fp'[c].inode_nr = fp[c].inode_nr,
         \A i \in Files : Sharing(i) = {} => Kept(R, i, zones, zones')
  PROVE  Stored'
<1>1. \A i : Sharing(i)' = Sharing(i)
  BY DEF Sharing
<1>2. UNCHANGED <<itab, files>> /\ files \subseteq Files
  BY DEF table, Types, TableOK
<1>3. zones \in [Number -> Table] /\ zones' \in [Number -> Table] /\ TablesFit(R, zones)
  BY DEF Types, StoreOK, Fits
<1>4. ASSUME NEW i \in files \ spoiled', Sharing(i) = {}
      PROVE  Shape(zones', itab[i], itab[i].blocks, itab[i].blocks)
  <2>1. Shape(zones, itab[i], itab[i].blocks, itab[i].blocks)
    BY <1>4 DEF Stored
  <2>2. i \in Files /\ itab[i] \in Inode /\ InodeFits(R, i, itab[i])
    BY <1>2 DEF Types, TableOK, Fits
  <2> QED BY <1>3, <1>4, <2>1, <2>2, KeptShape
<1> QED BY <1>1, <1>2, <1>4 DEF Stored

\* What is written to a zone that is no index zone of a file leaves it alone.
LEMMA WrittenKept ==
  ASSUME NEW R, NEW i, NEW zs \in [Number -> Table], NEW n \in Number, NEW t,
         R[n] # <<i, "ind1">>, R[n] # <<i, "ind2">>
  PROVE  Kept(R, i, zs, [zs EXCEPT ![n] = t])
BY DEF Kept

\* An allocation leaves all files alone.
LEMMA AllocKept ==
  ASSUME Types, NEW R, Fits(R), NEW n \in Number, ZMap!alloc_zone(n)
  PROVE  \A i \in Files : Kept(R, i, zones, zones')
<1>1. R[n] = Nobody /\ zones' = [zones EXCEPT ![n] = EmptyTable]
  BY AllocFits
<1>2. \A i \in Files : R[n] # <<i, "ind1">> /\ R[n] # <<i, "ind2">>
  BY <1>1, Sizes DEF Nobody
<1>3. zones \in [Number -> Table]
  BY DEF Types, StoreOK
<1> QED BY <1>1, <1>2, <1>3, WrittenKept

\* Index zones that are not written at all.
LEMMA SameKept == UNCHANGED zones => \A R, i : Kept(R, i, zones, zones')
BY DEF Kept

-----------------------------------------------------------------------------
(* Every step leaves index zones right *)

\* Index zones for no block beyond n are for none beyond n + 1.
LEMMA ShapeMore ==
  ASSUME NEW zs, NEW m, NEW n \in Nat, Shape(zs, m, n, n)
  PROVE  Shape(zs, m, n, n + 1) /\ Shape(zs, m, n, n + 0)
<1>1. n > NR_DIRECT_ZONES => n + 1 > NR_DIRECT_ZONES
  BY Sizes
<1>2. n > NR_DIRECT_ZONES + NR_IND1_ZONES => n + 1 > NR_DIRECT_ZONES + NR_IND1_ZONES
  BY Sizes
<1> QED BY <1>1, <1>2 DEF Shape, Ind1Shape, Ind2Shape

\* my_creat makes a file of no blocks.
LEMMA my_creatShape ==
  ASSUME Types, NEW R, Fits(R), Opened, Stored, NEW i \in Files, my_creat(i)
  PROVE  Opened' /\ Stored'
<1>1. /\ i \notin files /\ itab' = [itab EXCEPT ![i] = Fresh] /\ files' = files \cup {i}
      /\ UNCHANGED <<zones, fp, pc, doing, cfd, new_zone, spoiled>>
  BY DEF my_creat, store, call
<1>2. Shape(zones, Fresh, 0, 0)
  <2>1. /\ Fresh.ind1 = 0 /\ Fresh.ind2 = 0
        /\ \A k \in 1 .. NR_DIRECT_ZONES : Fresh.direct[k] = 0 /\ ~ (k <= 0)
    BY DEF Fresh
  <2>2. ~ (0 > NR_DIRECT_ZONES) /\ ~ (0 > NR_DIRECT_ZONES + NR_IND1_ZONES)
    BY Sizes
  <2> QED BY <2>1, <2>2 DEF Shape, DirectShape, Ind1Shape, Ind2Shape
<1>3. \A j : Sharing(j)' = Sharing(j)
  BY <1>1 DEF Sharing
<1>4. Stored'
  <2>1. Fresh.blocks = 0
    BY DEF Fresh
  <2>2. \A j \in files : j # i /\ j \in Files /\ itab'[j] = itab[j]
    BY <1>1 DEF Types, TableOK
  <2>3. itab'[i] = Fresh
    BY <1>1 DEF Types, TableOK
  <2> QED BY <1>1, <1>2, <1>3, <2>1, <2>2, <2>3 DEF Stored
<1>5. Opened'
  BY <1>1 DEF Opened, Sane
<1> QED BY <1>4, <1>5

\* my_open reads block 1 of an inode that is what the file is like.
LEMMA my_openShape ==
  ASSUME AllHabits, Types, Near, NEW R, Fits(R), Opened, Stored, NEW i \in Files, my_open(i)
  PROVE  Opened' /\ Stored'
<1>1. PICK m : m = itab[i]
  OBVIOUS
<1>2. m \in Inode /\ m.blocks < ShortMost /\ m.blocks \in Nat
  BY <1>1 DEF Types, TableOK, Near, Inode
<1>3. PICK fd, g : /\ fd \in Fd /\ ~ fp[fd].used /\ fp' = [fp EXCEPT ![fd] = g]
                   /\ g = [used |-> TRUE, inode_nr |-> i, inode |-> m, past |-> FALSE,
                           dzi |-> IF m.blocks = 0 THEN MakeIterator(m)
                                   ELSE Arrived(Placed(MakeIterator(m), 1), m)]
  BY <1>1 DEF my_open
<1>4. UNCHANGED <<zmap, zones, itab, files, pc, doing, cfd, spoiled>> /\ pc = "idle" /\ i \in files
      /\ OpenHabits(i)
  BY DEF my_open, store, table, call
<1>5. ASSUME i \notin spoiled PROVE Shape(zones, m, m.blocks, m.blocks)
  <2>1. CASE Sharing(i) = {}
    BY <1>1, <1>4, <1>5, <2>1 DEF Stored
  <2>2. CASE Sharing(i) # {}
    <3>1. PICK c \in Fd : fp[c].used /\ fp[c].inode_nr = i /\ fp[c].inode = m
      BY <1>1, <1>4, <2>2 DEF OpenHabits, AllHabits, Sharing
    <3>2. Resting(zones, fp[c].inode, fp[c].dzi)
      BY <1>4, <1>5, <3>1 DEF Opened, Sane
    <3> QED BY <3>1, <3>2 DEF Resting
  <2> QED BY <2>1, <2>2
<1>6. PICK start, first, there : /\ start = MakeIterator(m) /\ first = Placed(start, 1)
                                 /\ there = Arrived(first, m)
  OBVIOUS
<1>7. /\ start \in Iterator /\ start.num = 0 /\ start.count = m.blocks
      /\ Copy1(zones, start) /\ Copy2(zones, start)
  BY <1>2, <1>6, MakeIteratorType DEF MakeIterator, Copy1, Copy2
<1>8. 1 \in 1 .. Most /\ 1 < ShortMost /\ 1 <= NR_DIRECT_ZONES
  BY Sizes DEF Most, ShortMost
<1>9. /\ first \in Iterator /\ Within(first) /\ Put(first) /\ first.place = "direct"
      /\ Copy1(zones, first) /\ Copy2(zones, first) /\ first.num = 1
      /\ first.count = m.blocks
  <2>1. /\ first \in Iterator /\ first.place = "direct" /\ first.num = 1
        /\ first.count = start.count /\ first.znum1 = start.znum1 /\ first.znum2 = start.znum2
        /\ first.zbuf1 = start.zbuf1 /\ first.zbuf2 = start.zbuf2
    BY <1>6, <1>7, <1>8, PlacedParts
  <2>2. Within(first) /\ Put(first)
    BY <1>6, <1>7, <1>8, PlacedWithin, PlacedPut
  <2> QED BY <1>7, <2>1, <2>2 DEF Copy1, Copy2
<1>10. Missing(first, m) = "none"
  BY <1>9, MissingParts
<1>11. StoreOK /\ StoreOK'
  BY <1>4 DEF Types, StoreOK, my_open, store
<1>12. /\ Copy1(zones, there) /\ Copy2(zones, there)
       /\ ZoneIn(zones, m, 1) # 0 => there.znum = ZoneIn(zones, m, 1)
  BY <1>2, <1>6, <1>9, <1>10, <1>11, ArrivedCopies
<1>13. there.num = 1 /\ there.count = m.blocks
  BY <1>2, <1>6, <1>9, <1>11, ArrivedType
<1>14. ASSUME i \notin spoiled PROVE Resting(zones, m, g.dzi)
  <2>1. CASE m.blocks = 0
    <3>1. g.dzi = start
      BY <1>3, <1>6, <2>1
    <3> QED BY <1>5, <1>7, <1>14, <2>1, <3>1 DEF Resting, On
  <2>2. CASE m.blocks # 0
    <3>1. g.dzi = there
      BY <1>3, <1>6, <2>2
    <3>2. ZoneIn(zones, m, 1) = m.direct[1]
      BY <1>8 DEF ZoneIn
    <3>3. m.direct[1] # 0 /\ 1 <= m.blocks
      BY <1>2, <1>5, <1>8, <1>14, <2>2 DEF Shape, DirectShape
    <3> QED BY <1>5, <1>12, <1>13, <1>14, <3>1, <3>2, <3>3 DEF Resting, On
  <2> QED BY <2>1, <2>2
<1>15. g.inode_nr = i /\ g.inode = m
  BY <1>3
<1>16. Opened'
  <2>1. UNCHANGED <<zones, pc, doing, cfd, spoiled>> /\ pc = "idle"
    BY <1>4
  <2> QED BY <1>3, <1>11, <1>14, <1>15, <2>1, OneOpened, SameKept
<1>17. Stored'
  <2>1. \A j : Sharing(j)' = {} => Sharing(j) = {}
    <3>1. \A c \in Fd : fp[c].used => fp'[c] = fp[c]
      BY <1>3 DEF Types
    <3> QED BY <3>1 DEF Sharing
  <2> QED BY <1>4, <2>1 DEF Stored
<1> QED BY <1>16, <1>17

\* my_close puts the inode back as the file is.
LEMMA my_closeShape ==
  ASSUME Types, NEW R, Fits(R), Opened, Stored, NEW fd \in Fd, my_close(fd)
  PROVE  Opened' /\ Stored'
<1>1. PICK f, i : f = fp[fd] /\ i = f.inode_nr
  OBVIOUS
<1>2. /\ pc = "idle" /\ f.used /\ itab' = [itab EXCEPT ![i] = f.inode]
      /\ fp' = [fp EXCEPT ![fd] = Unused]
      /\ UNCHANGED <<zmap, last_free_zone_num, zones, files, pc, doing, cfd, new_zone, spoiled>>
  BY <1>1 DEF my_close, store, call
<1>3. ~ Unused.used
  BY DEF Unused
<1>4. StoreOK'
  BY <1>2 DEF Types, StoreOK
<1>5. Opened'
  <2>1. UNCHANGED <<zones, pc, spoiled>>
    BY <1>2
  <2> QED BY <1>2, <1>3, <1>4, <2>1, OneOpened, SameKept
<1>6. Stored'
  <2> SUFFICES ASSUME NEW j \in files \ spoiled, Sharing(j)' = {}
               PROVE  Shape(zones, itab'[j], itab'[j].blocks, itab'[j].blocks)
    BY <1>2 DEF Stored
  <2>1. CASE j = i
    <3>1. Resting(zones, f.inode, f.dzi)
      BY <1>1, <1>2, <2>1 DEF Opened, Sane
    <3>2. itab'[j] = f.inode
      BY <1>2, <2>1 DEF Types, TableOK
    <3> QED BY <3>1, <3>2 DEF Resting
  <2>2. CASE j # i
    <3>1. Sharing(j) = {}
      <4>1. \A c \in Fd : c # fd => fp'[c] = fp[c]
        BY <1>2 DEF Types
      <4> QED BY <1>1, <2>2, <4>1 DEF Sharing
    <3>2. itab'[j] = itab[j]
      BY <1>2, <2>2 DEF Types, TableOK
    <3> QED BY <3>1, <3>2 DEF Stored
  <2> QED BY <2>1, <2>2
<1> QED BY <1>5, <1>6

\* ReadOn goes on to a block there is.
LEMMA ReadOnShape ==
  ASSUME Types, NEW R, Fits(R), Opened, Stored, NEW fd \in Fd, ReadOn(fd)
  PROVE  Opened' /\ Stored'
<1>1. PICK f, k : f = fp[fd] /\ k = f.dzi.num + 1
  OBVIOUS
<1>2. PICK g : g = [f EXCEPT !.dzi = Placed(@, k)]
  OBVIOUS
<1>3. /\ f \in Descriptor /\ f.used /\ Counting(f) /\ f.dzi.num < f.inode.blocks
      /\ fp' = [fp EXCEPT ![fd] = g] /\ pc' = "move" /\ doing' = "read" /\ cfd' = fd
      /\ UNCHANGED <<zmap, last_free_zone_num, zones, table, spoiled>> /\ pc = "idle"
  BY <1>1, <1>2 DEF Types, Lengths, ReadOn, store
<1>4. k \in 1 .. Most /\ k <= f.inode.blocks
  <2>1. /\ f.dzi.num \in Nat /\ f.inode.blocks \in Nat /\ f.dzi.count \in Nat
        /\ f.inode.blocks <= f.dzi.count
        /\ f.dzi.count <= MaxBlocks[f.inode_nr] /\ f.inode_nr \in Files
    BY <1>3 DEF Descriptor, Iterator, Inode, Counting
  <2>2. MaxBlocks[f.inode_nr] \in 0 .. Most /\ Most \in Nat
    BY <2>1, Bounds
  <2> QED BY <1>1, <1>3, <2>1, <2>2
<1>5. PICK d, e : d = f.dzi /\ e = Placed(d, k)
  OBVIOUS
<1>6. /\ g \in Descriptor /\ g.used /\ g.inode_nr = f.inode_nr
      /\ g.inode = f.inode /\ g.dzi = e /\ d \in Iterator
  BY <1>2, <1>3, <1>4, <1>5, SentParts DEF Descriptor
<1>7. /\ e.num = k /\ e.count = d.count /\ e.znum1 = d.znum1 /\ e.zbuf1 = d.zbuf1
      /\ e.znum2 = d.znum2 /\ e.zbuf2 = d.zbuf2
  BY <1>4, <1>5, <1>6, PlacedParts
<1>8. ASSUME f.inode_nr \notin spoiled PROVE InCall(zones, g.inode, g.dzi, "move", "read")
  <2>1. Resting(zones, f.inode, d)
    BY <1>1, <1>3, <1>5, <1>8 DEF Opened, Sane
  <2>2. Shape(zones, f.inode, f.inode.blocks, f.inode.blocks + 0)
    BY <1>3, <2>1, ShapeMore DEF Resting, Descriptor, Inode
  <2>3. Copy1(zones, e) /\ Copy2(zones, e)
    BY <1>7, <2>1 DEF Resting, Copy1, Copy2
  <2>4. e.count = f.inode.blocks
    BY <1>7, <2>1 DEF Resting
  <2> QED BY <1>4, <1>6, <1>7, <2>2, <2>3, <2>4 DEF InCall
<1>9. StoreOK'
  BY <1>3 DEF Types, StoreOK
<1>10. Opened'
  <2>1. UNCHANGED <<zones, spoiled>> /\ pc = "idle" /\ pc' = "move" /\ doing' = "read"
        /\ cfd' = fd
    BY <1>3
  <2> QED BY <1>3, <1>6, <1>8, <1>9, <2>1, OneOpened, SameKept
<1>11. Stored'
  <2>1. \A c \in Fd : fp'[c].used = fp[c].used /\ fp'[c].inode_nr = fp[c].inode_nr
    BY <1>1, <1>3, <1>6 DEF Types
  <2> QED BY <1>3, <1>9, <2>1, StoredKept, SameKept
<1> QED BY <1>10, <1>11

\* Only the file that grows lacks index zones.
LEMMA OnlyAddsLack ==
  ASSUME Types, Near, Opened, pc = "move", fp[cfd].inode_nr \notin spoiled, ~ Lacks("none")
  PROVE  doing = "add"
<1>1. PICK f, d, m, n : f = fp[cfd] /\ d = f.dzi /\ m = f.inode /\ n = d.count
  OBVIOUS
<1>2. /\ f.used /\ m \in Inode /\ d \in Iterator /\ cfd \in Fd /\ d.num # 0 /\ Put(d)
      /\ n \in Nat /\ d.num \in Nat
  BY <1>1, Caller DEF Near, Inode, Iterator
<1>3. InCall(zones, m, d, "move", doing)
  BY <1>1, <1>2 DEF Opened, Sane
<1>4. SUFFICES ASSUME doing # "add" PROVE FALSE
  OBVIOUS
<1>5. doing = "read"
  BY <1>4 DEF Types, CallOK
<1>6. Shape(zones, m, n, n + 0) /\ Copy1(zones, d) /\ Copy2(zones, d) /\ d.num <= n
  BY <1>1, <1>3, <1>5 DEF InCall
<1>7. NR_DIRECT_ZONES \in Nat /\ NR_IND1_ZONES \in Nat
  BY Sizes
<1>8. CASE Missing(d, m) = "ind1"
  <2>1. d.place = "ind1" /\ m.ind1 = 0
    BY <1>8, MissingParts
  <2>2. d.num > NR_DIRECT_ZONES
    BY <1>2, <2>1 DEF Put
  <2>3. n > NR_DIRECT_ZONES
    BY <1>2, <1>6, <1>7, <2>2
  <2> QED BY <1>6, <2>1, <2>3 DEF Shape, Ind1Shape
<1>9. CASE Missing(d, m) \in {"ind2", "table"}
  <2>1. d.place = "ind2" /\ (m.ind2 = 0 \/ zbuf2_at(ReadAt2(d, m.ind2), d.index2) = 0)
    BY <1>9, MissingParts
  <2>2. d.num > NR_DIRECT_ZONES + NR_IND1_ZONES
    BY <1>2, <2>1 DEF Put
  <2>3. n > NR_DIRECT_ZONES + NR_IND1_ZONES
    BY <1>2, <1>6, <1>7, <2>2
  <2>4. m.ind2 # 0 /\ zones[m.ind2][0] # 0
    BY <1>6, <2>3 DEF Shape, Ind2Shape
  <2>5. zbuf2_at(ReadAt2(d, m.ind2), d.index2) = zones[m.ind2][0]
    BY <1>2, <1>6, <2>1, <2>4, TableWord DEF Inode, Types
  <2> QED BY <2>1, <2>4, <2>5
<1> QED BY <1>1, <1>8, <1>9, MissingParts DEF Lacks

\* A step of a call changes index zones of its own file at most, and those of
\* one that is open twice only if it has been refused one.
LEMMA CallOpened ==
  ASSUME Types, Alone, StoreOK', NEW R, Fits(R), Opened, Stored, pc # "idle",
         NEW g, g.used, g.inode_nr = fp[cfd].inode_nr, fp' = [fp EXCEPT ![cfd] = g],
         UNCHANGED table, spoiled \subseteq spoiled', pc' # "idle" => cfd' = cfd,
         \A j \in Files : j # g.inode_nr => Kept(R, j, zones, zones'),
         \/ Kept(R, g.inode_nr, zones, zones')
         \/ doing = "add" \/ g.inode_nr \in spoiled',
         g.inode_nr \notin spoiled' =>
           IF pc' # "idle" THEN InCall(zones', g.inode, g.dzi, pc', doing')
           ELSE Resting(zones', g.inode, g.dzi)
  PROVE  Opened' /\ Stored'
<1>1. cfd \in Fd /\ fp[cfd].used /\ fp[cfd].inode_nr \in Files
  BY Caller
<1>2. \A c \in Fd \ {cfd} : fp[c].used /\ fp[c].inode_nr \notin spoiled' =>
                              Kept(R, fp[c].inode_nr, zones, zones')
  <2> SUFFICES ASSUME NEW c \in Fd \ {cfd}, fp[c].used, fp[c].inode_nr \notin spoiled'
               PROVE  Kept(R, fp[c].inode_nr, zones, zones')
    OBVIOUS
  <2>1. fp[c].inode_nr \in Files
    BY DEF Types, Lengths, Counting
  <2>2. doing = "add" => fp[c].inode_nr # fp[cfd].inode_nr
    BY DEF Alone
  <2> QED BY <2>1, <2>2
<1>3. Opened'
  BY <1>1, <1>2, OneOpened
<1>4. \A c \in Fd : fp'[c].used = fp[c].used /\ fp'[c].inode_nr = fp[c].inode_nr
  BY <1>1 DEF Types
<1>5. \A i \in Files : Sharing(i) = {} => Kept(R, i, zones, zones')
  BY <1>1 DEF Sharing
<1> QED BY <1>3, <1>4, <1>5, StoredKept

\* AddBlock goes on beyond the last block.
LEMMA AddBlockShape ==
  ASSUME Types, Alone, NEW R, Fits(R), Opened, Stored, NEW z \in Number, AddBlock(z)
  PROVE  Opened' /\ Stored'
<1>1. PICK f, k, n, m : f = fp[cfd] /\ k = n + 1 /\ n = f.dzi.count /\ m = f.inode
  OBVIOUS
<1>2. PICK g : g = [f EXCEPT !.dzi = Placed(@, k)]
  OBVIOUS
<1>3. /\ pc = "write" /\ fp' = [fp EXCEPT ![cfd] = g] /\ pc' = "move"
      /\ UNCHANGED <<table, doing, cfd, spoiled>> /\ ZMap!alloc_zone(z)
      /\ n < MaxBlocks[f.inode_nr]
  BY <1>1, <1>2 DEF Types, AddBlock, Writing, Room
<1>4. /\ f \in Descriptor /\ f.used /\ m \in Inode /\ f.dzi \in Iterator /\ cfd \in Fd
      /\ f.inode_nr \in Files /\ FileFits(R, f) /\ n \in Nat /\ doing = "add"
  BY <1>1, <1>3, Caller DEF Fits, Iterator, Types, Lengths
<1>5. k \in 1 .. Most
  <2>1. MaxBlocks[f.inode_nr] \in 0 .. Most /\ Most \in Nat
    BY <1>4, Bounds
  <2> QED BY <1>1, <1>3, <1>4, <2>1
<1>6. PICK d, e : d = f.dzi /\ e = Placed(d, k)
  OBVIOUS
<1>7. g.used /\ g.inode_nr = f.inode_nr /\ g.inode = m /\ g.dzi = e /\ d \in Iterator
  BY <1>1, <1>2, <1>4, <1>5, <1>6, SentParts
<1>8. /\ e.num = k /\ e.count = n /\ e.znum1 = d.znum1 /\ e.zbuf1 = d.zbuf1
      /\ e.znum2 = d.znum2 /\ e.zbuf2 = d.zbuf2
  BY <1>1, <1>5, <1>6, <1>7, PlacedParts
<1>9. z \in Zone
  BY Sizes DEF Zone, Number
<1>10. StoreOK' /\ \A i \in Files : Kept(R, i, zones, zones')
  BY <1>3, <1>9, AllocTypes, AllocKept DEF Types
<1>11. zones \in [Number -> Table] /\ zones' \in [Number -> Table] /\ TablesFit(R, zones)
  BY <1>10 DEF Types, StoreOK, Fits
<1>12. ASSUME f.inode_nr \notin spoiled PROVE InCall(zones', m, e, "move", "add")
  <2>1. InCall(zones, m, d, "write", "add")
    BY <1>1, <1>3, <1>4, <1>6, <1>12 DEF Opened, Sane
  <2>2. InodeFits(R, f.inode_nr, m) /\ IteratorFits(R, f.inode_nr, d)
    BY <1>1, <1>4, <1>6 DEF FileFits
  <2>3. n + 0 = n /\ d.count = n
    BY <1>1, <1>4, <1>6
  <2>4. Shape(zones, m, n, n) /\ Copy1(zones, d) /\ Copy2(zones, d)
    BY <2>1, <2>3 DEF InCall
  <2>5. Shape(zones', m, n, n)
    BY <1>4, <1>10, <1>11, <2>2, <2>4, KeptShape
  <2>6. Shape(zones', m, n, n + 1)
    BY <1>4, <2>5, ShapeMore
  <2>7. Copy1(zones', d) /\ Copy2(zones', d)
    BY <1>4, <1>7, <1>10, <2>2, <2>4, KeptCopies
  <2>8. Copy1(zones', e) /\ Copy2(zones', e)
    BY <1>8, <2>7 DEF Copy1, Copy2
  <2> QED BY <1>8, <2>6, <2>8 DEF InCall
<1>13. UNCHANGED <<table, spoiled>> /\ cfd' = cfd /\ doing' = "add" /\ pc # "idle"
  BY <1>3, <1>4
<1> QED BY <1>1, <1>3, <1>4, <1>7, <1>10, <1>12, <1>13, CallOpened

\* An empty index zone is for blocks that are not there yet.
LEMMA EmptyFull ==
  ASSUME NEW n \in Int, ~ (n > 0)
  PROVE  Full(EmptyTable, n)
<1>1. \A w \in Word : w \in Nat
  BY Sizes DEF Word
<1> QED BY <1>1 DEF Full, EmptyTable

\* An inode with one more index zone.
LEMMA NewInd1Shape ==
  ASSUME NEW zs, NEW q, NEW m, NEW n, Shape(zs, q, n, n + 1), m.direct = q.direct,
         m.ind2 = q.ind2, m.ind1 # 0, n + 1 > NR_DIRECT_ZONES,
         Full(zs[m.ind1], n - NR_DIRECT_ZONES)
  PROVE  Shape(zs, m, n, n + 1)
<1>1. DirectShape(m, n)
  BY DEF Shape, DirectShape
<1>2. Ind2Shape(zs, m, n, n + 1)
  BY DEF Shape, Ind2Shape
<1>3. Ind1Shape(zs, m, n, n + 1)
  BY DEF Ind1Shape
<1> QED BY <1>1, <1>2, <1>3 DEF Shape

\* An inode with ind2, which names nothing yet.
LEMMA NewInd2Shape ==
  ASSUME NEW zs, NEW q, NEW m, NEW n, Shape(zs, q, n, n + 1), m.direct = q.direct,
         m.ind1 = q.ind1, m.ind2 # 0, n + 1 > NR_DIRECT_ZONES + NR_IND1_ZONES,
         ~ (n > NR_DIRECT_ZONES + NR_IND1_ZONES),
         zs[m.ind2][0] = 0, \A w \in Word : w # 0 => zs[m.ind2][w] = 0
  PROVE  Shape(zs, m, n, n + 1)
<1>1. DirectShape(m, n)
  BY DEF Shape, DirectShape
<1>2. Ind1Shape(zs, m, n, n + 1)
  BY DEF Shape, Ind1Shape
<1>3. Ind2Shape(zs, m, n, n + 1)
  BY DEF Ind2Shape
<1> QED BY <1>1, <1>2, <1>3 DEF Shape

\* BuildInd1 and BuildInd2 add an index zone for the block after the last.
LEMMA BuildIndShape ==
  ASSUME Types, Near, Alone, NEW R, Fits(R), Opened, Stored, NEW z \in Number,
         BuildInd1(z) \/ BuildInd2(z)
  PROVE  Opened' /\ Stored'
<1>1. PICK f, i, d, n : f = fp[cfd] /\ i = f.inode_nr /\ d = f.dzi /\ n = d.count
  OBVIOUS
<1>2. PICK g, k : \/ g = [f EXCEPT !.inode.ind1 = z] /\ k = "ind1" /\ BuildInd1(z)
                  \/ g = [f EXCEPT !.inode.ind2 = z] /\ k = "ind2" /\ BuildInd2(z)
  OBVIOUS
<1>3. /\ pc = "move" /\ ZMap!alloc_zone(z) /\ UNCHANGED <<table, call, out, spoiled>>
      /\ fp' = [fp EXCEPT ![cfd] = g]
  BY <1>1, <1>2 DEF BuildInd1, BuildInd2, Moving, Types
<1>4. /\ f \in Descriptor /\ f.used /\ f.inode \in Inode /\ d \in Iterator /\ n \in Nat
      /\ i \in Files /\ cfd \in Fd /\ FileFits(R, f) /\ d.num # 0 /\ Put(d)
  BY <1>1, <1>3, Caller DEF Fits, Near, Iterator
<1>5. z \in Zone /\ z # 0
  BY Sizes DEF Zone, Number
<1>6. /\ StoreOK' /\ \A j \in Files : Kept(R, j, zones, zones')
      /\ zones' = [zones EXCEPT ![z] = EmptyTable]
  BY <1>3, <1>5, AllocTypes, AllocKept, AllocFits DEF Types
<1>7. zones \in [Number -> Table] /\ zones' \in [Number -> Table] /\ TablesFit(R, zones)
  BY <1>6 DEF Types, StoreOK, Fits
<1>8. PICK m : /\ m \in Inode /\ g = [f EXCEPT !.inode = m] /\ m.direct = f.inode.direct
               /\ k = "ind1" => m.ind1 = z /\ m.ind2 = f.inode.ind2
               /\ k # "ind1" => m.ind1 = f.inode.ind1 /\ m.ind2 = z /\ k = "ind2"
  <2>1. CASE g = [f EXCEPT !.inode.ind1 = z] /\ k = "ind1"
    <3>1. PICK m : m = [f.inode EXCEPT !.ind1 = z]
      OBVIOUS
    <3>2. /\ m \in Inode /\ m.ind1 = z /\ m.ind2 = f.inode.ind2 /\ m.direct = f.inode.direct
      BY <1>1, <1>4, <1>5, <3>1 DEF Inode
    <3>3. g = [f EXCEPT !.inode = m]
      BY <2>1, <3>1
    <3> QED BY <2>1, <3>2, <3>3
  <2>2. CASE g = [f EXCEPT !.inode.ind2 = z] /\ k = "ind2"
    <3>1. PICK m : m = [f.inode EXCEPT !.ind2 = z]
      OBVIOUS
    <3>2. /\ m \in Inode /\ m.ind2 = z /\ m.ind1 = f.inode.ind1 /\ m.direct = f.inode.direct
      BY <1>1, <1>4, <1>5, <3>1 DEF Inode
    <3>3. g = [f EXCEPT !.inode = m]
      BY <2>2, <3>1
    <3> QED BY <2>2, <3>2, <3>3
  <2> QED BY <1>2, <2>1, <2>2
<1>9. g.used /\ g.inode_nr = i /\ g.inode = m /\ g.dzi = d
  BY <1>1, <1>4, <1>8 DEF Descriptor
<1>10. ASSUME i \notin spoiled PROVE InCall(zones', m, d, "move", doing)
  <2>1. k = "ind1" => Missing(d, f.inode) = "ind1"
    BY <1>1, <1>2 DEF BuildInd1, Lacks
  <2>2. k # "ind1" => Missing(d, f.inode) = "ind2" /\ k = "ind2"
    BY <1>1, <1>2 DEF BuildInd2, Lacks
  <2>3. doing = "add"
    BY <1>1, <1>2, <1>3, <1>10, OnlyAddsLack DEF BuildInd1, BuildInd2, Lacks
  <2>4. d.num = n + 1
    BY <1>1, <1>3, <2>3 DEF Types, Lengths
  <2>5. InCall(zones, f.inode, d, "move", "add")
    BY <1>1, <1>3, <1>4, <1>10, <2>3 DEF Opened, Sane
  <2>6. Shape(zones, f.inode, n, n + 1) /\ Copy1(zones, d) /\ Copy2(zones, d)
    BY <1>1, <2>5 DEF InCall
  <2>7. InodeFits(R, i, f.inode) /\ IteratorFits(R, i, d)
    BY <1>1, <1>4 DEF FileFits
  <2>8. Shape(zones', f.inode, n, n + 1)
    BY <1>4, <1>6, <1>7, <2>6, <2>7, KeptShape
  <2>9. Copy1(zones', d) /\ Copy2(zones', d)
    BY <1>4, <1>6, <2>6, <2>7, KeptCopies
  <2>10. NR_DIRECT_ZONES \in Nat /\ NR_IND1_ZONES \in Nat
    BY Sizes
  <2>11. zones'[z] = EmptyTable
    BY <1>6, <1>7
  <2>12. Shape(zones', m, n, n + 1)
    <3>1. CASE k = "ind1"
      <4>1. d.place = "ind1" /\ f.inode.ind1 = 0
        BY <2>1, <3>1, MissingParts
      <4>2. d.num > NR_DIRECT_ZONES
        BY <1>4, <4>1 DEF Put
      <4>3. ~ (n > NR_DIRECT_ZONES)
        BY <2>8, <4>1 DEF Shape, Ind1Shape
      <4>4. n + 1 > NR_DIRECT_ZONES /\ n - NR_DIRECT_ZONES \in Int /\ ~ (n - NR_DIRECT_ZONES > 0)
        BY <1>4, <2>4, <2>10, <4>2, <4>3
      <4>5. Full(zones'[z], n - NR_DIRECT_ZONES)
        BY <2>11, <4>4, EmptyFull
      <4>6. m.ind1 = z /\ m.ind2 = f.inode.ind2 /\ m.direct = f.inode.direct
        BY <1>8, <3>1
      <4> QED BY <1>5, <2>8, <4>4, <4>5, <4>6, NewInd1Shape
    <3>2. CASE k # "ind1"
      <4>1. d.place = "ind2" /\ f.inode.ind2 = 0
        BY <2>2, <3>2, MissingParts
      <4>2. d.num > NR_DIRECT_ZONES + NR_IND1_ZONES
        BY <1>4, <4>1 DEF Put
      <4>3. ~ (n > NR_DIRECT_ZONES + NR_IND1_ZONES)
        BY <2>8, <4>1 DEF Shape, Ind2Shape
      <4>4. n + 1 > NR_DIRECT_ZONES + NR_IND1_ZONES
        BY <2>4, <4>2
      <4>5. 0 \in Word /\ \A w \in Word : zones'[z][w] = 0
        BY <2>11, Sizes DEF EmptyTable, Word
      <4>6. m.ind1 = f.inode.ind1 /\ m.ind2 = z /\ m.direct = f.inode.direct
        BY <1>8, <3>2
      <4> QED BY <1>5, <2>8, <4>3, <4>4, <4>5, <4>6, NewInd2Shape
    <3> QED BY <3>1, <3>2
  <2> QED BY <1>1, <2>3, <2>9, <2>12 DEF InCall
<1>11. UNCHANGED <<table, spoiled>> /\ pc' = "move" /\ doing' = doing /\ cfd' = cfd
  BY <1>3 DEF call
<1> QED BY <1>1, <1>3, <1>4, <1>6, <1>9, <1>10, <1>11, CallOpened

\* BuildTable enters a table for the block after the last into the copy.
LEMMA BuildTableShape ==
  ASSUME Types, Near, Alone, NEW R, Fits(R), Opened, Stored, NEW z \in Number, BuildTable(z)
  PROVE  Opened' /\ Stored'
<1>1. PICK f, d, e, i, m : /\ f = fp[cfd] /\ m = f.inode /\ d = ReadAt2(f.dzi, m.ind2)
                           /\ e = [d EXCEPT !.zbuf2[d.index2] = z] /\ i = f.inode_nr
  OBVIOUS
<1>2. /\ pc = "move" /\ ZMap!alloc_zone(z) /\ Lacks("table") /\ pc' = "save"
      /\ UNCHANGED <<table, doing, cfd, new_zone, out, spoiled>>
      /\ fp' = [fp EXCEPT ![cfd].dzi = e]
  BY <1>1 DEF BuildTable, Moving
<1>3. /\ f \in Descriptor /\ f.used /\ m \in Inode /\ f.dzi \in Iterator
      /\ i \in Files /\ cfd \in Fd /\ FileFits(R, f) /\ f.dzi.num # 0 /\ Put(f.dzi)
  BY <1>1, <1>2, Caller DEF Fits, Near
<1>4. z \in Zone /\ z # 0 /\ z \in 0 .. ZoneBits
  BY Sizes DEF Zone, Number
<1>5. /\ StoreOK' /\ \A j \in Files : Kept(R, j, zones, zones')
      /\ zones' = [zones EXCEPT ![z] = EmptyTable]
  BY <1>2, <1>4, AllocTypes, AllocKept, AllocFits DEF Types
<1>6. zones \in [Number -> Table] /\ zones' \in [Number -> Table] /\ TablesFit(R, zones)
  BY <1>5 DEF Types, StoreOK, Fits
<1>7. f.dzi.place = "ind2" /\ m.ind2 # 0 /\ m.ind2 \in Zone
      /\ zbuf2_at(ReadAt2(f.dzi, m.ind2), f.dzi.index2) = 0
  BY <1>1, <1>2, <1>3, MissingParts DEF Lacks, Inode
<1>8. /\ d \in Iterator /\ d.count = f.dzi.count /\ d.index2 = f.dzi.index2 /\ d.place = "ind2"
  BY <1>1, <1>3, <1>7, ReadAtParts DEF Types
<1>9. d.index2 = 0 /\ 0 \in Word
  <2>1. f.dzi.index2 = 0
    BY <1>3, <1>7, PutWords
  <2> QED BY <1>8, <2>1, Sizes DEF Word
<1>10. /\ e \in Iterator /\ e.znum1 = d.znum1 /\ e.zbuf1 = d.zbuf1 /\ e.place = d.place
       /\ e.count = d.count /\ e.znum2 = d.znum2 /\ e.zbuf2 = [d.zbuf2 EXCEPT ![0] = z]
  <2>1. PICK t : t = [d.zbuf2 EXCEPT ![0] = z]
    OBVIOUS
  <2>2. t \in Table
    BY <1>4, <1>8, <2>1 DEF Iterator, Table
  <2>3. e = [d EXCEPT !.zbuf2 = t]
    BY <1>1, <1>9, <2>1
  <2> QED BY <1>8, <2>1, <2>2, <2>3 DEF Iterator
<1>11. PICK g : g = [f EXCEPT !.dzi = e]
  OBVIOUS
<1>12. g.used /\ g.inode_nr = i /\ g.inode = m /\ g.dzi = e
  <2>1. f \in Descriptor /\ e \in Iterator /\ f.used /\ f.inode_nr = i
    BY <1>1, <1>3, <1>10
  <2>2. /\ g \in Descriptor /\ g.used = f.used /\ g.inode_nr = f.inode_nr
        /\ g.inode = f.inode /\ g.dzi = e
    BY <1>11, <2>1 DEF Descriptor
  <2> QED BY <1>1, <2>1, <2>2
<1>13. fp' = [fp EXCEPT ![cfd] = g]
  BY <1>1, <1>2, <1>3, <1>11 DEF Types
<1>14. ASSUME i \notin spoiled PROVE InCall(zones', m, e, "save", doing)
  <2>1. doing = "add"
    BY <1>1, <1>2, <1>14, OnlyAddsLack DEF Lacks
  <2>2. InCall(zones, m, f.dzi, "move", "add")
    BY <1>1, <1>2, <1>3, <1>14, <2>1 DEF Opened, Sane
  <2>30. PICK n : n = f.dzi.count
    OBVIOUS
  <2>3. Shape(zones, m, n, n + 1) /\ Copy1(zones, f.dzi) /\ Copy2(zones, f.dzi)
    BY <2>2, <2>30 DEF InCall
  <2>4. InodeFits(R, i, m) /\ IteratorFits(R, i, f.dzi)
    BY <1>1, <1>3 DEF FileFits
  <2>5. Shape(zones', m, n, n + 1)
    BY <1>3, <1>5, <1>6, <2>3, <2>4, KeptShape
  <2>6. Copy1(zones, d) /\ Copy2(zones, d) /\ d.znum2 = m.ind2 /\ d.zbuf2 = zones[m.ind2]
    BY <1>1, <1>3, <1>7, <2>3, ReadAtCopies DEF Types
  <2>7. m.ind2 # 0 => R[m.ind2] = <<i, "ind2">>
    BY <2>4 DEF InodeFits
  <2>8. IteratorFits(R, i, d)
    BY <1>1, <1>3, <1>6, <1>7, <2>4, <2>7, ReadAtFits DEF Types
  <2>9. Copy1(zones', d) /\ Copy2(zones', d)
    BY <1>3, <1>5, <1>8, <2>6, <2>8, KeptCopies
  <2>10. zones[m.ind2][0] = 0
    BY <1>3, <1>7, <2>3, TableWord DEF Types
  <2>11. zones'[m.ind2] = zones[m.ind2]
    BY <1>7, <2>6, <2>9 DEF Copy2
  <2>12. e.zbuf2[0] = z
    BY <1>8, <1>9, <1>10 DEF Iterator, Table
  <2>13. zones'[z] = EmptyTable
    BY <1>5, <1>6
  <2>14. Saving(zones', m, e)
    BY <1>4, <1>7, <1>8, <1>10, <2>6, <2>10, <2>11, <2>12, <2>13 DEF Saving
  <2>15. Copy1(zones', e)
    BY <1>10, <2>9 DEF Copy1
  <2>16. e.count = n
    BY <1>8, <1>10, <2>30
  <2> QED BY <2>1, <2>5, <2>14, <2>15, <2>16 DEF InCall
<1>15. UNCHANGED <<table, spoiled>> /\ doing' = doing /\ cfd' = cfd
  BY <1>2
<1> QED BY <1>1, <1>2, <1>3, <1>5, <1>12, <1>13, <1>14, <1>15, CallOpened

\* my_remove leaves a file less.
LEMMA my_removeShape ==
  ASSUME Types, Opened, Stored, NEW i \in Files, my_remove(i)
  PROVE  Opened' /\ Stored'
<1>1. /\ files' = files \ {i} /\ UNCHANGED <<zones, itab, fp, pc, doing, cfd, spoiled>>
  BY DEF my_remove, call
<1>2. \A j : Sharing(j)' = Sharing(j)
  BY <1>1 DEF Sharing
<1>3. Stored'
  BY <1>1, <1>2 DEF Stored
<1>4. Opened'
  BY <1>1 DEF Opened, Sane
<1> QED BY <1>3, <1>4

\* NoIndexZone spoils its file and leaves the others alone.
LEMMA NoIndexZoneShape ==
  ASSUME Types, Alone, NEW R, Fits(R), Opened, Stored, NoIndexZone
  PROVE  Opened' /\ Stored'
<1>1. PICK f, d : /\ f = fp[cfd]
                  /\ d = IF Lacks("table") THEN ReadAt2(f.dzi, f.inode.ind2) ELSE f.dzi
  OBVIOUS
<1>2. /\ pc = "move" /\ ZMap!alloc_zone(0) /\ pc' = "moved"
      /\ spoiled' = spoiled \cup {f.inode_nr}
      /\ UNCHANGED <<table, doing, cfd, new_zone, out>>
  BY <1>1 DEF NoIndexZone, Moving
<1>3. f \in Descriptor /\ f.used /\ cfd \in Fd /\ f.inode \in Inode /\ f.dzi \in Iterator
  BY <1>1, <1>2, Caller
<1>4. d \in Iterator
  BY <1>1, <1>3, ReadAtParts DEF Types, Inode
<1>5. PICK g : g = [f EXCEPT !.dzi = d]
  OBVIOUS
<1>6. g.used /\ g.inode_nr = f.inode_nr
  BY <1>3, <1>4, <1>5, NewIterator
<1>7. fp' = [fp EXCEPT ![cfd] = g]
  BY <1>1, <1>3, <1>5 DEF Types, NoIndexZone
<1>8. 0 \in Zone /\ 0 \notin Number
  BY Sizes DEF Zone, Number
<1>9. StoreOK' /\ UNCHANGED zones
  BY <1>2, <1>8, Alloc, AllocTypes DEF Types
<1> QED BY <1>1, <1>2, <1>6, <1>7, <1>9, CallOpened, SameKept

\* A file has a zone for each of its blocks.
LEMMA ShapeZone ==
  ASSUME NEW zs, NEW m, NEW n \in Nat, NEW p, Shape(zs, m, n, p),
         NEW k \in 1 .. n, k < ShortMost
  PROVE  ZoneIn(zs, m, k) # 0
<1>1. NR_DIRECT_ZONES \in Nat \ {0} /\ U32_PER_BLOCK \in Nat \ {0} /\ NR_IND1_ZONES = U32_PER_BLOCK
  BY Sizes
<1>2. CASE k <= NR_DIRECT_ZONES
  <2>1. k \in 1 .. NR_DIRECT_ZONES /\ k <= n
    BY <1>1, <1>2
  <2> QED BY <1>2, <2>1 DEF ZoneIn, Shape, DirectShape
<1>3. CASE k > NR_DIRECT_ZONES /\ k <= NR_DIRECT_ZONES + NR_IND1_ZONES
  <2>1. /\ n > NR_DIRECT_ZONES /\ k - NR_DIRECT_ZONES - 1 \in Word
        /\ k - NR_DIRECT_ZONES - 1 < n - NR_DIRECT_ZONES /\ ~ (k <= NR_DIRECT_ZONES)
    BY <1>1, <1>3 DEF Word
  <2>2. m.ind1 # 0 /\ Full(zs[m.ind1], n - NR_DIRECT_ZONES)
    BY <2>1 DEF Shape, Ind1Shape
  <2> QED BY <1>3, <2>1, <2>2 DEF ZoneIn, Full
<1>4. CASE k > NR_DIRECT_ZONES + NR_IND1_ZONES
  <2>1. /\ n > NR_DIRECT_ZONES + NR_IND1_ZONES
        /\ k - NR_DIRECT_ZONES - NR_IND1_ZONES - 1 \in Word
        /\ k - NR_DIRECT_ZONES - NR_IND1_ZONES - 1 < n - NR_DIRECT_ZONES - NR_IND1_ZONES
        /\ ~ (k <= NR_DIRECT_ZONES) /\ ~ (k <= NR_DIRECT_ZONES + NR_IND1_ZONES)
    BY <1>1, <1>4 DEF Word, ShortMost
  <2>2. /\ m.ind2 # 0 /\ zs[m.ind2][0] # 0
        /\ Full(zs[zs[m.ind2][0]], n - NR_DIRECT_ZONES - NR_IND1_ZONES)
    BY <2>1 DEF Shape, Ind2Shape
  <2> QED BY <2>1, <2>2 DEF ZoneIn, Full
<1> QED BY <1>1, <1>2, <1>3, <1>4

\* Arrive gets to the zone of a block there is.
LEMMA ArriveShape ==
  ASSUME Types, Near, Alone, NEW R, Fits(R), Opened, Stored, Arrive
  PROVE  Opened' /\ Stored'
<1>1. PICK f, i, m, d, e : /\ f = fp[cfd] /\ i = f.inode_nr /\ m = f.inode /\ d = f.dzi
                           /\ e = Arrived(d, m)
  OBVIOUS
<1>2. /\ pc = "move" /\ Lacks("none") /\ pc' = "moved"
      /\ UNCHANGED <<zones, zmap, last_free_zone_num, table, doing, cfd, new_zone, spoiled>>
      /\ fp' = [fp EXCEPT ![cfd].dzi = e]
  BY <1>1 DEF Arrive, Moving, store
<1>3. /\ f \in Descriptor /\ f.used /\ m \in Inode /\ d \in Iterator /\ Within(d) /\ Put(d)
      /\ cfd \in Fd /\ d.num # 0 /\ d.count < ShortMost /\ i \in Files
      /\ d.count \in Nat /\ d.num \in Nat
  BY <1>1, <1>2, Caller DEF Near, Inode, Iterator
<1>4. e \in Iterator /\ e.num = d.num /\ e.count = d.count
  BY <1>1, <1>3, ArrivedType DEF Types
<1>5. PICK g : g = [f EXCEPT !.dzi = e]
  OBVIOUS
<1>6. g.used /\ g.inode_nr = i /\ g.inode = m /\ g.dzi = e
  BY <1>1, <1>3, <1>4, <1>5, NewIterator
<1>7. fp' = [fp EXCEPT ![cfd] = g]
  BY <1>1, <1>2, <1>3, <1>5 DEF Types
<1>8. StoreOK /\ StoreOK'
  BY <1>2 DEF Types, StoreOK
<1>9. ASSUME i \notin spoiled PROVE InCall(zones', m, e, "moved", doing)
  <2>1. InCall(zones, m, d, "move", doing)
    BY <1>1, <1>2, <1>3, <1>9 DEF Opened, Sane
  <2>2. /\ Shape(zones, m, d.count, d.count + IF doing = "add" THEN 1 ELSE 0)
        /\ Copy1(zones, d) /\ Copy2(zones, d)
        /\ doing = "read" => d.num <= d.count /\ d.count = m.blocks
    BY <2>1 DEF InCall
  <2>3. Missing(d, m) = "none"
    BY <1>1, <1>2 DEF Lacks
  <2>4. /\ Copy1(zones, e) /\ Copy2(zones, e) /\ At(zones, m, e)
        /\ ZoneIn(zones, m, d.num) # 0 => e.znum = ZoneIn(zones, m, d.num)
    BY <1>1, <1>3, <1>8, <2>2, <2>3, ArrivedCopies
  <2>5. doing = "read" => On(zones, m, e)
    <3>1. SUFFICES ASSUME doing = "read" PROVE On(zones, m, e)
      OBVIOUS
    <3>2. d.num \in 1 .. d.count /\ d.num < ShortMost
      <4>1. ShortMost \in Nat
        BY Sizes DEF ShortMost
      <4>2. d.num <= d.count
        BY <2>2, <3>1
      <4> QED BY <1>3, <4>1, <4>2
    <3>3. ZoneIn(zones, m, d.num) # 0
      BY <1>3, <2>2, <3>2, ShapeZone
    <3> QED BY <1>4, <2>4, <3>3 DEF On
  <2> QED BY <1>2, <1>4, <2>2, <2>4, <2>5 DEF InCall
<1>10. UNCHANGED <<zones, table, doing, cfd, spoiled>> /\ pc' = "moved" /\ pc # "idle"
  BY <1>2
<1> QED BY <1>1, <1>6, <1>7, <1>8, <1>9, <1>10, CallOpened, SameKept

\* ReadBlock leaves the file at rest.
LEMMA ReadBlockShape ==
  ASSUME Types, Alone, NEW R, Fits(R), Opened, Stored, ReadBlock
  PROVE  Opened' /\ Stored'
<1>1. PICK f, m, d : f = fp[cfd] /\ m = f.inode /\ d = f.dzi
  OBVIOUS
<1>2. /\ pc = "moved" /\ doing = "read" /\ pc' = "idle"
      /\ UNCHANGED <<zones, zmap, last_free_zone_num, table, fp, spoiled>>
  BY DEF ReadBlock, Return, store
<1>3. f.used /\ m \in Inode /\ cfd \in Fd /\ m.blocks \in Nat
  BY <1>1, <1>2, Caller DEF Inode
<1>4. StoreOK'
  BY <1>2 DEF Types, StoreOK
<1>5. fp' = [fp EXCEPT ![cfd] = f]
  BY <1>1, <1>2, <1>3 DEF Types
<1>6. ASSUME f.inode_nr \notin spoiled PROVE Resting(zones, m, d)
  <2>1. InCall(zones, m, d, "moved", "read")
    BY <1>1, <1>2, <1>3, <1>6 DEF Opened, Sane
  <2>2. /\ Shape(zones, m, m.blocks, m.blocks + 0) /\ m.blocks + 0 = m.blocks
        /\ d.num <= m.blocks /\ d.count = m.blocks
    BY <1>3, <2>1 DEF InCall
  <2>3. Shape(zones, m, m.blocks, m.blocks)
    BY <2>2
  <2> QED BY <2>1, <2>2, <2>3 DEF InCall, Resting
<1>7. UNCHANGED <<zones, table, spoiled>> /\ pc' = "idle" /\ pc # "idle"
  BY <1>2
<1> QED BY <1>1, <1>3, <1>4, <1>5, <1>6, <1>7, CallOpened, SameKept

\* my_write writes to a zone of data, which is no index zone of any file.
LEMMA my_writeShape ==
  ASSUME Types, NEW R, Fits(R), Opened, Stored, NEW fd \in Fd, my_write(fd)
  PROVE  Opened' /\ Stored'
<1>1. PICK f, n : f = fp[fd] /\ n = f.dzi.znum
  OBVIOUS
<1>2. /\ pc = "idle" /\ f.used /\ pc' = "write" /\ doing' = "add" /\ cfd' = fd
      /\ UNCHANGED <<table, fp, new_zone, spoiled>>
  BY <1>1 DEF my_write
<1>4. /\ f \in Descriptor /\ f.dzi \in Iterator /\ f.inode \in Inode /\ f.inode_nr \in Files
      /\ Within(f.dzi) /\ FileFits(R, f) /\ f.inode.blocks \in Nat
  BY <1>1, <1>2 DEF Types, Lengths, Counting, Descriptor, Inode, Fits
<1>7. StoreOK' /\ \A j \in Files : Kept(R, j, zones, zones')
  <2>1. CASE n = 0
    <3>1. UNCHANGED <<zmap, last_free_zone_num, zones>>
      BY <1>1, <2>1 DEF my_write, store
    <3> QED BY <3>1, SameKept DEF Types, StoreOK
  <2>2. CASE n # 0
    <3>1. /\ n \in Number /\ R[n] = <<f.inode_nr, "data">>
          /\ f.dzi.num \in 0 .. Most /\ f.dzi.num # 0
      BY <1>1, <1>2, <1>4, <2>2 DEF Iterator, Zone, Number, FileFits, IteratorFits, Within
    <3>2. PICK t \in Data[f.dzi.num] : ZMap!write_zone(n, t)
      BY <1>1, <2>2 DEF my_write
    <3>3. t \in Table
      BY <3>1, <3>2, DataType
    <3>4. /\ StoreOK' /\ zones' = [zones EXCEPT ![n] = t]
      BY <3>1, <3>2, <3>3, WriteTypes DEF Types
    <3>5. \A j \in Files : R[n] # <<j, "ind1">> /\ R[n] # <<j, "ind2">>
      BY <3>1
    <3> QED BY <3>1, <3>4, <3>5, WrittenKept DEF Types, StoreOK
  <2> QED BY <2>1, <2>2
<1>8. zones \in [Number -> Table] /\ zones' \in [Number -> Table] /\ TablesFit(R, zones)
  BY <1>7 DEF Types, StoreOK, Fits
<1>10. fp' = [fp EXCEPT ![fd] = f]
  BY <1>1, <1>2 DEF Types
<1>11. ASSUME f.inode_nr \notin spoiled PROVE InCall(zones', f.inode, f.dzi, "write", "add")
  <2>1. Resting(zones, f.inode, f.dzi)
    BY <1>1, <1>2, <1>11 DEF Opened, Sane
  <2>2. InodeFits(R, f.inode_nr, f.inode) /\ IteratorFits(R, f.inode_nr, f.dzi)
    BY <1>2, <1>4 DEF FileFits
  <2>3. Resting(zones', f.inode, f.dzi)
    BY <1>4, <1>7, <1>8, <2>1, <2>2, KeptResting
  <2>4. f.inode.blocks + 0 = f.inode.blocks
    BY <1>4
  <2>5. Shape(zones', f.inode, f.dzi.count, f.dzi.count + 0)
    BY <2>3, <2>4 DEF Resting
  <2> QED BY <2>3, <2>5 DEF InCall, Resting
<1>12. Opened'
  <2>1. \A c \in Fd \ {fd} : fp[c].used => Kept(R, fp[c].inode_nr, zones, zones')
    BY <1>7 DEF Types, Lengths, Counting
  <2>2. UNCHANGED spoiled /\ pc = "idle" /\ pc' = "write" /\ doing' = "add" /\ cfd' = fd
    BY <1>2
  <2> QED BY <1>7, <1>10, <1>11, <2>1, <2>2, OneOpened
<1>13. Stored'
  BY <1>2, <1>7, StoredKept
<1> QED BY <1>12, <1>13

\* Entering a new table into ind2 is what the index zones lacked.
LEMMA SavedShape ==
  ASSUME NEW zs \in [Number -> Table], NEW R, TablesFit(R, zs), NEW i \in Files,
         NEW m \in Inode, NEW d \in Iterator, InodeFits(R, i, m), IteratorFits(R, i, d),
         NEW n \in Nat, Shape(zs, m, n, n + 1), Copy1(zs, d), Saving(zs, m, d),
         NEW zt, zt = [zs EXCEPT ![m.ind2] = d.zbuf2]
  PROVE  Shape(zt, m, n, n + 1) /\ Copy1(zt, d) /\ Copy2(zt, d)
<1>1. PICK z : z = d.zbuf2[0]
  OBVIOUS
<1>2. /\ d.znum2 = m.ind2 /\ m.ind2 # 0 /\ z # 0 /\ zs[m.ind2][0] = 0
      /\ zs[z] = EmptyTable /\ d.zbuf2 = [zs[m.ind2] EXCEPT ![0] = z]
  BY <1>1 DEF Saving
<1>3. /\ 0 \in Word /\ m.ind2 \in Number /\ R[m.ind2] = <<i, "ind2">> /\ zs[m.ind2] \in Table
      /\ m.ind1 # 0 => m.ind1 \in Number /\ R[m.ind1] = <<i, "ind1">>
  <2>1. IndexZones(R, zs, i, m)
    BY FirstTable
  <2> QED BY <1>2, <2>1 DEF IndexZones
<1>4. \A y \in Number : y # m.ind2 => zt[y] = zs[y]
  OBVIOUS
<1>5. zt[m.ind2] = d.zbuf2 /\ zt[m.ind2][0] = z /\ \A w \in Word : w # 0 => zt[m.ind2][w] = zs[m.ind2][w]
  BY <1>2, <1>3 DEF Table
<1>6. R[z] = <<i, "ind1">> /\ z \in Number
  <2>1. d.zbuf2 \in Table /\ NamesTables(R, i, d.zbuf2)
    BY DEF Iterator, IteratorFits
  <2>2. z \in Zone
    BY <1>1, <1>3, <2>1, WordType
  <2> QED BY <1>1, <1>2, <1>3, <2>1, <2>2 DEF NamesTables, Zone, Number
<1>7. z # m.ind2 /\ m.ind1 # m.ind2 /\ zt[z] = EmptyTable
  BY <1>2, <1>3, <1>4, <1>6
<1>8. m.ind1 # 0 => zt[m.ind1] = zs[m.ind1]
  BY <1>3, <1>4, <1>7
<1>9. NR_DIRECT_ZONES \in Nat /\ NR_IND1_ZONES \in Nat
  BY Sizes
<1>10. /\ ~ (n > NR_DIRECT_ZONES + NR_IND1_ZONES)
       /\ n + 1 > NR_DIRECT_ZONES + NR_IND1_ZONES
       /\ \A w \in Word : w # 0 => zs[m.ind2][w] = 0
  BY <1>2 DEF Shape, Ind2Shape
<1>11. Full(zt[z], n - NR_DIRECT_ZONES - NR_IND1_ZONES)
  <2>1. /\ n - NR_DIRECT_ZONES - NR_IND1_ZONES \in Int
        /\ ~ (n - NR_DIRECT_ZONES - NR_IND1_ZONES > 0)
    BY <1>9, <1>10
  <2> QED BY <1>7, <2>1, EmptyFull
<1>12. Ind2Shape(zt, m, n, n + 1)
  BY <1>2, <1>5, <1>10, <1>11 DEF Ind2Shape
<1>13. DirectShape(m, n) /\ Ind1Shape(zt, m, n, n + 1)
  BY <1>8 DEF Shape, Ind1Shape
<1>14. Copy1(zt, d)
  <2>1. d.znum1 # 0 => d.znum1 \in Number /\ R[d.znum1] = <<i, "ind1">>
    BY Sizes DEF Iterator, IteratorFits, Zone, Number
  <2>2. d.znum1 # 0 => zt[d.znum1] = zs[d.znum1]
    BY <1>3, <1>4, <2>1
  <2> QED BY <2>2 DEF Copy1
<1>15. Copy2(zt, d)
  BY <1>2, <1>5 DEF Copy2
<1> QED BY <1>12, <1>13, <1>14, <1>15 DEF Shape

\* SaveTable does that, and leaves the other files alone.
LEMMA SaveTableShape ==
  ASSUME Types, Alone, NEW R, Fits(R), Opened, Stored, SaveTable
  PROVE  Opened' /\ Stored'
<1>1. PICK f, i, m, d : f = fp[cfd] /\ i = f.inode_nr /\ m = f.inode /\ d = f.dzi
  OBVIOUS
<1>2. /\ pc = "save" /\ ZMap!write_zone(d.znum2, d.zbuf2) /\ pc' = "move"
      /\ UNCHANGED <<table, fp, doing, cfd, new_zone, out, spoiled>>
  BY <1>1 DEF SaveTable
<1>3. /\ d \in Iterator /\ f.used /\ cfd \in Fd /\ FileFits(R, f) /\ m \in Inode /\ i \in Files
      /\ d.count \in Nat
  BY <1>1, <1>2, Caller DEF Fits, Iterator
<1>4. InodeFits(R, i, m) /\ IteratorFits(R, i, d) /\ d.zbuf2 \in Table
  BY <1>1, <1>3 DEF FileFits, Iterator
<1>5. /\ StoreOK'
      /\ zones' = IF d.znum2 \in Number THEN [zones EXCEPT ![d.znum2] = d.zbuf2] ELSE zones
  BY <1>2, <1>4, WriteTypes DEF Types
<1>6. zones \in [Number -> Table] /\ TablesFit(R, zones)
  BY DEF Types, StoreOK, Fits
<1>7. \A j \in Files : j # i => Kept(R, j, zones, zones')
  <2>1. CASE d.znum2 \in Number
    <3>1. R[d.znum2] = <<i, "ind2">>
      BY <1>4, <2>1, Sizes DEF IteratorFits, Number
    <3>2. \A j \in Files : j # i => R[d.znum2] # <<j, "ind1">> /\ R[d.znum2] # <<j, "ind2">>
      BY <3>1
    <3> QED BY <1>5, <1>6, <2>1, <3>2, WrittenKept
  <2>2. CASE d.znum2 \notin Number
    BY <1>5, <2>2, SameKept
  <2> QED BY <2>1, <2>2
<1>8. ASSUME i \notin spoiled
      PROVE  doing = "add" /\ InCall(zones', m, d, "move", doing)
  <2>1. InCall(zones, m, d, "save", doing)
    BY <1>1, <1>2, <1>3, <1>8 DEF Opened, Sane
  <2>2. doing = "add" /\ Saving(zones, m, d) /\ Copy1(zones, d)
    BY <2>1 DEF InCall
  <2>3. Shape(zones, m, d.count, d.count + 1)
    BY <2>1, <2>2 DEF InCall
  <2>4. m.ind2 \in Number /\ d.znum2 = m.ind2
    <3>1. IndexZones(R, zones, i, m)
      BY <1>3, <1>4, <1>6, FirstTable
    <3> QED BY <2>2, <3>1 DEF IndexZones, Saving
  <2>5. zones' = [zones EXCEPT ![m.ind2] = d.zbuf2]
    BY <1>5, <2>4
  <2>6. Shape(zones', m, d.count, d.count + 1) /\ Copy1(zones', d) /\ Copy2(zones', d)
    BY <1>3, <1>4, <1>6, <2>2, <2>3, <2>5, SavedShape
  <2> QED BY <2>2, <2>6 DEF InCall
<1>9. fp' = [fp EXCEPT ![cfd] = f]
  BY <1>1, <1>2, <1>3 DEF Types
<1>10. UNCHANGED <<table, doing, cfd, spoiled>> /\ pc' = "move" /\ pc # "idle"
  BY <1>2
<1>11. Kept(R, i, zones, zones') \/ doing = "add" \/ i \in spoiled'
  BY <1>8, <1>10
<1> QED BY <1>1, <1>3, <1>5, <1>7, <1>8, <1>9, <1>10, <1>11, CallOpened

\* What a file of n blocks that gets zone z for one more is to be like then.
Grown(zs, zt, m, q, n, z) ==
  /\ Shape(zt, q, n + 1, n + 1) /\ ZoneIn(zt, q, n + 1) = z
  /\ \A k \in 1 .. n : ZoneIn(zt, q, k) = ZoneIn(zs, m, k)

\* One more direct zone.
LEMMA GrownDirect ==
  ASSUME NEW m \in Inode, NEW q, NEW n \in Nat, n + 1 <= NR_DIRECT_ZONES,
         NEW zs, Shape(zs, m, n, n + 1), NEW z \in Number, NEW zt,
         q.direct = [m.direct EXCEPT ![n + 1] = z], q.ind1 = m.ind1, q.ind2 = m.ind2
  PROVE  Grown(zs, zt, m, q, n, z)
<1>1. NR_DIRECT_ZONES \in Nat \ {0} /\ NR_IND1_ZONES \in Nat \ {0} /\ z # 0
  BY Sizes DEF Number
<1>2. ~ (n + 1 > NR_DIRECT_ZONES) /\ ~ (n + 1 > NR_DIRECT_ZONES + NR_IND1_ZONES)
  BY <1>1
<1>3. q.ind1 = 0 /\ q.ind2 = 0
  BY <1>2 DEF Shape, Ind1Shape, Ind2Shape
<1>4. \A k \in 1 .. NR_DIRECT_ZONES : q.direct[k] = IF k = n + 1 THEN z ELSE m.direct[k]
  BY DEF Inode
<1>5. \A k \in 1 .. NR_DIRECT_ZONES : m.direct[k] # 0 <=> k <= n
  BY DEF Shape, DirectShape
<1>6. DirectShape(q, n + 1)
  BY <1>1, <1>4, <1>5 DEF DirectShape
<1>7. Ind1Shape(zt, q, n + 1, n + 1) /\ Ind2Shape(zt, q, n + 1, n + 1)
  BY <1>2, <1>3 DEF Ind1Shape, Ind2Shape
<1>8. n + 1 \in 1 .. NR_DIRECT_ZONES
  BY <1>1
<1>9. ZoneIn(zt, q, n + 1) = z
  BY <1>4, <1>8 DEF ZoneIn
<1>10. ASSUME NEW k \in 1 .. n PROVE ZoneIn(zt, q, k) = ZoneIn(zs, m, k)
  <2>1. k \in 1 .. NR_DIRECT_ZONES /\ k # n + 1 /\ k <= NR_DIRECT_ZONES
    BY <1>1
  <2> QED BY <1>4, <2>1 DEF ZoneIn
<1> QED BY <1>6, <1>7, <1>9, <1>10 DEF Grown, Shape

\* One more word of an index zone.
LEMMA FullMore ==
  ASSUME NEW t \in Table, NEW w \in Word, Full(t, w), NEW z \in Number
  PROVE  Full([t EXCEPT ![w] = z], w + 1)
<1>1. \A u \in Word : [t EXCEPT ![w] = z][u] = IF u = w THEN z ELSE t[u]
  BY DEF Table
<1>2. \A u \in Word : u \in Nat /\ (u < w + 1 <=> u < w \/ u = w)
  BY Sizes DEF Word
<1>3. z # 0
  BY DEF Number
<1> QED BY <1>1, <1>2, <1>3 DEF Full

\* An index zone that is full.
LEMMA FullEnough ==
  ASSUME NEW t, NEW n \in Int, NEW p \in Int, n >= U32_PER_BLOCK, p >= U32_PER_BLOCK
  PROVE  Full(t, n) => Full(t, p)
<1>1. \A w \in Word : w < n /\ w < p
  BY Sizes DEF Word
<1> QED BY <1>1 DEF Full

\* One more word of ind1.
LEMMA GrownInd1 ==
  ASSUME NEW m \in Inode, NEW q, NEW n \in Nat, NEW p, p = n + 1,
         p > NR_DIRECT_ZONES, p <= NR_DIRECT_ZONES + NR_IND1_ZONES,
         NEW zs \in [Number -> Table], Shape(zs, m, n, p), NEW z \in Number,
         m.ind1 # 0, NEW w, w = n - NR_DIRECT_ZONES,
         NEW zt, zt[m.ind1] = [zs[m.ind1] EXCEPT ![w] = z],
         q.direct = m.direct, q.ind1 = m.ind1, q.ind2 = m.ind2
  PROVE  Grown(zs, zt, m, q, n, z)
<1>1. /\ NR_DIRECT_ZONES \in Nat \ {0} /\ U32_PER_BLOCK \in Nat \ {0}
      /\ NR_IND1_ZONES = U32_PER_BLOCK
  BY Sizes
<1>2. w = n - NR_DIRECT_ZONES
  OBVIOUS
<1>3. w \in Word /\ p - NR_DIRECT_ZONES = w + 1 /\ p \in Nat /\ p - NR_DIRECT_ZONES - 1 = w
  BY <1>1, <1>2 DEF Word
<1>4. m.ind1 \in Number /\ zs[m.ind1] \in Table
  BY DEF Inode, Zone, Number
<1>5. zt[m.ind1] = [zs[m.ind1] EXCEPT ![w] = z]
  OBVIOUS
<1>6. Full(zs[m.ind1], w)
  BY <1>2 DEF Shape, Ind1Shape
<1>7. Full(zt[m.ind1], p - NR_DIRECT_ZONES)
  BY <1>3, <1>4, <1>5, <1>6, FullMore
<1>8. ~ (p > NR_DIRECT_ZONES + NR_IND1_ZONES)
  BY <1>1
<1>9. m.ind2 = 0
  BY <1>8 DEF Shape, Ind2Shape
<1>10. \A k \in 1 .. NR_DIRECT_ZONES : k <= n /\ k <= p
  BY <1>1
<1>11. DirectShape(q, p)
  BY <1>10 DEF Shape, DirectShape
<1>12. Ind1Shape(zt, q, p, p) /\ Ind2Shape(zt, q, p, p)
  BY <1>7, <1>8, <1>9 DEF Ind1Shape, Ind2Shape
<1>13. ~ (p <= NR_DIRECT_ZONES)
  BY <1>1
<1>14. ZoneIn(zt, q, p) = z
  <2>1. zt[m.ind1][w] = z
    BY <1>3, <1>4, <1>5 DEF Table
  <2> QED BY <1>3, <1>13, <2>1 DEF ZoneIn
<1>15. ASSUME NEW k \in 1 .. n PROVE ZoneIn(zt, q, k) = ZoneIn(zs, m, k)
  <2>1. CASE k <= NR_DIRECT_ZONES
    BY <2>1 DEF ZoneIn
  <2>2. CASE ~ (k <= NR_DIRECT_ZONES)
    <3>1. /\ k <= NR_DIRECT_ZONES + NR_IND1_ZONES /\ k - NR_DIRECT_ZONES - 1 # w
          /\ k - NR_DIRECT_ZONES - 1 \in Word
      BY <1>1, <1>2, <2>2 DEF Word
    <3>2. zt[m.ind1][k - NR_DIRECT_ZONES - 1] = zs[m.ind1][k - NR_DIRECT_ZONES - 1]
      BY <1>4, <1>5, <3>1 DEF Table
    <3> QED BY <2>2, <3>1, <3>2 DEF ZoneIn
  <2> QED BY <2>1, <2>2
<1> QED BY <1>11, <1>12, <1>14, <1>15 DEF Grown, Shape

\* ind1 is full where another table is not.
LEMMA OtherTable ==
  ASSUME NEW zs, NEW m, NEW n \in Nat, NEW p, Shape(zs, m, n, p),
         n >= NR_DIRECT_ZONES + NR_IND1_ZONES, n < ShortMost,
         m.ind2 # 0, NEW t, t = zs[m.ind2][0], t # 0
  PROVE  m.ind1 # 0 /\ t # m.ind1
<1>1. /\ NR_DIRECT_ZONES \in Nat \ {0} /\ U32_PER_BLOCK \in Nat \ {0}
      /\ NR_IND1_ZONES = U32_PER_BLOCK
  BY Sizes
<1>2. PICK w : w = n - NR_DIRECT_ZONES - NR_IND1_ZONES
  OBVIOUS
<1>3. /\ w \in Word /\ w < n - NR_DIRECT_ZONES /\ n > NR_DIRECT_ZONES /\ ~ (w < w)
  BY <1>1, <1>2 DEF Word, ShortMost
<1>4. m.ind1 # 0 /\ Full(zs[m.ind1], n - NR_DIRECT_ZONES)
  BY <1>3 DEF Shape, Ind1Shape
<1>5. Full(zs[zs[m.ind2][0]], w)
  BY <1>2 DEF Shape, Ind2Shape
<1>6. zs[m.ind1][w] # 0 /\ ~ (zs[zs[m.ind2][0]][w] # 0)
  BY <1>3, <1>4, <1>5 DEF Full
<1> QED BY <1>4, <1>6

\* One more word of the table that ind2 names.
LEMMA GrownInd2 ==
  ASSUME NEW m \in Inode, NEW q, NEW n \in Nat, NEW p, p = n + 1, p < ShortMost,
         p > NR_DIRECT_ZONES + NR_IND1_ZONES,
         NEW zs \in [Number -> Table], Shape(zs, m, n, p), NEW z \in Number,
         m.ind2 # 0, NEW t \in Number, t = zs[m.ind2][0], t # m.ind2, m.ind1 # m.ind2,
         NEW w, w = n - NR_DIRECT_ZONES - NR_IND1_ZONES,
         NEW zt, zt[t] = [zs[t] EXCEPT ![w] = z],
         \A y \in {m.ind1, m.ind2} : y # t => zt[y] = zs[y],
         q.direct = m.direct, q.ind1 = m.ind1, q.ind2 = m.ind2
  PROVE  Grown(zs, zt, m, q, n, z)
<1>1. /\ NR_DIRECT_ZONES \in Nat \ {0} /\ U32_PER_BLOCK \in Nat \ {0}
      /\ NR_IND1_ZONES = U32_PER_BLOCK
  BY Sizes
<1>2. w = n - NR_DIRECT_ZONES - NR_IND1_ZONES
  OBVIOUS
<1>3. /\ w \in Word /\ p - NR_DIRECT_ZONES - NR_IND1_ZONES = w + 1 /\ p \in Nat
      /\ p - NR_DIRECT_ZONES - NR_IND1_ZONES - 1 = w
      /\ n >= NR_DIRECT_ZONES + NR_IND1_ZONES /\ n < ShortMost
      /\ ~ (p <= NR_DIRECT_ZONES) /\ ~ (p <= NR_DIRECT_ZONES + NR_IND1_ZONES)
  BY <1>1, <1>2 DEF Word, ShortMost
<1>4. t # 0
  BY DEF Number
<1>5. m.ind1 # 0 /\ t # m.ind1
  <2>1. /\ Shape(zs, m, n, p) /\ n >= NR_DIRECT_ZONES + NR_IND1_ZONES /\ n < ShortMost
        /\ m.ind2 # 0 /\ t = zs[m.ind2][0] /\ t # 0
    BY <1>3, <1>4
  <2> QED BY ONLY n \in Nat, <2>1, OtherTable
<1>6. m.ind1 \in Number /\ m.ind2 \in Number /\ zs[t] \in Table
  BY <1>5 DEF Inode, Zone, Number
<1>7. /\ zt[m.ind1] = zs[m.ind1] /\ zt[m.ind2] = zs[m.ind2]
      /\ zt[t] = [zs[t] EXCEPT ![w] = z]
  BY <1>2, <1>5, <1>6
<1>8. Full(zs[t], w)
  BY <1>2, <1>4 DEF Shape, Ind2Shape
<1>9. Full(zt[t], p - NR_DIRECT_ZONES - NR_IND1_ZONES)
  BY <1>3, <1>6, <1>7, <1>8, FullMore
<1>10. \A w2 \in Word : w2 # 0 => zs[m.ind2][w2] = 0
  BY DEF Shape, Ind2Shape
<1>11. Ind2Shape(zt, q, p, p)
  BY <1>4, <1>7, <1>9, <1>10 DEF Ind2Shape
<1>12. Ind1Shape(zt, q, p, p)
  <2>1. /\ n - NR_DIRECT_ZONES \in Int /\ p - NR_DIRECT_ZONES \in Int
        /\ n - NR_DIRECT_ZONES >= U32_PER_BLOCK /\ p - NR_DIRECT_ZONES >= U32_PER_BLOCK
        /\ p > NR_DIRECT_ZONES
    BY <1>1, <1>3
  <2>2. Full(zs[m.ind1], n - NR_DIRECT_ZONES)
    BY <1>5 DEF Shape, Ind1Shape
  <2>3. Full(zs[m.ind1], p - NR_DIRECT_ZONES)
    BY <2>1, <2>2, FullEnough
  <2> QED BY <1>5, <1>7, <2>1, <2>3 DEF Ind1Shape
<1>13. \A k \in 1 .. NR_DIRECT_ZONES : k <= n /\ k <= p
  BY <1>1, <1>3
<1>14. DirectShape(q, p)
  BY <1>13 DEF Shape, DirectShape
<1>15. ZoneIn(zt, q, p) = z
  <2>1. zt[t][w] = z
    BY <1>3, <1>6, <1>7 DEF Table
  <2> QED BY <1>3, <1>4, <1>7, <2>1 DEF ZoneIn
<1>16. ASSUME NEW k \in 1 .. n PROVE ZoneIn(zt, q, k) = ZoneIn(zs, m, k)
  <2>1. CASE k <= NR_DIRECT_ZONES
    BY <2>1 DEF ZoneIn
  <2>2. CASE ~ (k <= NR_DIRECT_ZONES) /\ k <= NR_DIRECT_ZONES + NR_IND1_ZONES
    BY <1>7, <2>2 DEF ZoneIn
  <2>3. CASE ~ (k <= NR_DIRECT_ZONES) /\ ~ (k <= NR_DIRECT_ZONES + NR_IND1_ZONES)
    <3>1. PICK u : u = k - NR_DIRECT_ZONES - NR_IND1_ZONES - 1
      OBVIOUS
    <3>2. u # w /\ u \in Word
      BY <1>1, <1>2, <1>3, <2>3, <3>1 DEF Word, ShortMost
    <3>3. zt[t][u] = zs[t][u]
      BY <1>6, <1>7, <3>2 DEF Table
    <3> QED BY <1>4, <1>7, <2>3, <3>1, <3>3 DEF ZoneIn
  <2> QED BY <2>1, <2>2, <2>3
<1> QED BY <1>11, <1>12, <1>14, <1>15, <1>16 DEF Grown, Shape

\* dzi_redirect puts the zone into the copy of an index zone, or nowhere.
LEMMA RedirectedParts ==
  ASSUME NEW d \in Iterator, NEW z \in Zone, Put(d), d.num # 0, Within(d),
         NEW e, e = Redirected(d, z)
  PROVE  /\ e.znum = z /\ e.znum1 = d.znum1 /\ e.znum2 = d.znum2 /\ e.zbuf2 = d.zbuf2
         /\ e.zbuf1 = IF d.place = "direct" THEN d.zbuf1 ELSE [d.zbuf1 EXCEPT ![d.index] = z]
<1>1. CASE d.place = "direct"
  <2>1. e = [d EXCEPT !.znum = z]
    BY <1>1 DEF Redirected
  <2> QED BY <1>1, <2>1 DEF Iterator
<1>2. CASE d.place # "direct"
  <2>1. d.index # -1
    BY <1>2, PutWords, Sizes DEF Word
  <2>2. PICK t : t = [d.zbuf1 EXCEPT ![d.index] = z]
    OBVIOUS
  <2>3. e = [d EXCEPT !.znum = z, !.zbuf1 = t]
    BY <1>2, <2>1, <2>2 DEF Redirected
  <2>4. /\ e.znum = z /\ e.znum1 = d.znum1 /\ e.znum2 = d.znum2 /\ e.zbuf2 = d.zbuf2
        /\ e.zbuf1 = t
    BY <2>3 DEF Iterator
  <2> QED BY <1>2, <2>2, <2>4
<1> QED BY <1>1, <1>2

\* What WriteBlock makes of a descriptor f, with inode m, iterator d and zone z
\* for the block.
BlockAdded(f, m, d, z) ==
  \E g \in Descriptor, q \in Inode, e \in Iterator : \E b \in Data[d.num] :
    /\ fp' = [fp EXCEPT ![cfd] = g] /\ g.used /\ g.inode_nr = f.inode_nr
    /\ g.inode = q /\ q.ind1 = m.ind1 /\ q.ind2 = m.ind2
    /\ q.direct = IF d.place # "direct" THEN m.direct
                  ELSE [m.direct EXCEPT ![d.index + 1] = z]
    /\ g.dzi = e /\ e.num = d.num /\ e.count = d.count + 1 /\ e.znum = z
    /\ e.znum1 = d.znum1 /\ e.znum2 = d.znum2 /\ e.zbuf2 = d.zbuf2
    /\ e.zbuf1 = IF d.place = "direct" THEN d.zbuf1 ELSE [d.zbuf1 EXCEPT ![d.index] = z]
    /\ zones' = [(IF d.place = "direct" THEN zones
                  ELSE [zones EXCEPT ![d.znum1] = e.zbuf1]) EXCEPT ![z] = b]
    /\ pc' = "write" /\ new_zone' = 0

\* And it does.
LEMMA WriteBlockParts ==
  ASSUME Types, Near, WriteBlock, NEW f, f = fp[cfd], NEW d, d = f.dzi, NEW m, m = f.inode,
         NEW z, z = new_zone, ~ (d.place # "direct" /\ d.znum1 = 0)
  PROVE  BlockAdded(f, m, d, z)
<1>1. PICK new, saved :
         /\ new = Redirected(d, z)
         /\ saved = IF d.place = "direct" THEN zones
                    ELSE [zones EXCEPT ![d.znum1] = new.zbuf1]
  OBVIOUS
<1>2. pc = "moved" /\ doing = "add"
  BY DEF WriteBlock
<1>3. /\ f \in Descriptor /\ f.used /\ m \in Inode /\ Within(d) /\ Put(d)
      /\ d \in Iterator /\ cfd \in Fd /\ d.num # 0
  BY <1>2, Caller DEF Near
<1>4. z \in Number /\ z \in Zone
  BY <1>2, <1>3, Sizes DEF Types, CallOK, Zone, Number
<1>5. PICK b \in Data[d.num] : zones' = [saved EXCEPT ![z] = b]
  BY <1>1 DEF WriteBlock
<1>6. PICK dir : dir = IF d.place # "direct" THEN m.direct
                       ELSE [m.direct EXCEPT ![d.index + 1] = z]
  OBVIOUS
<1>7. /\ pc' = "write" /\ new_zone' = 0
      /\ fp' = [fp EXCEPT
           ![cfd].dzi = [new EXCEPT !.count = @ + 1],
           ![cfd].inode.direct = IF d.place # "direct" THEN @
                                 ELSE [@ EXCEPT ![d.index + 1] = z]]
  BY <1>1 DEF WriteBlock
<1>8. /\ new \in Iterator /\ new.count = d.count /\ new.num = d.num
  BY <1>1, <1>3, <1>4, RedirectedType
<1>9. PICK e, c : e = [new EXCEPT !.count = c] /\ c = new.count + 1
  OBVIOUS
<1>10. /\ e \in Iterator /\ e.znum = new.znum /\ e.znum1 = new.znum1 /\ e.num = new.num
       /\ e.count = c /\ e.znum2 = new.znum2 /\ e.zbuf1 = new.zbuf1 /\ e.zbuf2 = new.zbuf2
  <2>1. c \in Nat
    BY <1>8, <1>9 DEF Iterator
  <2> QED BY <1>8, <1>9, <2>1 DEF Iterator
<1>11. PICK q : q = [m EXCEPT !.direct = dir]
  OBVIOUS
<1>12. q \in Inode /\ q.direct = dir /\ q.ind1 = m.ind1 /\ q.ind2 = m.ind2
  <2>1. dir \in [1 .. NR_DIRECT_ZONES -> Zone]
    BY <1>3, <1>4, <1>6 DEF Inode
  <2> QED BY <1>3, <1>11, <2>1 DEF Inode
<1>13. PICK g : g = [f EXCEPT !.dzi = e, !.inode = q]
  OBVIOUS
<1>14. g \in Descriptor /\ g.used /\ g.inode_nr = f.inode_nr /\ g.inode = q /\ g.dzi = e
  BY <1>3, <1>10, <1>12, <1>13 DEF Descriptor
<1>15. fp' = [fp EXCEPT ![cfd] = g]
  <2>1. fp'[cfd] = [f EXCEPT !.dzi = e, !.inode = q]
    BY <1>3, <1>6, <1>7, <1>9, <1>11 DEF Types, Descriptor, Inode
  <2> QED BY <1>3, <1>7, <1>13, <2>1 DEF Types
<1>16. /\ e.znum = z /\ e.znum1 = d.znum1 /\ e.znum2 = d.znum2 /\ e.zbuf2 = d.zbuf2
       /\ e.zbuf1 = IF d.place = "direct" THEN d.zbuf1 ELSE [d.zbuf1 EXCEPT ![d.index] = z]
  BY <1>1, <1>3, <1>4, <1>10, RedirectedParts
<1>17. zones' = [(IF d.place = "direct" THEN zones
                  ELSE [zones EXCEPT ![d.znum1] = e.zbuf1]) EXCEPT ![z] = b]
  BY <1>1, <1>5, <1>10
<1>18. /\ q.ind1 = m.ind1 /\ q.ind2 = m.ind2 /\ e.num = d.num /\ e.count = d.count + 1
       /\ q.direct = IF d.place # "direct" THEN m.direct
                     ELSE [m.direct EXCEPT ![d.index + 1] = z]
  BY <1>6, <1>8, <1>9, <1>10, <1>12
<1> QED BY <1>5, <1>7, <1>10, <1>12, <1>14, <1>15, <1>16, <1>17, <1>18 DEF BlockAdded

\* The zones of data and index zones that WriteBlock leaves, when b is the block.
Written(zs, d, e, z, b) ==
  [(IF d.place = "direct" THEN zs ELSE [zs EXCEPT ![d.znum1] = e.zbuf1]) EXCEPT ![z] = b]

\* The index zones an iterator has copies of are the file's.
LEMMA IndexParts ==
  ASSUME NEW R, NEW i, NEW d \in Iterator, IteratorFits(R, i, d)
  PROVE  /\ d.znum1 # 0 => d.znum1 \in Number /\ R[d.znum1] = <<i, "ind1">>
         /\ d.znum2 # 0 => d.znum2 \in Number /\ R[d.znum2] = <<i, "ind2">>
<1>1. d.znum1 \in Zone /\ d.znum2 \in Zone
  BY DEF Iterator
<1>2. \A n \in Zone : n # 0 => n \in Number
  BY Sizes DEF Zone, Number
<1> QED BY <1>1, <1>2 DEF IteratorFits

\* They are right for one block more.
LEMMA WrittenShape ==
  ASSUME NEW zs \in [Number -> Table], NEW R, TablesFit(R, zs), NEW i \in Files,
         NEW m \in Inode, NEW q \in Inode, NEW d \in Iterator, NEW e \in Iterator,
         InodeFits(R, i, m), IteratorFits(R, i, d), NEW z \in Number, R[z] = Nobody,
         NEW n \in Nat, NEW p, p = n + 1, Put(d), d.num = p, p < ShortMost, Shape(zs, m, n, p),
         Copy1(zs, d), Copy2(zs, d), At(zs, m, d), NEW b \in Table,
         q.ind1 = m.ind1, q.ind2 = m.ind2,
         q.direct = IF d.place # "direct" THEN m.direct
                    ELSE [m.direct EXCEPT ![d.index + 1] = z],
         e.znum1 = d.znum1, e.znum2 = d.znum2, e.zbuf2 = d.zbuf2,
         e.zbuf1 = IF d.place = "direct" THEN d.zbuf1 ELSE [d.zbuf1 EXCEPT ![d.index] = z],
         NEW zt, zt = Written(zs, d, e, z, b)
  PROVE  Grown(zs, zt, m, q, n, z) /\ Copy1(zt, e) /\ Copy2(zt, e)
<1>1. /\ NR_DIRECT_ZONES \in Nat \ {0} /\ NR_IND1_ZONES \in Nat \ {0} /\ p \in Nat \ {0}
  BY Sizes
<1>2. \A k : <<i, k>> # Nobody
  BY Sizes DEF Nobody
<1>3. /\ 0 \in Word
      /\ m.ind1 # 0 => m.ind1 \in Number /\ R[m.ind1] = <<i, "ind1">>
      /\ m.ind2 # 0 => /\ m.ind2 \in Number /\ R[m.ind2] = <<i, "ind2">>
                       /\ zs[m.ind2] \in Table /\ zs[m.ind2][0] \in Zone
                       /\ zs[m.ind2][0] # 0 => /\ zs[m.ind2][0] \in Number
                                               /\ R[zs[m.ind2][0]] = <<i, "ind1">>
  <2>1. IndexZones(R, zs, i, m)
    BY FirstTable
  <2> QED BY <2>1 DEF IndexZones
<1>4. /\ d.znum1 # 0 => d.znum1 \in Number /\ R[d.znum1] = <<i, "ind1">>
      /\ d.znum2 # 0 => d.znum2 \in Number /\ R[d.znum2] = <<i, "ind2">>
  BY IndexParts
<1>5. /\ d.znum1 # 0 => d.znum1 # z
      /\ d.znum2 # 0 => d.znum2 # z /\ d.znum2 # d.znum1
      /\ m.ind1 # 0 => m.ind1 # z
      /\ m.ind2 # 0 => m.ind2 # z /\ m.ind2 # m.ind1 /\ m.ind2 # zs[m.ind2][0]
      /\ m.ind2 # 0 /\ zs[m.ind2][0] # 0 => zs[m.ind2][0] # z
  <2>1. /\ d.znum1 # 0 => d.znum1 # z
        /\ d.znum2 # 0 => d.znum2 # z
        /\ m.ind1 # 0 => m.ind1 # z
        /\ m.ind2 # 0 => m.ind2 # z
        /\ m.ind2 # 0 /\ zs[m.ind2][0] # 0 => zs[m.ind2][0] # z
    BY <1>2, <1>3, <1>4
  <2>2. /\ d.znum2 # 0 => d.znum2 # d.znum1
        /\ m.ind2 # 0 => m.ind2 # m.ind1 /\ m.ind2 # zs[m.ind2][0]
    BY <1>3, <1>4
  <2> QED BY <2>1, <2>2
<1>6. CASE d.place = "direct"
  <2>1. zt = [zs EXCEPT ![z] = b] /\ e.zbuf1 = d.zbuf1
    BY <1>6 DEF Written
  <2>2. /\ d.znum1 # 0 => zt[d.znum1] = zs[d.znum1]
        /\ d.znum2 # 0 => zt[d.znum2] = zs[d.znum2]
    BY <1>4, <1>5, <2>1
  <2>3. Copy1(zt, e) /\ Copy2(zt, e)
    BY <2>1, <2>2 DEF Copy1, Copy2
  <2>4. d.index + 1 = p /\ p <= NR_DIRECT_ZONES
    BY <1>1, <1>6, PlaceZone
  <2>5. q.direct = [m.direct EXCEPT ![n + 1] = z] /\ n + 1 <= NR_DIRECT_ZONES
    BY <1>6, <2>4
  <2>6. Grown(zs, zt, m, q, n, z)
    BY <2>5, GrownDirect
  <2> QED BY <2>3, <2>6
<1>7. CASE d.place # "direct"
  <2>1. PICK t : t = d.znum1
    OBVIOUS
  <2>2. /\ d.place = "ind1" => m.ind1 # 0 /\ t = m.ind1
        /\ d.place = "ind2" => m.ind2 # 0 /\ zs[m.ind2][0] # 0 /\ t = zs[m.ind2][0]
        /\ d.place \in {"ind1", "ind2"}
    BY <1>7, <2>1 DEF At, Iterator
  <2>3. t # 0 /\ t \in Number /\ t # z /\ d.zbuf1 = zs[t] /\ zs[t] \in Table
    BY <1>4, <1>5, <2>1, <2>2 DEF Copy1
  <2>4. d.index \in Word
    BY <1>1, <1>7, PutWords
  <2>5. e.zbuf1 = [zs[t] EXCEPT ![d.index] = z] /\ zt = [[zs EXCEPT ![t] = e.zbuf1] EXCEPT ![z] = b]
    BY <1>7, <2>1, <2>3 DEF Written
  <2>6. /\ zt[t] = [zs[t] EXCEPT ![d.index] = z]
        /\ \A y \in Number : y # t /\ y # z => zt[y] = zs[y]
    BY <2>3, <2>5
  <2>7. Copy1(zt, e)
    BY <2>1, <2>5, <2>6 DEF Copy1
  <2>8. Copy2(zt, e)
    BY <1>4, <1>5, <2>1, <2>6 DEF Copy2
  <2>9. q.direct = m.direct
    BY <1>7
  <2>10. CASE d.place = "ind1"
    <3>1. /\ d.index = n - NR_DIRECT_ZONES /\ p > NR_DIRECT_ZONES
          /\ p <= NR_DIRECT_ZONES + NR_IND1_ZONES
      BY <1>1, <2>10 DEF Put
    <3>2. Grown(zs, zt, m, q, n, z)
      BY <2>2, <2>6, <2>9, <2>10, <3>1, GrownInd1
    <3> QED BY <2>7, <2>8, <3>2
  <2>11. CASE d.place = "ind2"
    <3>1. /\ d.index = n - NR_DIRECT_ZONES - NR_IND1_ZONES
          /\ p > NR_DIRECT_ZONES + NR_IND1_ZONES
      BY <1>1, <2>11 DEF Put
    <3>2. /\ m.ind2 # 0 /\ t = zs[m.ind2][0] /\ t # m.ind2 /\ m.ind1 # m.ind2
      BY <1>5, <2>2, <2>11
    <3>3. m.ind1 # 0
      <4>1. n >= NR_DIRECT_ZONES + NR_IND1_ZONES /\ n < ShortMost
        <5>1. ShortMost \in Nat
          BY Sizes DEF ShortMost
        <5> QED BY <1>1, <3>1, <5>1
      <4> QED BY <2>3, <3>2, <4>1, OtherTable
    <3>4. \A y \in {m.ind1, m.ind2} : y # t => zt[y] = zs[y]
      BY <1>3, <1>5, <2>6, <3>2, <3>3
    <3>5. Grown(zs, zt, m, q, n, z)
      BY <2>3, <2>6, <2>9, <3>1, <3>2, <3>4, GrownInd2
    <3> QED BY <2>7, <2>8, <3>5
  <2> QED BY <2>2, <2>10, <2>11
<1> QED BY <1>6, <1>7

\* The index zones of other files stay as they are.
LEMMA WrittenOthers ==
  ASSUME NEW zs \in [Number -> Table], NEW R, NEW i \in Files, NEW d \in Iterator, NEW e,
         IteratorFits(R, i, d), NEW z \in Number, R[z] = Nobody, NEW b \in Table,
         NEW j \in Files, j # i, d.place # "direct" => d.znum1 # 0
  PROVE  Kept(R, j, zs, Written(zs, d, e, z, b))
<1>1. R[z] # <<j, "ind1">> /\ R[z] # <<j, "ind2">>
  BY Sizes DEF Nobody
<1>2. d.place # "direct" => R[d.znum1] # <<j, "ind1">> /\ R[d.znum1] # <<j, "ind2">>
  BY DEF IteratorFits
<1>3. PICK zt : zt = Written(zs, d, e, z, b)
  OBVIOUS
<1>4. \A y \in Number : y # z /\ (d.place # "direct" => y # d.znum1) => zt[y] = zs[y]
  BY <1>3 DEF Written
<1> QED BY <1>1, <1>2, <1>3, <1>4 DEF Kept

\* WriteBlock adds the block, as the size is to count it.
LEMMA WriteBlockShape ==
  ASSUME Types, Near, Alone, NEW R, Fits(R), Opened, Stored, WriteBlock
  PROVE  Opened' /\ Stored'
<1>1. PICK f, i, m, d, n, z : /\ f = fp[cfd] /\ i = f.inode_nr /\ m = f.inode /\ d = f.dzi
                              /\ n = d.count /\ z = new_zone
  OBVIOUS
<1>2. /\ pc = "moved" /\ doing = "add"
      /\ UNCHANGED <<zmap, last_free_zone_num, table, doing, cfd, out, spoiled>>
  BY DEF WriteBlock
<1>3. /\ f \in Descriptor /\ f.used /\ m \in Inode /\ Within(d) /\ Put(d)
      /\ d \in Iterator /\ cfd \in Fd /\ d.num # 0 /\ i \in Files /\ FileFits(R, f)
      /\ n \in Nat
  BY <1>1, <1>2, Caller DEF Fits, Near, Iterator
<1>4. z \in Number /\ R[z] = Nobody
  BY <1>1, <1>2, <1>3, Sizes DEF Types, CallOK, Zone, Number, Fits
<1>5. zones \in [Number -> Table] /\ TablesFit(R, zones)
  BY DEF Types, StoreOK, Fits
<1>6. CASE d.place # "direct" /\ d.znum1 = 0
  <2>1. pc' = "ruined" /\ UNCHANGED <<zones, fp, doing, cfd, new_zone>>
    BY <1>1, <1>6 DEF WriteBlock
  <2>2. StoreOK'
    BY <1>2, <2>1 DEF Types, StoreOK
  <2>3. fp' = [fp EXCEPT ![cfd] = f]
    BY <1>1, <1>3, <2>1 DEF Types
  <2>4. ASSUME i \notin spoiled PROVE InCall(zones', m, d, "ruined", doing)
    <3>1. InCall(zones, m, d, "moved", doing)
      BY <1>1, <1>2, <1>3, <2>4 DEF Opened, Sane
    <3> QED BY <1>2, <2>1, <3>1 DEF InCall
  <2>5. UNCHANGED <<zones, table, doing, cfd, spoiled>> /\ pc' = "ruined" /\ pc # "idle"
    BY <1>2, <2>1
  <2> QED BY <1>1, <1>3, <2>2, <2>3, <2>4, <2>5, CallOpened, SameKept
<1>7. CASE ~ (d.place # "direct" /\ d.znum1 = 0)
  <2>0. BlockAdded(f, m, d, z)
    BY <1>1, <1>7, WriteBlockParts
  <2>1. PICK g \in Descriptor, q \in Inode, e \in Iterator : \E b \in Data[d.num] :
           /\ fp' = [fp EXCEPT ![cfd] = g] /\ g.used /\ g.inode_nr = f.inode_nr
           /\ g.inode = q /\ q.ind1 = m.ind1 /\ q.ind2 = m.ind2
           /\ q.direct = IF d.place # "direct" THEN m.direct
                         ELSE [m.direct EXCEPT ![d.index + 1] = z]
           /\ g.dzi = e /\ e.num = d.num /\ e.count = d.count + 1 /\ e.znum = z
           /\ e.znum1 = d.znum1 /\ e.znum2 = d.znum2 /\ e.zbuf2 = d.zbuf2
           /\ e.zbuf1 = IF d.place = "direct" THEN d.zbuf1 ELSE [d.zbuf1 EXCEPT ![d.index] = z]
           /\ zones' = [(IF d.place = "direct" THEN zones
                         ELSE [zones EXCEPT ![d.znum1] = e.zbuf1]) EXCEPT ![z] = b]
           /\ pc' = "write" /\ new_zone' = 0
    BY <2>0 DEF BlockAdded
  <2>2. PICK b \in Data[d.num] :
           zones' = [(IF d.place = "direct" THEN zones
                      ELSE [zones EXCEPT ![d.znum1] = e.zbuf1]) EXCEPT ![z] = b]
    BY <2>1
  <2>3. /\ fp' = [fp EXCEPT ![cfd] = g] /\ g.used /\ g.inode_nr = i
        /\ g.inode = q /\ g.dzi = e /\ e.num = d.num /\ e.count = n + 1 /\ e.znum = z
        /\ pc' = "write"
    BY <1>1, <2>1
  <2>4. b \in Table
    BY <1>3, <2>2, DataType DEF Within
  <2>5. zones' = Written(zones, d, e, z, b)
    BY <2>2 DEF Written
  <2>6. StoreOK'
    <3>1. e.zbuf1 \in Table
      BY DEF Iterator
    <3>2. zones' \in [Number -> Table]
      BY <1>4, <1>5, <2>2, <2>4, <3>1
    <3> QED BY <1>2, <3>2 DEF Types, StoreOK
  <2>7. InodeFits(R, i, m) /\ IteratorFits(R, i, d)
    BY <1>1, <1>3 DEF FileFits
  <2>8. \A j \in Files : j # i => Kept(R, j, zones, zones')
    BY <1>3, <1>4, <1>5, <1>7, <2>4, <2>5, <2>7, WrittenOthers
  <2>9. ASSUME i \notin spoiled PROVE InCall(zones', q, e, "write", "add")
    <3>1. InCall(zones, m, d, "moved", "add")
      BY <1>1, <1>2, <1>3, <2>9 DEF Opened, Sane
    <3>2. PICK p : p = n + 1
      OBVIOUS
    <3>3. d.num = p /\ p < ShortMost /\ p # 0
      BY <1>1, <1>2, <1>3, <3>2 DEF Types, Lengths, Put
    <3>4. Shape(zones, m, n, p) /\ Copy1(zones, d) /\ Copy2(zones, d) /\ At(zones, m, d)
      BY <1>1, <3>1, <3>2 DEF InCall
    <3>5. /\ q.ind1 = m.ind1 /\ q.ind2 = m.ind2
          /\ q.direct = IF d.place # "direct" THEN m.direct
                        ELSE [m.direct EXCEPT ![d.index + 1] = z]
          /\ e.znum1 = d.znum1 /\ e.znum2 = d.znum2 /\ e.zbuf2 = d.zbuf2
          /\ e.zbuf1 = IF d.place = "direct" THEN d.zbuf1 ELSE [d.zbuf1 EXCEPT ![d.index] = z]
      BY <2>1
    <3>6. Grown(zones, zones', m, q, n, z) /\ Copy1(zones', e) /\ Copy2(zones', e)
      <4>1. d \in Iterator /\ Put(d) /\ m \in Inode /\ i \in Files /\ n \in Nat
        BY <1>3
      <4>2. /\ zones \in [Number -> Table] /\ TablesFit(R, zones) /\ InodeFits(R, i, m)
            /\ IteratorFits(R, i, d) /\ z \in Number /\ R[z] = Nobody /\ b \in Table
            /\ d.num = p /\ p < ShortMost /\ zones' = Written(zones, d, e, z, b)
        BY <1>4, <1>5, <2>4, <2>5, <2>7, <3>3
      <4> QED BY <3>2, <3>4, <3>5, <4>1, <4>2, WrittenShape, SMTT(30)
    <3>7. Shape(zones', q, p, p) /\ ZoneIn(zones', q, p) = z
      BY <3>2, <3>6 DEF Grown
    <3>8. e.count = p /\ e.num = p /\ p <= p /\ p + 0 = p
      BY <1>3, <2>3, <3>2, <3>3
    <3>9. Shape(zones', q, e.count, e.count + 0)
      BY <3>7, <3>8
    <3> QED BY <2>3, <3>6, <3>7, <3>8, <3>9 DEF InCall, On
  <2>10. doing = "add" /\ UNCHANGED <<table, doing, cfd, spoiled>> /\ pc # "idle"
    BY <1>2
  <2> QED BY <1>1, <2>3, <2>6, <2>8, <2>9, <2>10, CallOpened
<1> QED BY <1>6, <1>7

\* The index zones an inode has do not go by its length.
LEMMA SameZones ==
  ASSUME NEW zs, NEW m, NEW q, q.direct = m.direct, q.ind1 = m.ind1, q.ind2 = m.ind2,
         NEW n, NEW p, Shape(zs, m, n, p)
  PROVE  Shape(zs, q, n, p) /\ \A k : ZoneIn(zs, q, k) = ZoneIn(zs, m, k)
<1>1. DirectShape(q, n) /\ Ind1Shape(zs, q, n, p) /\ Ind2Shape(zs, q, n, p)
  BY DEF Shape, DirectShape, Ind1Shape, Ind2Shape
<1> QED BY <1>1 DEF Shape, ZoneIn

\* At the end of my_write the file is at rest, unless a refused zone spoils it.
LEMMA WriteEndsShape ==
  ASSUME Types, Alone, NEW R, Fits(R), Opened, Stored, NoDataZone \/ WriteDone
  PROVE  Opened' /\ Stored'
<1>1. PICK f, m, d, n : f = fp[cfd] /\ m = f.inode /\ d = f.dzi /\ n = d.count
  OBVIOUS
<1>2. /\ pc = "write" /\ doing = "add" /\ pc' = "idle" /\ StoreOK'
      /\ UNCHANGED <<zmap, zones, table, out>>
  BY WriteEnds
<1>3. /\ f \in Descriptor /\ f.used /\ m \in Inode /\ d \in Iterator /\ cfd \in Fd
      /\ Counting(f) /\ n \in Nat
  BY <1>1, <1>2, Caller DEF Iterator
<1>4. PICK g \in Descriptor, p \in BOOLEAN :
        /\ fp' = [fp EXCEPT ![cfd] = g]
        /\ \/ g = [f EXCEPT !.past = p] /\ NoDataZone
           \/ g = [f EXCEPT !.inode.blocks = n] /\ WriteDone
  BY <1>1, WriteEnds
<1>5. /\ g.used /\ g.inode_nr = f.inode_nr /\ g.dzi = d /\ g.inode.direct = m.direct
      /\ g.inode.ind1 = m.ind1 /\ g.inode.ind2 = m.ind2
  BY <1>1, <1>3, <1>4, OtherLength
<1>6. spoiled \subseteq spoiled'
  BY DEF NoDataZone, WriteDone
<1>7. f.inode_nr \notin spoiled' => g.inode.blocks = n
  <2>1. CASE NoDataZone /\ g = [f EXCEPT !.past = p]
    <3>1. g.inode = m
      BY <1>1, <1>3, <2>1 DEF Descriptor
    <3>2. f.inode_nr \notin spoiled' => n = m.blocks
      BY <1>1, <2>1 DEF NoDataZone
    <3> QED BY <3>1, <3>2
  <2>2. CASE g = [f EXCEPT !.inode.blocks = n]
    BY <1>1, <1>3, <2>2 DEF Descriptor, Inode
  <2> QED BY <1>4, <2>1, <2>2
<1>8. ASSUME f.inode_nr \notin spoiled' PROVE Resting(zones', g.inode, d)
  <2>1. InCall(zones, m, d, "write", "add")
    BY <1>1, <1>2, <1>3, <1>6, <1>8 DEF Opened, Sane
  <2>2. n + 0 = n
    BY <1>3
  <2>3. Shape(zones, m, n, n) /\ Copy1(zones, d) /\ Copy2(zones, d) /\ d.num <= n
        /\ On(zones, m, d)
    BY <1>1, <2>1, <2>2 DEF InCall
  <2>4. Shape(zones, g.inode, n, n) /\ On(zones, g.inode, d)
    BY <1>5, <2>3, SameZones DEF On
  <2>5. zones' = zones
    BY <1>2
  <2> QED BY <1>1, <1>7, <1>8, <2>3, <2>4, <2>5 DEF Resting
<1>9. UNCHANGED <<zones, table>> /\ pc # "idle"
  BY <1>2
<1> QED BY <1>1, <1>2, <1>4, <1>5, <1>6, <1>8, <1>9, CallOpened, SameKept

\* Every step leaves index zones that are right, and copies of them.
LEMMA NextShape ==
  ASSUME AllHabits, Types, Near, Alone, NEW R, Fits(R), Opened, Stored, [Next]_vars
  PROVE  Opened' /\ Stored'
<1>1. CASE UNCHANGED vars
  <2>1. UNCHANGED <<zones, itab, files, fp, pc, doing, cfd, spoiled>>
    BY <1>1 DEF vars, store, table, call
  <2>2. \A j : Sharing(j)' = Sharing(j)
    BY <2>1 DEF Sharing
  <2>3. Stored'
    BY <2>1, <2>2 DEF Stored
  <2>4. Opened'
    BY <2>1 DEF Opened, Sane
  <2> QED BY <2>3, <2>4
<1>2. ASSUME NEW i \in Files, my_creat(i) \/ my_open(i) \/ my_remove(i)
      PROVE  Opened' /\ Stored'
  BY <1>2, my_creatShape, my_openShape, my_removeShape
<1>3. ASSUME NEW fd \in Fd, my_close(fd) \/ ReadOn(fd) \/ my_write(fd)
      PROVE  Opened' /\ Stored'
  BY <1>3, my_closeShape, ReadOnShape, my_writeShape
<1>4. ASSUME NEW z \in Number, AddBlock(z) PROVE Opened' /\ Stored'
  BY <1>4, AddBlockShape
<1>5. ASSUME NEW z \in Number, BuildInd1(z) \/ BuildInd2(z) \/ BuildTable(z)
      PROVE  Opened' /\ Stored'
  BY <1>5, BuildIndShape, BuildTableShape
<1>6. CASE SaveTable \/ NoIndexZone \/ Arrive
  BY <1>6, SaveTableShape, NoIndexZoneShape, ArriveShape
<1>7. CASE ReadBlock \/ WriteBlock
  BY <1>7, ReadBlockShape, WriteBlockShape
<1>8. CASE NoDataZone \/ WriteDone
  BY <1>8, WriteEndsShape
<1> QED BY <1>1, <1>2, <1>3, <1>4, <1>5, <1>6, <1>7, <1>8 DEF Next

-----------------------------------------------------------------------------
(* The copies of index zones *)

\* The inductive invariant.
Sound == Types /\ Near /\ Alone /\ (\E R : Fits(R)) /\ Opened /\ Stored

\* It holds at first.
LEMMA InitSound == Init => Sound
<1> SUFFICES ASSUME Init PROVE Sound
  OBVIOUS
<1>1. Types
  BY InitTypes
<1>2. /\ zmap = {} /\ zones = [z \in Number |-> EmptyTable] /\ itab = [i \in Files |-> Fresh]
      /\ files = {} /\ fp = [fd \in Fd |-> Unused] /\ pc = "idle" /\ doing = "none" /\ new_zone = 0
  BY DEF Init
<1>3. Fresh.blocks = 0 /\ ~ Unused.used /\ Unused.dzi.num = 0
  BY DEF Fresh, Unused, MakeIterator
<1>4. Near /\ Alone
  <2>1. 0 < ShortMost
    BY Sizes DEF ShortMost
  <2> QED BY <1>2, <1>3, <2>1 DEF Near, Alone, Put
<1>5. \E R : Fits(R)
  <2>1. PICK R : R = [z \in Number |-> Nobody]
    OBVIOUS
  <2>2. TablesFit(R, zones)
    <3>1. \A z \in Number, i \in Files : R[z] # <<i, "ind1">> /\ R[z] # <<i, "ind2">>
      BY <2>1, Sizes DEF Nobody
    <3> QED BY <3>1 DEF TablesFit
  <2>3. \A fd \in Fd : FileFits(R, fp[fd])
    BY <1>2, <1>3 DEF FileFits
  <2>4. Fits(R)
    BY <1>2, <2>1, <2>2, <2>3 DEF Fits
  <2> QED BY <2>4
<1>6. Opened /\ Stored
  BY <1>2, <1>3 DEF Opened, Stored, Sane
<1> QED BY <1>1, <1>4, <1>5, <1>6 DEF Sound

\* Every step of clients with these habits keeps it.
LEMMA NextSound == AllHabits /\ Sound /\ [Next]_vars => Sound'
<1> SUFFICES ASSUME AllHabits, Sound, [Next]_vars PROVE Sound'
  OBVIOUS
<1>1. PICK R : Fits(R)
  BY DEF Sound
<1>2. Types'
  BY NextTypes DEF Sound
<1>3. Near'
  BY NextNear DEF Sound
<1>4. Alone'
  BY NextAlone DEF Sound
<1>5. \E S : Fits(S)'
  BY <1>1, NextFits DEF Sound
<1>6. Opened' /\ Stored'
  BY <1>1, NextShape DEF Sound
<1> QED BY <1>2, <1>3, <1>4, <1>5, <1>6 DEF Sound

\* So copies agree.
LEMMA CopiesSound == Sound => IndexCopiesAgree
<1> SUFFICES ASSUME Sound, NEW fd \in Fd, fp[fd].used, fp[fd].inode_nr \notin spoiled,
                    NEW d, d = fp[fd].dzi
             PROVE  /\ d.znum1 # 0 => d.zbuf1 = zones[d.znum1]
                    /\ d.znum2 # 0 /\ ~ (pc = "save" /\ cfd = fd) => d.zbuf2 = zones[d.znum2]
  BY DEF IndexCopiesAgree
<1>1. IF pc # "idle" /\ cfd = fd THEN InCall(zones, fp[fd].inode, d, pc, doing)
      ELSE Resting(zones, fp[fd].inode, d)
  BY DEF Sound, Opened, Sane
<1>2. Copy1(zones, d) /\ (~ (pc = "save" /\ cfd = fd) => Copy2(zones, d))
  BY <1>1 DEF InCall, Resting
<1> QED BY <1>2 DEF Copy1, Copy2

\* Clients with these habits: the copies of index zones an iterator goes by
\* agree with them, but those of a file that a refused zone has spoiled.
THEOREM DataZonesIndexCopiesAgree == AllHabits => (Spec => []IndexCopiesAgree)
<1> SUFFICES ASSUME AllHabits PROVE Spec => []IndexCopiesAgree
  OBVIOUS
<1>1. Sound /\ [Next]_vars => Sound'
  BY NextSound
<1> QED BY InitSound, <1>1, CopiesSound, PTL DEF Spec

-----------------------------------------------------------------------------
(* Whose zones are in use *)

\* Zone z can be reached from inode m, when zs is in the zones.
Owns(zs, m, z) ==
  /\ z # 0
  /\ \/ \E k \in 1 .. NR_DIRECT_ZONES : z = m.direct[k]
     \/ z = m.ind1 \/ z = m.ind2
     \/ m.ind1 # 0 /\ \E w \in Word : z = zs[m.ind1][w]
     \/ m.ind2 # 0 /\ \E w \in Word : z = zs[m.ind2][w]
     \/ m.ind2 # 0 /\ \E w, u \in Word : zs[m.ind2][w] # 0 /\ z = zs[zs[m.ind2][w]][u]

\* That is what Owned is the set of.
LEMMA OwnedOwns == \A m, z : z \in Owned(m) <=> Owns(zones, m, z)
<1> SUFFICES ASSUME NEW m, NEW z PROVE z \in Owned(m) <=> Owns(zones, m, z)
  OBVIOUS
<1>1. \A n, x : x \in Words(n) <=> n # 0 /\ x # 0 /\ \E w \in Word : x = zones[n][w]
  BY DEF Words
<1>2. z \in UNION {Words(t) : t \in Words(m.ind2)} <=> \E t \in Words(m.ind2) : z \in Words(t)
  OBVIOUS
<1>3. (\E t \in Words(m.ind2) : z \in Words(t)) <=>
         /\ m.ind2 # 0 /\ z # 0
         /\ \E w, u \in Word : zones[m.ind2][w] # 0 /\ z = zones[zones[m.ind2][w]][u]
  BY <1>1
<1>4. z \in Owned(m) <=>
         /\ z # 0
         /\ \/ \E k \in 1 .. NR_DIRECT_ZONES : z = m.direct[k]
            \/ z = m.ind1 \/ z = m.ind2
            \/ z \in Words(m.ind1) \/ z \in Words(m.ind2)
            \/ z \in UNION {Words(t) : t \in Words(m.ind2)}
  BY DEF Owned
<1> QED BY <1>1, <1>2, <1>3, <1>4 DEF Owns

\* The zones that can be reached from the inode of a file are the file's.
LEMMA OwnsFits ==
  ASSUME NEW zs \in [Number -> Table], NEW R, TablesFit(R, zs), NEW i \in Files,
         NEW m \in Inode, InodeFits(R, i, m), NEW z, Owns(zs, m, z)
  PROVE  z \in Number /\ \E k : R[z] = <<i, k>>
<1>1. \A n \in Zone : n # 0 => n \in Number
  BY Sizes DEF Zone, Number
<1>2. z # 0
  BY DEF Owns
<1>3. CASE \E k \in 1 .. NR_DIRECT_ZONES : z = m.direct[k]
  BY <1>1, <1>2, <1>3 DEF Inode, InodeFits
<1>4. CASE z = m.ind1 \/ z = m.ind2
  BY <1>1, <1>2, <1>4 DEF Inode, InodeFits
<1>5. \A n \in Zone : n # 0 => n \in Number /\ zs[n] \in Table
  BY <1>1
<1>6. m.ind1 \in Zone /\ m.ind2 \in Zone
  BY DEF Inode
<1>7. CASE m.ind1 # 0 /\ \E w \in Word : z = zs[m.ind1][w]
  <2>1. NamesData(R, i, zs[m.ind1]) /\ zs[m.ind1] \in Table
    BY <1>5, <1>6, <1>7 DEF InodeFits, TablesFit
  <2> QED BY <1>1, <1>2, <1>7, <2>1, WordType DEF NamesData
<1>8. m.ind2 # 0 => NamesTables(R, i, zs[m.ind2]) /\ zs[m.ind2] \in Table
  BY <1>5, <1>6 DEF InodeFits, TablesFit
<1>9. CASE m.ind2 # 0 /\ \E w \in Word : z = zs[m.ind2][w]
  BY <1>1, <1>2, <1>8, <1>9, WordType DEF NamesTables
<1>10. CASE m.ind2 # 0 /\ \E w, u \in Word : zs[m.ind2][w] # 0 /\ z = zs[zs[m.ind2][w]][u]
  <2>1. PICK w \in Word, u \in Word : zs[m.ind2][w] # 0 /\ z = zs[zs[m.ind2][w]][u]
    BY <1>10
  <2>2. PICK t : t = zs[m.ind2][w]
    OBVIOUS
  <2>3. t # 0 /\ t \in Number /\ R[t] = <<i, "ind1">> /\ zs[t] \in Table
    BY <1>1, <1>8, <1>10, <2>1, <2>2, WordType DEF NamesTables
  <2>4. NamesData(R, i, zs[t])
    BY <2>3 DEF TablesFit
  <2> QED BY <1>1, <1>2, <2>1, <2>2, <2>3, <2>4, WordType DEF NamesData
<1> QED BY <1>3, <1>4, <1>7, <1>9, <1>10 DEF Owns

\* They stay, when the index zones do.
LEMMA OwnsKept ==
  ASSUME NEW zs \in [Number -> Table], NEW zt \in [Number -> Table],
         NEW R, TablesFit(R, zs), NEW i \in Files, NEW m \in Inode,
         InodeFits(R, i, m), Kept(R, i, zs, zt), NEW z, Owns(zs, m, z)
  PROVE  Owns(zt, m, z)
<1>1. \A n \in Zone : n # 0 => n \in Number /\ zs[n] \in Table
  BY Sizes DEF Zone, Number
<1>2. m.ind1 \in Zone /\ m.ind2 \in Zone
  BY DEF Inode
<1>3. m.ind1 # 0 => zt[m.ind1] = zs[m.ind1]
  BY <1>1, <1>2 DEF InodeFits, Kept
<1>4. m.ind2 # 0 => zt[m.ind2] = zs[m.ind2] /\ zs[m.ind2] \in Table /\ NamesTables(R, i, zs[m.ind2])
  BY <1>1, <1>2 DEF InodeFits, Kept, TablesFit
<1>5. \A w \in Word : m.ind2 # 0 /\ zs[m.ind2][w] # 0 => zt[zs[m.ind2][w]] = zs[zs[m.ind2][w]]
  BY <1>1, <1>4, WordType DEF NamesTables, Kept
<1> QED BY <1>3, <1>4, <1>5 DEF Owns

\* Where a zone in use may be: with a call that has allocated it and has not
\* put it anywhere yet, or in a file.
Handed(z) ==
  \/ z # 0 /\ z = new_zone
  \/ pc = "save" /\ z = fp[cfd].dzi.zbuf2[0]
InFile(z) ==
  \/ \E i \in files : Sharing(i) = {} /\ Owns(zones, itab[i], z)
  \/ \E fd \in Fd : fp[fd].used /\ Owns(zones, fp[fd].inode, z)
Traced == \A z \in Number : z - 1 \in zmap => Handed(z) \/ InFile(z)

\* Unless a refused zone has spoiled a file, zones in use are where they may be ...
NoLeak == spoiled = {} => Traced

\* ... and descriptors of the same file have the same inode.
Pairs == spoiled = {} => \A c, d \in Fd :
  fp[c].used /\ fp[d].used /\ fp[c].inode_nr = fp[d].inode_nr => fp[c].inode = fp[d].inode

\* One descriptor is given another inode, which owns what the one before did.
LEMMA OneInFile ==
  ASSUME Types, StoreOK', NEW R, Fits(R), NEW fd \in Fd, NEW g, fp[fd].used,
         fp' = [fp EXCEPT ![fd] = g], g.used, g.inode_nr = fp[fd].inode_nr, UNCHANGED table,
         \A j \in Files : j # g.inode_nr => Kept(R, j, zones, zones'),
         \/ Kept(R, g.inode_nr, zones, zones')
         \/ \A c \in Fd : fp[c].used /\ fp[c].inode_nr = g.inode_nr => c = fd,
         NEW z, Owns(zones, fp[fd].inode, z) => Owns(zones', g.inode, z), InFile(z)
  PROVE  InFile(z)'
<1>1. \A c \in Fd : fp'[c] = IF c = fd THEN g ELSE fp[c]
  BY DEF Types
<1>2. UNCHANGED <<itab, files>> /\ files \subseteq Files
  BY DEF table, Types, TableOK
<1>3. zones \in [Number -> Table] /\ zones' \in [Number -> Table] /\ TablesFit(R, zones)
  BY DEF Types, StoreOK, Fits
<1>4. CASE \E i \in files : Sharing(i) = {} /\ Owns(zones, itab[i], z)
  <2>1. PICK i \in files : Sharing(i) = {} /\ Owns(zones, itab[i], z)
    BY <1>4
  <2>2. i # g.inode_nr /\ i \in Files /\ Sharing(i)' = {}
    BY <1>1, <1>2, <2>1 DEF Sharing
  <2>3. itab[i] \in Inode /\ InodeFits(R, i, itab[i])
    BY <2>2 DEF Types, TableOK, Fits
  <2>4. Owns(zones', itab[i], z)
    BY <1>3, <2>1, <2>2, <2>3, OwnsKept
  <2> QED BY <1>2, <2>2, <2>4 DEF InFile
<1>5. CASE \E c \in Fd : fp[c].used /\ Owns(zones, fp[c].inode, z)
  <2>1. PICK c \in Fd : fp[c].used /\ Owns(zones, fp[c].inode, z)
    BY <1>5
  <2>2. CASE c = fd
    BY <1>1, <2>1, <2>2 DEF InFile
  <2>3. CASE c # fd
    <3>1. fp[c].inode_nr \in Files /\ fp[c].inode \in Inode /\ InodeFits(R, fp[c].inode_nr, fp[c].inode)
      BY <2>1 DEF Types, Lengths, Counting, Descriptor, Fits, FileFits
    <3>2. Kept(R, fp[c].inode_nr, zones, zones')
      BY <2>1, <2>3, <3>1
    <3>3. Owns(zones', fp[c].inode, z)
      BY <1>3, <2>1, <3>1, <3>2, OwnsKept
    <3> QED BY <1>1, <2>1, <2>3, <3>3 DEF InFile
  <2> QED BY <2>2, <2>3
<1> QED BY <1>4, <1>5 DEF InFile

\* A call that makes one step of its own file loses no zone, if the file keeps
\* what it had and what the call had in hand is still there.
LEMMA OneNoLeak ==
  ASSUME Types, StoreOK', NEW R, Fits(R), NoLeak, Pairs, NEW fd \in Fd, NEW g, fp[fd].used,
         fp' = [fp EXCEPT ![fd] = g], g.used, g.inode_nr = fp[fd].inode_nr, UNCHANGED table,
         spoiled \subseteq spoiled',
         \A j \in Files : j # g.inode_nr => Kept(R, j, zones, zones'),
         spoiled' = {} =>
           /\ \/ Kept(R, g.inode_nr, zones, zones') /\ g.inode = fp[fd].inode
              \/ \A c \in Fd : fp[c].used /\ fp[c].inode_nr = g.inode_nr => c = fd
           /\ \A z \in Number :
                 /\ Owns(zones, fp[fd].inode, z) => Owns(zones', g.inode, z)
                 /\ z - 1 \in zmap' => z - 1 \in zmap \/ Handed(z)' \/ InFile(z)'
                 /\ Handed(z) => Handed(z)' \/ InFile(z)'
  PROVE  NoLeak' /\ Pairs'
<1>1. \A c \in Fd : fp'[c] = IF c = fd THEN g ELSE fp[c]
  BY DEF Types
<1>2. Pairs'
  <2>1. SUFFICES ASSUME spoiled' = {}, NEW c \in Fd, NEW d \in Fd, fp'[c].used, fp'[d].used,
                        fp'[c].inode_nr = fp'[d].inode_nr
                 PROVE  fp'[c].inode = fp'[d].inode
    BY DEF Pairs
  <2>2. fp[c].used /\ fp[d].used /\ fp[c].inode_nr = fp[d].inode_nr
    BY <1>1, <2>1
  <2>3. fp[c].inode = fp[d].inode
    BY <2>1, <2>2 DEF Pairs
  <2>4. CASE g.inode = fp[fd].inode
    BY <1>1, <2>3, <2>4
  <2>5. CASE \A e \in Fd : fp[e].used /\ fp[e].inode_nr = g.inode_nr => e = fd
    BY <1>1, <2>1, <2>2, <2>3, <2>5
  <2> QED BY <2>1, <2>4, <2>5
<1>3. NoLeak'
  <2>1. SUFFICES ASSUME spoiled' = {}, NEW z \in Number, z - 1 \in zmap'
                 PROVE  Handed(z)' \/ InFile(z)'
    BY DEF NoLeak, Traced
  <2>2. z - 1 \in zmap => Handed(z) \/ InFile(z)
    BY <2>1 DEF NoLeak, Traced
  <2>3. InFile(z) => InFile(z)'
    BY <2>1, OneInFile
  <2> QED BY <2>1, <2>2, <2>3
<1> QED BY <1>2, <1>3

\* A file that is made or is removed, when nothing is done with zones, inodes
\* and descriptors of others.
LEMMA TracedFile ==
  ASSUME Types, NoLeak, Pairs, spoiled = {}, NEW i \in Files, UNCHANGED <<zones, fp>>,
         pc = "idle",
         \A j \in Files : j # i => (j \in files <=> j \in files') /\ itab'[j] = itab[j],
         \A z \in Number : z - 1 \in zmap' => z - 1 \in zmap,
         i \in files => Sharing(i) = {} /\ \A z \in Number : Owns(zones, itab[i], z) => z - 1 \notin zmap'
  PROVE  Traced'
<1> SUFFICES ASSUME NEW z \in Number, z - 1 \in zmap' PROVE InFile(z)'
  BY DEF Traced
<1>1. InFile(z)
  <2>1. ~ Handed(z)
    BY DEF Handed, Types, CallOK
  <2> QED BY <2>1 DEF NoLeak, Traced
<1>2. \A j : Sharing(j)' = Sharing(j)
  BY DEF Sharing
<1>3. files \subseteq Files
  BY DEF Types, TableOK
<1>4. CASE \E j \in files : Sharing(j) = {} /\ Owns(zones, itab[j], z)
  <2>1. PICK j \in files : Sharing(j) = {} /\ Owns(zones, itab[j], z)
    BY <1>4
  <2>2. j # i
    BY <2>1
  <2> QED BY <1>2, <1>3, <2>1, <2>2 DEF InFile
<1>5. CASE \E fd \in Fd : fp[fd].used /\ Owns(zones, fp[fd].inode, z)
  BY <1>5 DEF InFile
<1> QED BY <1>1, <1>4, <1>5 DEF InFile

\* my_creat makes a file that has no zones.
LEMMA my_creatNoLeak ==
  ASSUME Types, NoLeak, Pairs, NEW i \in Files, my_creat(i)
  PROVE  NoLeak' /\ Pairs'
<1>1. /\ pc = "idle" /\ i \notin files
      /\ itab' = [itab EXCEPT ![i] = Fresh] /\ files' = files \cup {i}
      /\ UNCHANGED <<zmap, zones, fp, spoiled>>
  BY DEF my_creat, store, call
<1>2. \A j \in Files : j # i => (j \in files <=> j \in files') /\ itab'[j] = itab[j]
  BY <1>1 DEF Types, TableOK
<1>3. NoLeak'
  BY <1>1, <1>2, TracedFile DEF NoLeak
<1>4. Pairs'
  BY <1>1 DEF Pairs
<1> QED BY <1>3, <1>4

\* my_open makes a copy of the inode, which all that share the file have.
LEMMA my_openNoLeak ==
  ASSUME AllHabits, Types, NoLeak, Pairs, NEW i \in Files, my_open(i)
  PROVE  NoLeak' /\ Pairs'
<1>1. PICK fd \in Fd : /\ ~ fp[fd].used
         /\ fp' = [fp EXCEPT ![fd] =
                        [used |-> TRUE, inode_nr |-> i, inode |-> itab[i],
                         past |-> FALSE,
                         dzi |-> IF itab[i].blocks = 0 THEN MakeIterator(itab[i])
                                 ELSE Arrived(Placed(MakeIterator(itab[i]), 1), itab[i])]]
  BY DEF my_open
<1>2. /\ UNCHANGED <<zmap, zones, itab, files, pc, doing, cfd, spoiled>> /\ pc = "idle"
      /\ i \in files /\ OpenHabits(i)
  BY DEF my_open, store, table, call
<1>3. /\ fp'[fd].used /\ fp'[fd].inode_nr = i /\ fp'[fd].inode = itab[i]
      /\ \A c \in Fd : c # fd => fp'[c] = fp[c]
  BY <1>1 DEF Types
<1>4. \A c \in Fd : fp[c].used /\ fp[c].inode_nr = i => fp[c].inode = itab[i]
  BY <1>2 DEF OpenHabits, AllHabits, Sharing
<1>5. Pairs'
  BY <1>2, <1>3, <1>4 DEF Pairs
<1>6. NoLeak'
  <2>1. SUFFICES ASSUME spoiled = {}, NEW z \in Number, z - 1 \in zmap PROVE InFile(z)'
    BY <1>2 DEF NoLeak, Traced
  <2>2. InFile(z)
    <3>1. ~ Handed(z)
      BY <1>2 DEF Handed, Types, CallOK
    <3> QED BY <2>1, <3>1 DEF NoLeak, Traced
  <2>3. CASE \E c \in Fd : fp[c].used /\ Owns(zones, fp[c].inode, z)
    <3>1. PICK c \in Fd : fp[c].used /\ Owns(zones, fp[c].inode, z)
      BY <2>3
    <3>2. fp'[c] = fp[c]
      BY <1>1, <1>3, <3>1
    <3> QED BY <1>2, <3>1, <3>2 DEF InFile
  <2>4. CASE \E j \in files : Sharing(j) = {} /\ Owns(zones, itab[j], z)
    <3>1. PICK j \in files : Sharing(j) = {} /\ Owns(zones, itab[j], z)
      BY <2>4
    <3>2. CASE j = i
      BY <1>2, <1>3, <3>1, <3>2 DEF InFile
    <3>3. CASE j # i
      <4>1. Sharing(j)' = {}
        BY <1>3, <3>1, <3>3 DEF Sharing
      <4> QED BY <1>2, <3>1, <4>1 DEF InFile
    <3> QED BY <3>2, <3>3
  <2> QED BY <2>2, <2>3, <2>4 DEF InFile
<1> QED BY <1>5, <1>6

\* my_close puts the inode where it is found when no other descriptor has it.
LEMMA my_closeNoLeak ==
  ASSUME Types, NEW R, Fits(R), NoLeak, Pairs, NEW fd \in Fd, my_close(fd)
  PROVE  NoLeak' /\ Pairs'
<1>1. PICK f, i : f = fp[fd] /\ i = f.inode_nr
  OBVIOUS
<1>2. /\ pc = "idle" /\ f.used /\ itab' = [itab EXCEPT ![i] = f.inode]
      /\ fp' = [fp EXCEPT ![fd] = Unused]
      /\ UNCHANGED <<zmap, zones, files, pc, doing, cfd, spoiled>>
  BY <1>1 DEF my_close, store, call
<1>3. ~ fp'[fd].used /\ \A c \in Fd : c # fd => fp'[c] = fp[c]
  BY <1>2 DEF Types, Unused
<1>4. i \in files /\ files \subseteq Files
  BY <1>1, <1>2 DEF Fits, FileFits, Types, TableOK
<1>5. itab'[i] = f.inode /\ \A j \in Files : j # i => itab'[j] = itab[j]
  BY <1>2, <1>4 DEF Types, TableOK
<1>6. Pairs'
  BY <1>2, <1>3 DEF Pairs
<1>7. NoLeak'
  <2>1. SUFFICES ASSUME spoiled = {}, NEW z \in Number, z - 1 \in zmap PROVE InFile(z)'
    BY <1>2 DEF NoLeak, Traced
  <2>2. InFile(z)
    <3>1. ~ Handed(z)
      BY <1>2 DEF Handed, Types, CallOK
    <3> QED BY <2>1, <3>1 DEF NoLeak, Traced
  <2>3. CASE \E c \in Fd : fp[c].used /\ Owns(zones, fp[c].inode, z)
    <3>1. PICK c \in Fd : fp[c].used /\ Owns(zones, fp[c].inode, z)
      BY <2>3
    <3>2. CASE c # fd
      BY <1>2, <1>3, <3>1, <3>2 DEF InFile
    <3>3. CASE c = fd
      <4>1. CASE Sharing(i)' = {}
        <5>1. Owns(zones', itab'[i], z) /\ i \in files'
          BY <1>1, <1>2, <1>4, <1>5, <3>1, <3>3
        <5> QED BY <4>1, <5>1 DEF InFile
      <4>2. CASE Sharing(i)' # {}
        <5>1. PICK e \in Fd : fp'[e].used /\ fp'[e].inode_nr = i
          BY <4>2 DEF Sharing
        <5>2. e # fd /\ fp'[e] = fp[e]
          BY <1>3, <5>1
        <5>3. fp'[e].inode = f.inode
          BY <1>1, <1>2, <2>1, <5>1, <5>2 DEF Pairs
        <5> QED BY <1>1, <1>2, <3>1, <3>3, <5>1, <5>3 DEF InFile
      <4> QED BY <4>1, <4>2
    <3> QED BY <3>2, <3>3
  <2>4. CASE \E j \in files : Sharing(j) = {} /\ Owns(zones, itab[j], z)
    <3>1. PICK j \in files : Sharing(j) = {} /\ Owns(zones, itab[j], z)
      BY <2>4
    <3>2. j # i /\ j \in Files
      BY <1>1, <1>2, <1>4, <3>1 DEF Sharing
    <3>3. Sharing(j)' = {}
      BY <1>3, <3>1 DEF Sharing
    <3> QED BY <1>2, <1>5, <3>1, <3>2, <3>3 DEF InFile
  <2> QED BY <2>2, <2>3, <2>4 DEF InFile
<1> QED BY <1>6, <1>7

\* The zones of a short file are its index zones and those of its blocks.
BlockOrIndex(zs, m, n, z) ==
  /\ z # 0
  /\ \/ z = m.ind1 \/ z = m.ind2
     \/ m.ind2 # 0 /\ z = zs[m.ind2][0]
     \/ \E k \in 1 .. n : z = ZoneIn(zs, m, k)

LEMMA OwnsIndexed ==
  ASSUME NEW zs, NEW m \in Inode, NEW n \in Nat, NEW p, Shape(zs, m, n, p),
         NEW z, Owns(zs, m, z)
  PROVE  BlockOrIndex(zs, m, n, z)
<1>1. NR_DIRECT_ZONES \in Nat \ {0} /\ NR_IND1_ZONES \in Nat \ {0} /\ \A w \in Word : w \in Nat
  BY Sizes DEF Word
<1>2. z # 0
  BY DEF Owns
<1>3. CASE \E k \in 1 .. NR_DIRECT_ZONES : z = m.direct[k]
  <2>1. PICK k \in 1 .. NR_DIRECT_ZONES : z = m.direct[k]
    BY <1>3
  <2>2. k <= n
    BY <1>2, <2>1 DEF Shape, DirectShape
  <2>3. k \in 1 .. n /\ k <= NR_DIRECT_ZONES
    BY <1>1, <2>2
  <2>4. z = ZoneIn(zs, m, k)
    BY <2>1, <2>3 DEF ZoneIn
  <2> QED BY <1>2, <2>3, <2>4 DEF BlockOrIndex
<1>4. CASE z = m.ind1 \/ z = m.ind2
  BY <1>2, <1>4 DEF BlockOrIndex
<1>5. CASE m.ind1 # 0 /\ \E w \in Word : z = zs[m.ind1][w]
  <2>1. PICK w \in Word : z = zs[m.ind1][w]
    BY <1>5
  <2>2. w < n - NR_DIRECT_ZONES
    BY <1>2, <1>5, <2>1 DEF Shape, Ind1Shape, Full
  <2>3. PICK k : k = w + NR_DIRECT_ZONES + 1
    OBVIOUS
  <2>4. /\ k \in 1 .. n /\ ~ (k <= NR_DIRECT_ZONES) /\ k <= NR_DIRECT_ZONES + NR_IND1_ZONES
        /\ k - NR_DIRECT_ZONES - 1 = w
    BY <1>1, <2>2, <2>3, Sizes DEF Word
  <2>5. z = ZoneIn(zs, m, k)
    BY <1>5, <2>1, <2>4 DEF ZoneIn
  <2> QED BY <1>2, <2>4, <2>5 DEF BlockOrIndex
<1>6. m.ind2 # 0 => \A w \in Word : w # 0 => zs[m.ind2][w] = 0
  BY DEF Shape, Ind2Shape
<1>7. CASE m.ind2 # 0 /\ \E w \in Word : z = zs[m.ind2][w]
  BY <1>2, <1>6, <1>7 DEF BlockOrIndex
<1>8. CASE m.ind2 # 0 /\ \E w, u \in Word : zs[m.ind2][w] # 0 /\ z = zs[zs[m.ind2][w]][u]
  <2>1. PICK u \in Word : zs[m.ind2][0] # 0 /\ z = zs[zs[m.ind2][0]][u]
    BY <1>6, <1>8
  <2>2. u < n - NR_DIRECT_ZONES - NR_IND1_ZONES
    BY <1>2, <1>8, <2>1 DEF Shape, Ind2Shape, Full
  <2>3. PICK k : k = u + NR_DIRECT_ZONES + NR_IND1_ZONES + 1
    OBVIOUS
  <2>4. /\ k \in 1 .. n /\ ~ (k <= NR_DIRECT_ZONES) /\ ~ (k <= NR_DIRECT_ZONES + NR_IND1_ZONES)
        /\ k - NR_DIRECT_ZONES - NR_IND1_ZONES - 1 = u
    BY <1>1, <2>2, <2>3
  <2>5. z = ZoneIn(zs, m, k)
    BY <1>8, <2>1, <2>4 DEF ZoneIn
  <2> QED BY <1>2, <2>4, <2>5 DEF BlockOrIndex
<1> QED BY <1>3, <1>4, <1>5, <1>7, <1>8 DEF Owns

\* And the other way round.
LEMMA IndexedOwns ==
  ASSUME NEW zs, NEW m, NEW n \in Nat, n < ShortMost, NEW z, BlockOrIndex(zs, m, n, z)
  PROVE  Owns(zs, m, z)
<1>1. /\ NR_DIRECT_ZONES \in Nat \ {0} /\ NR_IND1_ZONES \in Nat \ {0} /\ 0 \in Word
      /\ NR_IND1_ZONES = U32_PER_BLOCK
  BY Sizes DEF Word
<1>2. z # 0
  BY DEF BlockOrIndex
<1>3. CASE z = m.ind1 \/ z = m.ind2 \/ (m.ind2 # 0 /\ z = zs[m.ind2][0])
  BY <1>1, <1>2, <1>3 DEF Owns
<1>4. CASE \E k \in 1 .. n : z = ZoneIn(zs, m, k)
  <2>1. PICK k \in 1 .. n : z = ZoneIn(zs, m, k)
    BY <1>4
  <2>2. CASE k <= NR_DIRECT_ZONES
    <3>1. k \in 1 .. NR_DIRECT_ZONES /\ z = m.direct[k]
      BY <1>1, <2>1, <2>2 DEF ZoneIn
    <3> QED BY <1>2, <3>1 DEF Owns
  <2>3. CASE ~ (k <= NR_DIRECT_ZONES) /\ k <= NR_DIRECT_ZONES + NR_IND1_ZONES
    <3>1. PICK w : w = k - NR_DIRECT_ZONES - 1
      OBVIOUS
    <3>2. w \in Word
      BY <1>1, <2>3, <3>1 DEF Word
    <3>3. m.ind1 # 0 /\ z = zs[m.ind1][w]
      BY <1>2, <2>1, <2>3, <3>1 DEF ZoneIn
    <3> QED BY <1>2, <3>2, <3>3 DEF Owns
  <2>4. CASE ~ (k <= NR_DIRECT_ZONES) /\ ~ (k <= NR_DIRECT_ZONES + NR_IND1_ZONES)
    <3>1. PICK w : w = k - NR_DIRECT_ZONES - NR_IND1_ZONES - 1
      OBVIOUS
    <3>2. w \in Word
      BY <1>1, <2>4, <3>1 DEF Word, ShortMost
    <3>3. m.ind2 # 0 /\ zs[m.ind2][0] # 0 /\ z = zs[zs[m.ind2][0]][w]
      BY <1>2, <2>1, <2>4, <3>1 DEF ZoneIn
    <3> QED BY <1>1, <1>2, <3>2, <3>3 DEF Owns
  <2> QED BY <2>2, <2>3, <2>4
<1> QED BY <1>3, <1>4 DEF BlockOrIndex

\* The words of an index zone that are not 0 are found one after the other.
LEMMA FullPrefix ==
  ASSUME NEW t, NEW n, Full(t, n), n \in Int, NEW w \in Word, t[w] # 0
  PROVE  w \in Prefix(t)
<1>1. w < n /\ w \in Nat
  BY Sizes DEF Full, Word
<1>2. \A u \in 0 .. w : u \in Word /\ u < n
  BY <1>1, Sizes DEF Word
<1> QED BY <1>2 DEF Prefix, Full

\* clear_data_zones finds all zones of a file that has those it needs.
LEMMA ClearedAll ==
  ASSUME Types, NEW m \in Inode, NEW n \in Nat, Shape(zones, m, n, n), NEW z, Owns(zones, m, z)
  PROVE  z \in Cleared(m)
<1>1. /\ NR_DIRECT_ZONES \in Nat \ {0} /\ NR_IND1_ZONES \in Nat \ {0} /\ 0 \in Word
      /\ NR_IND1_ZONES = U32_PER_BLOCK /\ \A w \in Word : w \in Nat
  BY Sizes DEF Word
<1>2. z # 0 /\ m.ind1 \in Zone /\ m.ind2 \in Zone
  BY DEF Owns, Inode
<1>3. \A t \in Zone : t # 0 => read_zone(t) = zones[t]
  BY DEF read_zone, Zone, Number
<1>4. \A k \in 1 .. NR_DIRECT_ZONES : m.direct[k] # 0 => k \in DirectPrefix(m)
  <2> SUFFICES ASSUME NEW k \in 1 .. NR_DIRECT_ZONES, m.direct[k] # 0 PROVE k \in DirectPrefix(m)
    OBVIOUS
  <2>1. k <= n
    BY DEF Shape, DirectShape
  <2>2. \A l \in 1 .. k : l \in 1 .. NR_DIRECT_ZONES /\ l <= n
    BY <1>1, <2>1
  <2>3. \A l \in 1 .. k : m.direct[l] # 0
    BY <2>2 DEF Shape, DirectShape
  <2> QED BY <2>3 DEF DirectPrefix
<1>5. (\E k \in 1 .. NR_DIRECT_ZONES : z = m.direct[k]) =>
        \E k \in DirectPrefix(m) : z = m.direct[k]
  BY <1>2, <1>4
<1>6. m.ind1 # 0 => DirectPrefix(m) = 1 .. NR_DIRECT_ZONES
  <2> SUFFICES ASSUME m.ind1 # 0 PROVE DirectPrefix(m) = 1 .. NR_DIRECT_ZONES
    OBVIOUS
  <2>1. n > NR_DIRECT_ZONES
    BY DEF Shape, Ind1Shape
  <2>2. \A k \in 1 .. NR_DIRECT_ZONES : k <= n
    BY <1>1, <2>1
  <2>3. \A k \in 1 .. NR_DIRECT_ZONES : m.direct[k] # 0
    BY <2>2 DEF Shape, DirectShape
  <2> QED BY <1>4, <2>3 DEF DirectPrefix
<1>7. m.ind2 # 0 => m.ind1 # 0
  <2> SUFFICES ASSUME m.ind2 # 0 PROVE m.ind1 # 0
    OBVIOUS
  <2>1. n > NR_DIRECT_ZONES + NR_IND1_ZONES
    BY DEF Shape, Ind2Shape
  <2>2. n > NR_DIRECT_ZONES
    BY <1>1, <2>1
  <2> QED BY <2>2 DEF Shape, Ind1Shape
<1>8. CASE \E k \in 1 .. NR_DIRECT_ZONES : z = m.direct[k]
  <2>1. z \in {m.direct[k] : k \in DirectPrefix(m)}
    BY <1>5, <1>8
  <2> QED BY <2>1 DEF Cleared
<1>9. m.ind1 # 0 => {m.ind1} \cup Named(read_zone(m.ind1)) \subseteq Cleared(m)
  BY <1>6 DEF Cleared
<1>10. m.ind2 # 0 => \A y : \/ y = m.ind2
                            \/ y \in Groups(read_zone(m.ind2))
                            \/ \E t \in Groups(read_zone(m.ind2)) : y \in Named(read_zone(t))
                            => y \in Cleared(m)
  BY <1>6, <1>7 DEF Cleared
<1>11. CASE z = m.ind1 \/ z = m.ind2
  BY <1>2, <1>9, <1>10, <1>11
<1>12. CASE m.ind1 # 0 /\ \E w \in Word : z = zones[m.ind1][w]
  <2>1. PICK w \in Word : z = zones[m.ind1][w]
    BY <1>12
  <2>2. Full(zones[m.ind1], n - NR_DIRECT_ZONES) /\ n - NR_DIRECT_ZONES \in Int
    BY <1>1, <1>12 DEF Shape, Ind1Shape
  <2>3. w \in Prefix(zones[m.ind1])
    BY <1>2, <2>1, <2>2, FullPrefix
  <2>4. z \in Named(read_zone(m.ind1))
    BY <1>2, <1>3, <1>12, <2>1, <2>3 DEF Named
  <2> QED BY <1>9, <1>12, <2>4
<1>13. ASSUME m.ind2 # 0
       PROVE  /\ zones[m.ind2][0] # 0 /\ zones[m.ind2][0] \in Zone
              /\ zones[m.ind2][0] \in Groups(read_zone(m.ind2))
              /\ \A w \in Word : w # 0 => zones[m.ind2][w] = 0
  <2>1. n > NR_DIRECT_ZONES + NR_IND1_ZONES
    BY <1>13 DEF Shape, Ind2Shape
  <2>2. zones[m.ind2][0] # 0 /\ \A w \in Word : w # 0 => zones[m.ind2][w] = 0
    BY <1>13, <2>1 DEF Shape, Ind2Shape
  <2>3. m.ind2 \in Number
    BY <1>2, <1>13 DEF Zone, Number
  <2>4. PICK t : t = zones[m.ind2]
    OBVIOUS
  <2>5. t \in Table /\ read_zone(m.ind2) = t /\ t[0] # 0
    BY <1>2, <1>3, <1>13, <2>2, <2>3, <2>4 DEF Types, StoreOK
  <2>6. t[0] \in Zone
    BY <1>1, <2>5, WordType
  <2>7. 0 \in Prefix(t)
    <3>1. \A u \in 0 .. 0 : u = 0
      OBVIOUS
    <3> QED BY <1>1, <2>5, <3>1 DEF Prefix
  <2>8. \A u \in 0 .. 0 - 1 : Prefix(read_zone(t[u])) = Word
    OBVIOUS
  <2>9. t[0] \in Groups(t)
    BY <2>7, <2>8 DEF Groups
  <2> QED BY <2>2, <2>4, <2>5, <2>6, <2>9
<1>14. CASE m.ind2 # 0 /\ \E w \in Word : z = zones[m.ind2][w]
  <2>1. z = zones[m.ind2][0]
    BY <1>2, <1>13, <1>14
  <2> QED BY <1>10, <1>13, <1>14, <2>1
<1>15. CASE m.ind2 # 0 /\ \E w, u \in Word : zones[m.ind2][w] # 0 /\ z = zones[zones[m.ind2][w]][u]
  <2>1. PICK u \in Word : z = zones[zones[m.ind2][0]][u]
    BY <1>13, <1>15
  <2>2. PICK t : t = zones[m.ind2][0]
    OBVIOUS
  <2>3. Full(zones[t], n - NR_DIRECT_ZONES - NR_IND1_ZONES)
    BY <1>13, <1>15, <2>2 DEF Shape, Ind2Shape
  <2>4. n - NR_DIRECT_ZONES - NR_IND1_ZONES \in Int
    BY <1>1
  <2>5. u \in Prefix(zones[t])
    BY <1>2, <2>1, <2>2, <2>3, <2>4, FullPrefix
  <2>6. z \in Named(read_zone(t))
    BY <1>3, <1>13, <1>15, <2>1, <2>2, <2>5 DEF Named
  <2>7. t \in Groups(read_zone(m.ind2))
    BY <1>13, <1>15, <2>2
  <2> QED BY <1>10, <1>15, <2>6, <2>7
<1> QED BY <1>8, <1>11, <1>12, <1>14, <1>15 DEF Owns

\* my_remove frees all that the file has.
LEMMA my_removeNoLeak ==
  ASSUME AllHabits, Types, Stored, NoLeak, Pairs, NEW i \in Files, my_remove(i)
  PROVE  NoLeak' /\ Pairs'
<1>1. /\ files' = files \ {i} /\ zmap' = zmap \ {z - 1 : z \in Cleared(itab[i])}
      /\ UNCHANGED <<zones, itab, fp, spoiled>> /\ i \in files
      /\ Sharing(i) = {} /\ pc = "idle"
  BY DEF my_remove, RemoveHabits, AllHabits, call
<1>2. \A j \in Files : j # i => (j \in files <=> j \in files') /\ itab'[j] = itab[j]
  BY <1>1
<1>3. \A z \in Number : z - 1 \in zmap' => z - 1 \in zmap
  BY <1>1
<1>4. NoLeak'
  <2>1. SUFFICES ASSUME spoiled = {} PROVE Traced'
    BY <1>1 DEF NoLeak
  <2>2. itab[i] \in Inode /\ itab[i].blocks \in Nat
    BY DEF Types, TableOK, Inode
  <2>3. Shape(zones, itab[i], itab[i].blocks, itab[i].blocks)
    BY <1>1, <2>1 DEF Stored
  <2>4. \A z \in Number : Owns(zones, itab[i], z) => z - 1 \notin zmap'
    BY <1>1, <2>2, <2>3, ClearedAll
  <2> QED BY <1>1, <1>2, <1>3, <2>1, <2>4, TracedFile
<1>5. Pairs'
  BY <1>1 DEF Pairs
<1> QED BY <1>4, <1>5

\* A step of a call that leaves the inode of its file and all zones alone.
LEMMA QuietNoLeak ==
  ASSUME Types, StoreOK', NEW R, Fits(R), NoLeak, Pairs, NEW fd \in Fd, NEW g, fp[fd].used,
         fp' = [fp EXCEPT ![fd] = g], g.used, g.inode_nr = fp[fd].inode_nr,
         g.inode = fp[fd].inode, UNCHANGED <<zones, zmap, table, spoiled>>,
         \A z \in Number : Handed(z) => Handed(z)'
  PROVE  NoLeak' /\ Pairs'
<1>1. \A j : Kept(R, j, zones, zones')
  BY SameKept
<1>2. \A z \in Number : Owns(zones, fp[fd].inode, z) => Owns(zones', g.inode, z)
  OBVIOUS
<1>3. spoiled' = {} =>
           /\ \/ Kept(R, g.inode_nr, zones, zones') /\ g.inode = fp[fd].inode
              \/ \A c \in Fd : fp[c].used /\ fp[c].inode_nr = g.inode_nr => c = fd
           /\ \A z \in Number :
                 /\ Owns(zones, fp[fd].inode, z) => Owns(zones', g.inode, z)
                 /\ z - 1 \in zmap' => z - 1 \in zmap \/ Handed(z)' \/ InFile(z)'
                 /\ Handed(z) => Handed(z)' \/ InFile(z)'
  BY <1>1, <1>2
<1>4. spoiled \subseteq spoiled' /\ \A j \in Files : j # g.inode_nr => Kept(R, j, zones, zones')
  BY <1>1
<1> QED BY <1>3, <1>4, OneNoLeak

\* ReadOn is such a step.
LEMMA ReadOnNoLeak ==
  ASSUME Types, NEW R, Fits(R), NoLeak, Pairs, NEW fd \in Fd, ReadOn(fd)
  PROVE  NoLeak' /\ Pairs'
<1>1. PICK f, k : f = fp[fd] /\ k = f.dzi.num + 1
  OBVIOUS
<1>2. PICK g : g = [f EXCEPT !.dzi = Placed(@, k)]
  OBVIOUS
<1>3. /\ f \in Descriptor /\ f.used /\ Counting(f) /\ f.dzi.num < f.inode.blocks
      /\ fp' = [fp EXCEPT ![fd] = g] /\ pc = "idle"
      /\ UNCHANGED <<zmap, last_free_zone_num, zones, table, spoiled>>
  BY <1>1, <1>2 DEF Types, Lengths, ReadOn, store
<1>4. k \in 1 .. Most
  <2>1. /\ f.dzi.num \in Nat /\ f.inode.blocks \in Nat /\ f.dzi.count \in Nat
        /\ f.inode.blocks <= f.dzi.count
        /\ f.dzi.count <= MaxBlocks[f.inode_nr] /\ f.inode_nr \in Files
    BY <1>3 DEF Descriptor, Iterator, Inode, Counting
  <2>2. MaxBlocks[f.inode_nr] \in 0 .. Most /\ Most \in Nat
    BY <2>1, Bounds
  <2> QED BY <1>1, <1>3, <2>1, <2>2
<1>5. g.used /\ g.inode_nr = f.inode_nr /\ g.inode = f.inode
  BY <1>2, <1>3, <1>4, SentParts DEF Descriptor
<1>6. StoreOK'
  BY <1>3 DEF Types, StoreOK
<1>7. \A z \in Number : ~ Handed(z)
  BY <1>3 DEF Handed, Types, CallOK
<1> QED BY <1>1, <1>3, <1>5, <1>6, <1>7, QuietNoLeak

\* AddBlock has the zone it allocates in hand.
LEMMA AddBlockNoLeak ==
  ASSUME Types, NEW R, Fits(R), NoLeak, Pairs, NEW n \in Number, AddBlock(n)
  PROVE  NoLeak' /\ Pairs'
<1>1. PICK f, k : f = fp[cfd] /\ k = f.dzi.count + 1
  OBVIOUS
<1>2. PICK g : g = [f EXCEPT !.dzi = Placed(@, k)]
  OBVIOUS
<1>3. /\ fp' = [fp EXCEPT ![cfd] = g] /\ new_zone' = n /\ pc = "write"
      /\ UNCHANGED <<table, spoiled>> /\ ZMap!alloc_zone(n)
      /\ f.dzi.count < MaxBlocks[f.inode_nr]
  BY <1>1, <1>2 DEF Types, AddBlock, Writing, Room
<1>0. /\ f \in Descriptor /\ f.used /\ Counting(f) /\ f.inode_nr \in Files /\ cfd \in Fd
       /\ f.dzi.count \in Nat
  BY <1>1, <1>3, Caller DEF Iterator
<1>4. k \in 1 .. Most
  <2>1. MaxBlocks[f.inode_nr] \in 0 .. Most /\ Most \in Nat
    BY <1>0, Bounds
  <2> QED BY <1>1, <1>3, <1>0, <2>1
<1>5. /\ g.used /\ g.inode_nr = f.inode_nr /\ g.inode = f.inode /\ f.inode \in Inode
      /\ f.inode_nr \in Files /\ InodeFits(R, f.inode_nr, f.inode)
  BY <1>1, <1>2, <1>0, <1>4, SentParts DEF Descriptor, Fits, FileFits
<1>6. n \in Zone
  BY Sizes DEF Zone, Number
<1>7. /\ StoreOK' /\ \A i \in Files : Kept(R, i, zones, zones')
      /\ zmap' = zmap \cup {n - 1}
  BY <1>3, <1>6, AllocTypes, AllocKept, AllocFits DEF Types
<1>8. zones \in [Number -> Table] /\ zones' \in [Number -> Table] /\ TablesFit(R, zones)
  BY <1>7 DEF Types, StoreOK, Fits
<1>9. \A z \in Number : Owns(zones, f.inode, z) => Owns(zones', g.inode, z)
  BY <1>5, <1>7, <1>8, OwnsKept
<1>10. \A z \in Number : ~ Handed(z)
  BY <1>3 DEF Handed, Types, CallOK
<1>11. \A z \in Number : z - 1 \in zmap' => z - 1 \in zmap \/ Handed(z)'
  <2> SUFFICES ASSUME NEW z \in Number, z - 1 \in zmap', z - 1 \notin zmap PROVE Handed(z)'
    OBVIOUS
  <2>1. z - 1 = n - 1
    BY <1>7
  <2>2. z = n /\ z # 0
    BY <2>1, Sizes DEF Number
  <2> QED BY <1>3, <2>2 DEF Handed
<1>12. Kept(R, g.inode_nr, zones, zones') /\ g.inode = f.inode
  BY <1>5, <1>7
<1>13. \A j \in Files : j # g.inode_nr => Kept(R, j, zones, zones')
  BY <1>7
<1>14. spoiled' = {} =>
           /\ \/ Kept(R, g.inode_nr, zones, zones') /\ g.inode = fp[cfd].inode
              \/ \A c \in Fd : fp[c].used /\ fp[c].inode_nr = g.inode_nr => c = cfd
           /\ \A z \in Number :
                 /\ Owns(zones, fp[cfd].inode, z) => Owns(zones', g.inode, z)
                 /\ z - 1 \in zmap' => z - 1 \in zmap \/ Handed(z)' \/ InFile(z)'
                 /\ Handed(z) => Handed(z)' \/ InFile(z)'
  BY <1>1, <1>9, <1>10, <1>11, <1>12
<1>15. spoiled \subseteq spoiled'
  BY <1>3
<1> QED BY <1>1, <1>3, <1>0, <1>5, <1>7, <1>13, <1>14, <1>15, OneNoLeak

\* my_write writes to a zone of data.
LEMMA my_writeNoLeak ==
  ASSUME Types, NEW R, Fits(R), NoLeak, Pairs, NEW fd \in Fd, my_write(fd)
  PROVE  NoLeak' /\ Pairs'
<1>1. PICK f, n : f = fp[fd] /\ n = f.dzi.znum
  OBVIOUS
<1>2. /\ pc = "idle" /\ f.used /\ UNCHANGED <<table, fp, spoiled>>
  BY <1>1 DEF my_write
<1>3. /\ f.dzi \in Iterator /\ f.inode \in Inode /\ f.inode_nr \in Files
      /\ Within(f.dzi) /\ FileFits(R, f)
  BY <1>1, <1>2 DEF Types, Lengths, Counting, Descriptor, Fits
<1>4. /\ StoreOK' /\ UNCHANGED zmap
      /\ \A j \in Files : Kept(R, j, zones, zones')
  <2>1. CASE n = 0
    <3>1. UNCHANGED <<zmap, last_free_zone_num, zones>>
      BY <1>1, <2>1 DEF my_write, store
    <3> QED BY <3>1, SameKept DEF Types, StoreOK
  <2>2. CASE n # 0
    <3>1. /\ n \in Number /\ R[n] = <<f.inode_nr, "data">>
          /\ f.dzi.num \in 0 .. Most /\ f.dzi.num # 0
      BY <1>1, <1>2, <1>3, <2>2 DEF Iterator, Zone, Number, FileFits, IteratorFits, Within
    <3>2. PICK t \in Data[f.dzi.num] : ZMap!write_zone(n, t)
      BY <1>1, <2>2 DEF my_write
    <3>3. t \in Table
      BY <3>1, <3>2, DataType
    <3>4. /\ StoreOK' /\ zones' = [zones EXCEPT ![n] = t] /\ UNCHANGED zmap
      BY <3>1, <3>2, <3>3, WriteTypes DEF Types
    <3>5. \A j \in Files : R[n] # <<j, "ind1">> /\ R[n] # <<j, "ind2">>
      BY <3>1
    <3> QED BY <3>1, <3>4, <3>5, WrittenKept DEF Types, StoreOK
  <2> QED BY <2>1, <2>2
<1>5. zones \in [Number -> Table] /\ zones' \in [Number -> Table] /\ TablesFit(R, zones)
  BY <1>4 DEF Types, StoreOK, Fits
<1>6. fp' = [fp EXCEPT ![fd] = f]
  BY <1>1, <1>2 DEF Types
<1>7. InodeFits(R, f.inode_nr, f.inode)
  BY <1>2, <1>3 DEF FileFits
<1>8. \A z \in Number : Owns(zones, f.inode, z) => Owns(zones', f.inode, z)
  BY <1>3, <1>4, <1>5, <1>7, OwnsKept
<1>9. \A z \in Number : ~ Handed(z)
  BY <1>2 DEF Handed, Types, CallOK
<1>10. spoiled' = {} =>
           /\ \/ Kept(R, f.inode_nr, zones, zones') /\ f.inode = fp[fd].inode
              \/ \A c \in Fd : fp[c].used /\ fp[c].inode_nr = f.inode_nr => c = fd
           /\ \A z \in Number :
                 /\ Owns(zones, fp[fd].inode, z) => Owns(zones', f.inode, z)
                 /\ z - 1 \in zmap' => z - 1 \in zmap \/ Handed(z)' \/ InFile(z)'
                 /\ Handed(z) => Handed(z)' \/ InFile(z)'
  BY <1>1, <1>3, <1>4, <1>8, <1>9
<1>11. spoiled \subseteq spoiled' /\ \A j \in Files : j # f.inode_nr => Kept(R, j, zones, zones')
  BY <1>2, <1>4
<1> QED BY <1>1, <1>2, <1>4, <1>6, <1>10, <1>11, OneNoLeak

\* Arrive and ReadBlock leave all zones alone.
LEMMA ArriveNoLeak ==
  ASSUME Types, NEW R, Fits(R), NoLeak, Pairs, Arrive \/ ReadBlock
  PROVE  NoLeak' /\ Pairs'
<1>1. PICK f, m, d, e : f = fp[cfd] /\ m = f.inode /\ d = f.dzi /\ e = Arrived(d, m)
  OBVIOUS
<1>2. /\ pc # "idle" /\ UNCHANGED <<zones, zmap, last_free_zone_num, table, spoiled>>
  BY DEF Arrive, ReadBlock, Moving, store
<1>3. /\ f \in Descriptor /\ f.used /\ m \in Inode /\ d \in Iterator /\ Within(d) /\ cfd \in Fd
  BY <1>1, <1>2, Caller
<1>4. StoreOK'
  BY <1>2 DEF Types, StoreOK
<1>5. CASE Arrive
  <2>1. e \in Iterator
    BY <1>1, <1>3, ArrivedType DEF Types
  <2>2. PICK g : g = [f EXCEPT !.dzi = e]
    OBVIOUS
  <2>3. g.used /\ g.inode_nr = f.inode_nr /\ g.inode = m
    BY <1>1, <1>3, <2>1, <2>2, NewIterator
  <2>4. fp' = [fp EXCEPT ![cfd] = g] /\ pc = "move" /\ UNCHANGED <<doing, new_zone>>
    BY <1>1, <1>3, <1>5, <2>2 DEF Types, Arrive, Moving
  <2>5. \A z \in Number : Handed(z) => Handed(z)'
    BY <2>4 DEF Handed
  <2> QED BY <1>1, <1>2, <1>3, <1>4, <2>3, <2>4, <2>5, QuietNoLeak
<1>6. CASE ReadBlock
  <2>1. fp' = [fp EXCEPT ![cfd] = f]
    BY <1>1, <1>3, <1>6 DEF Types, ReadBlock
  <2>2. \A z \in Number : ~ Handed(z)
    BY <1>6 DEF Handed, ReadBlock, Types, CallOK
  <2> QED BY <1>1, <1>2, <1>3, <1>4, <2>1, <2>2, QuietNoLeak
<1> QED BY <1>5, <1>6

\* NoIndexZone is where zones may be lost.
LEMMA NoIndexZoneNoLeak ==
  ASSUME Types, NoIndexZone
  PROVE  NoLeak' /\ Pairs'
BY DEF NoIndexZone, NoLeak, Pairs

\* BuildInd1 and BuildInd2 give the zone they allocate to the file.
LEMMA BuildIndNoLeak ==
  ASSUME Types, Near, Alone, Opened, NEW R, Fits(R), NoLeak, Pairs, NEW n \in Number,
         BuildInd1(n) \/ BuildInd2(n)
  PROVE  NoLeak' /\ Pairs'
<1>1. PICK f, i, d : f = fp[cfd] /\ i = f.inode_nr /\ d = f.dzi
  OBVIOUS
<1>2. PICK g, k : \/ g = [f EXCEPT !.inode.ind1 = n] /\ k = "ind1" /\ BuildInd1(n)
                  \/ g = [f EXCEPT !.inode.ind2 = n] /\ k = "ind2" /\ BuildInd2(n)
  OBVIOUS
<1>3. /\ pc = "move" /\ ZMap!alloc_zone(n) /\ UNCHANGED <<table, call, spoiled>>
      /\ fp' = [fp EXCEPT ![cfd] = g]
  BY <1>1, <1>2 DEF BuildInd1, BuildInd2, Moving, Types
<1>4. /\ f \in Descriptor /\ f.used /\ f.inode \in Inode /\ i \in Files /\ cfd \in Fd
      /\ InodeFits(R, i, f.inode)
  BY <1>1, <1>3, Caller DEF Fits, FileFits
<1>5. n \in Zone /\ n # 0
  BY Sizes DEF Zone, Number
<1>6. /\ StoreOK' /\ zmap' = zmap \cup {n - 1} /\ \A j \in Files : Kept(R, j, zones, zones')
  BY <1>3, <1>5, AllocTypes, AllocKept, AllocFits DEF Types
<1>7. zones \in [Number -> Table] /\ zones' \in [Number -> Table] /\ TablesFit(R, zones)
  BY <1>6 DEF Types, StoreOK, Fits
<1>8. PICK m : /\ g = [f EXCEPT !.inode = m] /\ m.direct = f.inode.direct
               /\ \/ m.ind1 = n /\ m.ind2 = f.inode.ind2 /\ f.inode.ind1 = 0
                  \/ m.ind2 = n /\ m.ind1 = f.inode.ind1 /\ f.inode.ind2 = 0
  <2>1. CASE g = [f EXCEPT !.inode.ind1 = n] /\ BuildInd1(n)
    <3>1. PICK m : m = [f.inode EXCEPT !.ind1 = n]
      OBVIOUS
    <3>2. m.ind1 = n /\ m.ind2 = f.inode.ind2 /\ m.direct = f.inode.direct
      BY <1>4, <1>5, <3>1 DEF Inode
    <3>3. g = [f EXCEPT !.inode = m]
      BY <2>1, <3>1
    <3>4. f.inode.ind1 = 0
      BY <1>1, <2>1, MissingParts DEF BuildInd1, Lacks
    <3> QED BY <3>2, <3>3, <3>4
  <2>2. CASE g = [f EXCEPT !.inode.ind2 = n] /\ BuildInd2(n)
    <3>1. PICK m : m = [f.inode EXCEPT !.ind2 = n]
      OBVIOUS
    <3>2. m.ind2 = n /\ m.ind1 = f.inode.ind1 /\ m.direct = f.inode.direct
      BY <1>4, <1>5, <3>1 DEF Inode
    <3>3. g = [f EXCEPT !.inode = m]
      BY <2>2, <3>1
    <3>4. f.inode.ind2 = 0
      BY <1>1, <2>2, MissingParts DEF BuildInd2, Lacks
    <3> QED BY <3>2, <3>3, <3>4
  <2> QED BY <1>2, <2>1, <2>2
<1>9. g.used /\ g.inode_nr = i /\ g.inode = m
  BY <1>1, <1>4, <1>8 DEF Descriptor
<1>10. \A z \in Number : Owns(zones, f.inode, z) => Owns(zones', g.inode, z)
  <2> SUFFICES ASSUME NEW z \in Number, Owns(zones, f.inode, z) PROVE Owns(zones', m, z)
    BY <1>9
  <2>1. Owns(zones', f.inode, z)
    BY <1>4, <1>6, <1>7, OwnsKept
  <2> QED BY <1>8, <2>1 DEF Owns
<1>11. Owns(zones', m, n)
  BY <1>5, <1>8 DEF Owns
<1>12. \A z \in Number : z - 1 \in zmap' => z - 1 \in zmap \/ InFile(z)'
  <2> SUFFICES ASSUME NEW z \in Number, z - 1 \in zmap', z - 1 \notin zmap PROVE InFile(z)'
    OBVIOUS
  <2>1. z - 1 = n - 1
    BY <1>6
  <2>2. z = n
    BY <2>1, Sizes DEF Number
  <2>3. fp'[cfd] = g
    BY <1>3, <1>4 DEF Types
  <2> QED BY <1>4, <1>9, <1>11, <2>2, <2>3 DEF InFile
<1>13. \A z \in Number : Handed(z) => Handed(z)'
  BY <1>3 DEF Handed, call
<1>14. spoiled' = {} => \A c \in Fd : fp[c].used /\ fp[c].inode_nr = g.inode_nr => c = cfd
  <2> SUFFICES ASSUME spoiled = {}
               PROVE  \A c \in Fd : fp[c].used /\ fp[c].inode_nr = g.inode_nr => c = cfd
    BY <1>3
  <2>1. ~ Lacks("none")
    BY <1>2 DEF Lacks, BuildInd1, BuildInd2
  <2>2. doing = "add"
    BY <1>3, <2>1, OnlyAddsLack
  <2> QED BY <1>1, <1>9, <2>2 DEF Alone
<1>15. spoiled' = {} =>
           /\ \/ Kept(R, g.inode_nr, zones, zones') /\ g.inode = fp[cfd].inode
              \/ \A c \in Fd : fp[c].used /\ fp[c].inode_nr = g.inode_nr => c = cfd
           /\ \A z \in Number :
                 /\ Owns(zones, fp[cfd].inode, z) => Owns(zones', g.inode, z)
                 /\ z - 1 \in zmap' => z - 1 \in zmap \/ Handed(z)' \/ InFile(z)'
                 /\ Handed(z) => Handed(z)' \/ InFile(z)'
  BY <1>1, <1>10, <1>12, <1>13, <1>14
<1>16. spoiled \subseteq spoiled' /\ \A j \in Files : j # g.inode_nr => Kept(R, j, zones, zones')
  BY <1>3, <1>6
<1> QED BY <1>1, <1>3, <1>4, <1>6, <1>9, <1>15, <1>16, OneNoLeak

\* BuildTable has the zone in hand until SaveTable.
LEMMA BuildTableNoLeak ==
  ASSUME Types, Near, NEW R, Fits(R), NoLeak, Pairs, NEW n \in Number, BuildTable(n)
  PROVE  NoLeak' /\ Pairs'
<1>1. PICK f, d, e, i, m : /\ f = fp[cfd] /\ m = f.inode /\ d = ReadAt2(f.dzi, m.ind2)
                           /\ e = [d EXCEPT !.zbuf2[d.index2] = n] /\ i = f.inode_nr
  OBVIOUS
<1>2. /\ pc = "move" /\ ZMap!alloc_zone(n) /\ Lacks("table") /\ pc' = "save"
      /\ UNCHANGED <<table, doing, cfd, new_zone, out, spoiled>>
      /\ fp' = [fp EXCEPT ![cfd].dzi = e]
  BY <1>1 DEF BuildTable, Moving
<1>3. /\ f \in Descriptor /\ f.used /\ m \in Inode /\ f.dzi \in Iterator
      /\ i \in Files /\ cfd \in Fd /\ InodeFits(R, i, m) /\ f.dzi.num # 0 /\ Put(f.dzi)
  BY <1>1, <1>2, Caller DEF Fits, Near, FileFits
<1>4. n \in Zone /\ n # 0 /\ n \in 0 .. ZoneBits
  BY Sizes DEF Zone, Number
<1>5. /\ StoreOK' /\ zmap' = zmap \cup {n - 1} /\ \A j \in Files : Kept(R, j, zones, zones')
  BY <1>2, <1>4, AllocTypes, AllocKept, AllocFits DEF Types
<1>6. zones \in [Number -> Table] /\ zones' \in [Number -> Table] /\ TablesFit(R, zones)
  BY <1>5 DEF Types, StoreOK, Fits
<1>7. f.dzi.place = "ind2" /\ m.ind2 \in Zone
  BY <1>1, <1>2, <1>3, MissingParts DEF Lacks, Inode
<1>8. d \in Iterator /\ d.index2 = f.dzi.index2
  BY <1>1, <1>3, <1>7, ReadAtParts DEF Types
<1>9. d.index2 = 0 /\ 0 \in Word
  <2>1. f.dzi.index2 = 0
    BY <1>3, <1>7, PutWords
  <2> QED BY <1>8, <2>1, Sizes DEF Word
<1>10. e \in Iterator /\ e.zbuf2[0] = n
  <2>1. PICK t : t = [d.zbuf2 EXCEPT ![0] = n]
    OBVIOUS
  <2>2. t \in Table /\ t[0] = n
    BY <1>4, <1>8, <1>9, <2>1 DEF Iterator, Table
  <2>3. e = [d EXCEPT !.zbuf2 = t]
    BY <1>1, <1>9, <2>1
  <2> QED BY <1>8, <2>2, <2>3 DEF Iterator
<1>11. PICK g : g = [f EXCEPT !.dzi = e]
  OBVIOUS
<1>12. g.used /\ g.inode_nr = i /\ g.inode = m /\ g.dzi = e
  <2>1. f \in Descriptor /\ e \in Iterator /\ f.used /\ f.inode_nr = i
    BY <1>1, <1>3, <1>10
  <2>2. /\ g \in Descriptor /\ g.used = f.used /\ g.inode_nr = f.inode_nr
        /\ g.inode = f.inode /\ g.dzi = e
    BY <1>11, <2>1 DEF Descriptor
  <2> QED BY <1>1, <2>1, <2>2
<1>13. fp' = [fp EXCEPT ![cfd] = g] /\ fp'[cfd] = g
  BY <1>1, <1>2, <1>3, <1>11 DEF Types
<1>14. \A z \in Number : Owns(zones, m, z) => Owns(zones', g.inode, z)
  BY <1>3, <1>5, <1>6, <1>12, OwnsKept
<1>15. \A z \in Number : z - 1 \in zmap' => z - 1 \in zmap \/ Handed(z)'
  <2> SUFFICES ASSUME NEW z \in Number, z - 1 \in zmap', z - 1 \notin zmap PROVE Handed(z)'
    OBVIOUS
  <2>1. z - 1 = n - 1
    BY <1>5
  <2>2. z = n
    BY <2>1, Sizes DEF Number
  <2> QED BY <1>2, <1>10, <1>12, <1>13, <2>2 DEF Handed
<1>16. \A z \in Number : Handed(z) => Handed(z)'
  BY <1>2 DEF Handed
<1>17. Kept(R, g.inode_nr, zones, zones') /\ g.inode = f.inode
  BY <1>1, <1>3, <1>5, <1>12
<1>18. spoiled' = {} =>
           /\ \/ Kept(R, g.inode_nr, zones, zones') /\ g.inode = fp[cfd].inode
              \/ \A c \in Fd : fp[c].used /\ fp[c].inode_nr = g.inode_nr => c = cfd
           /\ \A z \in Number :
                 /\ Owns(zones, fp[cfd].inode, z) => Owns(zones', g.inode, z)
                 /\ z - 1 \in zmap' => z - 1 \in zmap \/ Handed(z)' \/ InFile(z)'
                 /\ Handed(z) => Handed(z)' \/ InFile(z)'
  BY <1>1, <1>14, <1>15, <1>16, <1>17
<1>19. spoiled \subseteq spoiled' /\ \A j \in Files : j # g.inode_nr => Kept(R, j, zones, zones')
  BY <1>2, <1>5
<1> QED BY <1>1, <1>2, <1>3, <1>5, <1>12, <1>13, <1>18, <1>19, OneNoLeak

\* SaveTable gives it to the file.
LEMMA SavedOwns ==
  ASSUME NEW zs \in [Number -> Table], NEW R, TablesFit(R, zs), NEW i \in Files,
         NEW m \in Inode, NEW d, InodeFits(R, i, m), NEW n, NEW p, Ind2Shape(zs, m, n, p),
         Saving(zs, m, d), NEW zt, zt = [zs EXCEPT ![m.ind2] = d.zbuf2],
         NEW z, Owns(zs, m, z) \/ z = d.zbuf2[0]
  PROVE  Owns(zt, m, z)
<1>1. PICK y : y = d.zbuf2[0]
  OBVIOUS
<1>2. m.ind2 # 0 /\ y # 0 /\ zs[m.ind2][0] = 0
  BY <1>1 DEF Saving
<1>3. /\ 0 \in Word /\ m.ind2 \in Number /\ R[m.ind2] = <<i, "ind2">>
      /\ m.ind1 # 0 => m.ind1 \in Number /\ R[m.ind1] = <<i, "ind1">>
  <2>1. IndexZones(R, zs, i, m)
    BY FirstTable
  <2> QED BY <1>2, <2>1 DEF IndexZones
<1>4. zt[m.ind2] = d.zbuf2 /\ (m.ind1 # 0 => zt[m.ind1] = zs[m.ind1])
  BY <1>3
<1>5. \A w \in Word : zs[m.ind2][w] = 0
  BY <1>2 DEF Ind2Shape
<1>6. CASE Owns(zs, m, z)
  BY <1>4, <1>5, <1>6 DEF Owns
<1>7. CASE z = y
  <2>1. z = zt[m.ind2][0]
    BY <1>1, <1>4, <1>7
  <2> QED BY <1>2, <1>3, <1>7, <2>1 DEF Owns
<1> QED BY <1>1, <1>6, <1>7

\* It loses nothing by that.
LEMMA SaveTableNoLeak ==
  ASSUME Types, Alone, Opened, NEW R, Fits(R), NoLeak, Pairs, SaveTable
  PROVE  NoLeak' /\ Pairs'
<1>1. PICK f, i, m, d : f = fp[cfd] /\ i = f.inode_nr /\ m = f.inode /\ d = f.dzi
  OBVIOUS
<1>2. /\ pc = "save" /\ ZMap!write_zone(d.znum2, d.zbuf2) /\ pc' = "move"
      /\ UNCHANGED <<table, fp, doing, cfd, new_zone, out, spoiled>>
  BY <1>1 DEF SaveTable
<1>3. /\ d \in Iterator /\ f.used /\ cfd \in Fd /\ FileFits(R, f) /\ m \in Inode /\ i \in Files
  BY <1>1, <1>2, Caller DEF Fits
<1>4. InodeFits(R, i, m) /\ IteratorFits(R, i, d) /\ d.zbuf2 \in Table
  BY <1>1, <1>3 DEF FileFits, Iterator
<1>5. /\ StoreOK' /\ UNCHANGED zmap
      /\ zones' = IF d.znum2 \in Number THEN [zones EXCEPT ![d.znum2] = d.zbuf2] ELSE zones
  BY <1>2, <1>4, WriteTypes DEF Types
<1>6. zones \in [Number -> Table] /\ TablesFit(R, zones)
  BY DEF Types, StoreOK, Fits
<1>7. \A j \in Files : j # i => Kept(R, j, zones, zones')
  <2>1. CASE d.znum2 \in Number
    <3>1. R[d.znum2] = <<i, "ind2">>
      BY <1>4, <2>1, Sizes DEF IteratorFits, Number
    <3>2. \A j \in Files : j # i => R[d.znum2] # <<j, "ind1">> /\ R[d.znum2] # <<j, "ind2">>
      BY <3>1
    <3> QED BY <1>5, <1>6, <2>1, <3>2, WrittenKept
  <2>2. CASE d.znum2 \notin Number
    BY <1>5, <2>2, SameKept
  <2> QED BY <2>1, <2>2
<1>8. ASSUME spoiled' = {}
      PROVE  /\ \A c \in Fd : fp[c].used /\ fp[c].inode_nr = i => c = cfd
             /\ \A z \in Number : Owns(zones, m, z) => Owns(zones', m, z)
             /\ Owns(zones', m, d.zbuf2[0])
  <2>1. InCall(zones, m, d, "save", doing)
    BY <1>1, <1>2, <1>3, <1>8 DEF Opened, Sane
  <2>2. doing = "add" /\ Saving(zones, m, d)
    BY <2>1 DEF InCall
  <2>3. PICK n, p : Ind2Shape(zones, m, n, p)
    BY <2>1 DEF InCall, Shape
  <2>4. m.ind2 \in Number /\ d.znum2 = m.ind2
    <3>1. IndexZones(R, zones, i, m)
      BY <1>3, <1>4, <1>6, FirstTable
    <3> QED BY <2>2, <3>1 DEF IndexZones, Saving
  <2>5. zones' = [zones EXCEPT ![m.ind2] = d.zbuf2]
    BY <1>5, <2>4
  <2>6. \A c \in Fd : fp[c].used /\ fp[c].inode_nr = i => c = cfd
    BY <1>1, <2>2 DEF Alone
  <2>7. Saving(zones, m, d) /\ m \in Inode /\ i \in Files
    BY <1>3, <2>2
  <2>8. zones \in [Number -> Table] /\ TablesFit(R, zones) /\ InodeFits(R, i, m)
    BY <1>4, <1>6
  <2>9. \A z : Owns(zones, m, z) \/ z = d.zbuf2[0] => Owns(zones', m, z)
    BY <2>3, <2>5, <2>7, <2>8, SavedOwns
  <2> QED BY <2>6, <2>9
<1>9. fp' = [fp EXCEPT ![cfd] = f] /\ fp'[cfd] = f
  BY <1>1, <1>2, <1>3 DEF Types
<1>10. spoiled' = {} => \A z \in Number : Handed(z) => Handed(z)' \/ InFile(z)'
  <2> SUFFICES ASSUME spoiled' = {}, NEW z \in Number, Handed(z) PROVE Handed(z)' \/ InFile(z)'
    OBVIOUS
  <2>1. CASE z # 0 /\ z = new_zone
    BY <1>2, <2>1 DEF Handed
  <2>2. CASE z = d.zbuf2[0]
    BY <1>1, <1>3, <1>8, <1>9, <2>2 DEF InFile
  <2> QED BY <1>1, <2>1, <2>2 DEF Handed
<1>11. spoiled' = {} =>
           /\ \/ Kept(R, f.inode_nr, zones, zones') /\ f.inode = fp[cfd].inode
              \/ \A c \in Fd : fp[c].used /\ fp[c].inode_nr = f.inode_nr => c = cfd
           /\ \A z \in Number :
                 /\ Owns(zones, fp[cfd].inode, z) => Owns(zones', f.inode, z)
                 /\ z - 1 \in zmap' => z - 1 \in zmap \/ Handed(z)' \/ InFile(z)'
                 /\ Handed(z) => Handed(z)' \/ InFile(z)'
  BY <1>1, <1>5, <1>8, <1>10
<1>12. spoiled \subseteq spoiled' /\ \A j \in Files : j # f.inode_nr => Kept(R, j, zones, zones')
  BY <1>1, <1>2, <1>7
<1> QED BY <1>1, <1>2, <1>3, <1>5, <1>9, <1>11, <1>12, OneNoLeak

\* A file that has grown has what it had, and the new zone.
LEMMA GrownOwns ==
  ASSUME NEW zs, NEW m \in Inode, NEW n \in Nat, NEW p, p = n + 1, p < ShortMost,
         Shape(zs, m, n, p), NEW zt, NEW q, NEW z \in Number, Grown(zs, zt, m, q, n, z),
         q.ind1 = m.ind1, q.ind2 = m.ind2, m.ind2 # 0 => zt[m.ind2] = zs[m.ind2],
         NEW y, Owns(zs, m, y) \/ y = z
  PROVE  Owns(zt, q, y)
<1>1. ZoneIn(zt, q, p) = z /\ \A k \in 1 .. n : ZoneIn(zt, q, k) = ZoneIn(zs, m, k)
  BY DEF Grown
<1>2. z # 0 /\ p \in 1 .. p /\ \A k \in 1 .. n : k \in 1 .. p
  BY Sizes DEF Number
<1>3. BlockOrIndex(zt, q, p, y)
  <2>1. CASE y = z
    BY <1>1, <1>2, <2>1 DEF BlockOrIndex
  <2>2. CASE Owns(zs, m, y)
    <3>1. BlockOrIndex(zs, m, n, y)
      BY <2>2, OwnsIndexed
    <3> QED BY <1>1, <1>2, <3>1 DEF BlockOrIndex
  <2> QED BY <2>1, <2>2
<1> QED BY <1>3, IndexedOwns

\* WriteBlock gives the zone in hand to the file.
LEMMA WriteBlockNoLeak ==
  ASSUME Types, Near, Alone, Opened, NEW R, Fits(R), NoLeak, Pairs, WriteBlock
  PROVE  NoLeak' /\ Pairs'
<1>1. PICK f, i, m, d, n, z : /\ f = fp[cfd] /\ i = f.inode_nr /\ m = f.inode /\ d = f.dzi
                              /\ n = d.count /\ z = new_zone
  OBVIOUS
<1>2. /\ pc = "moved" /\ doing = "add"
      /\ UNCHANGED <<zmap, last_free_zone_num, table, doing, cfd, out, spoiled>>
  BY DEF WriteBlock
<1>3. /\ f \in Descriptor /\ f.used /\ m \in Inode /\ Within(d) /\ Put(d)
      /\ d \in Iterator /\ cfd \in Fd /\ d.num # 0 /\ i \in Files /\ FileFits(R, f)
      /\ n \in Nat
  BY <1>1, <1>2, Caller DEF Fits, Near, Iterator
<1>4. z \in Number /\ R[z] = Nobody
  BY <1>1, <1>2, <1>3, Sizes DEF Types, CallOK, Zone, Number, Fits
<1>5. zones \in [Number -> Table] /\ TablesFit(R, zones)
  BY DEF Types, StoreOK, Fits
<1>6. CASE d.place # "direct" /\ d.znum1 = 0
  <2>1. pc' = "ruined" /\ UNCHANGED <<zones, fp, doing, cfd, new_zone>>
    BY <1>1, <1>6 DEF WriteBlock
  <2>2. StoreOK'
    BY <1>2, <2>1 DEF Types, StoreOK
  <2>3. fp' = [fp EXCEPT ![cfd] = f]
    BY <1>1, <1>3, <2>1 DEF Types
  <2>4. \A y \in Number : Handed(y) => Handed(y)'
    BY <1>2, <2>1 DEF Handed
  <2> QED BY <1>1, <1>2, <1>3, <2>1, <2>2, <2>3, <2>4, QuietNoLeak
<1>7. CASE ~ (d.place # "direct" /\ d.znum1 = 0)
  <2>0. BlockAdded(f, m, d, z)
    BY <1>1, <1>7, WriteBlockParts
  <2>1. PICK g \in Descriptor, q \in Inode, e \in Iterator : \E b \in Data[d.num] :
           /\ fp' = [fp EXCEPT ![cfd] = g] /\ g.used /\ g.inode_nr = f.inode_nr
           /\ g.inode = q /\ q.ind1 = m.ind1 /\ q.ind2 = m.ind2
           /\ q.direct = IF d.place # "direct" THEN m.direct
                         ELSE [m.direct EXCEPT ![d.index + 1] = z]
           /\ g.dzi = e /\ e.num = d.num /\ e.count = d.count + 1 /\ e.znum = z
           /\ e.znum1 = d.znum1 /\ e.znum2 = d.znum2 /\ e.zbuf2 = d.zbuf2
           /\ e.zbuf1 = IF d.place = "direct" THEN d.zbuf1 ELSE [d.zbuf1 EXCEPT ![d.index] = z]
           /\ zones' = [(IF d.place = "direct" THEN zones
                         ELSE [zones EXCEPT ![d.znum1] = e.zbuf1]) EXCEPT ![z] = b]
           /\ pc' = "write" /\ new_zone' = 0
    BY <2>0 DEF BlockAdded
  <2>2. PICK b \in Data[d.num] :
           zones' = [(IF d.place = "direct" THEN zones
                      ELSE [zones EXCEPT ![d.znum1] = e.zbuf1]) EXCEPT ![z] = b]
    BY <2>1
  <2>3. fp' = [fp EXCEPT ![cfd] = g] /\ g.used /\ g.inode_nr = i /\ g.inode = q
    BY <1>1, <2>1
  <2>4. b \in Table
    BY <1>3, <2>2, DataType DEF Within
  <2>5. zones' = Written(zones, d, e, z, b)
    BY <2>2 DEF Written
  <2>6. StoreOK'
    <3>1. e.zbuf1 \in Table
      BY DEF Iterator
    <3>2. zones' \in [Number -> Table]
      BY <1>4, <1>5, <2>2, <2>4, <3>1
    <3> QED BY <1>2, <3>2 DEF Types, StoreOK
  <2>7. InodeFits(R, i, m) /\ IteratorFits(R, i, d)
    BY <1>1, <1>3 DEF FileFits
  <2>8. \A j \in Files : j # i => Kept(R, j, zones, zones')
    BY <1>3, <1>4, <1>5, <1>7, <2>4, <2>5, <2>7, WrittenOthers
  <2>9. ASSUME spoiled = {}
        PROVE  \A y \in Number : Owns(zones, m, y) \/ y = z => Owns(zones', q, y)
    <3>1. InCall(zones, m, d, "moved", "add")
      BY <1>1, <1>2, <1>3, <2>9 DEF Opened, Sane
    <3>2. PICK p : p = n + 1
      OBVIOUS
    <3>3. d.num = p /\ p < ShortMost /\ p # 0
      BY <1>1, <1>2, <1>3, <3>2 DEF Types, Lengths, Put
    <3>4. Shape(zones, m, n, p) /\ Copy1(zones, d) /\ Copy2(zones, d) /\ At(zones, m, d)
      BY <1>1, <3>1, <3>2 DEF InCall
    <3>5. /\ q.ind1 = m.ind1 /\ q.ind2 = m.ind2
          /\ q.direct = IF d.place # "direct" THEN m.direct
                        ELSE [m.direct EXCEPT ![d.index + 1] = z]
          /\ e.znum1 = d.znum1 /\ e.znum2 = d.znum2 /\ e.zbuf2 = d.zbuf2
          /\ e.zbuf1 = IF d.place = "direct" THEN d.zbuf1 ELSE [d.zbuf1 EXCEPT ![d.index] = z]
      BY <2>1
    <3>6. Grown(zones, zones', m, q, n, z)
      <4>1. d \in Iterator /\ Put(d) /\ m \in Inode /\ i \in Files /\ n \in Nat
        BY <1>3
      <4>2. /\ zones \in [Number -> Table] /\ TablesFit(R, zones) /\ InodeFits(R, i, m)
            /\ IteratorFits(R, i, d) /\ z \in Number /\ R[z] = Nobody /\ b \in Table
            /\ d.num = p /\ p < ShortMost /\ zones' = Written(zones, d, e, z, b)
        BY <1>4, <1>5, <2>4, <2>5, <2>7, <3>3
      <4> QED BY <3>2, <3>4, <3>5, <4>1, <4>2, WrittenShape, SMTT(30)
    <3>7. m.ind2 # 0 => zones'[m.ind2] = zones[m.ind2]
      <4>1. m.ind2 # 0 => m.ind2 \in Number /\ R[m.ind2] = <<i, "ind2">>
        BY <1>3, <2>7, Sizes DEF Inode, InodeFits, Zone, Number
      <4>2. m.ind2 # 0 => m.ind2 # z /\ (d.place # "direct" => m.ind2 # d.znum1)
        BY <1>3, <1>4, <1>7, <2>7, <4>1, Sizes DEF IteratorFits, Nobody
      <4> QED BY <1>5, <4>1, <4>2, <2>5 DEF Written
    <3> QED BY <1>3, <1>4, <3>2, <3>3, <3>4, <3>5, <3>6, <3>7, GrownOwns
  <2>10. fp'[cfd] = g
    BY <1>3, <2>3 DEF Types
  <2>11. ASSUME spoiled = {}, NEW y \in Number, Handed(y) PROVE InFile(y)'
    <3>1. y = z
      BY <1>1, <1>2, <2>11 DEF Handed
    <3>2. Owns(zones', q, y)
      BY <2>9, <2>11, <3>1
    <3> QED BY <1>3, <2>3, <2>10, <3>2 DEF InFile
  <2>12. \A c \in Fd : fp[c].used /\ fp[c].inode_nr = g.inode_nr => c = cfd
    BY <1>1, <1>2, <2>3 DEF Alone
  <2>13. spoiled' = {} =>
           /\ \/ Kept(R, g.inode_nr, zones, zones') /\ g.inode = fp[cfd].inode
              \/ \A c \in Fd : fp[c].used /\ fp[c].inode_nr = g.inode_nr => c = cfd
           /\ \A y \in Number :
                 /\ Owns(zones, fp[cfd].inode, y) => Owns(zones', g.inode, y)
                 /\ y - 1 \in zmap' => y - 1 \in zmap \/ Handed(y)' \/ InFile(y)'
                 /\ Handed(y) => Handed(y)' \/ InFile(y)'
    BY <1>1, <1>2, <2>3, <2>9, <2>11, <2>12
  <2>14. spoiled \subseteq spoiled' /\ \A j \in Files : j # g.inode_nr => Kept(R, j, zones, zones')
    BY <1>2, <2>3, <2>8
  <2> QED BY <1>1, <1>2, <1>3, <2>3, <2>6, <2>13, <2>14, OneNoLeak
<1> QED BY <1>6, <1>7

\* The end of my_write leaves the file what it has.
LEMMA WriteEndsNoLeak ==
  ASSUME Types, Alone, NEW R, Fits(R), NoLeak, Pairs, NoDataZone \/ WriteDone
  PROVE  NoLeak' /\ Pairs'
<1>1. /\ pc = "write" /\ doing = "add" /\ StoreOK' /\ UNCHANGED <<zmap, zones, table>>
  BY WriteEnds
<1>2. PICK f : f = fp[cfd]
  OBVIOUS
<1>3. f \in Descriptor /\ f.used /\ Counting(f) /\ cfd \in Fd
  BY <1>1, <1>2, Caller
<1>4. PICK g \in Descriptor, p \in BOOLEAN :
        /\ fp' = [fp EXCEPT ![cfd] = g]
        /\ \/ g = [f EXCEPT !.past = p]
           \/ g = [f EXCEPT !.inode.blocks = f.dzi.count]
  BY <1>2, WriteEnds
<1>5. /\ g.used /\ g.inode_nr = f.inode_nr /\ g.inode.direct = f.inode.direct
      /\ g.inode.ind1 = f.inode.ind1 /\ g.inode.ind2 = f.inode.ind2
  BY <1>3, <1>4, OtherLength
<1>6. spoiled \subseteq spoiled'
  BY DEF NoDataZone, WriteDone
<1>7. \A z \in Number : Owns(zones, f.inode, z) => Owns(zones', g.inode, z)
  BY <1>1, <1>5 DEF Owns
<1>8. \A z \in Number : ~ Handed(z)
  BY <1>1 DEF Handed, Types, CallOK
<1>9. \A c \in Fd : fp[c].used /\ fp[c].inode_nr = g.inode_nr => c = cfd
  BY <1>1, <1>2, <1>5 DEF Alone
<1>10. spoiled' = {} =>
           /\ \/ Kept(R, g.inode_nr, zones, zones') /\ g.inode = fp[cfd].inode
              \/ \A c \in Fd : fp[c].used /\ fp[c].inode_nr = g.inode_nr => c = cfd
           /\ \A z \in Number :
                 /\ Owns(zones, fp[cfd].inode, z) => Owns(zones', g.inode, z)
                 /\ z - 1 \in zmap' => z - 1 \in zmap \/ Handed(z)' \/ InFile(z)'
                 /\ Handed(z) => Handed(z)' \/ InFile(z)'
  BY <1>1, <1>2, <1>7, <1>8, <1>9
<1>11. \A j \in Files : j # g.inode_nr => Kept(R, j, zones, zones')
  BY <1>1, SameKept
<1> QED BY <1>1, <1>2, <1>3, <1>4, <1>5, <1>6, <1>10, <1>11, OneNoLeak

\* No step loses a zone.
LEMMA NextNoLeak ==
  ASSUME AllHabits, Sound, NoLeak, Pairs, [Next]_vars
  PROVE  NoLeak' /\ Pairs'
<1>0. Types /\ Near /\ Alone /\ Opened /\ Stored
  BY DEF Sound
<1>1. PICK R : Fits(R)
  BY DEF Sound
<1>2. CASE UNCHANGED vars
  <2>1. UNCHANGED <<zmap, zones, itab, files, fp, pc, doing, cfd, new_zone, spoiled>>
    BY <1>2 DEF vars, store, table, call
  <2>2. \A j : Sharing(j)' = Sharing(j)
    BY <2>1 DEF Sharing
  <2>3. \A z : (Handed(z) => Handed(z)') /\ (InFile(z) => InFile(z)')
    BY <2>1, <2>2 DEF Handed, InFile
  <2> QED BY <2>1, <2>3 DEF NoLeak, Traced, Pairs
<1>3. ASSUME NEW i \in Files, my_creat(i) \/ my_open(i) \/ my_remove(i)
      PROVE  NoLeak' /\ Pairs'
  BY <1>0, <1>3, my_creatNoLeak, my_openNoLeak, my_removeNoLeak
<1>4. ASSUME NEW fd \in Fd, my_close(fd) \/ ReadOn(fd) \/ my_write(fd)
      PROVE  NoLeak' /\ Pairs'
  BY <1>0, <1>1, <1>4, my_closeNoLeak, ReadOnNoLeak, my_writeNoLeak
<1>5. ASSUME NEW z \in Number, AddBlock(z) PROVE NoLeak' /\ Pairs'
  BY <1>0, <1>1, <1>5, AddBlockNoLeak
<1>6. ASSUME NEW z \in Number, BuildInd1(z) \/ BuildInd2(z) \/ BuildTable(z)
      PROVE  NoLeak' /\ Pairs'
  BY <1>0, <1>1, <1>6, BuildIndNoLeak, BuildTableNoLeak
<1>7. CASE SaveTable \/ NoIndexZone \/ Arrive \/ ReadBlock \/ WriteBlock
  BY <1>0, <1>1, <1>7, SaveTableNoLeak, NoIndexZoneNoLeak, ArriveNoLeak, WriteBlockNoLeak
<1>8. CASE NoDataZone \/ WriteDone
  BY <1>0, <1>1, <1>8, WriteEndsNoLeak
<1> QED BY <1>2, <1>3, <1>4, <1>5, <1>6, <1>7, <1>8 DEF Next

\* The inode its users see is that of the table or of a descriptor.
LEMMA CurrentFits ==
  ASSUME Types, NEW R, Fits(R), NEW i \in files
  PROVE  Current(i) \in Inode /\ InodeFits(R, i, Current(i)) /\ i \in Files
<1>1. i \in Files
  BY DEF Types, TableOK
<1>2. CASE Sharing(i) = {}
  BY <1>1, <1>2 DEF Current, Fits, Types, TableOK
<1>3. CASE Sharing(i) # {}
  <2>1. PICK fd : fd = CHOOSE c \in Sharing(i) : TRUE
    OBVIOUS
  <2>2. fd \in Sharing(i) /\ Current(i) = fp[fd].inode
    BY <1>3, <2>1 DEF Current
  <2>3. fd \in Fd /\ fp[fd].used /\ fp[fd].inode_nr = i
    BY <2>2 DEF Sharing
  <2>4. fp[fd].inode \in Inode /\ InodeFits(R, i, fp[fd].inode)
    BY <2>3 DEF Types, Descriptor, Fits, FileFits
  <2> QED BY <1>1, <2>2, <2>4
<1> QED BY <1>2, <1>3

\* The zones in use are those of the files.
LEMMA TracedOwned ==
  ASSUME Types, NEW R, Fits(R), spoiled = {}, Pairs, NEW z, InFile(z)
  PROVE  \E i \in files : z \in Owned(Current(i))
<1>1. CASE \E i \in files : Sharing(i) = {} /\ Owns(zones, itab[i], z)
  BY <1>1, OwnedOwns DEF Current
<1>2. CASE \E fd \in Fd : fp[fd].used /\ Owns(zones, fp[fd].inode, z)
  <2>1. PICK fd \in Fd : fp[fd].used /\ Owns(zones, fp[fd].inode, z)
    BY <1>2
  <2>2. PICK i : i = fp[fd].inode_nr
    OBVIOUS
  <2>3. i \in files /\ fd \in Sharing(i)
    BY <2>1, <2>2 DEF Fits, FileFits, Sharing
  <2>4. PICK c : c = CHOOSE e \in Sharing(i) : TRUE
    OBVIOUS
  <2>5. c \in Sharing(i) /\ Current(i) = fp[c].inode
    BY <2>3, <2>4 DEF Current
  <2>6. Current(i) = fp[fd].inode
    BY <2>1, <2>2, <2>5 DEF Sharing, Pairs
  <2> QED BY <2>1, <2>3, <2>6, OwnedOwns
<1> QED BY <1>1, <1>2 DEF InFile

\* So each zone in use is one file's.
LEMMA OwnedSound == Sound /\ NoLeak /\ Pairs => ZonesOwned
<1> SUFFICES ASSUME Sound, NoLeak, Pairs PROVE ZonesOwned
  OBVIOUS
<1>1. PICK R : Fits(R)
  BY DEF Sound
<1>2. Types /\ Near /\ Opened
  BY DEF Sound
<1>3. zones \in [Number -> Table] /\ TablesFit(R, zones)
  BY <1>1, <1>2 DEF Types, StoreOK, Fits
<1>4. \A i \in files : \A z \in Owned(Current(i)) : z \in Number /\ \E k : R[z] = <<i, k>>
  <2> SUFFICES ASSUME NEW i \in files, NEW z \in Owned(Current(i))
               PROVE  z \in Number /\ \E k : R[z] = <<i, k>>
    OBVIOUS
  <2>1. PICK m : m = Current(i)
    OBVIOUS
  <2>2. m \in Inode /\ InodeFits(R, i, m) /\ i \in Files
    BY <1>1, <1>2, <2>1, CurrentFits
  <2>3. Owns(zones, m, z)
    BY <2>1, OwnedOwns
  <2> QED BY <1>3, <2>2, <2>3, OwnsFits
<1> DEFINE InUse == {z \in Number : z - 1 \in zmap}
           All == UNION {Owned(Current(i)) : i \in files}
<1>5. \A i, j \in files : i # j => Owned(Current(i)) \cap Owned(Current(j)) = {}
  <2> SUFFICES ASSUME NEW i \in files, NEW j \in files, NEW z \in Owned(Current(i)),
                      z \in Owned(Current(j))
               PROVE  i = j
    OBVIOUS
  <2>1. (\E k : R[z] = <<i, k>>) /\ (\E k : R[z] = <<j, k>>)
    BY <1>4
  <2> QED BY <2>1
<1>6. \A i \in files : 0 \notin Files /\ i \in Files
  BY <1>2, Sizes DEF Types, TableOK
<1>7. All \subseteq InUse
  <2> SUFFICES ASSUME NEW i \in files, NEW z \in Owned(Current(i)) PROVE z \in InUse
    OBVIOUS
  <2>1. z \in Number /\ R[z] # Nobody
    BY <1>4, <1>6 DEF Nobody
  <2> QED BY <1>1, <2>1 DEF Fits
<1>8. ASSUME pc = "save", spoiled = {}
      PROVE  LET d == fp[cfd].dzi
             IN  d.zbuf2[d.index2] = d.zbuf2[0] /\ d.zbuf2[0] \in InUse
  <2>1. PICK f, d, m, y : f = fp[cfd] /\ d = f.dzi /\ m = f.inode /\ y = d.zbuf2[0]
    OBVIOUS
  <2>2. /\ f.used /\ cfd \in Fd /\ d \in Iterator /\ d.num # 0 /\ Put(d) /\ f.inode_nr \in Files
        /\ IteratorFits(R, f.inode_nr, d)
    BY <1>1, <1>2, <1>8, <2>1, Caller DEF Near, Fits, FileFits
  <2>3. InCall(zones, m, d, "save", doing)
    BY <1>2, <1>8, <2>1, <2>2 DEF Opened, Sane
  <2>4. Saving(zones, m, d)
    BY <2>3 DEF InCall
  <2>5. d.place = "ind2" /\ y # 0
    BY <2>1, <2>4 DEF Saving
  <2>6. d.index2 = 0
    BY <2>2, <2>5 DEF Put
  <2>7. 0 \in Word /\ d.zbuf2 \in Table
    BY <2>2, Sizes DEF Word, Iterator
  <2>8. y \in Number /\ R[y] = <<f.inode_nr, "ind1">>
    BY <2>1, <2>2, <2>5, <2>7, WordType DEF IteratorFits, NamesTables, Zone, Number
  <2>9. R[y] # Nobody
    BY <2>2, <2>8, Sizes DEF Nobody
  <2>10. y \in InUse
    BY <1>1, <2>8, <2>9 DEF Fits
  <2> QED BY <2>1, <2>6, <2>10
<1>9. new_zone # 0 => new_zone \in InUse
  <2> SUFFICES ASSUME new_zone # 0 PROVE new_zone \in InUse
    OBVIOUS
  <2>1. new_zone \in Number
    BY <1>2, Sizes DEF Types, CallOK, Zone, Number
  <2> QED BY <1>1, <2>1 DEF Fits
<1>10. spoiled = {} => InUse = All \cup InHand
  <2> SUFFICES ASSUME spoiled = {} PROVE InUse = All \cup InHand
    OBVIOUS
  <2>1. InHand \subseteq InUse
    BY <1>8, <1>9 DEF InHand
  <2>2. ASSUME NEW z \in InUse PROVE z \in All \cup InHand
    <3>1. CASE InFile(z)
      BY <1>1, <1>2, <3>1, TracedOwned
    <3>2. CASE Handed(z)
      <4>1. CASE z # 0 /\ z = new_zone
        BY <4>1 DEF InHand
      <4>2. CASE pc = "save" /\ z = fp[cfd].dzi.zbuf2[0]
        BY <1>8, <4>2 DEF InHand
      <4> QED BY <3>2, <4>1, <4>2 DEF Handed
    <3> QED BY <3>1, <3>2 DEF NoLeak, Traced
  <2> QED BY <1>7, <2>1, <2>2
<1> QED BY <1>5, <1>7, <1>10 DEF ZonesOwned

\* Clients with these habits: no zone is reached from two files, and what a
\* file reaches is in use.  Nothing else is in use but what a call has in hand,
\* unless an index zone was refused, or a data zone after a my_write had added
\* others.
THEOREM DataZonesZonesOwned == AllHabits => (Spec => []ZonesOwned)
<1> SUFFICES ASSUME AllHabits PROVE Spec => []ZonesOwned
  OBVIOUS
<1>1. Init => Sound /\ NoLeak /\ Pairs
  <2>1. Init => NoLeak /\ Pairs
    BY DEF Init, NoLeak, Traced, Pairs, Unused
  <2> QED BY <2>1, InitSound
<1>2. (Sound /\ NoLeak /\ Pairs) /\ [Next]_vars => (Sound /\ NoLeak /\ Pairs)'
  BY NextSound, NextNoLeak
<1> QED BY <1>1, <1>2, OwnedSound, PTL DEF Spec
=============================================================================
