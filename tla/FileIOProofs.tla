---------------------------- MODULE FileIOProofs ----------------------------
(***************************************************************************)
(* Proofs about FileIO.tla, for every number and length of files, every    *)
(* size of the disk and of its blocks, and every number of descriptors.    *)
(*                                                                         *)
(* The first part needs little or nothing of the clients.  Each action has *)
(* three lemmas: what it does to a descriptor (...Parts), that it keeps    *)
(* the types (...Types), and that it leaves each zone with the one file    *)
(* that holds it (...Held).  A file holds what its inode in the table, the *)
(* copies of it and the places of its descriptors name.                    *)
(*                                                                         *)
(* The second part is that FileIO.tla implements FileStore.tla, for        *)
(* clients that have all the habits.  Good is added to the invariant: the  *)
(* file a descriptor is on has exactly the zones its size needs, and the   *)
(* block in the buffer, the iterator and the offset are at one place of    *)
(* it; in the middle of a call, at the place the call has come to.  Each   *)
(* step has a lemma (...Good): it keeps Good, and it is a step of          *)
(* FileStore or shows nothing.                                             *)
(***************************************************************************)
EXTENDS FileIO, FiniteSetTheorems, SequenceTheorems, TLAPS

\* What the scan of the zone bitmap answers, and LeastNumber.
Bitmaps == INSTANCE BitmapProofs

\* The scan of ZoneMap is that of Bitmap.
LEMMA SameScan == 
  ASSUME NEW s, NEW n
  PROVE ZMap!find_first_zero(s, n) = Bitmaps!find_first_zero(s, n)
BY DEF ZMap!find_first_zero, Bitmaps!find_first_zero, ZMap!Bits, Bitmaps!Bits

\* zone.c:18: alloc_zone sets one clear bit and fills that zone with zeros, or
\* answers 0 and changes nothing; either way no hint is left.
LEMMA Alloc ==
  ASSUME ZMap!TypeOK, ZMap!HintFree, NEW n \in 0 .. ZoneBits, ZMap!alloc_zone(n)
  PROVE  /\ last_free_zone_num' = 0
         /\ \/ /\ n \in 1 .. ZoneBits
               /\ n - 1 \notin zmap
               /\ zmap' = zmap \cup {n - 1}
               /\ zones' = [zones EXCEPT ![n] = EmptyBlock]
            \/ /\ n = 0
               /\ zmap = 0 .. ZoneBits - 1
               /\ UNCHANGED <<zmap, zones>>
<1>0. ZoneBits \in Nat \ {0} /\ ZMap!Bit = 0 .. ZoneBits - 1
      /\ zmap \subseteq 0 .. ZoneBits - 1 /\ last_free_zone_num \in 0 .. ZoneBits
  BY FileIOAssumption DEF FileIOAssumption, ZMap!TypeOK, ZMap!Bit, ZMap!Bits, ZMap!Number
<1> DEFINE index == ZMap!find_first_zero(zmap, ZoneBits)
<1>1. /\ index \in 0 .. ZoneBits
      /\ index \notin zmap
      /\ index = ZoneBits <=> zmap = 0 .. ZoneBits - 1
  BY <1>0, SameScan, Bitmaps!FindFirstZero DEF Bitmaps!Bits
<1>2. CASE ZMap!AllocByScan(n)
  BY <1>0, <1>1, <1>2 DEF ZMap!AllocByScan, ZMap!Take, ZMap!Written, ZMap!Stored
<1>3. CASE ZMap!AllocFails(n)
  BY <1>0, <1>1, <1>3 DEF ZMap!AllocFails
<1>4. CASE ZMap!AllocByHint(n)
  BY <1>0, <1>4 DEF ZMap!AllocByHint, ZMap!Take, ZMap!Written, ZMap!Stored, ZMap!HintFree
<1> QED BY <1>2, <1>3, <1>4 DEF ZMap!alloc_zone

\* The kinds of TypeOK.
Zone == 0 .. ZoneBits
Inode == [size : Nat, direct : [1 .. NrDirect -> Zone]]
Iterator == [count : Nat, num : Nat, znum : Zone, nil : BOOLEAN]
Descriptor == [used : BOOLEAN, inode_nr : Files \cup {0}, inode : Inode,
               block_nr : Zone, buf : Block, offset : Nat, dzi : Iterator]

\* Type correctness, part by part.
StoreOK ==
  /\ zmap \subseteq 0 .. ZoneBits - 1
  /\ last_free_zone_num \in Zone
  /\ zones \in [1 .. ZoneBits -> Block]
TableOK == itab \in [Files -> Inode] /\ files \subseteq Files
CallOK ==
  /\ pc \in {"idle", "open", "write", "block", "full", "read", "crashed", "ruined"}
  /\ cfd \in Fd /\ file \in Files \cup {0} /\ new_zone \in Zone
  /\ rest \in Seq(Byte) /\ rbuf \in Seq(Byte \cup {Junk})
  /\ remain \in Nat /\ total \in Nat

\* TypeOK is the conjunction of these parts.
LEMMA TypeParts ==
  TypeOK <=> StoreOK /\ TableOK /\ fp \in [Fd -> Descriptor] /\ CallOK
<1>1. ZMap!TypeOK <=> StoreOK
  BY FileIOAssumption DEF FileIOAssumption, ZMap!TypeOK, ZMap!Bit, ZMap!Bits,
     ZMap!Number, ZMap!Stored, StoreOK, Zone
<1> QED BY <1>1 DEF TypeOK, TableOK, CallOK, Zone, Inode, Iterator, Descriptor

\* What is assumed of the constants, for leaves that need no more.
LEMMA Sizes ==
  /\ BLOCKSIZE \in Nat \ {0} /\ NrDirect \in Nat \ {0} /\ ZoneBits \in Nat \ {0}
  /\ MAX_OPEN_FILES \in Nat \ {0}
  /\ Files \subseteq Nat \ {0} /\ Zero \in Byte
  /\ Data \subseteq Seq(Byte) \ {<<>>} /\ Counts \subseteq Nat \ {0}
BY FileIOAssumption DEF FileIOAssumption

\* What / and % give.
LEMMA DivMod ==
  ASSUME NEW n \in Nat
  PROVE  n \div BLOCKSIZE \in Nat /\ n % BLOCKSIZE \in 0 .. BLOCKSIZE - 1
BY Sizes

\* The iterator that is made for an inode.
LEMMA MakeIteratorType ==
  ASSUME NEW inode \in Inode
  PROVE  MakeIterator(inode) \in Iterator
<1>1. inode.size \in Nat /\ 0 \in Zone
  BY Sizes DEF Inode, Zone
<1>2. inode.size \div BLOCKSIZE \in Nat
  BY <1>1, DivMod
<1> QED BY <1>1, <1>2 DEF MakeIterator, Iterator

\* What an empty zone, a new inode and a free descriptor are.
LEMMA UnusedType ==
  EmptyBlock \in Block /\ Fresh \in Inode /\ Unused \in Descriptor
<1>1. EmptyBlock \in Block
  BY Sizes DEF EmptyBlock, Block
<1>2. Fresh \in Inode
  BY Sizes DEF Fresh, Inode, Zone
<1>3. 0 \in Zone
  BY Sizes DEF Zone
<1> QED BY <1>1, <1>2, <1>3, MakeIteratorType DEF Unused, Descriptor

\* What is read is a block, from zone 0 too.
LEMMA ReadZoneType ==
  ASSUME StoreOK, NEW n \in Zone
  PROVE  read_zone(n) \in Block
BY Sizes DEF StoreOK, Zone, read_zone, Block

\* dz.c: the iterator's zone is the one of before or one the inode names.
LEMMA MoveToType ==
  ASSUME NEW d \in Iterator, NEW inode \in Inode, NEW k \in Nat \ {0}
  PROVE  /\ MoveTo(d, inode, k) \in Iterator
         /\ \/ MoveTo(d, inode, k).znum = d.znum
            \/ k \in 1 .. NrDirect /\ MoveTo(d, inode, k).znum = inode.direct[k]
<1>1. CASE k > d.count + 1
  BY <1>1 DEF MoveTo
<1>2. CASE ~ (k > d.count + 1) /\ k > NrDirect
  BY <1>2 DEF MoveTo, Iterator
<1>3. CASE ~ (k > d.count + 1) /\ ~ (k > NrDirect)
  <2>1. k \in 1 .. NrDirect /\ inode.direct[k] \in Zone
    BY <1>3, Sizes DEF Inode
  <2> QED BY <1>3, <2>1 DEF MoveTo, Iterator
<1> QED BY <1>1, <1>2, <1>3

\* What is left of a sequence.
LEMMA DropType ==
  ASSUME NEW S, NEW s \in Seq(S), NEW n \in 0 .. Len(s)
  PROVE  Drop(s, n) \in Seq(S) /\ Len(Drop(s, n)) = Len(s) - n
BY SubSeqProperties DEF Drop

\* The descriptor open_child takes is not in use.
LEMMA FirstUnused ==
  ASSUME ~ \A fd \in Fd : fp[fd].used
  PROVE  LET fd == CHOOSE f \in Fd : /\ ~ fp[f].used
                                     /\ \A g \in Fd : g < f => fp[g].used
         IN  fd \in Fd /\ ~ fp[fd].used
<1> DEFINE S == {fd \in Fd : ~ fp[fd].used}
<1>1. S \in SUBSET Nat /\ S # {}
  BY DEF Fd
<1>2. PICK fd \in S : \A g \in S : fd <= g
  BY <1>1, Bitmaps!LeastNumber
<1>3. \A g \in Fd : g < fd => fp[g].used
  BY <1>2 DEF Fd
<1> QED BY <1>2, <1>3

\* The zones an inode names, whether or not they are in front of its first 0.
Named(inode) == {inode.direct[k] : k \in 1 .. NrDirect} \ {0}

\* The zones a descriptor can lead to: those its copy of the inode names, the
\* one in its buffer and the one its iterator is on.
Within(f) == Named(f.inode) \cup ({f.block_nr, f.dzi.znum} \ {0})

\* All zones that are a file's in some place.
Holds(i) == Named(itab[i]) \cup UNION {Within(fp[fd]) : fd \in Sharing(i)}

\* Type correctness, with what it depends on: the hint is free, so that an
\* allocation by hint takes a free zone, and the file that is just made exists.
Types ==
  /\ StoreOK /\ TableOK /\ fp \in [Fd -> Descriptor] /\ CallOK
  /\ ZMap!HintFree
  /\ pc = "open" => file \in files

\* A descriptor in use is one of a file, a call under way has one that is in
\* use, and a block is written when there is data for it.
Calls ==
  /\ \A fd \in Fd : fp[fd].used => fp[fd].inode_nr \in files
  /\ pc \in {"write", "block", "full", "read"} => fp[cfd].used
  /\ pc = "block" => rest # <<>>

\* No zone is two files', and the zones of files are marked.
Apart ==
  /\ \A i, j \in files : i # j => Holds(i) \cap Holds(j) = {}
  /\ \A i \in files : \A z \in Holds(i) : z - 1 \in zmap

\* A zone allocated for a file that is as long as it can be is nobody's.
Spare == pc = "full" => \A i \in files : new_zone \notin Holds(i)

Held == Calls /\ Apart /\ Spare

\* The inductive invariant.
IInv == Types /\ Held

\* open_child: one more descriptor, with the inode of the table, on a zone the
\* inode names; or nothing, if all are in use.
LEMMA Opening ==
  ASSUME StoreOK, TableOK, fp \in [Fd -> Descriptor], NEW i \in files, open_child(i)
  PROVE  \/ fp' = fp
         \/ \E fd \in Fd, g \in Descriptor :
              /\ fp' = [fp EXCEPT ![fd] = g]
              /\ ~ fp[fd].used /\ g.used /\ g.inode_nr = i /\ g.inode = itab[i]
              /\ Within(g) \subseteq Named(itab[i])
<1>1. SUFFICES ASSUME ~ \A fd \in Fd : fp[fd].used
               PROVE  \E fd \in Fd, g \in Descriptor :
                        /\ fp' = [fp EXCEPT ![fd] = g]
                        /\ ~ fp[fd].used /\ g.used /\ g.inode_nr = i
                        /\ g.inode = itab[i]
                        /\ Within(g) \subseteq Named(itab[i])
  BY DEF open_child
<1> DEFINE fd == CHOOSE f \in Fd : /\ ~ fp[f].used
                                   /\ \A g \in Fd : g < f => fp[g].used
           inode == itab[i]
           start == MakeIterator(inode)
           first == MoveTo(start, inode, 1)
           opened == [Unused EXCEPT !.used = TRUE, !.inode_nr = i, !.inode = inode]
           located == [opened EXCEPT !.dzi = first, !.block_nr = first.znum,
                                     !.buf = read_zone(first.znum)]
           g == IF inode.size > 0 THEN located ELSE opened
<1>2. fd \in Fd /\ ~ fp[fd].used
  BY <1>1, FirstUnused
<1>3. fp' = [fp EXCEPT ![fd] = g]
  BY <1>1 DEF open_child
<1>4. inode \in Inode /\ i \in Files
  BY DEF TableOK
<1>5. start \in Iterator /\ start.znum = 0
  BY <1>4, MakeIteratorType DEF MakeIterator
<1>6. /\ first \in Iterator
      /\ \/ first.znum = 0
         \/ 1 \in 1 .. NrDirect /\ first.znum = inode.direct[1]
  BY <1>4, <1>5, MoveToType
<1>7. /\ opened \in Descriptor /\ opened.used /\ opened.inode_nr = i
      /\ opened.inode = inode /\ opened.block_nr = 0 /\ opened.dzi.znum = 0
  BY <1>4, UnusedType DEF Unused, Descriptor, MakeIterator
<1>8. first.znum \in Zone
  BY <1>6 DEF Iterator
<1>9. read_zone(first.znum) \in Block
  BY <1>8, ReadZoneType
<1> HIDE DEF opened, first, start, inode, fd
<1>10. /\ located \in Descriptor /\ located.used /\ located.inode_nr = i
       /\ located.inode = inode /\ located.block_nr = first.znum
       /\ located.dzi.znum = first.znum
  BY <1>6, <1>7, <1>8, <1>9 DEF Descriptor
<1>11. Within(opened) \subseteq Named(inode) /\ Within(located) \subseteq Named(inode)
  BY <1>6, <1>7, <1>10 DEF Within, Named
<1>12. g \in Descriptor /\ g.used /\ g.inode_nr = i /\ g.inode = inode
      /\ Within(g) \subseteq Named(inode)
  BY <1>7, <1>10, <1>11
<1> HIDE DEF g
<1> QED BY <1>2, <1>3, <1>12 DEF inode

-----------------------------------------------------------------------------
(* Type correctness *)

\* Types hold at first.
LEMMA InitTypes == Init => Types
<1> SUFFICES ASSUME Init PROVE Types
  OBVIOUS
<1>1. StoreOK /\ TableOK /\ fp \in [Fd -> Descriptor]
  BY UnusedType, Sizes DEF Init, StoreOK, TableOK, Zone
<1>2. CallOK
  BY Sizes DEF Init, CallOK, Zone, Fd
<1> QED BY <1>1, <1>2 DEF Types, Init, ZMap!HintFree

\* The variables of a call are well typed when it has returned.
LEMMA ReturnType == Return => CallOK' /\ pc' = "idle"
BY Sizes DEF Return, CallOK, Zone, Fd

\* Types are kept by open_child, which my_open and my_creat share, and by each
\* action.
LEMMA OpenTypes ==
  ASSUME Types, NEW i \in files, open_child(i)
  PROVE  fp' \in [Fd -> Descriptor]
BY Opening DEF Types

\* my_open keeps the types.
LEMMA my_openTypes ==
  ASSUME Types, NEW i \in Files, my_open(i)
  PROVE  Types'
<1>1. fp' \in [Fd -> Descriptor]
  BY OpenTypes DEF my_open
<1> QED BY <1>1 DEF Types, my_open, store, table, call, StoreOK, TableOK,
           CallOK, ZMap!HintFree

\* my_creat keeps the types.
LEMMA my_creatTypes ==
  ASSUME Types, NEW i \in Files, my_creat(i)
  PROVE  Types'
<1>1. TableOK' /\ file' \in Files /\ file' \in files'
  BY UnusedType DEF Types, my_creat, TableOK
<1> QED BY <1>1 DEF Types, my_creat, store, StoreOK, CallOK, ZMap!HintFree

\* OpenCreated keeps the types.
LEMMA OpenCreatedTypes ==
  ASSUME Types, OpenCreated
  PROVE  Types'
<1>1. fp' \in [Fd -> Descriptor]
  BY OpenTypes DEF OpenCreated, Types
<1> QED BY <1>1, ReturnType DEF Types, OpenCreated, store, table, StoreOK,
           TableOK, ZMap!HintFree

\* my_close keeps the types.
LEMMA my_closeTypes ==
  ASSUME Types, NEW fd \in Fd, my_close(fd)
  PROVE  Types'
<1>1. fp[fd].inode \in Inode
  BY DEF Types, Descriptor
<1>2. TableOK' /\ fp' \in [Fd -> Descriptor]
  BY <1>1, UnusedType DEF Types, my_close, TableOK
<1> QED BY <1>2 DEF Types, my_close, store, call, StoreOK, CallOK, ZMap!HintFree

\* clear_data_zones frees as many zones as come before the first 0, and the
\* last of them is the hint.
LEMMA LastOwned ==
  ASSUME NEW inode \in Inode, Owned(inode) # {}
  PROVE  inode.direct[Cardinality(Owned(inode))] \in Owned(inode)
<1> DEFINE J == {j \in 1 .. NrDirect : \A l \in 1 .. j : inode.direct[l] # 0}
           own == {inode.direct[k] : k \in J}
           c == Cardinality(own)
<1>1. own = Owned(inode)
  BY DEF Owned
<1>2. IsFiniteSet(1 .. NrDirect) /\ Cardinality(1 .. NrDirect) = NrDirect
  BY FS_Interval, Sizes
<1>3. IsFiniteSet(J)
  BY <1>2, FS_Subset
<1>4. IsFiniteSet(own) /\ c <= Cardinality(J)
  <2> DEFINE f == [k \in J |-> inode.direct[k]]
  <2> HIDE DEF J
  <2>1. f \in Surjection(J, own)
    BY DEF Surjection
  <2> HIDE DEF f, own
  <2> QED BY <1>3, <2>1, FS_Surjection DEF c
<1>5. c \in Nat /\ c # 0
  BY <1>1, <1>4, FS_CardinalityType, FS_EmptySet
<1>6. c \in J
  <2>1. SUFFICES ASSUME c \notin J PROVE FALSE
    OBVIOUS
  <2>2. J \subseteq 1 .. c - 1
    <3> SUFFICES ASSUME NEW j \in J PROVE j \in 1 .. c - 1
      OBVIOUS
    <3>1. SUFFICES ASSUME c <= j PROVE FALSE
      BY <1>5
    <3> HIDE DEF c
    <3>2. c \in 1 .. NrDirect /\ \A l \in 1 .. c : inode.direct[l] # 0
      BY <1>5, <3>1, Sizes
    <3> QED BY <3>2, <2>1
  <2>3. IsFiniteSet(1 .. c - 1) /\ Cardinality(1 .. c - 1) = c - 1
    <3> HIDE DEF c
    <3>1. c - 1 \in Nat BY <1>5
    <3> QED BY <1>5, <3>1, FS_Interval
  <2>4. Cardinality(J) <= c - 1 /\ Cardinality(J) \in Nat
    <3> HIDE DEF J, c
    <3> QED BY <2>2, <2>3, FS_Subset, FS_CardinalityType, <1>3
  <2> HIDE DEF c, J
  <2> QED BY <2>4, <1>4, <1>5
<1> HIDE DEF c, J
<1>7. inode.direct[c] \in own
  BY <1>6
<1> QED BY <1>1, <1>7 DEF c

\* my_remove keeps the types.
LEMMA my_removeTypes ==
  ASSUME Types, NEW i \in Files, my_remove(i)
  PROVE  Types'
<1> DEFINE own == Owned(itab[i])
<1>1. itab[i] \in Inode
  BY DEF Types, TableOK
<1>2. own \subseteq Zone
  BY <1>1 DEF Owned, Inode
<1>3. CASE own = {}
  <2>1. zmap' = zmap /\ last_free_zone_num' = last_free_zone_num
    BY <1>3 DEF my_remove
  <2> QED BY <2>1 DEF Types, my_remove, call, StoreOK, TableOK, CallOK, ZMap!HintFree
<1>4. CASE own # {}
  <2>1. last_free_zone_num' \in own
    BY <1>1, <1>4, LastOwned DEF my_remove
  <2>2. zmap' = zmap \ {z - 1 : z \in own}
    BY DEF my_remove
  <2> HIDE DEF own
  <2>3. StoreOK' /\ ZMap!HintFree'
    BY <1>2, <2>1, <2>2 DEF Types, my_remove, StoreOK, ZMap!HintFree
  <2> QED BY <2>3 DEF Types, my_remove, call, TableOK, CallOK
<1> QED BY <1>3, <1>4

\* Changing a descriptor that is in use.
LEMMA SetType ==
  ASSUME fp \in [Fd -> Descriptor], NEW fd \in Fd, NEW g \in Descriptor,
         fp' = [fp EXCEPT ![fd] = g]
  PROVE  fp' \in [Fd -> Descriptor]
OBVIOUS

\* A zone that is written to.
LEMMA WriteType ==
  ASSUME StoreOK, NEW z \in Zone, NEW b \in Block,
         zones' = [zones EXCEPT ![z] = b],
         UNCHANGED <<zmap, last_free_zone_num>>
  PROVE  StoreOK' /\ (ZMap!HintFree => ZMap!HintFree')
BY DEF StoreOK, ZMap!HintFree

\* my_write, part by part.
LEMMA my_writeParts ==
  ASSUME Types, NEW fd \in Fd, NEW d \in Data, my_write(fd, d)
  PROVE  \E cpcnt \in 0 .. Len(d), b \in Block, g \in Descriptor :
           /\ rest' = Drop(d, cpcnt)
           /\ IF fp[fd].block_nr = 0 THEN g = fp[fd] /\ zones' = zones
              ELSE /\ zones' = [zones EXCEPT ![fp[fd].block_nr] = b]
                   /\ g = [fp[fd] EXCEPT !.buf = b, !.offset = @ + cpcnt]
                   /\ cpcnt > 0
           /\ fp' = [fp EXCEPT ![fd] = g]
<1> DEFINE f == fp[fd]
           zoff == f.offset % BLOCKSIZE
           cpcnt == IF f.block_nr = 0 THEN 0 ELSE Lesser(Len(d), BLOCKSIZE - zoff)
           b == [i \in Index |-> IF i \in zoff .. zoff + cpcnt - 1
                                 THEN d[i - zoff + 1] ELSE f.buf[i]]
<1>1. f \in Descriptor /\ f.offset \in Nat /\ f.buf \in Block
  BY DEF Types, Descriptor
<1>2. zoff \in 0 .. BLOCKSIZE - 1
  BY <1>1, DivMod
<1>3. d \in Seq(Byte) /\ Len(d) \in Nat /\ Len(d) > 0
  <2>1. d \in Seq(Byte) /\ d # <<>>
    BY Sizes
  <2> QED BY <2>1, EmptySeq, LenProperties
<1> HIDE DEF zoff, f
<1>4. cpcnt \in 0 .. Len(d) /\ (f.block_nr # 0 => cpcnt > 0)
  BY <1>2, <1>3, Sizes DEF Lesser
<1>5. \A i \in Index : i \in zoff .. zoff + cpcnt - 1 => d[i - zoff + 1] \in Byte
  <2> HIDE DEF cpcnt
  <2> SUFFICES ASSUME NEW i \in Index, i \in zoff .. zoff + cpcnt - 1
               PROVE  d[i - zoff + 1] \in Byte
    OBVIOUS
  <2>1. i - zoff + 1 \in 1 .. Len(d)
    BY <1>2, <1>3, <1>4
  <2> QED BY <2>1, <1>3
<1>6. b \in Block
  BY <1>1, <1>5 DEF Block
<1> DEFINE h == [f EXCEPT !.buf = b, !.offset = @ + cpcnt]
<1>7. h \in Descriptor
  <2> HIDE DEF b, cpcnt
  <2>1. f.offset + cpcnt \in Nat
    BY <1>1, <1>3, <1>4
  <2> QED BY <1>1, <1>6, <2>1 DEF Descriptor
<1>8. CASE f.block_nr = 0
  <2>1. fp' = [fp EXCEPT ![fd] = f] /\ zones' = zones /\ rest' = Drop(d, cpcnt)
    BY <1>8 DEF Types, my_write, f, zoff
  <2> HIDE DEF cpcnt, b
  <2> QED BY <1>1, <1>4, <1>6, <1>8, <2>1 DEF f
<1>9. CASE f.block_nr # 0
  <2>1. /\ zones' = [zones EXCEPT ![f.block_nr] = b]
        /\ fp' = [fp EXCEPT ![fd].buf = b, ![fd].offset = @ + cpcnt]
        /\ rest' = Drop(d, cpcnt)
    BY <1>9 DEF my_write, f, zoff
  <2> HIDE DEF cpcnt, b
  <2>2. fp' = [fp EXCEPT ![fd] = h]
    BY <2>1 DEF Types, f, Descriptor
  <2> QED BY <1>4, <1>6, <1>7, <1>9, <2>1, <2>2 DEF f
<1> QED BY <1>8, <1>9
\* my_write keeps the types.
LEMMA my_writeTypes ==
  ASSUME Types, NEW fd \in Fd, NEW d \in Data, my_write(fd, d)
  PROVE  Types'
<1>1. PICK cpcnt \in 0 .. Len(d), b \in Block, g \in Descriptor :
        /\ rest' = Drop(d, cpcnt)
        /\ IF fp[fd].block_nr = 0 THEN g = fp[fd] /\ zones' = zones
           ELSE /\ zones' = [zones EXCEPT ![fp[fd].block_nr] = b]
                /\ g = [fp[fd] EXCEPT !.buf = b, !.offset = @ + cpcnt]
                /\ cpcnt > 0
        /\ fp' = [fp EXCEPT ![fd] = g]
  BY my_writeParts
<1>2. d \in Seq(Byte) /\ Len(d) \in Nat
  BY Sizes, LenProperties
<1>3. rest' \in Seq(Byte)
  BY <1>1, <1>2, DropType
<1>4. CallOK' /\ pc' = "write"
  BY <1>2, <1>3 DEF Types, CallOK, my_write
<1>5. fp' \in [Fd -> Descriptor]
  BY <1>1 DEF Types
<1>6. zones' \in [1 .. ZoneBits -> Block]
  BY <1>1 DEF Types, StoreOK
<1> QED BY <1>4, <1>5, <1>6 DEF Types, StoreOK, TableOK, table, my_write, ZMap!HintFree

\* What NextZone takes and where it puts it.
LEMMA NextZoneParts ==
  ASSUME Types, NEW z \in 1 .. ZoneBits, NextZone(z)
  PROVE  /\ z - 1 \notin zmap /\ zmap' = zmap \cup {z - 1}
         /\ last_free_zone_num' = 0
         /\ zones' = [zones EXCEPT ![z] = EmptyBlock]
         /\ \E g \in Descriptor :
              /\ fp' = [fp EXCEPT ![cfd] = g]
              /\ g.used = fp[cfd].used /\ g.inode_nr = fp[cfd].inode_nr
              /\ Within(g) \subseteq
                   Within(fp[cfd]) \cup IF pc' = "full" THEN {} ELSE {z}
         /\ pc' \in {"full", "block"} /\ rest # <<>>
<1> DEFINE f == fp[cfd]
           moved == MoveTo(f.dzi, f.inode, f.dzi.count + 1)
           inode == [f.inode EXCEPT !.direct[moved.num] = z]
           d == [moved EXCEPT !.znum = z, !.count = @ + 1]
           full == [f EXCEPT !.dzi = moved]
           more == [f EXCEPT !.inode = inode, !.dzi = d]
<1>1. /\ last_free_zone_num' = 0 /\ z - 1 \notin zmap /\ zmap' = zmap \cup {z - 1}
      /\ zones' = [zones EXCEPT ![z] = EmptyBlock]
  <2>1. z \in 0 .. ZoneBits /\ z # 0
    OBVIOUS
  <2>2. ZMap!TypeOK
    BY FileIOAssumption DEF FileIOAssumption, ZMap!TypeOK, ZMap!Bit, ZMap!Bits,
       ZMap!Number, ZMap!Stored, StoreOK, Zone, Types
  <2> QED BY <2>1, <2>2, Alloc DEF NextZone, Types
<1>2. cfd \in Fd /\ f \in Descriptor
  BY DEF Types, CallOK
<1>3. f.dzi \in Iterator /\ f.inode \in Inode /\ f.dzi.count + 1 \in Nat \ {0}
  BY <1>2 DEF Descriptor, Iterator
<1>4. /\ moved \in Iterator
      /\ \/ moved.znum = f.dzi.znum
         \/ \E k \in 1 .. NrDirect : moved.znum = f.inode.direct[k]
  BY <1>3, MoveToType
<1>5. z \in Zone
  BY DEF Zone
<1>6. CASE moved.nil
  <2>1. fp' = [fp EXCEPT ![cfd] = full] /\ pc' = "full"
    BY <1>6 DEF NextZone
  <2> HIDE DEF moved
  <2>2. full \in Descriptor /\ full.used = f.used /\ full.inode_nr = f.inode_nr
    BY <1>2, <1>4 DEF Descriptor
  <2>3. Within(full) \subseteq Within(f)
    BY <1>2, <1>4 DEF Within, Named, Descriptor
  <2> QED BY <1>1, <2>1, <2>2, <2>3 DEF NextZone, Writing
<1>7. CASE ~ moved.nil
  <2>1. /\ fp' = [fp EXCEPT ![cfd].inode.direct[moved.num] = z, ![cfd].dzi = d]
        /\ pc' = "block"
    BY <1>7 DEF NextZone
  <2> HIDE DEF moved
  <2>2. d \in Iterator /\ d.znum = z
    <3>1. moved \in Iterator /\ moved.count + 1 \in Nat
      BY <1>4 DEF Iterator
    <3> QED BY <3>1, <1>5 DEF Iterator
  <2> HIDE DEF d
  <2>3. inode \in Inode
    BY <1>3, <1>5 DEF Inode
  <2>4. fp' = [fp EXCEPT ![cfd] = more]
    BY <2>1, <1>2, <1>3 DEF Types, Descriptor, Inode
  <2>5. more \in Descriptor /\ more.used = f.used /\ more.inode_nr = f.inode_nr
        /\ more.inode = inode /\ more.block_nr = f.block_nr /\ more.dzi = d
    <3> HIDE DEF inode
    <3> QED BY <1>2, <2>2, <2>3 DEF Descriptor
  <2>6. Named(inode) \subseteq Named(f.inode) \cup {z}
    BY <1>3 DEF Named, Inode
  <2>7. Within(more) \subseteq Within(f) \cup {z}
    <3> HIDE DEF inode, more
    <3> QED BY <2>2, <2>5, <2>6 DEF Within
  <2> HIDE DEF more
  <2> QED BY <1>1, <2>1, <2>4, <2>5, <2>7 DEF NextZone, Writing
<1> QED BY <1>6, <1>7

\* NextZone keeps the types.
LEMMA NextZoneTypes ==
  ASSUME Types, NEW z \in 1 .. ZoneBits, NextZone(z)
  PROVE  Types'
<1>1. z \in Zone /\ z - 1 \in 0 .. ZoneBits - 1 /\ 0 \in Zone
  BY Sizes DEF Zone
<1>2. last_free_zone_num' = 0 /\ zmap' = zmap \cup {z - 1}
      /\ zones' = [zones EXCEPT ![z] = EmptyBlock]
  BY NextZoneParts
<1>a. StoreOK'
  BY <1>1, <1>2, UnusedType DEF Types, StoreOK
<1>b. ZMap!HintFree'
  BY <1>2 DEF ZMap!HintFree
<1>3. fp' \in [Fd -> Descriptor] /\ pc' \in {"full", "block"}
  BY NextZoneParts DEF Types
<1>4. CallOK'
  BY <1>1, <1>3 DEF NextZone, Types, CallOK
<1> QED BY <1>a, <1>b, <1>3, <1>4 DEF Types, NextZone, TableOK, table

\* TooLong keeps the types.
LEMMA TooLongTypes ==
  ASSUME Types, TooLong
  PROVE  Types'
<1>1. StoreOK' /\ ZMap!HintFree'
  BY DEF TooLong, ZMap!free_zone, Types, CallOK, StoreOK, ZMap!HintFree
<1> QED BY <1>1, ReturnType DEF TooLong, Types, TableOK, table

\* When there is no zone nothing happens to the store but that there is no hint.
LEMMA NoSpaceParts ==
  ASSUME Types, NoSpace
  PROVE  zmap' = zmap /\ zones' = zones /\ last_free_zone_num' = 0
<1>1. ZMap!TypeOK
  BY FileIOAssumption DEF FileIOAssumption, ZMap!TypeOK, ZMap!Bit, ZMap!Bits,
     ZMap!Number, ZMap!Stored, StoreOK, Zone, Types
<1>2. 0 \in 0 .. ZoneBits
  BY Sizes
<1> QED BY <1>1, <1>2, Alloc DEF NoSpace, Types

\* NoSpace keeps the types.
LEMMA NoSpaceTypes ==
  ASSUME Types, NoSpace
  PROVE  Types'
<1>0. zmap' = zmap /\ zones' = zones /\ last_free_zone_num' = 0
  BY NoSpaceParts
<1>1. StoreOK'
  BY <1>0, Sizes DEF Types, StoreOK, Zone
<1>2. ZMap!HintFree'
  BY <1>0 DEF ZMap!HintFree
<1> QED BY <1>1, <1>2, ReturnType DEF NoSpace, Types, TableOK, table

\* The iterator moves to a zone the inode names already.
LEMMA OldZoneParts ==
  ASSUME Types, OldZone
  PROVE  /\ \E g \in Descriptor :
              /\ fp' = [fp EXCEPT ![cfd] = g]
              /\ g.used = fp[cfd].used /\ g.inode_nr = fp[cfd].inode_nr
              /\ Within(g) \subseteq Within(fp[cfd])
         /\ rest # <<>>
<1> DEFINE f == fp[cfd]
           moved == MoveTo(f.dzi, f.inode, f.dzi.num + 1)
           g == [f EXCEPT !.dzi = moved]
<1>1. cfd \in Fd /\ f \in Descriptor
  BY DEF Types, CallOK
<1>2. f.dzi \in Iterator /\ f.inode \in Inode /\ f.dzi.num + 1 \in Nat \ {0}
  BY <1>1 DEF Descriptor, Iterator
<1>3. /\ moved \in Iterator
      /\ \/ moved.znum = f.dzi.znum
         \/ \E k \in 1 .. NrDirect : moved.znum = f.inode.direct[k]
  BY <1>2, MoveToType
<1>4. fp' = [fp EXCEPT ![cfd] = g]
  BY <1>1 DEF OldZone, Types
<1> HIDE DEF moved
<1>5. g \in Descriptor /\ g.used = f.used /\ g.inode_nr = f.inode_nr
  BY <1>1, <1>3 DEF Descriptor
<1>6. Within(g) \subseteq Within(f)
  BY <1>1, <1>3 DEF Within, Named, Descriptor
<1> QED BY <1>4, <1>5, <1>6 DEF OldZone, Writing

\* OldZone keeps the types.
LEMMA OldZoneTypes ==
  ASSUME Types, OldZone
  PROVE  Types'
<1>1. fp' \in [Fd -> Descriptor]
  BY OldZoneParts DEF Types
<1> QED BY <1>1 DEF OldZone, Types, StoreOK, TableOK, CallOK, store, table, ZMap!HintFree
\* WriteBlock, part by part.
LEMMA WriteBlockParts ==
  ASSUME Types, WriteBlock
  PROVE  \/ pc' = "ruined" /\ UNCHANGED <<zones, fp, rest>>
         \/ /\ pc' = "write" /\ fp[cfd].dzi.znum # 0
            /\ rest' \in Seq(Byte)
            /\ \E b \in Block, g \in Descriptor, cpcnt \in Nat :
                 /\ zones' = [zones EXCEPT ![fp[cfd].dzi.znum] = b]
                 /\ fp' = [fp EXCEPT ![cfd] = g]
                 /\ g = [fp[cfd] EXCEPT !.block_nr = fp[cfd].dzi.znum,
                                        !.offset = @ + cpcnt]
                 /\ rest # <<>> => cpcnt # 0
<1> DEFINE f == fp[cfd]
           z == f.dzi.znum
           cpcnt == Lesser(Len(rest), BLOCKSIZE)
           b == [i \in Index |-> IF i < cpcnt THEN rest[i+1] ELSE Junk]
           g == [f EXCEPT !.block_nr = z, !.offset = @ + cpcnt]
<1>1. /\ f \in Descriptor /\ f.offset \in Nat /\ z \in Zone
      /\ rest \in Seq(Byte) /\ Len(rest) \in Nat
      /\ rest # <<>> => Len(rest) # 0
  <2>1. rest \in Seq(Byte) /\ f \in Descriptor
    BY DEF Types, CallOK
  <2> QED BY <2>1, LenProperties, EmptySeq DEF Descriptor, Iterator
<1>2. /\ cpcnt \in 0 .. Len(rest) /\ cpcnt <= BLOCKSIZE
      /\ (rest # <<>> => cpcnt # 0)
  BY <1>1, Sizes DEF Lesser
<1> HIDE DEF cpcnt
<1>3. \A i \in Index : i < cpcnt => rest[i+1] \in Byte
  BY <1>1, <1>2 DEF Index
<1>4. b \in Block
  BY <1>3 DEF Block
<1> HIDE DEF b
<1>5. g \in Descriptor
  <2>1. f.offset + cpcnt \in Nat
    BY <1>1, <1>2
  <2> HIDE DEF f, z
  <2> QED BY <1>1, <2>1 DEF Descriptor
<1>6. CASE z = 0
  BY <1>6 DEF WriteBlock
<1>7. CASE z # 0
  <2>1. /\ zones' = [zones EXCEPT ![z] = b]
        /\ fp' = [fp EXCEPT ![cfd].block_nr = z, ![cfd].offset = @ + cpcnt]
        /\ rest' = Drop(rest, cpcnt) /\ pc' = "write"
    BY <1>7 DEF WriteBlock, b, cpcnt
  <2>2. rest' \in Seq(Byte)
    BY <1>1, <1>2, <2>1, DropType
  <2>3. fp' = [fp EXCEPT ![cfd] = g]
    BY <2>1, <1>1 DEF Types, Descriptor
  <2>4. cpcnt \in Nat
    BY <1>1, <1>2
  <2> HIDE DEF g
  <2>5. g = [f EXCEPT !.block_nr = z, !.offset = @ + cpcnt]
    BY DEF g
  <2> QED BY <1>2, <1>4, <1>5, <1>7, <2>1, <2>2, <2>3, <2>4, <2>5
<1> QED BY <1>6, <1>7

\* WriteBlock keeps the types.
LEMMA WriteBlockTypes ==
  ASSUME Types, WriteBlock
  PROVE  Types'
<1>1. CASE pc' = "ruined" /\ UNCHANGED <<zones, fp, rest>>
  BY <1>1 DEF WriteBlock, Types, StoreOK, TableOK, CallOK, table, ZMap!HintFree
<1>2. CASE /\ pc' = "write" /\ fp[cfd].dzi.znum # 0
           /\ rest' \in Seq(Byte)
           /\ \E b \in Block, g \in Descriptor, cpcnt \in Nat :
                /\ zones' = [zones EXCEPT ![fp[cfd].dzi.znum] = b]
                /\ fp' = [fp EXCEPT ![cfd] = g]
                /\ g = [fp[cfd] EXCEPT !.block_nr = fp[cfd].dzi.znum,
                                       !.offset = @ + cpcnt]
                /\ rest # <<>> => cpcnt # 0
  <2>1. fp' \in [Fd -> Descriptor] /\ zones' \in [1 .. ZoneBits -> Block]
    <3>1. PICK b \in Block, g \in Descriptor : /\ zones' = [zones EXCEPT ![fp[cfd].dzi.znum] = b]
                                               /\ fp' = [fp EXCEPT ![cfd] = g]
      BY <1>2
    <3>2. fp \in [Fd -> Descriptor] /\ zones \in [1 .. ZoneBits -> Block]
      BY DEF Types, StoreOK
    <3> QED BY <3>1, <3>2
  <2>2. CallOK'
    BY <1>2 DEF WriteBlock, Types, CallOK
  <2> QED BY <1>2, <2>1, <2>2 DEF WriteBlock, Types, StoreOK, TableOK, table, ZMap!HintFree
<1> QED BY <1>1, <1>2, WriteBlockParts

\* The end of a write leaves the zones of a descriptor as they are.
LEMMA WriteDoneParts ==
  ASSUME Types, WriteDone
  PROVE  \E g \in Descriptor :
           /\ fp' = [fp EXCEPT ![cfd] = g]
           /\ g.used = fp[cfd].used /\ g.inode_nr = fp[cfd].inode_nr
           /\ Within(g) = Within(fp[cfd])
<1> DEFINE f == fp[cfd]
           inode == [f.inode EXCEPT !.size = @ + total]
           b == read_zone(f.block_nr)
           g == [f EXCEPT !.buf = b, !.inode = inode]
<1>1. /\ cfd \in Fd /\ f \in Descriptor /\ total \in Nat
      /\ f.inode \in Inode /\ f.block_nr \in Zone
  BY DEF Types, CallOK, Descriptor
<1>2. b \in Block
  BY <1>1, ReadZoneType DEF Types
<1>3. inode \in Inode /\ inode.direct = f.inode.direct
  BY <1>1 DEF Inode
<1>4. fp' = [fp EXCEPT ![cfd] = g]
  BY <1>1 DEF WriteDone, Types, Descriptor
<1> HIDE DEF b, inode
<1>5. g \in Descriptor /\ g.used = f.used /\ g.inode_nr = f.inode_nr
      /\ g.inode = inode /\ g.block_nr = f.block_nr /\ g.dzi = f.dzi
  BY <1>1, <1>2, <1>3 DEF Descriptor
<1>6. Within(g) = Within(f)
  BY <1>3, <1>5 DEF Within, Named
<1> QED BY <1>4, <1>5, <1>6

\* WriteDone keeps the types.
LEMMA WriteDoneTypes ==
  ASSUME Types, WriteDone
  PROVE  Types'
<1>1. fp' \in [Fd -> Descriptor]
  BY WriteDoneParts DEF Types
<1> QED BY <1>1, ReturnType DEF WriteDone, Types, StoreOK, TableOK, store, table,
           ZMap!HintFree

\* my_read keeps the types.
LEMMA my_readTypes ==
  ASSUME Types, NEW fd \in Fd, NEW n \in Counts, my_read(fd, n)
  PROVE  Types'
<1> DEFINE f == fp[fd]
           zoff == f.offset % BLOCKSIZE
           acount == Lesser(n, f.inode.size - f.offset)
           cpcnt == Lesser(acount, BLOCKSIZE - zoff)
<1>1. f.offset \in Nat /\ f.inode.size \in Nat /\ f.buf \in Block /\ n \in Nat
  BY Sizes DEF Types, Descriptor, Inode
<1>2. zoff \in 0 .. BLOCKSIZE - 1
  BY <1>1, DivMod
<1>3. acount \in Int
  BY <1>1 DEF Lesser
<1>4. CASE acount < 0
  BY <1>4 DEF my_read, Types, StoreOK, TableOK, CallOK, store, table, ZMap!HintFree
<1>5. CASE ~ (acount < 0)
  <2> HIDE DEF acount, zoff
  <2>1. cpcnt \in Nat /\ acount - cpcnt \in Nat /\ cpcnt <= BLOCKSIZE - zoff
        /\ acount \in Nat
    BY <1>2, <1>3, <1>5, Sizes DEF Lesser
  <2>2. /\ pc' = "read" /\ cfd' = fd /\ total' = acount
        /\ rbuf' = [i \in 1 .. cpcnt |-> f.buf[zoff + i - 1]]
        /\ remain' = acount - cpcnt
    BY <1>5 DEF my_read, acount, zoff
  <2> HIDE DEF cpcnt
  <2>3. \A i \in 1 .. cpcnt : f.buf[zoff + i - 1] \in Byte \cup {Junk}
    <3> SUFFICES ASSUME NEW i \in 1 .. cpcnt
                 PROVE  zoff + i - 1 \in Index
      BY <1>1 DEF Block
    <3> QED BY <1>2, <2>1, Sizes DEF Index
  <2>4. rbuf' \in Seq(Byte \cup {Junk})
    BY <2>1, <2>2, <2>3
  <2>5. CallOK'
    BY <2>1, <2>2, <2>4 DEF my_read, Types, CallOK
  <2> QED BY <2>2, <2>5 DEF my_read, Types, StoreOK, TableOK, store, table, ZMap!HintFree
<1> QED BY <1>4, <1>5

\* The next block is one of the descriptor's zones or that of before.
LEMMA ReadBlockParts ==
  ASSUME Types, ReadBlock
  PROVE  /\ \E g \in Descriptor :
              /\ fp' = [fp EXCEPT ![cfd] = g]
              /\ g.used = fp[cfd].used /\ g.inode_nr = fp[cfd].inode_nr
              /\ Within(g) \subseteq Within(fp[cfd])
         /\ remain' \in Nat /\ rbuf' \in Seq(Byte \cup {Junk})
<1> DEFINE f == fp[cfd]
           moved == MoveTo(f.dzi, f.inode, f.dzi.num + 1)
           b == read_zone(moved.znum)
           cpcnt == Lesser(remain, BLOCKSIZE)
           g == [f EXCEPT !.dzi = moved, !.block_nr = moved.znum, !.buf = b]
<1>1. cfd \in Fd /\ f \in Descriptor /\ remain \in Nat
  BY DEF Types, CallOK
<1>2. f.dzi \in Iterator /\ f.inode \in Inode /\ f.dzi.num + 1 \in Nat \ {0}
  BY <1>1 DEF Descriptor, Iterator
<1>3. /\ moved \in Iterator
      /\ \/ moved.znum = f.dzi.znum
         \/ \E k \in 1 .. NrDirect : moved.znum = f.inode.direct[k]
  BY <1>2, MoveToType
<1>4. moved.znum \in Zone
  BY <1>3 DEF Iterator
<1>5. b \in Block
  BY <1>4, ReadZoneType DEF Types
<1>6. fp' = [fp EXCEPT ![cfd] = g]
  BY <1>1 DEF ReadBlock, Types, Descriptor
<1>7. cpcnt \in Nat /\ remain - cpcnt \in Nat /\ cpcnt <= BLOCKSIZE
  BY <1>1, Sizes DEF Lesser
<1>8. remain' = remain - cpcnt /\ rbuf' = rbuf \o [i \in 1 .. cpcnt |-> b[i-1]]
  BY DEF ReadBlock
<1> HIDE DEF moved, b, cpcnt
<1>9. \A i \in 1 .. cpcnt : b[i-1] \in Byte \cup {Junk}
  BY <1>5, <1>7, Sizes DEF Block, Index
<1>10. [i \in 1 .. cpcnt |-> b[i-1]] \in Seq(Byte \cup {Junk})
  BY <1>7, <1>9
<1>11. rbuf' \in Seq(Byte \cup {Junk})
  BY <1>8, <1>10, ConcatProperties DEF Types, CallOK
<1>12. g \in Descriptor /\ g.used = f.used /\ g.inode_nr = f.inode_nr
  BY <1>1, <1>3, <1>4, <1>5 DEF Descriptor
<1>13. Within(g) \subseteq Within(f)
  BY <1>1, <1>3 DEF Within, Named, Descriptor
<1> QED BY <1>6, <1>7, <1>8, <1>11, <1>12, <1>13

\* ReadBlock keeps the types.
LEMMA ReadBlockTypes ==
  ASSUME Types, ReadBlock
  PROVE  Types'
<1>1. fp' \in [Fd -> Descriptor] /\ remain' \in Nat /\ rbuf' \in Seq(Byte \cup {Junk})
  BY ReadBlockParts DEF Types
<1>2. CallOK'
  BY <1>1 DEF ReadBlock, Types, CallOK
<1> QED BY <1>1, <1>2 DEF ReadBlock, Types, StoreOK, TableOK, store, table, ZMap!HintFree

\* So does the end of a read.
LEMMA ReadDoneParts ==
  ASSUME Types, ReadDone
  PROVE  \E g \in Descriptor :
           /\ fp' = [fp EXCEPT ![cfd] = g]
           /\ g.used = fp[cfd].used /\ g.inode_nr = fp[cfd].inode_nr
           /\ Within(g) = Within(fp[cfd])
<1> DEFINE f == fp[cfd]
           g == [f EXCEPT !.offset = @ + total]
<1>1. cfd \in Fd /\ f \in Descriptor /\ total \in Nat /\ f.offset \in Nat
  BY DEF Types, CallOK, Descriptor
<1>2. fp' = [fp EXCEPT ![cfd] = g]
  BY <1>1 DEF ReadDone, Types, Descriptor
<1>3. g \in Descriptor /\ g.used = f.used /\ g.inode_nr = f.inode_nr
      /\ g.inode = f.inode /\ g.block_nr = f.block_nr /\ g.dzi = f.dzi
  BY <1>1 DEF Descriptor
<1>4. Within(g) = Within(f)
  BY <1>3 DEF Within
<1> QED BY <1>2, <1>3, <1>4

\* ReadDone keeps the types.
LEMMA ReadDoneTypes ==
  ASSUME Types, ReadDone
  PROVE  Types'
<1>1. fp' \in [Fd -> Descriptor]
  BY ReadDoneParts DEF Types
<1> QED BY <1>1, ReturnType DEF ReadDone, Types, StoreOK, TableOK, store, table,
           ZMap!HintFree

\* Every step keeps the types.
LEMMA NextTypes == Types /\ [Next]_vars => Types'
<1> SUFFICES ASSUME Types, [Next]_vars PROVE Types'
  OBVIOUS
<1>1. CASE UNCHANGED vars
  BY <1>1 DEF vars, store, table, call, Types, StoreOK, TableOK, CallOK, ZMap!HintFree
<1>2. CASE \E i \in Files : my_open(i) \/ my_creat(i) \/ my_remove(i)
  BY <1>2, my_openTypes, my_creatTypes, my_removeTypes
<1>3. CASE \E fd \in Fd : \/ my_close(fd)
                          \/ \E d \in Data : my_write(fd, d)
                          \/ \E n \in Counts : my_read(fd, n)
  BY <1>3, my_closeTypes, my_writeTypes, my_readTypes
<1>4. CASE Continue
  BY <1>4, OpenCreatedTypes, NextZoneTypes, TooLongTypes, NoSpaceTypes,
     OldZoneTypes, WriteBlockTypes, WriteDoneTypes, ReadBlockTypes,
     ReadDoneTypes DEF Continue
<1> QED BY <1>1, <1>2, <1>3, <1>4 DEF Next

\* All reachable states have the types.
LEMMA SpecTypes == Spec => []Types
BY InitTypes, NextTypes, PTL DEF Spec

\* Every reachable state of reading and writing is well-typed, whatever habits
\* clients have: no index of a block, a zone or a buffer is out of its range.
THEOREM FileIOTypeCorrect == Spec => []TypeOK
<1>1. Types => TypeOK
  BY TypeParts DEF Types
<1> QED BY <1>1, SpecTypes, PTL
-----------------------------------------------------------------------------
(* Whose the zones are *)

\* At first there are no files.
LEMMA InitHeld == Init => Held
BY DEF Init, Held, Calls, Apart, Spare, Unused

\* A step of a call on a descriptor changes the zones of its file at most.
LEMMA OneFile ==
  ASSUME fp \in [Fd -> Descriptor], itab' = itab, NEW fd \in Fd, NEW g, NEW N,
         fp' = [fp EXCEPT ![fd] = g], fp[fd].used,
         g.used = fp[fd].used, g.inode_nr = fp[fd].inode_nr,
         Within(g) \subseteq Within(fp[fd]) \cup N
  PROVE  /\ \A i : Sharing(i)' = Sharing(i)
         /\ \A i : Holds(i)' \subseteq
                     Holds(i) \cup IF i = fp[fd].inode_nr THEN N ELSE {}
         /\ \A c \in Fd : fp'[c].used = fp[c].used /\ fp'[c].inode_nr = fp[c].inode_nr
<1>1. \A c \in Fd : /\ c # fd => fp'[c] = fp[c]
                    /\ fp'[c].used = fp[c].used
                    /\ fp'[c].inode_nr = fp[c].inode_nr
  OBVIOUS
<1>2. \A i : Sharing(i)' = Sharing(i)
  BY <1>1 DEF Sharing
<1>3. ASSUME NEW i, NEW z \in Holds(i)'
      PROVE  z \in Holds(i) \cup IF i = fp[fd].inode_nr THEN N ELSE {}
  <2>1. CASE z \in Named(itab[i])
    BY <2>1 DEF Holds
  <2>2. ASSUME NEW c \in Sharing(i), z \in Within(fp'[c])
        PROVE  z \in Holds(i) \cup IF i = fp[fd].inode_nr THEN N ELSE {}
    <3>1. c \in Fd /\ fp[c].inode_nr = i
      BY DEF Sharing
    <3>2. CASE c = fd
      <4>1. fp'[c] = g
        BY <3>1, <3>2
      <4>2. z \in Within(fp[c]) \cup N
        BY <2>2, <3>2, <4>1
      <4>3. i = fp[fd].inode_nr
        BY <3>1, <3>2
      <4> QED BY <4>2, <4>3 DEF Holds
    <3>3. CASE c # fd
      <4>1. z \in Within(fp[c])
        BY <1>1, <2>2, <3>1, <3>3
      <4> QED BY <4>1 DEF Holds
    <3> QED BY <3>2, <3>3
  <2>3. z \in Named(itab'[i]) \/ \E c \in Sharing(i)' : z \in Within(fp'[c])
    BY <1>3 DEF Holds, Within, Named
  <2> QED BY <1>2, <2>1, <2>2, <2>3
<1> QED BY <1>1, <1>2, <1>3

\* Who holds no more than before is apart from the others as before.
LEMMA HoldFewer ==
  ASSUME Apart, files' \subseteq files, zmap \subseteq zmap',
         \A i \in files' : Holds(i)' \subseteq Holds(i)
  PROVE  Apart'
<1>1. \A i, j \in files' : i # j => Holds(i)' \cap Holds(j)' = {}
  BY DEF Apart
<1>2. \A i \in files' : \A z \in Holds(i)' : z - 1 \in zmap'
  BY DEF Apart
<1> QED BY <1>1, <1>2 DEF Apart

\* A step of a call that takes no zone.
LEMMA HoldSame ==
  ASSUME Types, Held, NEW fd \in Fd, NEW g \in Descriptor, fp[fd].used,
         fp' = [fp EXCEPT ![fd] = g],
         g.used = fp[fd].used, g.inode_nr = fp[fd].inode_nr,
         Within(g) \subseteq Within(fp[fd]),
         itab' = itab, files' = files, zmap' = zmap
  PROVE  /\ Apart'
         /\ \A c \in Fd : fp'[c].used => fp'[c].inode_nr \in files'
         /\ \A c \in Fd : fp'[c].used = fp[c].used
<1>1. Within(g) \subseteq Within(fp[fd]) \cup {}
  OBVIOUS
<1>2. /\ \A i : Holds(i)' \subseteq
                  Holds(i) \cup IF i = fp[fd].inode_nr THEN {} ELSE {}
      /\ \A c \in Fd : fp'[c].used = fp[c].used /\ fp'[c].inode_nr = fp[c].inode_nr
  BY <1>1, OneFile DEF Types
<1>3. Apart'
  <2>1. \A i \in files' : Holds(i)' \subseteq Holds(i)
    BY <1>2
  <2> QED BY <2>1, HoldFewer DEF Held
<1> QED BY <1>2, <1>3 DEF Held, Calls
\* A new descriptor of a file has zones of that file.
LEMMA OpenHeld ==
  ASSUME Types, Held, NEW i \in files, open_child(i),
         itab' = itab, files' = files, zmap' = zmap
  PROVE  Apart' /\ \A c \in Fd : fp'[c].used => fp'[c].inode_nr \in files'
<1>1. CASE fp' = fp
  <2>1. \A j \in files' : Holds(j)' \subseteq Holds(j)
    BY <1>1 DEF Holds, Sharing, Named, Within
  <2> QED BY <1>1, <2>1, HoldFewer DEF Held, Calls
<1>2. ASSUME NEW fd \in Fd, NEW g \in Descriptor,
             fp' = [fp EXCEPT ![fd] = g],
             ~ fp[fd].used, g.used, g.inode_nr = i,
             Within(g) \subseteq Named(itab[i])
      PROVE  Apart' /\ \A c \in Fd : fp'[c].used => fp'[c].inode_nr \in files'
  <2>1. \A c \in Fd : fp'[c] = IF c = fd THEN g ELSE fp[c]
    BY <1>2 DEF Types
  <2>2. ASSUME NEW j \in files', NEW z \in Holds(j)'
        PROVE  z \in Holds(j)
    <3>1. z \in Named(itab'[j]) \/ \E c \in Sharing(j)' : z \in Within(fp'[c])
      BY <2>2 DEF Holds, Within, Named
    <3>2. CASE z \in Named(itab'[j])
      BY <3>2 DEF Holds
    <3>3. ASSUME NEW c \in Sharing(j)', z \in Within(fp'[c])
          PROVE  z \in Holds(j)
      <4>1. c \in Fd /\ fp'[c].used /\ fp'[c].inode_nr = j
        BY DEF Sharing
      <4>2. CASE c = fd
        BY <1>2, <2>1, <3>3, <4>1, <4>2 DEF Holds
      <4>3. CASE c # fd
        <5>1. c \in Sharing(j) /\ z \in Within(fp[c])
          BY <2>1, <3>3, <4>1, <4>3 DEF Sharing
        <5> QED BY <5>1 DEF Holds
      <4> QED BY <4>2, <4>3
    <3> QED BY <3>1, <3>2, <3>3
  <2>3. Apart'
    BY <2>2, HoldFewer DEF Held
  <2>4. \A c \in Fd : fp'[c].used => fp'[c].inode_nr \in files'
    BY <1>2, <2>1 DEF Held, Calls
  <2> QED BY <2>3, <2>4
<1> QED BY <1>1, <1>2, Opening DEF Types

\* my_open leaves each zone with the one that holds it.
LEMMA my_openHeld ==
  ASSUME Types, Held, NEW i \in Files, my_open(i)
  PROVE  Held'
<1>1. Apart' /\ \A c \in Fd : fp'[c].used => fp'[c].inode_nr \in files'
  BY OpenHeld DEF my_open, store, table
<1> QED BY <1>1 DEF my_open, call, Held, Calls, Spare

\* OpenCreated leaves each zone with the one that holds it.
LEMMA OpenCreatedHeld ==
  ASSUME Types, Held, OpenCreated
  PROVE  Held'
<1>1. file \in files
  BY DEF Types, OpenCreated
<1>2. Apart' /\ \A c \in Fd : fp'[c].used => fp'[c].inode_nr \in files'
  BY <1>1, OpenHeld DEF OpenCreated, store, table
<1> QED BY <1>2 DEF OpenCreated, Return, Held, Calls, Spare

\* A new file has no zones: no descriptor is left of one that had its number.
LEMMA my_creatHeld ==
  ASSUME Types, Held, NEW i \in Files, my_creat(i)
  PROVE  Held'
<1>1. Sharing(i) = {}
  BY DEF my_creat, Sharing, Held, Calls
<1>2. Holds(i)' = {}
  <2>1. itab'[i] = Fresh /\ fp' = fp
    BY DEF my_creat, Types, TableOK
  <2>2. Named(Fresh) = {}
    BY DEF Named, Fresh
  <2> QED BY <1>1, <2>1, <2>2 DEF Holds, Sharing, Named
<1>3. \A j \in files : Holds(j)' = Holds(j)
  <2>1. \A j \in files : itab'[j] = itab[j]
    BY DEF my_creat, Types, TableOK
  <2> QED BY <2>1 DEF my_creat, Holds, Sharing, Named, Within
<1>4. files' = files \cup {i} /\ zmap' = zmap /\ fp' = fp /\ pc' = "open"
  BY DEF my_creat, store
<1>5. Apart'
  <2>1. \A j \in files' : \A z \in Holds(j)' : j \in files /\ z \in Holds(j)
    BY <1>2, <1>3, <1>4
  <2>2. \A j, k \in files' : j # k => Holds(j)' \cap Holds(k)' = {}
    BY <2>1 DEF Held, Apart
  <2> QED BY <1>4, <2>1, <2>2 DEF Held, Apart
<1> QED BY <1>4, <1>5 DEF Held, Calls, Spare

\* What is written back to the table was in the descriptor.
LEMMA my_closeHeld ==
  ASSUME Types, Held, NEW fd \in Fd, my_close(fd)
  PROVE  Held'
<1> DEFINE i == fp[fd].inode_nr
<1>1. /\ fp[fd].used /\ i \in files /\ i \in Files
      /\ itab' = [itab EXCEPT ![i] = fp[fd].inode]
      /\ fp' = [fp EXCEPT ![fd] = Unused]
      /\ files' = files /\ zmap' = zmap /\ pc' = "idle"
  BY DEF my_close, store, call, Held, Calls, Types, TableOK
<1>2. \A c \in Fd : fp'[c] = IF c = fd THEN Unused ELSE fp[c]
  BY <1>1 DEF Types
<1>3. ASSUME NEW j \in files', NEW z \in Holds(j)'
      PROVE  z \in Holds(j)
  <2>1. z \in Named(itab'[j]) \/ \E c \in Sharing(j)' : z \in Within(fp'[c])
    BY <1>3 DEF Holds, Within, Named
  <2>2. CASE z \in Named(itab'[j])
    <3>1. CASE j = i
      <4>1. z \in Named(fp[fd].inode) /\ fd \in Sharing(j)
        BY <1>1, <2>2, <3>1 DEF Types, TableOK, Sharing
      <4> QED BY <4>1 DEF Holds, Within
    <3>2. CASE j # i
      BY <1>1, <2>2, <3>2 DEF Holds, Types, TableOK
    <3> QED BY <3>1, <3>2
  <2>3. ASSUME NEW c \in Sharing(j)', z \in Within(fp'[c])
        PROVE  z \in Holds(j)
    <3>1. c \in Fd /\ fp'[c].used /\ fp'[c].inode_nr = j
      BY DEF Sharing
    <3>2. c # fd
      BY <1>2, <3>1 DEF Unused
    <3>3. c \in Sharing(j) /\ z \in Within(fp[c])
      BY <1>2, <2>3, <3>1, <3>2 DEF Sharing
    <3> QED BY <3>3 DEF Holds
  <2> QED BY <2>1, <2>2, <2>3
<1>4. Apart'
  BY <1>1, <1>3, HoldFewer DEF Held
<1>5. \A c \in Fd : fp'[c].used => fp'[c].inode_nr \in files'
  BY <1>1, <1>2 DEF Unused, Held, Calls
<1> QED BY <1>1, <1>4, <1>5 DEF Held, Calls, Spare

\* What is freed belongs to the file alone, as nobody has it open.
LEMMA my_removeHeld ==
  ASSUME "closed" \in Habits, Types, Held, NEW i \in Files, my_remove(i)
  PROVE  Held'
<1>1. /\ i \in files /\ files' = files \ {i} /\ Sharing(i) = {} /\ pc' = "idle"
      /\ itab' = itab /\ fp' = fp
      /\ zmap' = zmap \ {z - 1 : z \in Owned(itab[i])}
  BY DEF my_remove, RemoveHabits, call
<1>2. Owned(itab[i]) \subseteq Holds(i)
  BY DEF Owned, Holds, Named
<1>3. \A j : Holds(j)' = Holds(j)
  BY <1>1 DEF Holds, Sharing, Named, Within
<1>4. \A j \in files : Holds(j) \subseteq Int
  <2>1. \A inode \in Inode : Named(inode) \subseteq Int
    <3>1. \A inode \in Inode : \A k \in 1 .. NrDirect : inode.direct[k] \in Zone
      BY DEF Inode
    <3>2. Zone \subseteq Int
      BY DEF Zone
    <3> QED BY <3>1, <3>2 DEF Named
  <2>2. \A c \in Fd : Within(fp[c]) \subseteq Int
    BY <2>1 DEF Within, Types, Descriptor, Iterator, Zone
  <2> QED BY <2>1, <2>2 DEF Holds, Types, TableOK, Sharing
<1>5. ASSUME NEW j \in files', NEW z \in Holds(j)
      PROVE  z - 1 \in zmap'
  <2>1. j \in files /\ j # i
    BY <1>1
  <2>2. z \notin Owned(itab[i]) /\ z - 1 \in zmap
    BY <1>1, <1>2, <2>1 DEF Held, Apart
  <2>3. z \in Int /\ Owned(itab[i]) \subseteq Int
    BY <1>1, <1>2, <1>4, <2>1
  <2>4. \A y \in Owned(itab[i]) : y - 1 # z - 1
    BY <2>2, <2>3
  <2> QED BY <1>1, <2>2, <2>4
<1>6. Apart'
  BY <1>1, <1>3, <1>5 DEF Held, Apart
<1>7. \A c \in Fd : fp'[c].used => fp'[c].inode_nr \in files'
  BY <1>1 DEF Held, Calls, Sharing
<1> QED BY <1>1, <1>6, <1>7 DEF Held, Calls, Spare
\* my_write leaves each zone with the one that holds it.
LEMMA my_writeHeld ==
  ASSUME Types, Held, NEW fd \in Fd, NEW d \in Data, my_write(fd, d)
  PROVE  Held'
<1>1. PICK cpcnt \in 0 .. Len(d), b \in Block, g \in Descriptor :
        /\ rest' = Drop(d, cpcnt)
        /\ IF fp[fd].block_nr = 0 THEN g = fp[fd] /\ zones' = zones
           ELSE /\ zones' = [zones EXCEPT ![fp[fd].block_nr] = b]
                /\ g = [fp[fd] EXCEPT !.buf = b, !.offset = @ + cpcnt]
                /\ cpcnt > 0
        /\ fp' = [fp EXCEPT ![fd] = g]
  BY my_writeParts
<1>2. /\ g.used = fp[fd].used /\ g.inode_nr = fp[fd].inode_nr
      /\ g.inode = fp[fd].inode /\ g.block_nr = fp[fd].block_nr
      /\ g.dzi = fp[fd].dzi
  BY <1>1 DEF Types, Descriptor
<1>3. Within(g) \subseteq Within(fp[fd])
  BY <1>2 DEF Within
<1>4. fp[fd].used /\ itab' = itab /\ files' = files /\ zmap' = zmap
      /\ pc' = "write" /\ cfd' = fd
  BY DEF my_write, table
<1>5. /\ Apart'
      /\ \A c \in Fd : fp'[c].used => fp'[c].inode_nr \in files'
      /\ \A c \in Fd : fp'[c].used = fp[c].used
  BY <1>1, <1>2, <1>3, <1>4, HoldSame
<1> QED BY <1>4, <1>5 DEF Held, Calls, Spare

\* The zone that is allocated is nobody's; it becomes one of the file that is
\* written, or is kept in hand.
LEMMA NextZoneHeld ==
  ASSUME Types, Held, NEW z \in 1 .. ZoneBits, NextZone(z)
  PROVE  Held'
<1>1. /\ z - 1 \notin zmap /\ zmap' = zmap \cup {z - 1}
      /\ pc' \in {"full", "block"} /\ rest # <<>>
  BY NextZoneParts
<1>2. PICK g \in Descriptor :
        /\ fp' = [fp EXCEPT ![cfd] = g]
        /\ g.used = fp[cfd].used /\ g.inode_nr = fp[cfd].inode_nr
        /\ Within(g) \subseteq
             Within(fp[cfd]) \cup IF pc' = "full" THEN {} ELSE {z}
  BY NextZoneParts
<1>3. /\ cfd \in Fd /\ fp[cfd].used /\ pc = "write" /\ new_zone' = z
      /\ itab' = itab /\ files' = files /\ cfd' = cfd /\ rest' = rest
  BY DEF NextZone, Writing, table, Types, CallOK, Held, Calls
<1> DEFINE N == IF pc' = "full" THEN {} ELSE {z}
           i == fp[cfd].inode_nr
<1>4. /\ \A j : Holds(j)' \subseteq Holds(j) \cup IF j = i THEN N ELSE {}
      /\ \A c \in Fd : fp'[c].used = fp[c].used /\ fp'[c].inode_nr = fp[c].inode_nr
  <2> HIDE DEF N
  <2>1. Within(g) \subseteq Within(fp[cfd]) \cup N
    BY <1>2 DEF N
  <2> QED BY <1>2, <1>3, <2>1, OneFile DEF Types
<1>5. \A j \in files : z \notin Holds(j)
  BY <1>1 DEF Held, Apart
<1>6. Apart'
  <2>1. \A j \in files : \A y \in Holds(j)' : y \in Holds(j) \/ (j = i /\ y = z)
    BY <1>4
  <2>2. \A j, k \in files : j # k => Holds(j)' \cap Holds(k)' = {}
    <3> SUFFICES ASSUME NEW j \in files, NEW k \in files, j # k,
                        NEW y \in Holds(j)', y \in Holds(k)'
                 PROVE  FALSE
      OBVIOUS
    <3>1. y \in Holds(j) \/ (j = i /\ y = z)
      BY <2>1
    <3>2. y \in Holds(k) \/ (k = i /\ y = z)
      BY <2>1
    <3> QED BY <3>1, <3>2, <1>5 DEF Held, Apart
  <2>3. \A j \in files : \A y \in Holds(j)' : y - 1 \in zmap'
    BY <1>1, <2>1 DEF Held, Apart
  <2> QED BY <1>3, <2>2, <2>3 DEF Apart
<1>7. Spare'
  BY <1>3, <1>4, <1>5 DEF Spare
<1>8. Calls'
  BY <1>1, <1>3, <1>4 DEF Held, Calls
<1> QED BY <1>6, <1>7, <1>8 DEF Held

\* The zone in hand is freed again.
LEMMA TooLongHeld ==
  ASSUME Types, Held, TooLong
  PROVE  Held'
<1>1. /\ pc = "full" /\ zmap' = zmap \ {new_zone - 1} /\ fp' = fp
      /\ itab' = itab /\ files' = files /\ pc' = "idle"
  BY DEF TooLong, ZMap!free_zone, Return, table
<1>2. \A i : Holds(i)' = Holds(i)
  BY <1>1 DEF Holds, Sharing, Named, Within
<1>3. new_zone \in Int
  BY DEF Types, CallOK, Zone
<1>4. \A i \in files : \A z \in Holds(i) : z - 1 \in zmap'
  <2> SUFFICES ASSUME NEW i \in files, NEW z \in Holds(i)
               PROVE  z - 1 \in zmap'
    OBVIOUS
  <2>1. z \in Int /\ z # new_zone /\ z - 1 \in zmap
    <3>1. z \in Zone
      <4>1. \A inode \in Inode : \A k \in 1 .. NrDirect : inode.direct[k] \in Zone
        BY DEF Inode
      <4>2. \A inode \in Inode : Named(inode) \subseteq Zone
        BY <4>1 DEF Named
      <4>3. \A c \in Fd : Within(fp[c]) \subseteq Zone
        BY <4>2 DEF Within, Types, Descriptor, Iterator
      <4> QED BY <4>2, <4>3 DEF Holds, Types, TableOK, Sharing
    <3> QED BY <1>1, <3>1 DEF Zone, Held, Apart, Spare
  <2> QED BY <1>1, <1>3, <2>1
<1>5. Apart'
  BY <1>1, <1>2, <1>4 DEF Held, Apart
<1> QED BY <1>1, <1>5 DEF Held, Calls, Spare

\* NoSpace leaves each zone with the one that holds it.
LEMMA NoSpaceHeld ==
  ASSUME Types, Held, NoSpace
  PROVE  Held'
<1>1. zmap' = zmap
  BY NoSpaceParts
<1>2. fp' = fp /\ itab' = itab /\ files' = files /\ pc' = "idle"
  BY DEF NoSpace, Return, table
<1>3. \A i : Holds(i)' = Holds(i)
  BY <1>2 DEF Holds, Sharing, Named, Within
<1> QED BY <1>1, <1>2, <1>3 DEF Held, Calls, Apart, Spare

\* OldZone leaves each zone with the one that holds it.
LEMMA OldZoneHeld ==
  ASSUME Types, Held, OldZone
  PROVE  Held'
<1>1. /\ cfd \in Fd /\ fp[cfd].used /\ pc' = "block" /\ cfd' = cfd /\ rest' = rest
      /\ itab' = itab /\ files' = files /\ zmap' = zmap
  BY DEF OldZone, Writing, store, table, Types, CallOK, Held, Calls
<1>2. PICK g \in Descriptor :
        /\ fp' = [fp EXCEPT ![cfd] = g]
        /\ g.used = fp[cfd].used /\ g.inode_nr = fp[cfd].inode_nr
        /\ Within(g) \subseteq Within(fp[cfd])
  BY OldZoneParts
<1>3. /\ Apart'
      /\ \A c \in Fd : fp'[c].used => fp'[c].inode_nr \in files'
      /\ \A c \in Fd : fp'[c].used = fp[c].used
  BY <1>1, <1>2, HoldSame
<1>4. rest # <<>>
  BY OldZoneParts
<1> QED BY <1>1, <1>3, <1>4 DEF Held, Calls, Spare

\* WriteBlock leaves each zone with the one that holds it.
LEMMA WriteBlockHeld ==
  ASSUME Types, Held, WriteBlock
  PROVE  Held'
<1>1. /\ cfd \in Fd /\ fp[cfd].used /\ pc = "block" /\ cfd' = cfd
      /\ itab' = itab /\ files' = files /\ zmap' = zmap
  BY DEF WriteBlock, table, Types, CallOK, Held, Calls
<1>2. CASE pc' = "ruined" /\ UNCHANGED fp
  <2>1. \A i : Holds(i)' = Holds(i)
    BY <1>1, <1>2 DEF Holds, Sharing, Named, Within
  <2> QED BY <1>1, <1>2, <2>1 DEF Held, Calls, Apart, Spare
<1>3. CASE /\ pc' = "write"
           /\ \E g \in Descriptor, cpcnt \in Nat :
                /\ fp' = [fp EXCEPT ![cfd] = g]
                /\ g = [fp[cfd] EXCEPT !.block_nr = fp[cfd].dzi.znum,
                                       !.offset = @ + cpcnt]
  <2>1. PICK g \in Descriptor, cpcnt \in Nat :
               /\ fp' = [fp EXCEPT ![cfd] = g]
               /\ g = [fp[cfd] EXCEPT !.block_nr = fp[cfd].dzi.znum,
                                      !.offset = @ + cpcnt]
    BY <1>3
  <2>2. /\ g.used = fp[cfd].used /\ g.inode_nr = fp[cfd].inode_nr
        /\ g.inode = fp[cfd].inode /\ g.block_nr = fp[cfd].dzi.znum
        /\ g.dzi = fp[cfd].dzi
    BY <1>1, <2>1 DEF Types, Descriptor
  <2>3. Within(g) \subseteq Within(fp[cfd])
    BY <2>2 DEF Within
  <2>4. /\ Apart'
        /\ \A c \in Fd : fp'[c].used => fp'[c].inode_nr \in files'
        /\ \A c \in Fd : fp'[c].used = fp[c].used
    BY <1>1, <2>1, <2>2, <2>3, HoldSame
  <2> QED BY <1>1, <1>3, <2>4 DEF Held, Calls, Spare
<1> QED BY <1>2, <1>3, WriteBlockParts

\* WriteDone leaves each zone with the one that holds it.
LEMMA WriteDoneHeld ==
  ASSUME Types, Held, WriteDone
  PROVE  Held'
<1>1. /\ cfd \in Fd /\ fp[cfd].used /\ pc' = "idle"
      /\ itab' = itab /\ files' = files /\ zmap' = zmap
  BY DEF WriteDone, Return, store, table, Types, CallOK, Held, Calls
<1>2. PICK g \in Descriptor :
        /\ fp' = [fp EXCEPT ![cfd] = g]
        /\ g.used = fp[cfd].used /\ g.inode_nr = fp[cfd].inode_nr
        /\ Within(g) \subseteq Within(fp[cfd])
  BY WriteDoneParts
<1>3. /\ Apart'
      /\ \A c \in Fd : fp'[c].used => fp'[c].inode_nr \in files'
  BY <1>1, <1>2, HoldSame
<1> QED BY <1>1, <1>3 DEF Held, Calls, Spare

\* my_read leaves each zone with the one that holds it.
LEMMA my_readHeld ==
  ASSUME Types, Held, NEW fd \in Fd, NEW n \in Counts, my_read(fd, n)
  PROVE  Held'
<1>1. /\ fp' = fp /\ itab' = itab /\ files' = files /\ zmap' = zmap
      /\ \/ pc' = "crashed"
         \/ pc' = "read" /\ cfd' = fd /\ fp[fd].used
  BY DEF my_read, store, table
<1>2. \A i : Holds(i)' = Holds(i)
  BY <1>1 DEF Holds, Sharing, Named, Within
<1> QED BY <1>1, <1>2 DEF Held, Calls, Apart, Spare

\* ReadBlock leaves each zone with the one that holds it.
LEMMA ReadBlockHeld ==
  ASSUME Types, Held, ReadBlock
  PROVE  Held'
<1>1. /\ cfd \in Fd /\ fp[cfd].used /\ pc' = "read" /\ cfd' = cfd
      /\ itab' = itab /\ files' = files /\ zmap' = zmap
  BY DEF ReadBlock, store, table, Types, CallOK, Held, Calls
<1>2. PICK g \in Descriptor :
        /\ fp' = [fp EXCEPT ![cfd] = g]
        /\ g.used = fp[cfd].used /\ g.inode_nr = fp[cfd].inode_nr
        /\ Within(g) \subseteq Within(fp[cfd])
  BY ReadBlockParts
<1>3. /\ Apart'
      /\ \A c \in Fd : fp'[c].used => fp'[c].inode_nr \in files'
      /\ \A c \in Fd : fp'[c].used = fp[c].used
  BY <1>1, <1>2, HoldSame
<1> QED BY <1>1, <1>3 DEF Held, Calls, Spare

\* ReadDone leaves each zone with the one that holds it.
LEMMA ReadDoneHeld ==
  ASSUME Types, Held, ReadDone
  PROVE  Held'
<1>1. /\ cfd \in Fd /\ fp[cfd].used /\ pc' = "idle"
      /\ itab' = itab /\ files' = files /\ zmap' = zmap
  BY DEF ReadDone, Return, store, table, Types, CallOK, Held, Calls
<1>2. PICK g \in Descriptor :
        /\ fp' = [fp EXCEPT ![cfd] = g]
        /\ g.used = fp[cfd].used /\ g.inode_nr = fp[cfd].inode_nr
        /\ Within(g) \subseteq Within(fp[cfd])
  BY ReadDoneParts
<1>3. /\ Apart'
      /\ \A c \in Fd : fp'[c].used => fp'[c].inode_nr \in files'
  BY <1>1, <1>2, HoldSame
<1> QED BY <1>1, <1>3 DEF Held, Calls, Spare

\* Every step leaves each zone with the one file that holds it, if no file is
\* removed while it is open.
LEMMA NextHeld == "closed" \in Habits /\ IInv /\ [Next]_vars => Held'
<1> SUFFICES ASSUME "closed" \in Habits, Types, Held, [Next]_vars PROVE Held'
  BY DEF IInv
<1>1. CASE UNCHANGED vars
  <2>1. \A i : Holds(i)' = Holds(i)
    BY <1>1 DEF vars, table, Holds, Sharing, Named, Within
  <2> QED BY <1>1, <2>1 DEF vars, store, table, call, Held, Calls, Apart, Spare
<1>2. CASE \E i \in Files : my_open(i) \/ my_creat(i) \/ my_remove(i)
  BY <1>2, my_openHeld, my_creatHeld, my_removeHeld
<1>3. CASE \E fd \in Fd : \/ my_close(fd)
                          \/ \E d \in Data : my_write(fd, d)
                          \/ \E n \in Counts : my_read(fd, n)
  BY <1>3, my_closeHeld, my_writeHeld, my_readHeld
<1>4. CASE Continue
  BY <1>4, OpenCreatedHeld, NextZoneHeld, TooLongHeld, NoSpaceHeld,
     OldZoneHeld, WriteBlockHeld, WriteDoneHeld, ReadBlockHeld,
     ReadDoneHeld DEF Continue
<1> QED BY <1>1, <1>2, <1>3, <1>4 DEF Next

\* It holds of every reachable state.
LEMMA SpecIInv ==
  ASSUME "closed" \in Habits
  PROVE  Spec => []IInv
<1>1. Init => IInv
  BY InitTypes, InitHeld DEF IInv
<1>2. IInv /\ [Next]_vars => IInv'
  BY NextTypes, NextHeld DEF IInv
<1> QED BY <1>1, <1>2, PTL DEF Spec

\* What a file claims, in the table or in a copy, it holds.
LEMMA ClaimedHeld ==
  ASSUME NEW i
  PROVE  Claimed(i) \subseteq Holds(i)
<1>1. \A inode : Owned(inode) \subseteq Named(inode)
  BY DEF Owned, Named
<1>2. Owned(itab[i]) \subseteq Holds(i)
  BY <1>1 DEF Holds
<1>3. \A fd \in Sharing(i) : Owned(fp[fd].inode) \subseteq Holds(i)
  BY <1>1 DEF Holds, Within
<1> QED BY <1>2, <1>3 DEF Claimed

\* No allocation hands out a zone with data of a file: no zone is claimed by
\* two files, and none of a file is marked free.  Of the habits only the one
\* not to remove an open file is needed: any number of descriptors of a file
\* write by turns, each with a copy of the inode of its own, in the middle of
\* the file or at block boundaries, they are opened and closed in any order, and
\* writes fail half-way.
THEOREM FileIOZonesHeld ==
  ASSUME "closed" \in Habits
  PROVE  Spec => []ZonesHeld
<1>1. IInv => ZonesHeld
  <2> SUFFICES ASSUME IInv PROVE ZonesHeld
    OBVIOUS
  <2>1. \A i : Claimed(i) \subseteq Holds(i)
    BY ClaimedHeld
  <2>2. Apart
    BY DEF IInv, Held
  <2>3. \A i, j \in files : i # j => Claimed(i) \cap Claimed(j) = {}
    BY <2>1, <2>2 DEF Apart
  <2>4. \A i \in files : \A z \in Claimed(i) : z - 1 \in zmap
    BY <2>1, <2>2 DEF Apart
  <2> QED BY <2>3, <2>4 DEF ZonesHeld
<1> QED BY <1>1, SpecIInv, PTL

\* A zone that changes is one of the file whose descriptor changes.
LEMMA WriterOwns ==
  ASSUME Types, Held, NEW fd \in Fd, fp[fd].used, fp'[fd] # fp[fd],
         NEW i \in files, NEW z \in Within(fp[fd]), z \in Claimed(i)
  PROVE  \E c \in Sharing(i) : fp'[c] # fp[c]
<1> DEFINE j == fp[fd].inode_nr
<1>1. j \in files /\ fd \in Sharing(j)
  BY DEF Held, Calls, Sharing
<1>2. z \in Holds(j)
  BY <1>1 DEF Holds
<1>3. z \in Holds(i)
  BY ClaimedHeld
<1>4. i = j
  BY <1>1, <1>2, <1>3 DEF Held, Apart
<1> QED BY <1>1, <1>4

\* my_write writes to no zone of another file, however far the descriptor is
\* behind the file it is of: the only writer of a zone a file claims is a call
\* on one of its descriptors.  As for FileIOZonesHeld, any number of them may
\* write.
THEOREM FileIOOthersUntouched ==
  ASSUME "closed" \in Habits
  PROVE  Spec => OthersUntouched
<1> DEFINE A == \A i \in files :
                  (\E z \in Claimed(i) : zones'[z] # zones[z])
                    => \E fd \in Sharing(i) : fp'[fd] # fp[fd]
<1>1. IInv /\ [Next]_vars => [A]_vars
  <2> SUFFICES ASSUME Types, Held, [Next]_vars,
                      NEW i \in files,
                      NEW z \in Claimed(i), zones'[z] # zones[z]
               PROVE  \E c \in Sharing(i) : fp'[c] # fp[c]
    BY DEF IInv
  <2>1. ASSUME NEW fd \in Fd, NEW d \in Data, my_write(fd, d)
        PROVE  \E c \in Sharing(i) : fp'[c] # fp[c]
    <3>1. PICK cpcnt \in 0 .. Len(d), b \in Block, g \in Descriptor :
            /\ rest' = Drop(d, cpcnt)
            /\ IF fp[fd].block_nr = 0 THEN g = fp[fd] /\ zones' = zones
               ELSE /\ zones' = [zones EXCEPT ![fp[fd].block_nr] = b]
                    /\ g = [fp[fd] EXCEPT !.buf = b, !.offset = @ + cpcnt]
                    /\ cpcnt > 0
            /\ fp' = [fp EXCEPT ![fd] = g]
      BY <2>1, my_writeParts
    <3>2. /\ fp[fd].block_nr # 0 /\ cpcnt > 0
          /\ zones' = [zones EXCEPT ![fp[fd].block_nr] = b]
          /\ g = [fp[fd] EXCEPT !.buf = b, !.offset = @ + cpcnt]
      BY <3>1
    <3>3. z = fp[fd].block_nr
      BY <3>2 DEF Types, StoreOK
    <3>4. fp[fd].offset \in Nat /\ g.offset = fp[fd].offset + cpcnt
      BY <3>2 DEF Types, Descriptor
    <3>5. fp'[fd] = g
      BY <3>1 DEF Types
    <3>a. g.offset # fp[fd].offset
      <4>1. cpcnt \in Nat
        BY Sizes, LenProperties
      <4> QED BY <3>2, <3>4, <4>1
    <3>6. fp'[fd] # fp[fd]
      BY <3>a, <3>5
    <3>7. z \in Within(fp[fd]) /\ fp[fd].used
      BY <2>1, <3>2, <3>3 DEF Within, my_write
    <3> QED BY <3>6, <3>7, WriterOwns
  <2>2. ASSUME NEW n \in 1 .. ZoneBits, NextZone(n)
        PROVE  FALSE
    <3>1. n - 1 \notin zmap /\ zones' = [zones EXCEPT ![n] = EmptyBlock]
      BY <2>2, NextZoneParts
    <3>2. z = n
      BY <3>1 DEF Types, StoreOK
    <3>3. z - 1 \in zmap
      BY ClaimedHeld DEF Held, Apart
    <3> QED BY <3>1, <3>2, <3>3
  <2>3. ASSUME WriteBlock
        PROVE  \E c \in Sharing(i) : fp'[c] # fp[c]
    <3>1. PICK b \in Block, g \in Descriptor, cpcnt \in Nat :
            /\ zones' = [zones EXCEPT ![fp[cfd].dzi.znum] = b]
            /\ fp' = [fp EXCEPT ![cfd] = g]
            /\ g = [fp[cfd] EXCEPT !.block_nr = fp[cfd].dzi.znum,
                                   !.offset = @ + cpcnt]
            /\ rest # <<>> => cpcnt # 0
      BY <2>3, WriteBlockParts
    <3>2. cfd \in Fd /\ fp[cfd].used /\ rest # <<>> /\ fp[cfd].dzi.znum # 0
      BY <2>3, WriteBlockParts DEF WriteBlock, Held, Calls, Types, CallOK
    <3>3. z = fp[cfd].dzi.znum
      BY <3>1 DEF Types, StoreOK
    <3>4. fp[cfd].offset \in Nat /\ g.offset = fp[cfd].offset + cpcnt
      BY <3>1, <3>2 DEF Types, Descriptor
    <3>a. g.offset # fp[cfd].offset
      BY <3>1, <3>2, <3>4
    <3>b. fp'[cfd] = g
      BY <3>1, <3>2 DEF Types
    <3>5. fp'[cfd] # fp[cfd]
      BY <3>a, <3>b
    <3>6. z \in Within(fp[cfd])
      BY <3>2, <3>3 DEF Within
    <3> QED BY <3>2, <3>5, <3>6, WriterOwns
  <2>4. NoSpace => FALSE
    BY NoSpaceParts
  <2>5. CASE UNCHANGED vars
    BY <2>5 DEF vars, store
  <2>6. ASSUME NEW j \in Files, my_open(j) \/ my_creat(j) \/ my_remove(j)
        PROVE  FALSE
    BY <2>6 DEF my_open, my_creat, my_remove, store
  <2>7. ASSUME NEW fd \in Fd, my_close(fd) \/ \E n \in Counts : my_read(fd, n)
        PROVE  FALSE
    BY <2>7 DEF my_close, my_read, store
  <2>8. CASE Continue
    <3>1. OpenCreated \/ TooLong \/ OldZone \/ WriteDone \/ ReadBlock \/ ReadDone
            => FALSE
      BY DEF OpenCreated, TooLong, OldZone, WriteDone, ReadBlock, ReadDone, store,
         ZMap!free_zone
    <3> QED BY <2>2, <2>3, <2>4, <2>8, <3>1 DEF Continue
  <2> QED BY <2>1, <2>5, <2>6, <2>7, <2>8 DEF Next
<1>2. Spec => [][A]_vars
  BY <1>1, SpecIInv, PTL DEF Spec
<1> QED BY <1>2 DEF OthersUntouched

-----------------------------------------------------------------------------
(* The contents of files: zones, blocks and bytes *)

\* The bytes of n zones.
Full(n) == n * BLOCKSIZE

\* n zones hold s bytes, and fewer do not.
Ends(n, s) == s <= Full(n) /\ (n = 0 \/ Full(n - 1) < s)

\* The first n places of an inode have zones, all different.
Filled(inode, n) ==
  /\ n \in 0 .. NrDirect
  /\ \A k \in 1 .. NrDirect : inode.direct[k] # 0 <=> k <= n
  /\ \A k, l \in 1 .. n : k # l => inode.direct[k] # inode.direct[l]

\* An inode that has the zones its size needs, and no others.
Whole(inode) == \E n \in 0 .. NrDirect : Ends(n, inode.size) /\ Filled(inode, n)

\* Byte j of a file.
At(zs, inode, j) ==
  LET z == inode.direct[(j - 1) \div BLOCKSIZE + 1]
  IN  IF z = 0 THEN Junk ELSE zs[z][(j - 1) % BLOCKSIZE]

\* A descriptor is on the block of position p, or on the one that ends there.
On(zs, f, p) ==
  LET num == f.dzi.num
  IN  /\ num = 0 => p = 0 /\ f.block_nr = 0
      /\ num # 0 => /\ f.block_nr # 0 /\ f.block_nr = f.inode.direct[num]
                    /\ f.buf = zs[f.block_nr]
                    /\ p <= Full(num)
                    /\ Full(num - 1) < p \/ (num = 1 /\ p = 0)

\* The iterator of a descriptor that no write is going on with.
Iterates(f) ==
  \E n \in 0 .. NrDirect :
     /\ Ends(n, f.inode.size) /\ Filled(f.inode, n)
     /\ f.dzi.num <= n /\ f.dzi.count \in {n, n + 1}
     /\ f.inode.size = 0 \/ f.inode.size < Full(n) => f.dzi.count = n

\* Such a descriptor, at position p.
Rests(zs, f, p) ==
  /\ Iterates(f) /\ On(zs, f, p)
  /\ f.inode.size > 0 => f.dzi.num # 0
  /\ f.offset <= f.inode.size

\* Its call to my_write is not over.
InWrite(fd) == pc \in {"write", "block"} /\ fd = cfd

\* All other descriptors are at rest; one that reads, at the place that
\* my_read has come to.
Resting == \A fd \in Fd : fp[fd].used /\ ~ InWrite(fd) =>
             Rests(zones, fp[fd], IF pc = "read" /\ fd = cfd
                                  THEN fp[fd].offset + (total - remain)
                                  ELSE fp[fd].offset)

\* my_read has gathered the bytes from the offset on, to the end of a block.
Reading == pc = "read" =>
  LET f == fp[cfd]
      done == total - remain
  IN  /\ \E n \in Counts : total = Lesser(n, f.inode.size - f.offset)
      /\ total > 0 /\ remain <= total
      /\ remain > 0 => f.offset + done = Full(f.dzi.num)
      /\ rbuf = [j \in 1 .. done |-> At(zones, f.inode, f.offset + j)]

\* What is left of the data and what is in the file already.
Wrote(zs, f, left, all) ==
  \E d \in Data :
    /\ Len(d) = all /\ all - Len(left) \in 0 .. all /\ left = Drop(d, all - Len(left))
    /\ \A j \in 1 .. all - Len(left) : At(zs, f.inode, f.inode.size + j) = d[j]

\* A descriptor in my_write, with left to be written of all bytes: those before
\* are in the file, and there are zones for the rest.
Writes(stage, zs, f, left, all, free) ==
  LET n == f.dzi.count
  IN  /\ f.dzi.num = n /\ Filled(f.inode, n)
      /\ f.offset = f.inode.size + (all - Len(left))
      /\ Wrote(zs, f, left, all)
      /\ f.offset + Len(left) <= Full(NrDirect)
      /\ stage = "write" => /\ Ends(n, f.offset)
                            /\ left # <<>> => f.offset = Full(n)
                            /\ n > 0 => f.block_nr = f.inode.direct[n]
                            /\ Len(left) <= Full(free)
      /\ stage = "block" => /\ left # <<>> /\ n > 0 /\ f.offset = Full(n - 1)
                            /\ f.dzi.znum = f.inode.direct[n]
                            /\ Len(left) <= Full(free + 1)

\* Who writes has the file alone.
InWriting == pc \in {"write", "block"} =>
   /\ Sharing(fp[cfd].inode_nr) = {cfd}
   /\ Writes(pc, zones, fp[cfd], rest, total, Cardinality(FreeZones))

\* Descriptors that share a file have no unsaved changes to it.
Pairs == \A fd, gd \in Fd :
  fp[fd].used /\ fp[gd].used /\ fp[fd].inode_nr = fp[gd].inode_nr /\ fd # gd =>
    fp[fd].inode = itab[fp[fd].inode_nr]

\* The inode of a file that is not open is in the table.
Closed == \A i \in files : Sharing(i) = {} => Whole(itab[i])

\* Every zone in use is some file's.
Covered == \A b \in zmap : \E i \in files : b + 1 \in Named(Current(i))

\* With room for all that is written, no call comes to a bad end.
Stages == pc \in {"idle", "open", "write", "block", "read"}
          /\ (pc = "open" => Sharing(file) = {})

\* What holds of the descriptors and files of careful clients.
Good == Stages /\ Resting /\ Reading /\ InWriting /\ Pairs /\ Closed /\ Covered

-----------------------------------------------------------------------------
\* The bytes of whole zones.
LEMMA FullSteps ==
  /\ Full(0) = 0 /\ Full(1) = BLOCKSIZE
  /\ \A n \in Nat : Full(n) \in Nat /\ Full(n + 1) = Full(n) + BLOCKSIZE
  /\ \A m, n \in Nat : m <= n => Full(m) <= Full(n)
  /\ \A m, n \in Nat : m < n => Full(m) + BLOCKSIZE <= Full(n)
<1>1. BLOCKSIZE \in Nat
  BY Sizes
<1>2. \A n \in Nat : Full(n) \in Nat /\ Full(n + 1) = Full(n) + BLOCKSIZE
  BY <1>1 DEF Full
<1>3. ASSUME NEW m \in Nat, NEW n \in Nat, m <= n PROVE Full(m) <= Full(n)
  <2>1. PICK k \in Nat : n = m + k
    <3>1. n - m \in Nat /\ n = m + (n - m)
      BY <1>3
    <3> QED BY <3>1
  <2>2. k * BLOCKSIZE \in Nat
    BY <1>1
  <2>3. (m + k) * BLOCKSIZE = m * BLOCKSIZE + k * BLOCKSIZE
    BY <1>1
  <2>4. m * BLOCKSIZE \in Nat
    BY <1>1
  <2> QED BY <2>1, <2>2, <2>3, <2>4 DEF Full
<1>4. ASSUME NEW m \in Nat, NEW n \in Nat, m < n
      PROVE  Full(m) + BLOCKSIZE <= Full(n)
  <2>1. m + 1 \in Nat /\ m + 1 <= n
    BY <1>4
  <2>2. Full(m + 1) <= Full(n)
    BY <2>1, <1>3
  <2>3. Full(m + 1) = Full(m) + BLOCKSIZE
    BY <1>2
  <2> QED BY <2>2, <2>3
<1>5. Full(0) = 0 /\ Full(1) = BLOCKSIZE
  BY <1>1 DEF Full
<1> QED BY <1>2, <1>3, <1>4, <1>5

\* The block of byte j, and its place there.
LEMMA Place ==
  ASSUME NEW j \in Nat \ {0}
  PROVE  LET k == (j - 1) \div BLOCKSIZE + 1
             r == (j - 1) % BLOCKSIZE
         IN  k \in Nat \ {0} /\ r \in Index /\ j = Full(k - 1) + r + 1
<1> DEFINE q == (j - 1) \div BLOCKSIZE
           r == (j - 1) % BLOCKSIZE
<1>1. BLOCKSIZE \in Nat \ {0} /\ j - 1 \in Nat
  BY Sizes
<1>2. q \in Nat /\ r \in 0 .. BLOCKSIZE - 1
  BY <1>1, DivMod
<1>3. j - 1 = BLOCKSIZE * q + r
  BY <1>1
<1>4. BLOCKSIZE * q = Full(q)
  <2> HIDE DEF q
  <2> QED BY <1>1, <1>2 DEF Full
<1>5. Full(q) \in Nat
  BY <1>2, FullSteps
<1> HIDE DEF q, r
<1>6. j = Full(q) + r + 1
  BY <1>2, <1>3, <1>4, <1>5
<1>7. (q + 1) - 1 = q /\ q + 1 \in Nat \ {0}
  BY <1>2
<1> QED BY <1>2, <1>6, <1>7 DEF q, r, Index

\* There is one block and one place in it for each byte.
LEMMA PlaceUnique ==
  ASSUME NEW q \in Nat, NEW r \in Index, NEW p \in Nat, NEW s \in Index,
         Full(q) + r = Full(p) + s
  PROVE  q = p /\ r = s
<1>1. BLOCKSIZE \in Nat /\ r \in 0 .. BLOCKSIZE - 1 /\ s \in 0 .. BLOCKSIZE - 1
      /\ Full(q) \in Nat /\ Full(p) \in Nat
  BY Sizes, FullSteps DEF Index
<1>2. ~ (q < p)
  <2>1. q < p => Full(q) + BLOCKSIZE <= Full(p)
    BY FullSteps
  <2> QED BY <1>1, <2>1
<1>3. ~ (p < q)
  <2>1. p < q => Full(p) + BLOCKSIZE <= Full(q)
    BY FullSteps
  <2> QED BY <1>1, <2>1
<1>4. q = p
  BY <1>2, <1>3
<1> QED BY <1>1, <1>4

\* The same, for what div and mod give.
LEMMA PlaceIs ==
  ASSUME NEW q \in Nat, NEW r \in Index, NEW n, n = Full(q) + r
  PROVE  n \in Nat /\ n \div BLOCKSIZE = q /\ n % BLOCKSIZE = r
<1>1. n \in Nat
  <2>1. Full(q) \in Nat /\ BLOCKSIZE \in Nat
    BY Sizes, FullSteps
  <2> QED BY <2>1 DEF Index
<1> DEFINE k == ((n + 1) - 1) \div BLOCKSIZE + 1
           s == ((n + 1) - 1) % BLOCKSIZE
<1>2. n + 1 \in Nat \ {0} /\ (n + 1) - 1 = n
  BY <1>1
<1>3. k \in Nat \ {0} /\ s \in Index /\ n + 1 = Full(k - 1) + s + 1
  BY <1>2, Place
<1>5. k = n \div BLOCKSIZE + 1 /\ s = n % BLOCKSIZE
  BY <1>2
<1> HIDE DEF k, s
<1>4. k - 1 \in Nat /\ Full(k - 1) + s = Full(q) + r
  <2>1. k - 1 \in Nat /\ Full(k - 1) \in Nat /\ Full(q) \in Nat /\ s \in Int
    BY <1>3, Sizes, FullSteps DEF Index
  <2> QED BY <1>3, <2>1
<1>6. k - 1 = q /\ s = r
  BY <1>3, <1>4, PlaceUnique
<1>7. n \div BLOCKSIZE \in Nat
  BY <1>1, DivMod
<1> QED BY <1>1, <1>3, <1>5, <1>6, <1>7

\* A byte of n zones is in one of them.
LEMMA PlaceUpTo ==
  ASSUME NEW n \in Nat, NEW j \in 1 .. Full(n)
  PROVE  LET k == (j - 1) \div BLOCKSIZE + 1
         IN  k \in 1 .. n /\ (j - 1) % BLOCKSIZE \in Index
<1> DEFINE k == (j - 1) \div BLOCKSIZE + 1
           r == (j - 1) % BLOCKSIZE
<1>1. j \in Nat \ {0} /\ j <= Full(n) /\ BLOCKSIZE \in Nat
  BY FullSteps, Sizes
<1>2. k \in Nat \ {0} /\ r \in Index /\ j = Full(k - 1) + r + 1
  BY <1>1, Place
<1> HIDE DEF k, r
<1>3. n < k => Full(n) <= Full(k - 1)
  <2>1. k - 1 \in Nat /\ (n < k => n <= k - 1)
    BY <1>2
  <2> QED BY <2>1, FullSteps
<1>4. Full(k - 1) \in Nat /\ Full(n) \in Nat /\ r >= 0 /\ r \in Int
  BY <1>1, <1>2, FullSteps DEF Index
<1>5. ~ (n < k)
  BY <1>1, <1>2, <1>3, <1>4
<1> QED BY <1>2, <1>5 DEF k, r

\* How many zones hold s bytes is one number.
LEMMA EndsUnique ==
  ASSUME NEW m \in Nat, NEW n \in Nat, NEW s \in Nat, Ends(m, s), Ends(n, s)
  PROVE  m = n
<1>1. ASSUME NEW k \in Nat, NEW l \in Nat, Ends(k, s), Ends(l, s) PROVE ~ (k < l)
  <2>1. k < l => l - 1 \in Nat /\ k <= l - 1 /\ l # 0
    OBVIOUS
  <2>2. k < l => Full(k) <= Full(l - 1)
    BY <2>1, FullSteps
  <2>3. k < l => Full(k) \in Nat /\ Full(l - 1) \in Nat
    BY <2>1, FullSteps
  <2> QED BY <1>1, <2>1, <2>2, <2>3 DEF Ends
<1>2. ~ (m < n) /\ ~ (n < m)
  BY <1>1
<1> QED BY <1>2

-----------------------------------------------------------------------------
(* Inodes, their bytes, and what clients see of them *)

\* What the clients keep to.
AllHabits == {"append", "inside", "exclusive", "closed", "space"} \subseteq Habits

\* The inode of an open file is that of any descriptor of it.
LEMMA CurrentIs ==
  Pairs => \A i : \A fd \in Sharing(i) : Current(i) = fp[fd].inode
<1> SUFFICES ASSUME Pairs, NEW i, NEW fd \in Sharing(i)
             PROVE  Current(i) = fp[fd].inode
  OBVIOUS
<1> DEFINE g == CHOOSE c \in Sharing(i) : TRUE
<1>1. g \in Sharing(i) /\ Current(i) = fp[g].inode
  BY DEF Current
<1> HIDE DEF g
<1>2. /\ g \in Fd /\ fp[g].used /\ fp[g].inode_nr = i
      /\ fd \in Fd /\ fp[fd].used /\ fp[fd].inode_nr = i
  BY <1>1 DEF Sharing
<1>3. CASE g = fd
  BY <1>1, <1>3
<1>4. CASE g # fd
  <2>1. fp[g].inode = itab[i] /\ fp[fd].inode = itab[i]
    BY <1>2, <1>4 DEF Pairs
  <2> QED BY <1>1, <2>1
<1> QED BY <1>3, <1>4

\* The same after a step.
LEMMA CurrentIsNext ==
  Pairs' => \A i : \A fd \in Sharing(i)' : Current(i)' = fp'[fd].inode
<1> DEFINE F == Pairs => \A i : \A fd \in Sharing(i) : Current(i) = fp[fd].inode
<1>1. F
  BY CurrentIs
<1> HIDE DEF F
<1>2. F'
  BY <1>1, PTL
<1> QED BY <1>2 DEF F

\* Of a file that is not open it is the one of the table.
LEMMA CurrentClosed ==
  \A i : (Sharing(i) = {} => Current(i) = itab[i])
         /\ (Sharing(i)' = {} => Current(i)' = itab'[i])
BY DEF Current

\* What a file holds.
LEMMA CurrentHeld ==
  ASSUME Types, Pairs, NEW i \in files
  PROVE  Current(i) \in Inode /\ Named(Current(i)) \subseteq Holds(i)
<1>1. CASE Sharing(i) = {}
  <2>1. Current(i) = itab[i] /\ i \in Files
    BY <1>1, CurrentClosed DEF Types, TableOK
  <2> QED BY <2>1 DEF Types, TableOK, Holds
<1>2. ASSUME NEW fd \in Sharing(i)
      PROVE  Current(i) \in Inode /\ Named(Current(i)) \subseteq Holds(i)
  <2>1. Current(i) = fp[fd].inode
    BY CurrentIs
  <2>2. fp[fd] \in Descriptor
    BY DEF Types, Sharing
  <2>3. fp[fd].inode \in Inode
    BY <2>2 DEF Descriptor
  <2>4. Named(fp[fd].inode) \subseteq Holds(i)
    BY DEF Holds, Within
  <2> QED BY <2>1, <2>3, <2>4
<1> QED BY <1>1, <1>2

\* The bytes of an inode, one by one, now and after a step.
LEMMA BytesAt ==
  \A m : m.size \in Nat =>
    /\ Bytes(m) = [j \in 1 .. m.size |-> At(zones, m, j)]
    /\ Bytes(m)' = [j \in 1 .. m.size |-> At(zones', m, j)]
<1> SUFFICES ASSUME NEW m, m.size \in Nat
             PROVE  /\ Bytes(m) = [j \in 1 .. m.size |-> At(zones, m, j)]
                    /\ Bytes(m)' = [j \in 1 .. m.size |-> At(zones', m, j)]
  OBVIOUS
<1>1. ASSUME NEW j \in 1 .. m.size
      PROVE  (j - 1) % BLOCKSIZE \in Index
  BY Place
<1>2. \A j \in 1 .. m.size :
        /\ read_zone(m.direct[(j - 1) \div BLOCKSIZE + 1])[(j - 1) % BLOCKSIZE]
             = At(zones, m, j)
        /\ read_zone(m.direct[(j - 1) \div BLOCKSIZE + 1])'[(j - 1) % BLOCKSIZE]
             = At(zones', m, j)
  BY <1>1 DEF read_zone, At
<1> QED BY <1>2 DEF Bytes

\* Zones that stay as they are and where they are keep their bytes.
LEMMA SameAt ==
  ASSUME NEW zs, NEW zt, NEW m, NEW g, NEW n \in Nat,
         \A k \in 1 .. n : g.direct[k] = m.direct[k],
         \A k \in 1 .. n : m.direct[k] # 0 => zt[m.direct[k]] = zs[m.direct[k]],
         NEW j \in 1 .. Full(n)
  PROVE  At(zt, g, j) = At(zs, m, j)
<1>1. (j - 1) \div BLOCKSIZE + 1 \in 1 .. n
  BY PlaceUpTo
<1> QED BY <1>1 DEF At

\* Zones that stay as they are keep their bytes.
LEMMA SameIn ==
  ASSUME NEW zs, NEW zt, NEW m, NEW n \in Nat, NEW j \in 1 .. Full(n),
         \A k \in 1 .. n : m.direct[k] # 0 => zt[m.direct[k]] = zs[m.direct[k]]
  PROVE  At(zt, m, j) = At(zs, m, j)
<1>1. (j - 1) \div BLOCKSIZE + 1 \in 1 .. n
  BY PlaceUpTo
<1> QED BY <1>1 DEF At

\* Where byte j is, when the block is known.
Spot(m, j, k, r) ==
  k \in Nat \ {0} /\ r \in Index /\ j = Full(k - 1) + r + 1 /\ m.direct[k] # 0

\* The byte in place r of block k.
Cell(zs, m, k, r) == zs[m.direct[k]][r]

\* Such a byte is the one there.
LEMMA AtSpot ==
  ASSUME NEW zs, NEW m, NEW k, NEW r, NEW j, Spot(m, j, k, r)
  PROVE  At(zs, m, j) = Cell(zs, m, k, r)
<1>0. k \in Nat \ {0} /\ r \in Index /\ j = Full(k - 1) + r + 1 /\ m.direct[k] # 0
  BY DEF Spot
<1>1. k - 1 \in Nat /\ j - 1 = Full(k - 1) + r
  <2>1. k - 1 \in Nat /\ r \in Int
    BY <1>0, Sizes DEF Index
  <2>2. Full(k - 1) \in Nat
    BY <2>1, FullSteps
  <2> QED BY <1>0, <2>1, <2>2
<1>2. (j - 1) \div BLOCKSIZE = k - 1 /\ (j - 1) % BLOCKSIZE = r
  BY <1>0, <1>1, PlaceIs
<1>3. (k - 1) + 1 = k
  BY <1>0
<1> QED BY <1>0, <1>2, <1>3 DEF At, Cell

\* The zones of an inode that is filled.
LEMMA FilledNamed ==
  ASSUME NEW m \in Inode, NEW n, Filled(m, n)
  PROVE  /\ Named(m) = {m.direct[k] : k \in 1 .. n}
         /\ Owned(m) = Named(m)
         /\ \A k \in 1 .. n : m.direct[k] \in Named(m) /\ m.direct[k] \in 1 .. ZoneBits
<1>1. /\ n \in Nat /\ n <= NrDirect /\ NrDirect \in Nat
      /\ \A k \in 1 .. NrDirect : m.direct[k] \in 0 .. ZoneBits
      /\ \A k \in 1 .. NrDirect : m.direct[k] # 0 <=> k <= n
  BY Sizes DEF Filled, Inode, Zone
<1>2. \A k \in 1 .. n : k \in 1 .. NrDirect /\ m.direct[k] # 0
  BY <1>1
<1>3. Named(m) = {m.direct[k] : k \in 1 .. n}
  <2>1. ASSUME NEW k \in 1 .. NrDirect, m.direct[k] # 0 PROVE k \in 1 .. n
    BY <1>1, <2>1
  <2> QED BY <1>2, <2>1 DEF Named
<1>4. Owned(m) = {m.direct[k] : k \in 1 .. n}
  <2>1. ASSUME NEW j \in 1 .. NrDirect, \A l \in 1 .. j : m.direct[l] # 0
        PROVE  j \in 1 .. n
    BY <1>1, <2>1
  <2>2. ASSUME NEW j \in 1 .. n, NEW l \in 1 .. j PROVE m.direct[l] # 0
    <3>1. l \in 1 .. n
      BY <1>1
    <3> QED BY <3>1, <1>2
  <2>3. {j \in 1 .. NrDirect : \A l \in 1 .. j : m.direct[l] # 0} = 1 .. n
    BY <1>2, <2>1, <2>2
  <2> QED BY <2>3 DEF Owned
<1>5. \A k \in 1 .. n : m.direct[k] \in 1 .. ZoneBits
  BY <1>1, <1>2
<1> QED BY <1>2, <1>3, <1>4, <1>5

\* A step of FileStore, or one that shows nothing.
StoreStep == Store!Next \/ UNCHANGED <<AllContents, Positions, out>>

\* A step that clients cannot see.
LEMMA Unseen ==
  ASSUME files' = files, \A j \in files : Contents(j)' = Contents(j),
         \A c \in Fd : fp'[c].used = fp[c].used,
         \A c \in Fd : fp[c].used => Position(c)' = Position(c),
         out' = out
  PROVE  StoreStep
<1>1. AllContents' = AllContents
  BY DEF AllContents
<1>2. {g \in Fd : fp'[g].used} = {g \in Fd : fp[g].used}
  OBVIOUS
<1>3. Positions' = Positions
  BY <1>2 DEF Positions
<1> QED BY <1>1, <1>3 DEF StoreStep

-----------------------------------------------------------------------------
(* Descriptors that a step of another does not disturb *)

\* The inode of a file that no write is going on with is whole.
LEMMA WholeCurrent ==
  ASSUME Types, Pairs, Closed, Resting, NEW i \in files,
         \A c \in Sharing(i) : ~ InWrite(c)
  PROVE  Whole(Current(i))
<1>1. CASE Sharing(i) = {}
  BY <1>1, CurrentClosed DEF Closed
<1>2. ASSUME NEW c \in Sharing(i) PROVE Whole(Current(i))
  <2>1. Current(i) = fp[c].inode
    BY CurrentIs
  <2>2. Iterates(fp[c])
    BY DEF Resting, Rests, Sharing
  <2> QED BY <2>1, <2>2 DEF Iterates, Whole
<1> QED BY <1>1, <1>2

\* A descriptor at rest is not disturbed if its zones are not.
LEMMA RestsOn ==
  ASSUME NEW zs, NEW zt, NEW f \in Descriptor, NEW p, Rests(zs, f, p),
         \A z \in Named(f.inode) : zt[z] = zs[z]
  PROVE  Rests(zt, f, p)
<1>1. On(zs, f, p) /\ Iterates(f) /\ (f.inode.size > 0 => f.dzi.num # 0)
      /\ f.offset <= f.inode.size
  BY DEF Rests
<1>2. PICK n \in 0 .. NrDirect : Filled(f.inode, n) /\ f.dzi.num <= n
  BY <1>1 DEF Iterates
<1>3. f.inode \in Inode /\ f.dzi.num \in Nat
  BY DEF Descriptor, Iterator
<1>4. f.dzi.num # 0 => f.dzi.num \in 1 .. n
  BY <1>2, <1>3
<1>5. f.dzi.num # 0 => f.inode.direct[f.dzi.num] \in Named(f.inode)
  BY <1>2, <1>3, <1>4, FilledNamed
<1>6. On(zt, f, p)
  BY <1>1, <1>5 DEF On
<1> QED BY <1>1, <1>6 DEF Rests

\* What is written to other zones leaves the bytes of an inode alone.
LEMMA AtKept ==
  ASSUME NEW zs, NEW zt, NEW m \in Inode, NEW n, Filled(m, n),
         NEW s \in Nat, s <= Full(n), \A z \in Named(m) : zt[z] = zs[z]
  PROVE  \A k \in 1 .. s : At(zt, m, k) = At(zs, m, k)
<1>1. n \in Nat /\ Full(n) \in Nat
  BY FullSteps, Sizes DEF Filled
<1>2. \A l \in 1 .. n : m.direct[l] # 0 => zt[m.direct[l]] = zs[m.direct[l]]
  BY FilledNamed
<1> TAKE k \in 1 .. s
<1>3. k \in 1 .. Full(n)
  BY <1>1
<1> QED BY <1>1, <1>2, <1>3, SameIn

\* Nobody but the writer of a file sees that its zones and its descriptor
\* change.
LEMMA OneWriter ==
  ASSUME Types, Held, Good, NEW fd \in Fd, NEW i, NEW g \in Descriptor,
         fp[fd].used, g.used, fp[fd].inode_nr = i, g.inode_nr = i,
         Sharing(i) = {fd},
         fp' = [fp EXCEPT ![fd] = g], itab' = itab, files' = files,
         \A j \in files \ {i} : \A z \in Holds(j) : zones'[z] = zones[z],
         pc \in {"idle", "write", "block"}, pc # "idle" => fd = cfd,
         pc' \in {"idle", "write", "block"}, pc' # "idle" => fd = cfd'
  PROVE  /\ \A c \in Fd : c # fd /\ fp'[c].used =>
              Rests(zones', fp'[c], fp'[c].offset) /\ Position(c)' = Position(c)
         /\ Pairs' /\ Closed' /\ Stages'
         /\ \A j : Sharing(j)' = Sharing(j)
         /\ \A c \in Fd : fp'[c].used = fp[c].used
         /\ i \in files
         /\ Current(i) = fp[fd].inode
         /\ Current(i)' = g.inode
         /\ \A j \in files \ {i} :
              Current(j)' = Current(j) /\ Contents(j)' = Contents(j)
<1>1. /\ fp'[fd] = g
      /\ \A c \in Fd : c # fd => fp'[c] = fp[c]
      /\ \A c \in Fd : fp'[c].used = fp[c].used /\ fp'[c].inode_nr = fp[c].inode_nr
  BY DEF Types
<1>2. \A j : Sharing(j)' = Sharing(j)
  BY <1>1 DEF Sharing
<1>3. \A c \in Fd : fp[c].used /\ fp[c].inode_nr = i => c = fd
  <2>1. \A c \in Fd : fp[c].used /\ fp[c].inode_nr = i => c \in Sharing(i)
    BY DEF Sharing
  <2> QED BY <2>1
<1>4. \A c \in Fd : fp[c].used => fp[c].inode_nr \in files
  BY DEF Held, Calls
<1>5. \A c \in Fd : c # fd /\ fp[c].used => fp[c].inode_nr \in files \ {i}
  BY <1>3, <1>4
<1>6. ASSUME NEW c \in Fd, c # fd, fp'[c].used
      PROVE  Rests(zones', fp'[c], fp'[c].offset) /\ Position(c)' = Position(c)
  <2>1. fp'[c] = fp[c] /\ fp[c] \in Descriptor /\ fp[c].used
    BY <1>1, <1>6 DEF Types
  <2>2. Rests(zones, fp[c], fp[c].offset)
    BY <1>6, <2>1 DEF Good, Resting, InWrite
  <2>3. \A z \in Named(fp[c].inode) : z \in Holds(fp[c].inode_nr)
    BY <2>1 DEF Holds, Within, Sharing
  <2>4. \A z \in Named(fp[c].inode) : zones'[z] = zones[z]
    BY <1>5, <1>6, <2>1, <2>3
  <2>5. Rests(zones', fp[c], fp[c].offset)
    BY <2>1, <2>2, <2>4, RestsOn
  <2>6. Position(c)' = Position(c)
    BY <1>6, <2>1 DEF Position
  <2> QED BY <2>1, <2>5, <2>6
<1>7. Pairs'
  <2>1. ASSUME NEW c \in Fd, NEW e \in Fd, fp'[c].used, fp'[e].used, c # e,
               fp'[c].inode_nr = fp'[e].inode_nr
        PROVE  c # fd /\ e # fd
    <3>1. /\ fp[c].used /\ fp[e].used /\ fp[c].inode_nr = fp[e].inode_nr
      BY <1>1, <2>1
    <3>2. c = fd => e = fd
      BY <1>3, <3>1
    <3>3. e = fd => c = fd
      BY <1>3, <3>1
    <3> QED BY <2>1, <3>2, <3>3
  <2> QED BY <1>1, <2>1 DEF Good, Pairs
<1>8. Closed'
  BY <1>2 DEF Good, Closed
<1>9. Stages'
  BY DEF Good, Stages
<1>10. /\ \A j : \A c \in Sharing(j) : Current(j) = fp[c].inode
       /\ \A j : \A c \in Sharing(j)' : Current(j)' = fp'[c].inode
  BY <1>7, CurrentIs, CurrentIsNext DEF Good
<1>11. Current(i) = fp[fd].inode /\ Current(i)' = g.inode
  <2>1. fd \in Sharing(i) /\ fd \in Sharing(i)'
    BY <1>2
  <2> QED BY <1>1, <1>10, <2>1
<1>12. ASSUME NEW j \in files \ {i}
       PROVE  Current(j)' = Current(j) /\ Contents(j)' = Contents(j)
  <2>1. Current(j)' = Current(j)
    <3>1. CASE Sharing(j) = {}
      BY <1>2, <3>1, CurrentClosed
    <3>2. ASSUME NEW c \in Sharing(j) PROVE Current(j)' = Current(j)
      <4>1. c \in Fd /\ c # fd
        BY DEF Sharing
      <4> QED BY <1>1, <1>2, <1>10, <4>1
    <3> QED BY <3>1, <3>2
  <2>2. Current(j) \in Inode /\ Named(Current(j)) \subseteq Holds(j)
    BY CurrentHeld DEF Good
  <2>3. Whole(Current(j))
    <3>1. \A c \in Sharing(j) : ~ InWrite(c)
      BY DEF Sharing, InWrite
    <3> QED BY <3>1, WholeCurrent DEF Good
  <2>4. PICK m \in Inode : m = Current(j)
    BY <2>2
  <2>5. PICK n \in 0 .. NrDirect : Ends(n, m.size) /\ Filled(m, n)
    BY <2>3, <2>4 DEF Whole
  <2>6. \A z \in Named(m) : zones'[z] = zones[z]
    BY <2>2, <2>4
  <2>8. n \in Nat /\ m.size \in Nat /\ Full(n) \in Nat /\ m.size <= Full(n)
    BY <2>5, FullSteps, Sizes DEF Inode, Ends
  <2>9. \A k \in 1 .. m.size : At(zones', m, k) = At(zones, m, k)
    <3>1. \A z \in Named(m) : zones'[z] = zones[z]
      BY <2>6
    <3> QED BY <2>5, <2>8, <3>1, AtKept
  <2>10. Bytes(m)' = Bytes(m)
    BY <2>8, <2>9, BytesAt
  <2>11. Contents(j) = Bytes(m) /\ Contents(j)' = Bytes(m)'
    BY <2>1, <2>4 DEF Contents, Bytes
  <2> QED BY <2>1, <2>10, <2>11
<1> QED BY <1>1, <1>2, <1>4, <1>6, <1>7, <1>8, <1>9, <1>11, <1>12

\* A descriptor a client may write through is on the last zone, which is not
\* full, or the file is empty.
LEMMA Appending ==
  ASSUME NEW f \in Descriptor, NEW zs, Rests(zs, f, f.offset), ~ AtBoundary(f),
         f.offset = f.inode.size
  PROVE  \E n \in 0 .. NrDirect :
           /\ Filled(f.inode, n) /\ f.dzi.num = n /\ f.dzi.count = n
           /\ n = 0 => f.inode.size = 0 /\ f.block_nr = 0
           /\ n # 0 => /\ f.block_nr = f.inode.direct[n] /\ f.block_nr # 0
                       /\ f.buf = zs[f.block_nr]
                       /\ f.offset % BLOCKSIZE \in Index \ {0}
                       /\ f.offset = Full(n - 1) + (f.offset % BLOCKSIZE)
<1> DEFINE s == f.inode.size
<1>1. /\ s \in Nat /\ f.dzi.num \in Nat /\ f.dzi.count \in Nat /\ BLOCKSIZE \in Nat \ {0}
      /\ f.offset = s /\ NrDirect \in Nat
  BY Sizes DEF Descriptor, Inode, Iterator
<1>2. PICK n \in 0 .. NrDirect :
        /\ Ends(n, s) /\ Filled(f.inode, n)
        /\ f.dzi.num <= n /\ f.dzi.count \in {n, n + 1}
        /\ s = 0 \/ s < Full(n) => f.dzi.count = n
  BY DEF Rests, Iterates
<1>3. n \in Nat /\ Full(n) \in Nat
  BY <1>1, <1>2, FullSteps
<1>4. CASE s = 0
  <2>1. n = 0
    <3>0. n # 0 => n - 1 \in Nat
      BY <1>3
    <3>1. n # 0 => Full(n - 1) \in Nat
      BY <3>0, FullSteps
    <3> QED BY <1>2, <1>4, <3>1 DEF Ends
  <2>2. f.dzi.num = 0 /\ f.dzi.count = 0
    BY <1>1, <1>2, <1>4, <2>1
  <2>3. f.block_nr = 0
    BY <2>2 DEF Rests, On
  <2> QED BY <1>2, <1>4, <2>1, <2>2, <2>3
<1>5. CASE s # 0
  <2> DEFINE num == f.dzi.num
  <2>1. /\ num # 0 /\ f.block_nr # 0 /\ f.block_nr = f.inode.direct[num]
        /\ f.buf = zs[f.block_nr] /\ s <= Full(num) /\ Full(num - 1) < s
    BY <1>1, <1>5 DEF Rests, On
  <2>2. Ends(num, s)
    BY <2>1 DEF Ends
  <2>3. num = n
    BY <1>1, <1>2, <1>3, <2>2, EndsUnique
  <2>4. n # 0 /\ n - 1 \in Nat /\ Full(n - 1) \in Nat /\ Full(n) = Full(n - 1) + BLOCKSIZE
    <3>1. n # 0 /\ n - 1 \in Nat /\ (n - 1) + 1 = n
      BY <1>3, <2>1, <2>3
    <3> QED BY <3>1, FullSteps
  <2>5. s % BLOCKSIZE # 0
    BY <1>1, <1>5 DEF AtBoundary
  <2>6. s # Full(n)
    <3>1. 0 \in Index
      BY <1>1 DEF Index
    <3>2. s = Full(n) => s = Full(n) + 0
      BY <1>3
    <3>3. s = Full(n) => s % BLOCKSIZE = 0
      BY <1>3, <3>1, <3>2, PlaceIs
    <3> QED BY <2>5, <3>3
  <2>7. s < Full(n) /\ Full(n - 1) < s
    BY <1>1, <1>3, <2>1, <2>3, <2>6
  <2>8. s % BLOCKSIZE \in Index \ {0} /\ s = Full(n - 1) + (s % BLOCKSIZE)
    <3>1. s - Full(n - 1) \in Index /\ s = Full(n - 1) + (s - Full(n - 1))
      BY <1>1, <2>4, <2>7 DEF Index
    <3>2. s % BLOCKSIZE = s - Full(n - 1)
      BY <2>4, <3>1, PlaceIs
    <3> QED BY <2>5, <3>1, <3>2
  <2>9. f.dzi.count = n
    BY <1>2, <2>7
  <2> QED BY <1>1, <1>2, <2>1, <2>3, <2>4, <2>8, <2>9
<1> QED BY <1>4, <1>5

\* Who writes to a file writes to no other one's zones.
LEMMA OwnZone ==
  ASSUME Types, Held, NEW fd \in Fd, fp[fd].used, NEW w \in Within(fp[fd])
  PROVE  \A j \in files \ {fp[fd].inode_nr} : w \notin Holds(j)
<1>1. fp[fd].inode_nr \in files /\ fd \in Sharing(fp[fd].inode_nr)
  BY DEF Held, Calls, Sharing
<1>2. w \in Holds(fp[fd].inode_nr)
  BY <1>1 DEF Holds
<1> QED BY <1>1, <1>2 DEF Held, Apart

\* A step of my_write but its last shows nothing and leaves the others alone:
\* what is left to show is what it makes of its own descriptor.
LEMMA WriteUnseen ==
  ASSUME Types, Held, Good, NEW fd \in Fd, NEW g \in Descriptor,
         fp[fd].used, g.used, g.inode_nr = fp[fd].inode_nr,
         Sharing(fp[fd].inode_nr) = {fd},
         fp' = [fp EXCEPT ![fd] = g], itab' = itab, files' = files, out' = out,
         \A j \in files \ {fp[fd].inode_nr} : \A z \in Holds(j) : zones'[z] = zones[z],
         pc \in {"idle", "write", "block"}, pc # "idle" => fd = cfd,
         pc' \in {"write", "block"}, fd = cfd',
         g.inode.size = fp[fd].inode.size,
         \A j \in 1 .. g.inode.size : At(zones', g.inode, j) = At(zones, fp[fd].inode, j),
         Position(fd)' = Position(fd),
         \A b \in zmap' : b \in zmap \/ b + 1 \in Named(g.inode),
         Named(fp[fd].inode) \subseteq Named(g.inode),
         Writes(pc', zones', g, rest', total', Cardinality(FreeZones'))
  PROVE  Good' /\ StoreStep
<1>50. PICK i : i = fp[fd].inode_nr
  OBVIOUS
<1>1. /\ \A c \in Fd : c # fd /\ fp'[c].used =>
              Rests(zones', fp'[c], fp'[c].offset) /\ Position(c)' = Position(c)
      /\ Pairs' /\ Closed' /\ Stages'
      /\ \A j : Sharing(j)' = Sharing(j)
      /\ \A c \in Fd : fp'[c].used = fp[c].used
      /\ i \in files
      /\ Current(i) = fp[fd].inode
      /\ Current(i)' = g.inode
      /\ \A j \in files \ {i} : Current(j)' = Current(j) /\ Contents(j)' = Contents(j)
  <2>1. /\ fp[fd].inode_nr = i /\ g.inode_nr = i /\ Sharing(i) = {fd}
        /\ \A j \in files \ {i} : \A z \in Holds(j) : zones'[z] = zones[z]
    BY <1>50
  <2>2. pc' \in {"idle", "write", "block"} /\ (pc' # "idle" => fd = cfd')
    OBVIOUS
  <2> QED BY <2>1, <2>2, OneWriter
<1>2. Resting'
  BY <1>1 DEF Resting, InWrite
<1>3. Reading'
  BY DEF Reading
<1>4. fp'[fd] = g
  BY DEF Types
<1>5. InWriting'
  BY <1>1, <1>4 DEF InWriting
<1>6. Covered'
  <2> SUFFICES ASSUME NEW b \in zmap'
               PROVE  \E j \in files : b + 1 \in Named(Current(j)')
    BY DEF Covered, Named
  <2>1. CASE b + 1 \in Named(g.inode)
    BY <1>1, <2>1
  <2>2. CASE b \in zmap
    <3>1. PICK j \in files : b + 1 \in Named(Current(j))
      BY <2>2 DEF Good, Covered
    <3>2. CASE j = i
      BY <1>1, <3>1, <3>2
    <3>3. CASE j # i
      BY <1>1, <3>1, <3>3
    <3> QED BY <3>2, <3>3
  <2> QED BY <2>1, <2>2
<1>7. Contents(i)' = Contents(i)
  <2>1. PICK m : m = fp[fd].inode
    OBVIOUS
  <2>2. m.size \in Nat /\ g.inode.size = m.size
    BY <2>1 DEF Types, Descriptor, Inode
  <2>3. /\ Bytes(m) = [j \in 1 .. m.size |-> At(zones, m, j)]
        /\ Bytes(g.inode)' = [j \in 1 .. m.size |-> At(zones', g.inode, j)]
    BY <2>2, BytesAt
  <2>4. Contents(i) = Bytes(m) /\ Contents(i)' = Bytes(g.inode)'
    BY <1>1, <2>1 DEF Contents, Bytes
  <2> QED BY <2>1, <2>2, <2>3, <2>4
<1>8. \A j \in files : Contents(j)' = Contents(j)
  BY <1>1, <1>7
<1>9. \A c \in Fd : fp[c].used => Position(c)' = Position(c)
  BY <1>1
<1>10. StoreStep
  BY <1>1, <1>8, <1>9, Unseen
<1> QED BY <1>1, <1>2, <1>3, <1>5, <1>6, <1>10 DEF Good

-----------------------------------------------------------------------------
(* my_write begins *)

\* Free zones are finitely many.
LEMMA FreeCard ==
  ASSUME Types
  PROVE  IsFiniteSet(FreeZones) /\ Cardinality(FreeZones) \in Nat
<1>1. IsFiniteSet(1 .. ZoneBits)
  BY FS_Interval, Sizes
<1>2. FreeZones \subseteq 1 .. ZoneBits
  BY DEF FreeZones
<1>3. IsFiniteSet(FreeZones)
  BY <1>1, <1>2, FS_Subset
<1> QED BY <1>3, FS_CardinalityType

\* What is left of data, part by part.
LEMMA DropDrop ==
  ASSUME NEW S, NEW d \in Seq(S), NEW m \in 0 .. Len(d), NEW n \in 0 .. Len(d) - m
  PROVE  Drop(Drop(d, m), n) = Drop(d, m + n)
<1>1. Len(d) \in Nat
  OBVIOUS
<1>2. Drop(d, m) \in Seq(S) /\ Len(Drop(d, m)) = Len(d) - m
  BY DropType
<1>3. m + n \in 0 .. Len(d) /\ m + n \in Nat
  BY <1>1
<1>4. /\ Drop(Drop(d, m), n) \in Seq(S) /\ Len(Drop(Drop(d, m), n)) = Len(d) - m - n
      /\ Drop(d, m + n) \in Seq(S) /\ Len(Drop(d, m + n)) = Len(d) - (m + n)
  BY <1>2, <1>3, DropType
<1>5. ASSUME NEW k \in 1 .. Len(d) - (m + n)
      PROVE  Drop(Drop(d, m), n)[k] = Drop(d, m + n)[k]
  <2>1. Drop(d, m + n)[k] = d[m + n + k]
    BY <1>1, <1>3 DEF Drop
  <2>2. n + k \in 1 .. Len(d) - m
    BY <1>1, <1>3
  <2>3. Drop(d, m)[n + k] = d[m + (n + k)]
    BY <1>1, <2>2 DEF Drop
  <2>4. Drop(Drop(d, m), n)[k] = Drop(d, m)[n + k]
    <3> DEFINE e == Drop(d, m)
    <3>1. e \in Seq(S) /\ Len(e) = Len(d) - m
      BY <1>2
    <3> HIDE DEF e
    <3>2. Drop(e, n)[k] = e[n + k]
      BY <1>1, <1>3, <3>1 DEF Drop
    <3> QED BY <3>2 DEF e
  <2> QED BY <2>1, <2>3, <2>4, <1>1
<1> DEFINE a == Drop(Drop(d, m), n)
           b == Drop(d, m + n)
<1>6. a \in Seq(S) /\ b \in Seq(S) /\ Len(a) = Len(b)
      /\ \A k \in 1 .. Len(a) : a[k] = b[k]
  <2>1. Len(d) - m - n = Len(d) - (m + n)
    BY <1>1
  <2> QED BY <1>4, <1>5, <2>1
<1> HIDE DEF a, b
<1>7. a = b
  BY <1>6, SeqEqual
<1> QED BY <1>7 DEF a, b

\* What is left of data when nothing or something is taken.
LEMMA DropLeft ==
  ASSUME NEW S, NEW d \in Seq(S), NEW m \in 0 .. Len(d)
  PROVE  Drop(d, m) # <<>> => Len(Drop(d, m)) > 0 /\ m < Len(d)
<1>1. Drop(d, m) \in Seq(S) /\ Len(Drop(d, m)) = Len(d) - m /\ Len(d) \in Nat
  BY DropType
<1>2. Drop(d, m) # <<>> => Len(Drop(d, m)) # 0
  BY <1>1, EmptySeq
<1> QED BY <1>1, <1>2

\* my_write on an empty file takes no data yet.
LEMMA my_writeEmpty ==
  ASSUME AllHabits, Types, Held, Good, NEW fd \in Fd, NEW d \in Data, my_write(fd, d),
         fp[fd].block_nr = 0
  PROVE  Good' /\ StoreStep
<1> DEFINE f == fp[fd]
<1>1. /\ f \in Descriptor /\ f.inode \in Inode /\ f.used /\ pc = "idle"
      /\ f.offset = f.inode.size /\ ~ AtBoundary(f) /\ Sharing(f.inode_nr) = {fd}
      /\ Cardinality(FreeZones) * BLOCKSIZE >= Len(d)
      /\ f.offset + Len(d) <= NrDirect * BLOCKSIZE
  BY DEF AllHabits, my_write, WriteHabits, Types, Descriptor
<1>2. d \in Seq(Byte) /\ Len(d) \in Nat
  BY Sizes, LenProperties
<1>3. /\ UNCHANGED <<zones, fp, zmap, last_free_zone_num, itab, files, out>>
      /\ pc' = "write" /\ cfd' = fd /\ total' = Len(d) /\ rest' = Drop(d, 0)
  BY DEF my_write, table
<1>4. Rests(zones, f, f.offset)
  BY <1>1 DEF Good, Resting, InWrite
<1> HIDE DEF f
<1>5. PICK n \in 0 .. NrDirect :
           /\ Filled(f.inode, n) /\ f.dzi.num = n /\ f.dzi.count = n
           /\ n = 0 => f.inode.size = 0 /\ f.block_nr = 0
           /\ n # 0 => f.block_nr # 0
  BY <1>1, <1>4, Appending
<1>6. n = 0 /\ f.inode.size = 0
  BY <1>5 DEF f
<1>7. rest' \in Seq(Byte) /\ Len(rest') = Len(d) /\ total' - Len(rest') = 0
  <2>1. 0 \in 0 .. Len(d)
    BY <1>2
  <2>2. Drop(d, 0) \in Seq(Byte) /\ Len(Drop(d, 0)) = Len(d) - 0
    BY <1>2, <2>1, DropType
  <2> QED BY <1>2, <1>3, <2>2
<1>8. Wrote(zones, f, rest', total')
  <2>1. \A j \in 1 .. total' - Len(rest') : FALSE
    BY <1>7
  <2>2. total' - Len(rest') \in 0 .. total'
    BY <1>2, <1>3, <1>7
  <2> QED BY <1>3, <1>7, <2>1, <2>2 DEF Wrote
<1>9. Cardinality(FreeZones) \in Nat
  BY FreeCard
<1>10. Full(0) = 0
  BY FullSteps
<1>11. Writes("write", zones, f, rest', total', Cardinality(FreeZones))
  <2>1. f.offset + Len(rest') <= Full(NrDirect)
    BY <1>1, <1>7 DEF Full
  <2>2. Len(rest') <= Full(Cardinality(FreeZones))
    BY <1>1, <1>7, <1>9 DEF Full
  <2>3. Ends(0, f.offset) /\ f.offset = Full(0)
    BY <1>1, <1>6, <1>10 DEF Ends
  <2>4. f.offset = f.inode.size + (total' - Len(rest'))
    BY <1>1, <1>6, <1>7
  <2> QED BY <1>5, <1>6, <1>8, <2>1, <2>2, <2>3, <2>4 DEF Writes
<1>12. FreeZones' = FreeZones
  BY <1>3 DEF FreeZones
<1>13. Writes(pc', zones', f, rest', total', Cardinality(FreeZones'))
  BY <1>3, <1>11, <1>12
<1>14. fp' = [fp EXCEPT ![fd] = f]
  BY <1>3 DEF Types, f
<1>15. Position(fd)' = Position(fd)
  <2>1. f.offset - (total' - Len(rest')) = f.offset
    BY <1>1, <1>6, <1>7
  <2> QED BY <1>1, <1>3, <2>1 DEF Position, f
<1>16. pc \in {"idle", "write", "block"} /\ pc' \in {"write", "block"}
       /\ pc # "idle" => fd = cfd
  BY <1>1, <1>3
<1> QED
  <2> USE DEF f
  <2> QED BY <1>1, <1>3, <1>13, <1>14, <1>15, <1>16, WriteUnseen

\* my_write fills the current block first.
LEMMA my_writeFills ==
  ASSUME AllHabits, Types, Held, Good, NEW fd \in Fd, NEW d \in Data, my_write(fd, d),
         fp[fd].block_nr # 0
  PROVE  Good' /\ StoreStep
<1> DEFINE f == fp[fd]
           zoff == f.offset % BLOCKSIZE
           cpcnt == Lesser(Len(d), BLOCKSIZE - zoff)
           b == [i \in Index |-> IF i \in zoff .. zoff + cpcnt - 1
                                 THEN d[i - zoff + 1] ELSE f.buf[i]]
           g == [f EXCEPT !.buf = b, !.offset = @ + cpcnt]
           w == f.block_nr
<1>1. /\ f \in Descriptor /\ f.inode \in Inode /\ f.used /\ pc = "idle"
      /\ f.offset \in Nat /\ f.dzi \in Iterator
      /\ f.offset = f.inode.size /\ ~ AtBoundary(f) /\ Sharing(f.inode_nr) = {fd}
      /\ Len(d) <= Full(Cardinality(FreeZones))
      /\ f.offset + Len(d) <= Full(NrDirect)
      /\ zones \in [1 .. ZoneBits -> Block]
  <2>1. Cardinality(FreeZones) * BLOCKSIZE \in Int /\ Len(d) \in Nat
    BY FreeCard, Sizes, LenProperties
  <2> QED BY <2>1 DEF AllHabits, my_write, WriteHabits, Types, Descriptor, StoreOK, Full
<1>2. d \in Seq(Byte) /\ Len(d) \in Nat /\ Len(d) # 0 /\ BLOCKSIZE \in Nat \ {0}
  <2>1. d \in Seq(Byte) /\ d # <<>>
    BY Sizes
  <2> QED BY <2>1, Sizes, EmptySeq, LenProperties
<1>3. /\ UNCHANGED <<zmap, last_free_zone_num, itab, files, out>>
      /\ pc' = "write" /\ cfd' = fd /\ total' = Len(d) /\ rest' = Drop(d, cpcnt)
      /\ zones' = [zones EXCEPT ![w] = b]
      /\ fp' = [fp EXCEPT ![fd].buf = b, ![fd].offset = @ + cpcnt]
  BY DEF my_write, table
<1>4. Rests(zones, f, f.offset)
  BY <1>1 DEF Good, Resting, InWrite
<1>5. f.block_nr # 0
  OBVIOUS
<1>6. fp' = [fp EXCEPT ![fd] = g]
  <2> HIDE DEF b, cpcnt
  <2> QED BY <1>3 DEF Types, Descriptor
<1> HIDE DEF f, zoff, cpcnt, b, g
<1>7. PICK n \in 0 .. NrDirect :
           /\ Filled(f.inode, n) /\ f.dzi.num = n /\ f.dzi.count = n
           /\ n = 0 => f.inode.size = 0 /\ f.block_nr = 0
           /\ n # 0 => /\ f.block_nr = f.inode.direct[n] /\ f.block_nr # 0
                       /\ f.buf = zones[f.block_nr]
                       /\ f.offset % BLOCKSIZE \in Index \ {0}
                       /\ f.offset = Full(n - 1) + (f.offset % BLOCKSIZE)
  BY <1>1, <1>4, Appending
<1>8. /\ n \in Nat \ {0} /\ n <= NrDirect /\ n \in 1 .. NrDirect /\ n \in 1 .. n
      /\ w = f.inode.direct[n] /\ f.buf = zones[w]
      /\ zoff \in Index /\ zoff # 0 /\ f.offset = Full(n - 1) + zoff
      /\ n - 1 \in Nat /\ n - 1 + 1 = n /\ n - 1 <= NrDirect
  BY <1>5, <1>7, Sizes DEF zoff
<1>50. PICK q \in Nat : n = q + 1 /\ n - 1 = q
  BY <1>8
<1>9. /\ Full(q) \in Nat /\ Full(n - 1) = Full(q) /\ Full(n - 1) \in Nat
      /\ Full(n) \in Nat /\ Full(n) = Full(n - 1) + BLOCKSIZE
  BY <1>8, <1>50, FullSteps
<1>10. /\ zoff \in Nat /\ zoff < BLOCKSIZE
       /\ cpcnt \in 1 .. Len(d) /\ cpcnt <= BLOCKSIZE - zoff
       /\ cpcnt = Len(d) \/ cpcnt = BLOCKSIZE - zoff
  BY <1>2, <1>8 DEF cpcnt, Lesser, Index
<1>11. /\ g.used /\ g.inode_nr = f.inode_nr /\ g.inode = f.inode /\ g.dzi = f.dzi
       /\ g.block_nr = w /\ g.offset = f.offset + cpcnt
  BY <1>1 DEF g, Descriptor
<1>12. g \in Descriptor
  <2>1. \A i \in Index : i \in zoff .. zoff + cpcnt - 1 => d[i - zoff + 1] \in Byte
    <3> TAKE i \in Index
    <3>1. i \in zoff .. zoff + cpcnt - 1 => i - zoff + 1 \in 1 .. Len(d)
      BY <1>2, <1>10
    <3> QED BY <1>2, <3>1
  <2>2. f.buf \in Block
    BY <1>1 DEF Descriptor
  <2>3. b \in Block
    BY <2>1, <2>2 DEF b, Block
  <2>4. f.offset + cpcnt \in Nat
    BY <1>1, <1>10
  <2> QED BY <1>1, <2>3, <2>4 DEF g, Descriptor
<1>13. w \in 1 .. ZoneBits /\ w \in Named(f.inode)
  BY <1>1, <1>7, <1>8, FilledNamed
<1>14. zones'[w] = b /\ \A z : z # w => zones'[z] = zones[z]
  BY <1>1, <1>3, <1>13
<1>15. Len(rest') = Len(d) - cpcnt /\ rest' \in Seq(Byte)
       /\ total' - Len(rest') = cpcnt
  <2>1. Drop(d, cpcnt) \in Seq(Byte) /\ Len(Drop(d, cpcnt)) = Len(d) - cpcnt
    BY <1>2, <1>10, DropType
  <2> QED BY <1>2, <1>3, <1>10, <2>1
\* What was there.
<1>51. PICK m \in Inode : /\ m = f.inode /\ m.direct[n] = w /\ w # 0
                       /\ n \in Nat \ {0} /\ m.direct[n] # 0
  BY <1>1, <1>8, <1>50, <1>13
<1>16. \A j \in 1 .. f.inode.size : At(zones', f.inode, j) = At(zones, f.inode, j)
  <2> TAKE j \in 1 .. f.inode.size
  <2>1. j \in Nat \ {0} /\ j <= Full(q) + zoff
    BY <1>1, <1>8, <1>9
  <2>2. CASE j <= Full(q)
    <3>1. \A k \in 1 .. q :
             m.direct[k] # 0 => zones'[m.direct[k]] = zones[m.direct[k]]
      <4> TAKE k \in 1 .. q
      <4>1. k \in 1 .. n /\ k # n
        BY <1>8, <1>50
      <4>2. f.inode.direct[k] # w
        BY <1>7, <1>8, <4>1 DEF Filled
      <4> QED BY <1>51, <1>14, <4>2
    <3>2. j \in 1 .. Full(q)
      BY <1>9, <2>1, <2>2
    <3>3. At(zones', m, j) = At(zones, m, j)
      BY <1>50, <3>1, <3>2, SameIn, SMTT(20)
    <3> QED BY <1>51, <3>3
  <2>3. CASE j > Full(q)
    <3> DEFINE r == j - Full(q) - 1
    <3>50. r \in Nat /\ r < zoff /\ r < BLOCKSIZE /\ j = Full(q) + r + 1
      BY <1>2, <1>9, <1>10, <2>1, <2>3
    <3>1. r \in Index /\ Spot(m, j, n, r) /\ r < zoff
      <4>1. r \in Index
        BY <1>2, <3>50 DEF Index
      <4> QED BY <1>51, <1>9, <3>50, <4>1 DEF Spot
    <3> HIDE DEF r
    <3>2. /\ At(zones', f.inode, j) = zones'[w][r]
          /\ At(zones, f.inode, j) = zones[w][r]
      <4>1. /\ At(zones', m, j) = zones'[m.direct[n]][r]
            /\ At(zones, m, j) = zones[m.direct[n]][r]
        <5>1. /\ At(zones', m, j) = Cell(zones', m, n, r)
              /\ At(zones, m, j) = Cell(zones, m, n, r)
          BY <3>1, AtSpot
        <5> QED BY <5>1 DEF Cell
      <4> QED BY <1>51, <4>1
    <3>3. b[r] = f.buf[r]
      BY <1>10, <3>1 DEF b, Index
    <3> QED BY <1>8, <1>14, <3>2, <3>3
  <2> QED BY <1>9, <2>1, <2>2, <2>3
\* What comes behind it.
<1>17. Wrote(zones', g, rest', total')
  <2>1. ASSUME NEW j \in 1 .. cpcnt
        PROVE  At(zones', g.inode, g.inode.size + j) = d[j]
    <3> DEFINE r == zoff + j - 1
    <3>0. j \in Int /\ j >= 1 /\ j <= cpcnt /\ f.inode.size = Full(n - 1) + zoff
      BY <1>1, <1>2, <1>8, <1>10
    <3>50. cpcnt \in Nat /\ j \in Nat /\ j <= cpcnt
      BY <1>2, <1>10
    <3>51. /\ r \in Nat /\ r < BLOCKSIZE
           /\ r \in zoff .. zoff + cpcnt - 1 /\ r - zoff + 1 = j
      BY <1>2, <1>10, <3>50, <3>0
    <3>52. f.inode.size + j = Full(n - 1) + r + 1
      BY <1>9, <1>10, <3>50, <3>0
    <3>1. /\ r \in Index /\ r \in zoff .. zoff + cpcnt - 1
          /\ Spot(m, f.inode.size + j, n, r) /\ r - zoff + 1 = j
      <4>1. r \in Index
        BY <1>2, <3>51 DEF Index
      <4> HIDE DEF r
      <4> QED BY <1>51, <3>51, <3>52, <4>1 DEF Spot
    <3> HIDE DEF r
    <3>2. At(zones', f.inode, f.inode.size + j) = zones'[w][r]
      <4>1. At(zones', m, f.inode.size + j) = zones'[m.direct[n]][r]
        <5>1. At(zones', m, f.inode.size + j) = Cell(zones', m, n, r)
          BY <3>1, AtSpot
        <5> QED BY <5>1 DEF Cell
      <4> QED BY <1>51, <4>1
    <3>3. b[r] = d[j]
      BY <3>1 DEF b
    <3> QED BY <1>11, <1>14, <3>2, <3>3
  <2>2. total' - Len(rest') \in 0 .. total' /\ rest' = Drop(d, total' - Len(rest'))
    BY <1>2, <1>3, <1>10, <1>15
  <2>3. Len(d) = total'
    BY <1>3
  <2> QED BY <1>15, <2>1, <2>2, <2>3 DEF Wrote
<1>18. Cardinality(FreeZones) \in Nat /\ FreeZones' = FreeZones
  BY <1>3, FreeCard DEF FreeZones
<1>19. Writes("write", zones', g, rest', total', Cardinality(FreeZones))
  <2>1. g.offset + Len(rest') <= Full(NrDirect)
    <3>1. g.offset + Len(rest') = f.offset + Len(d)
      BY <1>1, <1>2, <1>10, <1>11, <1>15
    <3> QED BY <1>1, <3>1
  <2>2. Len(rest') <= Full(Cardinality(FreeZones))
    <3>1. Len(rest') <= Len(d)
      BY <1>2, <1>10, <1>15
    <3>2. Full(Cardinality(FreeZones)) \in Nat
      BY <1>18, FullSteps
    <3> QED BY <1>1, <1>2, <1>15, <3>1, <3>2
  <2>3. Ends(n, g.offset)
    BY <1>1, <1>2, <1>8, <1>9, <1>10, <1>11 DEF Ends
  <2>4. rest' # <<>> => g.offset = Full(n)
    <3>1. rest' # <<>> => cpcnt # Len(d)
      BY <1>2, <1>3, <1>10, DropLeft
    <3>2. f.offset = Full(n - 1) + zoff /\ f.offset \in Nat
      BY <1>1, <1>8
    <3> QED BY <1>2, <1>9, <1>10, <1>11, <3>1, <3>2
  <2>5. g.offset = g.inode.size + (total' - Len(rest'))
    BY <1>1, <1>11, <1>15
  <2> QED BY <1>7, <1>8, <1>11, <1>17, <2>1, <2>2, <2>3, <2>4, <2>5 DEF Writes
<1>20. Position(fd)' = Position(fd)
  <2>1. fp'[fd] = g
    BY <1>6 DEF Types
  <2>2. g.offset - (total' - Len(rest')) = f.offset
    BY <1>1, <1>10, <1>11, <1>15
  <2> QED BY <1>1, <1>3, <1>11, <2>1, <2>2 DEF Position, f
<1>21. \A j \in files \ {fp[fd].inode_nr} : \A z \in Holds(j) : zones'[z] = zones[z]
  <2>1. w \in Within(f)
    BY <1>13 DEF Within
  <2>2. \A j \in files \ {fp[fd].inode_nr} : w \notin Holds(j)
    BY <1>1, <2>1, OwnZone DEF f
  <2> QED BY <1>14, <2>2
<1>22. pc \in {"idle", "write", "block"} /\ pc' \in {"write", "block"}
       /\ pc # "idle" => fd = cfd
  BY <1>1, <1>3
<1>23. Writes(pc', zones', g, rest', total', Cardinality(FreeZones'))
  BY <1>3, <1>18, <1>19
<1>24. \A j \in 1 .. g.inode.size : At(zones', g.inode, j) = At(zones, fp[fd].inode, j)
  BY <1>11, <1>16 DEF f
<1> QED
  <2> USE DEF f
  <2> QED BY <1>1, <1>3, <1>6, <1>11, <1>12, <1>20, <1>21, <1>22, <1>23, <1>24, WriteUnseen

-----------------------------------------------------------------------------
(* my_write goes on: NextZone and WriteBlock *)

\* What has been written is where it was.
LEMMA WroteKept ==
  ASSUME NEW zs, NEW zt, NEW f, NEW g, NEW left, NEW all, Wrote(zs, f, left, all),
         g.inode.size = f.inode.size, f.inode.size \in Nat,
         \A j \in 1 .. f.inode.size + (all - Len(left)) :
           At(zt, g.inode, j) = At(zs, f.inode, j)
  PROVE  Wrote(zt, g, left, all)
<1>1. PICK d \in Data :
    /\ Len(d) = all /\ all - Len(left) \in 0 .. all /\ left = Drop(d, all - Len(left))
    /\ \A j \in 1 .. all - Len(left) : At(zs, f.inode, f.inode.size + j) = d[j]
  BY DEF Wrote
<1>2. all - Len(left) \in Nat
  BY <1>1
<1>3. ASSUME NEW j \in 1 .. all - Len(left)
      PROVE  At(zt, g.inode, g.inode.size + j) = d[j]
  <2>1. f.inode.size + j \in 1 .. f.inode.size + (all - Len(left))
    BY <1>2
  <2>2. At(zt, g.inode, f.inode.size + j) = At(zs, f.inode, f.inode.size + j)
    BY <2>1
  <2> QED BY <1>1, <2>2
<1> QED BY <1>1, <1>3 DEF Wrote

\* One free zone less.
LEMMA FreeLess ==
  ASSUME Types, NEW z \in FreeZones, zmap' = zmap \cup {z - 1}
  PROVE  Cardinality(FreeZones) = Cardinality(FreeZones') + 1
         /\ Cardinality(FreeZones') \in Nat
<1>1. FreeZones' = FreeZones \ {z}
  BY DEF FreeZones
<1>2. IsFiniteSet(FreeZones) /\ Cardinality(FreeZones) \in Nat
  BY FreeCard
<1>3. Cardinality(FreeZones \ {z}) = Cardinality(FreeZones) - 1
  BY <1>2, FS_RemoveElement
<1>4. Cardinality(FreeZones') \in Nat
  BY <1>1, <1>2, FS_RemoveElement, FS_CardinalityType, FS_Subset
<1> QED BY <1>1, <1>2, <1>3, <1>4

\* The writer, in the middle of my_write.
LEMMA Writer ==
  ASSUME Types, Held, Good, pc \in {"write", "block"}
  PROVE  /\ cfd \in Fd /\ fp[cfd] \in Descriptor /\ fp[cfd].inode \in Inode
         /\ fp[cfd].dzi \in Iterator /\ fp[cfd].offset \in Nat
         /\ fp[cfd].used /\ fp[cfd].inode_nr \in files
         /\ Sharing(fp[cfd].inode_nr) = {cfd}
         /\ Writes(pc, zones, fp[cfd], rest, total, Cardinality(FreeZones))
         /\ rest \in Seq(Byte) /\ Len(rest) \in Nat /\ total \in Nat
<1>1. cfd \in Fd /\ fp[cfd] \in Descriptor /\ rest \in Seq(Byte) /\ total \in Nat
  BY DEF Types, CallOK
<1>2. fp[cfd].used /\ fp[cfd].inode_nr \in files
  BY <1>1 DEF Held, Calls
<1> QED BY <1>1, <1>2, LenProperties DEF Descriptor, Good, InWriting

\* NextZone puts a zone behind those the file has.
LEMMA NextZoneGood ==
  ASSUME AllHabits, Types, Held, Good, NEW z \in 1 .. ZoneBits, NextZone(z)
  PROVE  Good' /\ StoreStep
<1> DEFINE f == fp[cfd]
           n == f.dzi.count
           moved == MoveTo(f.dzi, f.inode, n + 1)
           m == [f.inode EXCEPT !.direct[n + 1] = z]
           d == [f.dzi EXCEPT !.num = n + 1, !.nil = FALSE, !.znum = z, !.count = n + 1]
           g == [f EXCEPT !.inode = m, !.dzi = d]
           free == Cardinality(FreeZones)
<1>1. /\ cfd \in Fd /\ f \in Descriptor /\ f.inode \in Inode /\ f.dzi \in Iterator
      /\ f.used /\ f.inode_nr \in files /\ f.offset \in Nat
      /\ Sharing(f.inode_nr) = {cfd} /\ pc = "write"
      /\ Writes("write", zones, f, rest, total, free)
      /\ rest # <<>> /\ rest \in Seq(Byte) /\ Len(rest) \in Nat /\ total \in Nat
  BY Writer DEF NextZone, Writing
<1>2. /\ z - 1 \notin zmap /\ zmap' = zmap \cup {z - 1}
      /\ zones' = [zones EXCEPT ![z] = EmptyBlock]
  BY NextZoneParts
<1>3. /\ f.dzi.num = n /\ Filled(f.inode, n) /\ f.offset = Full(n)
      /\ f.offset = f.inode.size + (total - Len(rest))
      /\ Wrote(zones, f, rest, total)
      /\ f.offset + Len(rest) <= Full(NrDirect)
      /\ Ends(n, f.offset) /\ Len(rest) <= Full(free)
  BY <1>1 DEF Writes
<1>4. n \in Nat /\ n <= NrDirect /\ NrDirect \in Nat /\ f.inode.size \in Nat
  BY <1>1, <1>3, Sizes DEF Filled, Iterator, Inode
<1>5. Len(rest) # 0
  BY <1>1, EmptySeq
<1>6. n < NrDirect
  <2>1. Full(n) < Full(NrDirect)
    <3>1. Full(n) \in Nat /\ Full(NrDirect) \in Nat
      BY <1>4, FullSteps
    <3> QED BY <1>1, <1>3, <1>5, <3>1
  <2>2. n # NrDirect
    <3>1. Full(NrDirect) \in Nat
      BY <1>4, FullSteps
    <3> QED BY <2>1, <3>1
  <2> QED BY <1>4, <2>2
<1>7. moved = [f.dzi EXCEPT !.num = n + 1, !.nil = FALSE, !.znum = f.inode.direct[n + 1]]
  <2>1. ~ (n + 1 > n + 1) /\ ~ (n + 1 > NrDirect)
    BY <1>4, <1>6
  <2> HIDE DEF f
  <2> QED BY <2>1 DEF MoveTo
<1>8. fp' = [fp EXCEPT ![cfd] = g] /\ pc' = "block"
  <2>1. ~ moved.nil /\ moved.num = n + 1
    BY <1>1, <1>7 DEF Iterator
  <2>2. /\ fp' = [fp EXCEPT ![cfd].inode.direct[n + 1] = z,
                            ![cfd].dzi = [moved EXCEPT !.znum = z, !.count = @ + 1]]
        /\ pc' = "block"
    BY <2>1 DEF NextZone
  <2>3. [moved EXCEPT !.znum = z, !.count = @ + 1] = d
    <3> HIDE DEF moved, f
    <3> QED BY <1>1, <1>7 DEF Iterator
  <2> HIDE DEF moved, d
  <2> QED BY <1>1, <2>2, <2>3 DEF Types, Descriptor, Inode
<1>9. /\ n + 1 \in 1 .. NrDirect /\ n + 1 \in Nat \ {0} /\ z \in Zone /\ z # 0
  BY <1>4, <1>6 DEF Zone
<1>10. /\ m \in Inode /\ m.size = f.inode.size /\ m.direct[n + 1] = z
       /\ \A k \in 1 .. NrDirect : k # n + 1 => m.direct[k] = f.inode.direct[k]
  BY <1>1, <1>9 DEF Inode
<1> HIDE DEF moved
<1>11. d \in Iterator /\ d.num = n + 1 /\ d.count = n + 1 /\ d.znum = z
  BY <1>1, <1>4, <1>9 DEF Iterator
<1> HIDE DEF m, d
<1>12. /\ g \in Descriptor /\ g.used /\ g.inode_nr = f.inode_nr /\ g.inode = m
       /\ g.dzi = d /\ g.offset = f.offset /\ g.block_nr = f.block_nr
  BY <1>1, <1>10, <1>11 DEF Descriptor
<1> HIDE DEF g
<1>13. \A k \in 1 .. n : f.inode.direct[k] # z
  <2>1. Named(f.inode) \subseteq Holds(f.inode_nr)
    BY <1>1 DEF Holds, Within
  <2>2. \A y \in Named(f.inode) : y - 1 \in zmap
    BY <1>1, <2>1 DEF Held, Apart
  <2>3. z \notin Named(f.inode)
    BY <1>2, <2>2
  <2> QED BY <1>1, <1>3, <2>3, FilledNamed
<1>14. Filled(m, n + 1)
  <2>1. \A k \in 1 .. NrDirect : m.direct[k] # 0 <=> k <= n + 1
    <3> TAKE k \in 1 .. NrDirect
    <3>1. CASE k = n + 1
      BY <1>9, <1>10, <3>1
    <3>2. CASE k # n + 1
      <4>1. k <= n + 1 <=> k <= n
        BY <1>4, <3>2
      <4> QED BY <1>3, <1>10, <3>2, <4>1 DEF Filled
    <3> QED BY <3>1, <3>2
  <2>2. ASSUME NEW k \in 1 .. n + 1, NEW l \in 1 .. n + 1, k # l
        PROVE  m.direct[k] # m.direct[l]
    <3>1. /\ k \in 1 .. NrDirect /\ l \in 1 .. NrDirect
          /\ k # n + 1 => k \in 1 .. n
          /\ l # n + 1 => l \in 1 .. n
      BY <1>4, <1>6
    <3>2. CASE k = n + 1
      BY <1>10, <1>13, <2>2, <3>1, <3>2
    <3>3. CASE l = n + 1
      BY <1>10, <1>13, <2>2, <3>1, <3>3
    <3>4. CASE k # n + 1 /\ l # n + 1
      <4>1. m.direct[k] = f.inode.direct[k] /\ m.direct[l] = f.inode.direct[l]
        BY <1>10, <3>1, <3>4
      <4>2. f.inode.direct[k] # f.inode.direct[l]
        BY <1>3, <2>2, <3>1, <3>4 DEF Filled
      <4> QED BY <4>1, <4>2
    <3> QED BY <3>2, <3>3, <3>4
  <2> QED BY <1>4, <1>6, <2>1, <2>2 DEF Filled
<1>15. \A y : y # z => zones'[y] = zones[y]
  BY <1>2 DEF Types, StoreOK
<1>16. \A j \in 1 .. Full(n) : At(zones', m, j) = At(zones, f.inode, j)
  <2>1. \A k \in 1 .. n : m.direct[k] = f.inode.direct[k]
    <3> TAKE k \in 1 .. n
    <3>1. k \in 1 .. NrDirect /\ k # n + 1
      BY <1>4, <1>6
    <3> QED BY <1>10, <3>1
  <2>2. \A k \in 1 .. n : f.inode.direct[k] # 0
                            => zones'[f.inode.direct[k]] = zones[f.inode.direct[k]]
    BY <1>13, <1>15
  <2>3. PICK q, mm : q \in Nat /\ q = n /\ mm = f.inode
    BY <1>4
  <2>4. /\ \A k \in 1 .. q : m.direct[k] = mm.direct[k]
        /\ \A k \in 1 .. q : mm.direct[k] # 0
                                => zones'[mm.direct[k]] = zones[mm.direct[k]]
    BY <2>1, <2>2, <2>3
  <2>5. ASSUME NEW j \in 1 .. Full(q) PROVE At(zones', m, j) = At(zones, mm, j)
    <3>1. (j - 1) \div BLOCKSIZE + 1 \in 1 .. q
      BY <2>3, PlaceUpTo
    <3> QED BY <2>4, <3>1 DEF At
  <2> QED BY <2>3, <2>5
<1>17. Wrote(zones', g, rest, total)
  <2>1. \A j \in 1 .. f.inode.size + (total - Len(rest)) :
           At(zones', g.inode, j) = At(zones, f.inode, j)
    BY <1>3, <1>12, <1>16
  <2> QED BY <1>3, <1>4, <1>10, <1>12, <2>1, WroteKept
<1>18. Cardinality(FreeZones') \in Nat /\ free = Cardinality(FreeZones') + 1
  <2>1. z \in FreeZones
    BY <1>2 DEF FreeZones
  <2> QED BY <1>2, <2>1, FreeLess
<1>19. Writes("block", zones', g, rest, total, Cardinality(FreeZones'))
  <2>1. (n + 1) - 1 = n
    BY <1>4
  <2>2. Len(rest) <= Full(Cardinality(FreeZones') + 1)
    BY <1>3, <1>18
  <2>3. n + 1 > 0
    BY <1>4
  <2> QED BY <1>1, <1>3, <1>10, <1>11, <1>12, <1>14, <1>17, <2>1, <2>2, <2>3 DEF Writes
<1>20. /\ itab' = itab /\ files' = files /\ cfd' = cfd /\ rest' = rest
       /\ total' = total /\ out' = out
  BY DEF NextZone, table
<1>21. Position(cfd)' = Position(cfd)
  <2>1. fp'[cfd] = g
    BY <1>1, <1>8 DEF Types
  <2> QED BY <1>1, <1>8, <1>12, <1>20, <2>1 DEF Position
<1>22. \A j \in files \ {f.inode_nr} : \A y \in Holds(j) : zones'[y] = zones[y]
  BY <1>2, <1>15 DEF Held, Apart
<1>23. \A j \in 1 .. g.inode.size : At(zones', g.inode, j) = At(zones, f.inode, j)
  <2>1. f.inode.size <= Full(n)
    <3>1. total - Len(rest) \in Nat
      BY <1>3 DEF Wrote
    <3> QED BY <1>3, <1>4, <3>1
  <2>2. Full(n) \in Nat
    BY <1>4, FullSteps
  <2> QED BY <1>4, <1>10, <1>12, <1>16, <2>1, <2>2
<1>24. Named(f.inode) \subseteq Named(g.inode) /\ z \in Named(g.inode)
  <2>1. \A k \in 1 .. NrDirect : f.inode.direct[k] # 0 => k # n + 1
    BY <1>3, <1>4 DEF Filled
  <2>2. \A k \in 1 .. NrDirect : f.inode.direct[k] # 0 => m.direct[k] = f.inode.direct[k]
    BY <1>10, <2>1
  <2> QED BY <1>9, <1>10, <1>12, <2>2 DEF Named
<1>25. \A b \in zmap' : b \in zmap \/ b + 1 \in Named(g.inode)
  <2>1. (z - 1) + 1 = z
    OBVIOUS
  <2> QED BY <1>2, <1>24, <2>1
<1>26. Writes(pc', zones', g, rest', total', Cardinality(FreeZones'))
  BY <1>8, <1>19, <1>20
<1>27. g.inode.size = f.inode.size
  BY <1>10, <1>12
<1>28. pc \in {"idle", "write", "block"} /\ pc' \in {"write", "block"}
  BY <1>1, <1>8
<1> QED
  BY <1>1, <1>8, <1>12, <1>20, <1>21, <1>22, <1>23, <1>24, <1>25, <1>26, <1>27,
     <1>28, WriteUnseen

\* WriteBlock writes the next part of the data to the zone of NextZone.
LEMMA WriteBlockGood ==
  ASSUME AllHabits, Types, Held, Good, WriteBlock
  PROVE  Good' /\ StoreStep
<1> DEFINE f == fp[cfd]
           z == f.dzi.znum
           cpcnt == Lesser(Len(rest), BLOCKSIZE)
           b == [i \in Index |-> IF i < cpcnt THEN rest[i+1] ELSE Junk]
           g == [f EXCEPT !.block_nr = z, !.offset = @ + cpcnt]
           free == Cardinality(FreeZones)
           done == total - Len(rest)
<1>1. /\ cfd \in Fd /\ f \in Descriptor /\ f.inode \in Inode /\ f.dzi \in Iterator
      /\ f.used /\ f.inode_nr \in files /\ f.offset \in Nat
      /\ Sharing(f.inode_nr) = {cfd} /\ pc = "block"
      /\ Writes("block", zones, f, rest, total, free)
      /\ rest \in Seq(Byte) /\ Len(rest) \in Nat /\ total \in Nat
  BY Writer DEF WriteBlock
<1>2. PICK n : n = f.dzi.count
  OBVIOUS
<1>3. /\ f.dzi.num = n /\ Filled(f.inode, n)
      /\ f.offset = f.inode.size + done
      /\ Wrote(zones, f, rest, total)
      /\ f.offset + Len(rest) <= Full(NrDirect)
      /\ rest # <<>> /\ n > 0 /\ f.offset = Full(n - 1) /\ z = f.inode.direct[n]
      /\ Len(rest) <= Full(free + 1)
  BY <1>1, <1>2 DEF Writes
<1>4. n \in Nat \ {0} /\ n <= NrDirect /\ NrDirect \in Nat /\ f.inode.size \in Nat
      /\ BLOCKSIZE \in Nat \ {0}
  BY <1>1, <1>2, <1>3, Sizes DEF Filled, Iterator, Inode
<1>5. PICK q \in Nat : n = q + 1 /\ n - 1 = q
  BY <1>4
<1>6. z # 0 /\ z \in Named(f.inode) /\ z \in 1 .. ZoneBits
  <2>1. n \in 1 .. n
    BY <1>4
  <2>2. z \in Named(f.inode) /\ z \in 1 .. ZoneBits
    BY <1>1, <1>3, <2>1, FilledNamed
  <2> QED BY <2>2
<1>7. Len(rest) # 0
  BY <1>1, <1>3, EmptySeq
<1>8. /\ cpcnt \in 1 .. Len(rest) /\ cpcnt \in Nat /\ cpcnt <= BLOCKSIZE
      /\ cpcnt = Len(rest) \/ cpcnt = BLOCKSIZE
  BY <1>1, <1>4, <1>7 DEF Lesser
<1>9. /\ zones' = [zones EXCEPT ![z] = b]
      /\ fp' = [fp EXCEPT ![cfd].block_nr = z, ![cfd].offset = @ + cpcnt]
      /\ rest' = Drop(rest, cpcnt) /\ pc' = "write" /\ UNCHANGED zmap
      /\ itab' = itab /\ files' = files /\ cfd' = cfd /\ total' = total /\ out' = out
  BY <1>6 DEF WriteBlock, table
<1>10. fp' = [fp EXCEPT ![cfd] = g]
  <2> HIDE DEF cpcnt
  <2> QED BY <1>1, <1>9 DEF Types, Descriptor
<1> HIDE DEF cpcnt, b
<1>11. /\ g \in Descriptor /\ g.used /\ g.inode_nr = f.inode_nr /\ g.inode = f.inode
       /\ g.dzi = f.dzi /\ g.offset = f.offset + cpcnt /\ g.block_nr = z
  <2>1. f.offset + cpcnt \in Nat /\ z \in Zone
    BY <1>1, <1>6, <1>8 DEF Zone
  <2> HIDE DEF f, z
  <2> QED BY <1>1, <2>1 DEF Descriptor
<1> HIDE DEF g
<1>12. /\ Full(q) \in Nat /\ Full(n) \in Nat
       /\ Full(n) = Full(q) + BLOCKSIZE /\ f.offset = Full(q)
  BY <1>3, <1>4, <1>5, FullSteps
<1>13. /\ \A y : y # z => zones'[y] = zones[y]
       /\ zones'[z] = b
  BY <1>6, <1>9 DEF Types, StoreOK
<1>14. PICK m \in Inode : /\ m = f.inode /\ m.direct[n] = z /\ m.direct[n] # 0
  BY <1>1, <1>3, <1>6
<1>15. ASSUME NEW j \in 1 .. Full(q)
       PROVE  At(zones', m, j) = At(zones, m, j)
  <2>1. (j - 1) \div BLOCKSIZE + 1 \in 1 .. q
    BY PlaceUpTo
  <2>2. ASSUME NEW k \in 1 .. q PROVE m.direct[k] # z
    <3>1. k \in 1 .. n /\ n \in 1 .. n /\ k # n
      BY <1>4, <1>5
    <3> QED BY <1>3, <1>14, <3>1 DEF Filled
  <2>3. \A k \in 1 .. q : zones'[m.direct[k]] = zones[m.direct[k]]
    BY <1>13, <2>2
  <2> QED BY <2>1, <2>3 DEF At
<1>16. rest' \in Seq(Byte) /\ Len(rest') = Len(rest) - cpcnt /\ Len(rest') \in Nat
  <2>1. cpcnt \in 0 .. Len(rest)
    BY <1>1, <1>8
  <2> QED BY <1>1, <1>8, <1>9, <2>1, DropType
<1>50. done \in Nat /\ f.offset = f.inode.size + done /\ f.inode.size \in Nat
      /\ f.offset = Full(q) /\ f.inode.size <= Full(q)
  <2>1. done \in Nat /\ f.offset = f.inode.size + done
    BY <1>3 DEF Wrote
  <2> HIDE DEF done
  <2> QED BY <2>1, <1>4, <1>12
<1>17. Wrote(zones', g, rest', total)
  <2>1. PICK d \in Data :
          /\ Len(d) = total /\ done \in 0 .. total /\ rest = Drop(d, done)
          /\ \A j \in 1 .. done : At(zones, f.inode, f.inode.size + j) = d[j]
    BY <1>3 DEF Wrote
  <2>2. d \in Seq(Byte) /\ done \in Nat /\ done \in 0 .. Len(d) /\ Len(d) \in Nat
        /\ total - Len(rest') = done + cpcnt
        /\ cpcnt \in 0 .. Len(d) - done /\ done + cpcnt \in 0 .. total
        /\ Len(rest) = Len(d) - done
    BY <1>1, <1>8, <1>16, <2>1, Sizes
  <2>3. rest' = Drop(d, done + cpcnt)
    BY <1>9, <2>1, <2>2, DropDrop
  <2>4. ASSUME NEW j \in 1 .. done + cpcnt
        PROVE  At(zones', m, m.size + j) = d[j]
    <3>0. done \in Nat /\ cpcnt \in Nat /\ m.size \in Nat /\ m.size + done = Full(q)
      BY <1>3, <1>4, <1>8, <1>12, <1>14, <2>2
    <3> HIDE DEF done
    <3>1. CASE j <= done
      <4>1. m.size + j \in 1 .. Full(q) /\ j \in 1 .. done
        BY <3>0, <3>1
      <4>2. At(zones', m, m.size + j) = At(zones, m, m.size + j)
        BY <1>15, <4>1
      <4> QED BY <1>14, <2>1, <4>1, <4>2
    <3>2. CASE j > done
      <4> DEFINE r == j - done - 1
      <4>1. /\ r \in Nat /\ r < cpcnt /\ r < BLOCKSIZE /\ j = done + (r + 1)
            /\ m.size + j = Full(q) + r + 1 /\ r + 1 \in 1 .. cpcnt
        <5>1. j \in Nat /\ j <= done + cpcnt
          BY <3>0
        <5>2. r \in Nat /\ r < cpcnt /\ j = done + (r + 1)
          BY <3>0, <3>2, <5>1
        <5> HIDE DEF r
        <5>3. r < BLOCKSIZE /\ r + 1 \in 1 .. cpcnt
          BY <1>4, <1>8, <5>2
        <5> QED BY <1>12, <3>0, <5>2, <5>3
      <4> HIDE DEF r
      <4>2. r \in Index
        BY <1>4, <4>1 DEF Index
      <4>3. Spot(m, m.size + j, n, r)
        BY <1>4, <1>5, <1>14, <4>1, <4>2 DEF Spot
      <4>4. At(zones', m, m.size + j) = Cell(zones', m, n, r)
        BY <4>3, AtSpot
      <4>5. Cell(zones', m, n, r) = b[r]
        BY <1>13, <1>14 DEF Cell
      <4>6. b[r] = rest[r + 1]
        BY <4>1, <4>2 DEF b
      <4>7. rest[r + 1] = d[done + (r + 1)]
        <5>1. r + 1 \in 1 .. Len(d) - done
          BY <1>8, <2>2, <4>1
        <5>2. Drop(d, done)[r + 1] = d[done + (r + 1)]
          BY <2>2, <5>1 DEF Drop
        <5> QED BY <2>1, <5>2
      <4> QED BY <4>1, <4>4, <4>5, <4>6, <4>7
    <3> QED BY <2>2, <3>0, <3>1, <3>2
  <2>5. total - Len(rest') \in 0 .. total /\ rest' = Drop(d, total - Len(rest'))
    BY <2>2, <2>3
  <2>6. ASSUME NEW j \in 1 .. total - Len(rest')
        PROVE  At(zones', g.inode, g.inode.size + j) = d[j]
    <3>1. j \in 1 .. done + cpcnt
      BY <2>2
    <3> HIDE DEF done
    <3> QED BY <1>11, <1>14, <2>4, <3>1
  <2> QED BY <2>1, <2>5, <2>6 DEF Wrote
<1>18. free \in Nat /\ FreeZones' = FreeZones
  BY <1>9, FreeCard DEF FreeZones
<1>19. Writes("write", zones', g, rest', total, free)
  <2>1. g.offset = g.inode.size + (total - Len(rest'))
    <3>1. total - Len(rest') = done + cpcnt
      BY <1>1, <1>8, <1>16
    <3> HIDE DEF done
    <3> QED BY <1>50, <1>8, <1>11, <3>1
  <2>2. g.offset + Len(rest') <= Full(NrDirect)
    BY <1>1, <1>3, <1>8, <1>11, <1>16
  <2>3. Ends(n, g.offset)
    BY <1>4, <1>5, <1>8, <1>11, <1>12 DEF Ends
  <2>4. rest' # <<>> => g.offset = Full(n)
    <3>1. rest' # <<>> => Len(rest') # 0
      BY <1>16, EmptySeq
    <3>2. Len(rest') # 0 => cpcnt = BLOCKSIZE
      BY <1>1, <1>8, <1>16
    <3> QED BY <1>11, <1>12, <3>1, <3>2
  <2>5. Len(rest') <= Full(free)
    <3>1. Full(free) \in Nat /\ Full(free + 1) = Full(free) + BLOCKSIZE
      BY <1>18, FullSteps
    <3> HIDE DEF free
    <3> QED BY <1>1, <1>3, <1>4, <1>8, <1>16, <3>1
  <2> QED BY <1>2, <1>3, <1>11, <1>17, <2>1, <2>2, <2>3, <2>4, <2>5 DEF Writes
<1>20. Position(cfd)' = Position(cfd)
  <2>1. fp'[cfd] = g
    BY <1>1, <1>10 DEF Types
  <2>2. g.offset - (total - Len(rest')) = f.offset - (total - Len(rest))
    BY <1>1, <1>8, <1>11, <1>16
  <2> QED BY <1>1, <1>9, <1>11, <2>1, <2>2 DEF Position
<1>21. \A j \in files \ {f.inode_nr} : \A y \in Holds(j) : zones'[y] = zones[y]
  <2>1. z \in Within(f)
    BY <1>6 DEF Within
  <2>2. \A j \in files \ {f.inode_nr} : z \notin Holds(j)
    BY <1>1, <2>1, OwnZone
  <2> QED BY <1>13, <2>2
<1>22. \A j \in 1 .. g.inode.size : At(zones', g.inode, j) = At(zones, f.inode, j)
  <2>2. \A j \in 1 .. f.inode.size : j \in 1 .. Full(q)
    BY <1>12, <1>50
  <2> QED BY <1>11, <1>14, <1>15, <2>2
<1>23. Writes(pc', zones', g, rest', total', Cardinality(FreeZones'))
  BY <1>9, <1>18, <1>19
<1>24. pc \in {"idle", "write", "block"} /\ pc' \in {"write", "block"}
  BY <1>1, <1>9
<1> QED
  BY <1>1, <1>9, <1>10, <1>11, <1>20, <1>21, <1>22, <1>23, <1>24, WriteUnseen

-----------------------------------------------------------------------------
(* my_write ends *)

\* The contents of files, when one of them changes.
LEMMA OneChanged ==
  ASSUME files' = files, NEW i \in files, NEW v, Contents(i)' = v,
         \A j \in files \ {i} : Contents(j)' = Contents(j)
  PROVE  AllContents' = Store!With(AllContents, i, v)
<1>1. files \cup {i} = files
  OBVIOUS
<1>2. AllContents' = [j \in files |-> Contents(j)']
  BY DEF AllContents
<1>3. Store!With(AllContents, i, v) = [j \in files |-> IF j = i THEN v ELSE Contents(j)]
  BY <1>1 DEF AllContents, Store!With
<1> QED BY <1>2, <1>3

\* The positions of descriptors, when one of them moves.
LEMMA OneMoved ==
  ASSUME NEW fd \in Fd, fp[fd].used, NEW o,
         Position(fd)' = [Position(fd) EXCEPT !.offset = o],
         \A c \in Fd : fp'[c].used = fp[c].used,
         \A c \in Fd : c # fd /\ fp[c].used => Position(c)' = Position(c)
  PROVE  Positions' = [Positions EXCEPT ![fd].offset = o]
<1>1. {g \in Fd : fp'[g].used} = {g \in Fd : fp[g].used}
  OBVIOUS
<1> DEFINE U == {g \in Fd : fp[g].used}
<1>2. Positions' = [c \in U |-> Position(c)'] /\ Positions = [c \in U |-> Position(c)]
  BY <1>1 DEF Positions
<1>3. fd \in U /\ \A c \in U : c # fd => Position(c)' = Position(c)
  OBVIOUS
<1> HIDE DEF U
<1>4. \A c \in U : Position(c)' = IF c = fd THEN [Position(fd) EXCEPT !.offset = o]
                                   ELSE Position(c)
  BY <1>3
<1> QED BY <1>2, <1>3, <1>4

\* Between calls every descriptor in use is at rest.
LEMMA RestingNext ==
  ASSUME pc' # "read", \A c \in Fd : fp'[c].used => Rests(zones', fp'[c], fp'[c].offset)
  PROVE  Resting'
BY DEF Resting

\* The end of a write that only one descriptor sees.
LEMMA WriteDoneGood ==
  ASSUME AllHabits, Types, Held, Good, WriteDone, NEW fd, fd = cfd,
         NEW i, i = fp[fd].inode_nr
  PROVE  Good' /\ StoreStep
<1> DEFINE f == fp[fd]
           h == [f.inode EXCEPT !.size = @ + total]
           g == [f EXCEPT !.buf = read_zone(f.block_nr), !.inode = h]
<1>1. /\ fd \in Fd /\ f \in Descriptor /\ f.inode \in Inode /\ f.dzi \in Iterator
      /\ f.used /\ i \in files /\ f.offset \in Nat /\ f.inode_nr = i /\ cfd = fd
      /\ Sharing(i) = {fd} /\ pc = "write" /\ rest = <<>> /\ Len(rest) = 0
      /\ Writes("write", zones, f, rest, total, Cardinality(FreeZones))
      /\ total \in Nat
  BY Writer DEF WriteDone
<1>2. PICK n : n = f.dzi.count
  OBVIOUS
<1>3. /\ f.dzi.num = n /\ Filled(f.inode, n)
      /\ f.offset = f.inode.size + (total - Len(rest))
      /\ Wrote(zones, f, rest, total)
      /\ Ends(n, f.offset) /\ (n > 0 => f.block_nr = f.inode.direct[n])
  BY <1>1, <1>2 DEF Writes
<1>4. /\ n \in Nat /\ n <= NrDirect /\ n \in 0 .. NrDirect
      /\ NrDirect \in Nat /\ f.inode.size \in Nat
      /\ BLOCKSIZE \in Nat \ {0}
  BY <1>1, <1>2, <1>3, Sizes DEF Filled, Iterator, Inode
<1>5. PICK d \in Data :
    /\ Len(d) = total
    /\ \A j \in 1 .. total : At(zones, f.inode, f.inode.size + j) = d[j]
  <2>1. total - Len(rest) = total
    BY <1>1
  <2> QED BY <1>3, <2>1 DEF Wrote
<1>6. total # 0
  BY <1>5, Sizes, EmptySeq
<1>7. f.offset = f.inode.size + total /\ f.offset # 0
  BY <1>1, <1>3, <1>4, <1>6
<1>8. /\ UNCHANGED <<zmap, zones>> /\ pc' = "idle"
      /\ fp' = [fp EXCEPT ![fd].buf = read_zone(f.block_nr), ![fd].inode.size = @ + total]
      /\ itab' = itab /\ files' = files /\ out' = out
  BY DEF WriteDone, Return, store, table
<1>9. fp' = [fp EXCEPT ![fd] = g]
  BY <1>1, <1>8 DEF Types, Descriptor, Inode
<1>10. /\ n # 0 /\ n \in 1 .. n /\ n > 0 /\ n - 1 \in Nat
       /\ Full(n) \in Nat /\ Full(n - 1) \in Nat
  <2>1. n = 0 => Full(n) = 0
    BY FullSteps
  <2>2. n # 0
    BY <1>1, <1>3, <1>7, <2>1 DEF Ends
  <2>3. n - 1 \in Nat
    BY <1>4, <2>2
  <2>4. Full(n) \in Nat /\ Full(n - 1) \in Nat
    BY <1>4, <2>3, FullSteps
  <2> QED BY <1>4, <2>2, <2>3, <2>4
<1>11. /\ f.block_nr = f.inode.direct[n] /\ f.block_nr # 0
       /\ f.block_nr \in 1 .. ZoneBits /\ read_zone(f.block_nr) = zones[f.block_nr]
       /\ read_zone(f.block_nr) \in Block
  <2>1. f.block_nr = f.inode.direct[n] /\ f.block_nr \in 1 .. ZoneBits
    BY <1>1, <1>3, <1>10, FilledNamed
  <2> QED BY <2>1 DEF read_zone, Types, StoreOK
<1>12. PICK m \in Inode : m = h /\ m.size = f.offset /\ m.direct = f.inode.direct
  <2>1. h \in Inode /\ h.size = f.offset /\ h.direct = f.inode.direct
    BY <1>1, <1>4, <1>7 DEF Inode
  <2> QED BY <2>1
<1> HIDE DEF h
<1>13. /\ g \in Descriptor /\ g.used /\ g.inode_nr = i /\ g.inode = m
       /\ g.dzi = f.dzi /\ g.offset = f.offset /\ g.block_nr = f.block_nr
       /\ g.buf = zones[f.block_nr]
  BY <1>1, <1>11, <1>12 DEF Descriptor
<1> HIDE DEF g
<1>14. /\ \A c \in Fd : c # fd /\ fp'[c].used =>
              Rests(zones', fp'[c], fp'[c].offset) /\ Position(c)' = Position(c)
       /\ Pairs' /\ Closed' /\ Stages'
       /\ \A c \in Fd : fp'[c].used = fp[c].used
       /\ Current(i) = f.inode
       /\ Current(i)' = g.inode
       /\ \A j \in files \ {i} :
              Current(j)' = Current(j) /\ Contents(j)' = Contents(j)
  <2>1. \A j \in files \ {i} : \A z \in Holds(j) : zones'[z] = zones[z]
    BY <1>8
  <2>2. pc \in {"idle", "write", "block"} /\ pc' \in {"idle", "write", "block"}
        /\ (pc' # "idle" => fd = cfd')
    BY <1>1, <1>8
  <2>3. /\ fp[fd].used /\ fp[fd].inode_nr = i /\ fp' = [fp EXCEPT ![fd] = g]
        /\ itab' = itab /\ files' = files /\ Sharing(i) = {fd} /\ fd \in Fd
        /\ (pc # "idle" => fd = cfd)
    BY <1>1, <1>8, <1>9
  <2> QED BY <1>13, <2>1, <2>2, <2>3, OneWriter
<1>15. Rests(zones, g, g.offset)
  <2>1. Filled(m, n)
    BY <1>3, <1>12 DEF Filled
  <2>2. Iterates(g)
    BY <1>2, <1>3, <1>4, <1>12, <1>13, <2>1 DEF Iterates
  <2>3. On(zones, g, g.offset)
    <3>1. g.dzi.num = n /\ g.block_nr # 0 /\ g.block_nr = g.inode.direct[n]
          /\ g.buf = zones[g.block_nr]
      BY <1>3, <1>11, <1>12, <1>13
    <3>2. g.offset <= Full(n) /\ Full(n - 1) < g.offset
      BY <1>3, <1>10, <1>13 DEF Ends
    <3> QED BY <1>10, <3>1, <3>2 DEF On
  <2>4. g.dzi.num # 0 /\ g.offset <= g.inode.size
    BY <1>1, <1>3, <1>10, <1>12, <1>13
  <2> QED BY <2>2, <2>3, <2>4 DEF Rests
<1>16. fp'[fd] = g
  BY <1>1, <1>9 DEF Types
<1>17. Good'
  <2>1. Resting'
    <3>1. Rests(zones', fp'[fd], fp'[fd].offset)
      BY <1>8, <1>15, <1>16
    <3>2. \A c \in Fd : fp'[c].used => Rests(zones', fp'[c], fp'[c].offset)
      BY <1>14, <3>1
    <3>3. pc' # "read"
      BY <1>8
    <3> QED BY <3>2, <3>3, RestingNext
  <2>2. Reading' /\ InWriting'
    BY <1>8 DEF Reading, InWriting
  <2>3. Covered'
    <3>1. Named(g.inode) = Named(f.inode)
      BY <1>12, <1>13 DEF Named
    <3>2. ASSUME NEW j \in files PROVE Named(Current(j)') = Named(Current(j))
      <4>1. CASE j = i
        BY <1>14, <3>1, <4>1
      <4>2. CASE j # i
        BY <1>14, <4>2
      <4> QED BY <4>1, <4>2
    <3> QED BY <1>8, <3>2 DEF Good, Covered, Named
  <2> QED BY <1>14, <2>1, <2>2, <2>3 DEF Good
<1> DEFINE o == f.inode.size
           new == [j \in 1 .. o + total |-> IF j \in o + 1 .. o + total THEN d[j - o]
                                            ELSE Contents(i)[j]]
<1>18. Contents(i) = [j \in 1 .. o |-> At(zones, f.inode, j)]
  <2>1. PICK mm : mm = f.inode
    OBVIOUS
  <2>2. Bytes(mm) = [j \in 1 .. mm.size |-> At(zones, mm, j)]
    BY <1>4, <2>1, BytesAt
  <2> QED BY <1>14, <2>1, <2>2 DEF Contents
<1>19. Contents(i)' = [j \in 1 .. o + total |-> At(zones, f.inode, j)]
  <2>1. Contents(i)' = Bytes(m)'
    BY <1>13, <1>14 DEF Contents, Bytes
  <2>2. Bytes(m)' = [j \in 1 .. m.size |-> At(zones', m, j)]
    <3>1. m.size \in Nat
      BY <1>1, <1>12
    <3> QED BY <3>1, BytesAt
  <2>3. \A j : At(zones', m, j) = At(zones, f.inode, j)
    BY <1>8, <1>12 DEF At
  <2> QED BY <1>7, <1>12, <2>1, <2>2, <2>3
<1>20. Contents(i)' = new
  <2>1. ASSUME NEW j \in 1 .. o + total
        PROVE  At(zones, f.inode, j)
                 = IF j \in o + 1 .. o + total THEN d[j - o] ELSE Contents(i)[j]
    <3>1. CASE j \in o + 1 .. o + total
      <4>1. j - o \in 1 .. total /\ j = o + (j - o)
        BY <1>1, <1>4, <3>1
      <4>2. At(zones, f.inode, o + (j - o)) = d[j - o]
        BY <1>5, <4>1
      <4> QED BY <3>1, <4>1, <4>2
    <3>2. CASE j \notin o + 1 .. o + total
      <4>1. j \in 1 .. o
        BY <1>1, <1>4, <3>2
      <4> QED BY <1>18, <3>2, <4>1
    <3> QED BY <3>1, <3>2
  <2> QED BY <1>19, <2>1
<1>21. Len(Contents(i)) = o
  BY <1>4, <1>18
<1>22. /\ Position(fd) = [file |-> i, offset |-> o]
       /\ Position(fd)' = [file |-> i, offset |-> o + total]
  <2>1. f.offset - (total - Len(rest)) = o
    BY <1>1, <1>4, <1>7
  <2> QED BY <1>1, <1>7, <1>8, <1>13, <1>16, <2>1 DEF Position
<1>23. AllContents' = Store!With(AllContents, i, new)
  <2> HIDE DEF new
  <2> QED BY <1>1, <1>8, <1>14, <1>20, OneChanged
<1>24. Positions' = [Positions EXCEPT ![fd].offset = o + total]
  <2>1. PICK p : p = o + total
    OBVIOUS
  <2>2. Position(fd)' = [Position(fd) EXCEPT !.offset = p]
    BY <1>22, <2>1
  <2>3. /\ fd \in Fd /\ fp[fd].used
        /\ \A c \in Fd : fp'[c].used = fp[c].used
        /\ \A c \in Fd : c # fd /\ fp[c].used => Position(c)' = Position(c)
    BY <1>1, <1>14
  <2>4. Positions' = [Positions EXCEPT ![fd].offset = p]
    BY <2>2, <2>3, OneMoved
  <2> QED BY <2>1, <2>4
<1>25. Positions[fd] = [file |-> i, offset |-> o] /\ fd \in DOMAIN Positions
       /\ AllContents[i] = Contents(i)
  BY <1>1, <1>22 DEF Positions, AllContents
<1>26. Store!Write(fd, d)
  <2>1. o + Len(d) > Len(Contents(i)) /\ Len(d) = total
    BY <1>1, <1>4, <1>5, <1>6, <1>21
  <2>2. Positions[fd].file = i /\ Positions[fd].offset = o
    BY <1>25
  <2> HIDE DEF o
  <2> QED BY <1>8, <1>23, <1>24, <1>25, <2>1, <2>2 DEF Store!Write
<1>27. StoreStep
  BY <1>5, <1>25, <1>26 DEF StoreStep, Store!Next, Store!InUse
<1> QED BY <1>17, <1>27

-----------------------------------------------------------------------------
(* my_read *)

\* What cannot happen to careful clients: a file that gets too long, a disk
\* without space, and writing to a zone the file had already.
LEMMA NotTooLong ==
  ASSUME AllHabits, Types, Held, Good
  PROVE  ~ TooLong /\ ~ NoSpace /\ ~ OldZone
<1>1. ~ TooLong
  BY DEF Good, Stages, TooLong
<1>2. ASSUME Writing
      PROVE  /\ AtLastZone /\ Len(rest) # 0 /\ Len(rest) \in Nat
             /\ Len(rest) <= Full(Cardinality(FreeZones))
  <2>1. pc = "write" /\ rest # <<>>
    BY <1>2 DEF Writing
  <2>2. Writes("write", zones, fp[cfd], rest, total, Cardinality(FreeZones))
        /\ rest \in Seq(Byte) /\ Len(rest) \in Nat
    BY <2>1, Writer
  <2>3. fp[cfd].dzi.num = fp[cfd].dzi.count /\ Len(rest) <= Full(Cardinality(FreeZones))
    BY <2>2 DEF Writes
  <2> QED BY <2>1, <2>2, <2>3, EmptySeq DEF AtLastZone
<1>3. ~ OldZone
  BY <1>2 DEF OldZone
<1>4. ASSUME NoSpace PROVE FALSE
  <2>1. ZMap!TypeOK
    BY FileIOAssumption DEF FileIOAssumption, ZMap!TypeOK, ZMap!Bit, ZMap!Bits,
       ZMap!Number, ZMap!Stored, StoreOK, Zone, Types
  <2>2. 0 \in 0 .. ZoneBits /\ ZoneBits \in Nat
    BY Sizes
  <2>3. ZMap!HintFree /\ ZMap!alloc_zone(0)
    BY <1>4 DEF Types, NoSpace
  <2>4. zmap = 0 .. ZoneBits - 1
    BY <2>1, <2>2, <2>3, Alloc
  <2>5. FreeZones = {}
    BY <2>2, <2>4 DEF FreeZones
  <2>6. Full(Cardinality(FreeZones)) = 0
    BY <2>5, FS_EmptySet, FullSteps
  <2> QED BY <1>2, <1>4, <2>6 DEF NoSpace
<1> QED BY <1>1, <1>3, <1>4

\* A step that changes no inode and nothing in the store shows no other files.
LEMMA SameFiles ==
  ASSUME Pairs, Closed, Covered,
         \A c \in Fd : fp'[c].used = fp[c].used /\ fp'[c].inode_nr = fp[c].inode_nr
                       /\ fp'[c].inode = fp[c].inode,
         UNCHANGED <<store, table>>
  PROVE  /\ Pairs' /\ Closed' /\ Covered'
         /\ \A j : Sharing(j)' = Sharing(j) /\ Current(j)' = Current(j)
         /\ \A j : Contents(j)' = Contents(j)
<1>1. zones' = zones /\ zmap' = zmap /\ itab' = itab /\ files' = files
  BY DEF store, table
<1>2. \A j : Sharing(j)' = Sharing(j)
  BY DEF Sharing
<1>3. Pairs'
  BY <1>1 DEF Pairs
<1>4. ASSUME NEW j PROVE Current(j)' = Current(j)
  <2>1. CASE Sharing(j) = {}
    BY <1>1, <1>2, <2>1, CurrentClosed
  <2>2. ASSUME NEW c \in Sharing(j) PROVE Current(j)' = Current(j)
    <3>1. c \in Fd /\ c \in Sharing(j)'
      BY <1>2 DEF Sharing
    <3>2. Current(j) = fp[c].inode
      BY CurrentIs
    <3>3. Current(j)' = fp'[c].inode
      BY <1>3, <3>1, CurrentIsNext
    <3> QED BY <3>1, <3>2, <3>3
  <2> QED BY <2>1, <2>2
<1>5. Closed'
  BY <1>1, <1>2 DEF Closed
<1>6. Covered'
  BY <1>1, <1>4 DEF Covered, Named
<1>7. ASSUME NEW j PROVE Contents(j)' = Contents(j)
  BY <1>1, <1>4 DEF Contents, Bytes, read_zone
<1> QED BY <1>2, <1>3, <1>4, <1>5, <1>6, <1>7

\* The place in its buffer from which a descriptor reads.
LEMMA ReadPlace ==
  ASSUME NEW f \in Descriptor, NEW zs, Rests(zs, f, f.offset),
         ~ AtBoundary(f), f.offset # f.inode.size
  PROVE  /\ f.dzi.num \in Nat \ {0} /\ f.dzi.num - 1 \in Nat
         /\ f.offset \in Nat /\ f.inode.size \in Nat /\ f.offset < f.inode.size
         /\ f.block_nr # 0 /\ f.block_nr = f.inode.direct[f.dzi.num]
         /\ f.buf = zs[f.block_nr]
         /\ f.offset % BLOCKSIZE \in Index
         /\ f.offset = Full(f.dzi.num - 1) + (f.offset % BLOCKSIZE)
         /\ Full(f.dzi.num - 1) \in Nat
         /\ Full(f.dzi.num) = Full(f.dzi.num - 1) + BLOCKSIZE
<1>1. PICK num, s, o : num = f.dzi.num /\ s = f.inode.size /\ o = f.offset
  OBVIOUS
<1>2. num \in Nat /\ s \in Nat /\ o \in Nat /\ BLOCKSIZE \in Nat \ {0}
  BY <1>1, Sizes DEF Descriptor, Inode, Iterator
<1>3. o < s /\ num # 0
  BY <1>1, <1>2 DEF Rests
<1>4. /\ f.block_nr # 0 /\ f.block_nr = f.inode.direct[num]
      /\ f.buf = zs[f.block_nr] /\ o <= Full(num)
      /\ Full(num - 1) < o \/ (num = 1 /\ o = 0)
  BY <1>1, <1>3 DEF Rests, On
<1>5. PICK q \in Nat : num = q + 1 /\ num - 1 = q
  BY <1>2, <1>3
<1>6. Full(q) \in Nat /\ Full(num) = Full(q) + BLOCKSIZE /\ Full(num) \in Nat
  BY <1>2, <1>5, FullSteps
<1>7. o # Full(num)
  <2>1. 0 \in Index
    BY <1>2 DEF Index
  <2>2. o = Full(num) => o % BLOCKSIZE = 0
    <3>1. o = Full(num) => o = Full(num) + 0
      BY <1>6
    <3> QED BY <1>2, <2>1, <3>1, PlaceIs
  <2>3. Full(num) > 0
    BY <1>2, <1>6
  <2> QED BY <1>1, <1>2, <2>2, <2>3 DEF AtBoundary
<1>8. o >= Full(q)
  <2>1. Full(0) = 0
    BY FullSteps
  <2>2. num = 1 => q = 0
    BY <1>5
  <2> QED BY <1>2, <1>4, <1>5, <1>6, <2>1, <2>2
<1>9. o - Full(q) \in Index /\ o = Full(q) + (o - Full(q))
  BY <1>2, <1>4, <1>6, <1>7, <1>8 DEF Index
<1>10. o % BLOCKSIZE = o - Full(q)
  BY <1>9, PlaceIs
<1> QED BY <1>1, <1>2, <1>3, <1>4, <1>5, <1>6, <1>9, <1>10

\* my_read gives what is left of the current block.
LEMMA my_readGood ==
  ASSUME AllHabits, Types, Held, Good, NEW fd \in Fd, NEW n \in Counts, my_read(fd, n)
  PROVE  Good' /\ StoreStep
<1> DEFINE f == fp[fd]
           zoff == f.offset % BLOCKSIZE
           acount == Lesser(n, f.inode.size - f.offset)
           cpcnt == Lesser(acount, BLOCKSIZE - zoff)
<1>1. /\ f \in Descriptor /\ f.used /\ pc = "idle" /\ ~ AtBoundary(f)
      /\ f.offset # f.inode.size /\ n \in Nat \ {0} /\ BLOCKSIZE \in Nat \ {0}
      /\ f.inode \in Inode
  BY Sizes DEF AllHabits, my_read, ReadHabits, Types, Descriptor
<1>2. Rests(zones, f, f.offset)
  BY <1>1 DEF Good, Resting, InWrite
<1> HIDE DEF f
<1>3. PICK num, z, q, m :
         /\ num = f.dzi.num /\ z = f.block_nr /\ q = num - 1 /\ m = f.inode
  OBVIOUS
<1>4. /\ num \in Nat \ {0} /\ q \in Nat
      /\ f.offset \in Nat /\ m.size \in Nat /\ f.offset < m.size
      /\ z # 0 /\ z = m.direct[num] /\ f.buf = zones[z]
      /\ zoff \in Index /\ f.offset = Full(q) + zoff
      /\ Full(q) \in Nat /\ Full(num) = Full(q) + BLOCKSIZE
  BY <1>1, <1>2, <1>3, ReadPlace
<1>5. zoff \in Nat /\ zoff < BLOCKSIZE /\ m.size - f.offset \in Nat \ {0}
  BY <1>1, <1>4 DEF Index
<1>6. acount \in Nat \ {0} /\ acount <= m.size - f.offset
  BY <1>1, <1>3, <1>5 DEF Lesser
<1> HIDE DEF acount
<1>7. /\ cpcnt \in Nat \ {0} /\ cpcnt <= acount /\ cpcnt <= BLOCKSIZE - zoff
      /\ cpcnt = acount \/ cpcnt = BLOCKSIZE - zoff
  <2> HIDE DEF zoff
  <2> QED BY <1>1, <1>5, <1>6 DEF Lesser
<1>8. /\ pc' = "read" /\ cfd' = fd /\ total' = acount
      /\ rbuf' = [i \in 1 .. cpcnt |-> f.buf[zoff + i - 1]]
      /\ remain' = acount - cpcnt
      /\ fp' = fp /\ out' = out /\ UNCHANGED <<store, table>>
  <2>1. ~ (acount < 0)
    BY <1>6
  <2> QED BY <2>1 DEF my_read, acount, f
<1> HIDE DEF cpcnt
<1>9. total' - remain' = cpcnt
  BY <1>6, <1>7, <1>8
<1>10. /\ Pairs' /\ Closed' /\ Covered'
       /\ \A j : Contents(j)' = Contents(j)
  BY <1>8, SameFiles DEF Good
<1>11. zones' = zones /\ files' = files
  BY <1>8 DEF store, table
<1>12. Resting'
  <2>1. Rests(zones, f, f.offset + cpcnt)
    <3>1. f.offset + cpcnt <= Full(num) /\ Full(q) < f.offset + cpcnt
      <4> HIDE DEF zoff
      <4> QED BY <1>1, <1>4, <1>5, <1>7
    <3>2. On(zones, f, f.offset + cpcnt)
      BY <1>3, <1>4, <3>1 DEF On
    <3> QED BY <1>2, <3>2 DEF Rests
  <2> SUFFICES ASSUME NEW c \in Fd, fp'[c].used
               PROVE  Rests(zones', fp'[c], IF pc' = "read" /\ c = cfd'
                                            THEN fp'[c].offset + (total' - remain')
                                            ELSE fp'[c].offset)
    BY DEF Resting
  <2>2. CASE c = fd
    BY <1>8, <1>9, <1>11, <2>1, <2>2 DEF f
  <2>3. CASE c # fd
    <3>1. Rests(zones, fp[c], fp[c].offset)
      BY <1>1, <1>8 DEF Good, Resting, InWrite
    <3> QED BY <1>8, <1>11, <2>3, <3>1
  <2> QED BY <2>2, <2>3
<1>13. Reading'
  <2>1. acount = Lesser(n, f.inode.size - f.offset)
    BY DEF acount
  <2>2. acount > 0 /\ remain' <= acount
    BY <1>6, <1>7, <1>8
  <2>3. remain' > 0 => f.offset + cpcnt = Full(num)
    <3>1. remain' > 0 => cpcnt = BLOCKSIZE - zoff
      BY <1>6, <1>7, <1>8
    <3> HIDE DEF zoff
    <3> QED BY <1>1, <1>4, <1>5, <1>7, <3>1
  <2>4. rbuf' = [j \in 1 .. cpcnt |-> At(zones, m, f.offset + j)]
    <3>1. ASSUME NEW j \in 1 .. cpcnt
          PROVE  f.buf[zoff + j - 1] = At(zones, m, f.offset + j)
      <4>1. PICK r : r = zoff + j - 1
        OBVIOUS
      <4>2. r \in Nat /\ r < BLOCKSIZE /\ f.offset + j = Full(q) + r + 1
        <5>1. j \in Nat /\ j >= 1 /\ j <= cpcnt
          BY <1>7
        <5> HIDE DEF zoff
        <5> QED BY <1>1, <1>4, <1>5, <1>7, <4>1, <5>1
      <4>3. r \in Index
        BY <1>1, <4>2 DEF Index
      <4>4. Spot(m, f.offset + j, num, r)
        BY <1>3, <1>4, <4>2, <4>3 DEF Spot
      <4>5. At(zones, m, f.offset + j) = Cell(zones, m, num, r)
        BY <4>4, AtSpot
      <4>6. Cell(zones, m, num, r) = f.buf[r]
        BY <1>4 DEF Cell
      <4> QED BY <4>1, <4>5, <4>6
    <3> QED BY <1>8, <3>1
  <2> SUFFICES /\ \E k \in Counts : total' = Lesser(k, fp'[cfd'].inode.size - fp'[cfd'].offset)
               /\ total' > 0 /\ remain' <= total'
               /\ remain' > 0 => fp'[cfd'].offset + (total' - remain')
                                   = Full(fp'[cfd'].dzi.num)
               /\ rbuf' = [j \in 1 .. total' - remain' |->
                             At(zones', fp'[cfd'].inode, fp'[cfd'].offset + j)]
    BY DEF Reading
  <2>5. fp'[cfd'] = f /\ total' = acount /\ total' - remain' = cpcnt
    BY <1>8, <1>9 DEF f
  <2> QED BY <1>3, <1>11, <2>1, <2>2, <2>3, <2>4, <2>5
<1>14. InWriting' /\ Stages'
  BY <1>8 DEF InWriting, Stages
<1>15. \A c \in Fd : fp[c].used => Position(c)' = Position(c)
  BY <1>1, <1>8 DEF Position
<1>16. StoreStep
  BY <1>8, <1>10, <1>11, <1>15, Unseen
<1> QED BY <1>10, <1>12, <1>13, <1>14, <1>16 DEF Good

\* The reader, in the middle of my_read.
LEMMA Reader ==
  ASSUME Types, Held, Good, pc = "read"
  PROVE  LET f == fp[cfd]
             done == total - remain
         IN  /\ cfd \in Fd /\ f \in Descriptor /\ f.used /\ f.inode \in Inode
             /\ f.dzi \in Iterator /\ f.offset \in Nat /\ f.inode.size \in Nat
             /\ total \in Nat \ {0} /\ remain \in Nat /\ remain <= total
             /\ total - remain \in Nat
             /\ \E n \in Counts : total = Lesser(n, f.inode.size - f.offset)
             /\ f.offset + total <= f.inode.size
             /\ remain > 0 => f.offset + (total - remain) = Full(f.dzi.num)
             /\ rbuf = [j \in 1 .. total - remain |-> At(zones, f.inode, f.offset + j)]
             /\ Rests(zones, f, f.offset + (total - remain))
<1>1. PICK f : f = fp[cfd]
  OBVIOUS
<1>2. /\ cfd \in Fd /\ f \in Descriptor /\ f.used /\ f.inode \in Inode
      /\ f.dzi \in Iterator /\ f.offset \in Nat /\ f.inode.size \in Nat
      /\ total \in Nat /\ remain \in Nat
  BY <1>1 DEF Types, CallOK, Held, Calls, Descriptor, Inode
<1>3. /\ \E n \in Counts : total = Lesser(n, f.inode.size - f.offset)
      /\ total > 0 /\ remain <= total
      /\ remain > 0 => f.offset + (total - remain) = Full(f.dzi.num)
      /\ rbuf = [j \in 1 .. total - remain |-> At(zones, f.inode, f.offset + j)]
  BY <1>1 DEF Good, Reading
<1>4. Rests(zones, f, f.offset + (total - remain))
  BY <1>1, <1>2 DEF Good, Resting, InWrite
<1>5. f.offset + total <= f.inode.size
  <2>1. PICK n \in Counts : total = Lesser(n, f.inode.size - f.offset)
    BY <1>3
  <2>2. n \in Nat
    BY Sizes
  <2> QED BY <1>2, <2>1, <2>2 DEF Lesser
<1>6. total \in Nat \ {0} /\ total - remain \in Nat
  BY <1>2, <1>3
<1> QED BY <1>1, <1>2, <1>3, <1>4, <1>5, <1>6

\* ReadBlock goes on with the next zone.
LEMMA ReadBlockGood ==
  ASSUME AllHabits, Types, Held, Good, ReadBlock
  PROVE  Good' /\ StoreStep
<1> DEFINE f == fp[cfd]
           moved == MoveTo(f.dzi, f.inode, f.dzi.num + 1)
           b == read_zone(moved.znum)
           cpcnt == Lesser(remain, BLOCKSIZE)
           g == [f EXCEPT !.dzi = moved, !.block_nr = moved.znum, !.buf = b]
<1>1. pc = "read" /\ remain > 0
  BY DEF ReadBlock
<1>2. /\ cfd \in Fd /\ f \in Descriptor /\ f.used /\ f.inode \in Inode
      /\ f.dzi \in Iterator /\ f.offset \in Nat /\ f.inode.size \in Nat
      /\ total \in Nat \ {0} /\ remain \in Nat /\ remain <= total
      /\ total - remain \in Nat
      /\ \E n \in Counts : total = Lesser(n, f.inode.size - f.offset)
      /\ f.offset + total <= f.inode.size
      /\ f.offset + (total - remain) = Full(f.dzi.num)
      /\ rbuf = [j \in 1 .. total - remain |-> At(zones, f.inode, f.offset + j)]
      /\ Rests(zones, f, f.offset + (total - remain))
  BY <1>1, Reader
<1>3. PICK num, m, o, done :
        num = f.dzi.num /\ m = f.inode /\ o = f.offset /\ done = total - remain
  OBVIOUS
<1>4. PICK n \in 0 .. NrDirect :
         /\ Ends(n, m.size) /\ Filled(m, n)
         /\ num <= n /\ f.dzi.count \in {n, n + 1}
         /\ m.size = 0 \/ m.size < Full(n) => f.dzi.count = n
  BY <1>2, <1>3 DEF Rests, Iterates
<1>5. /\ num \in Nat /\ n \in Nat /\ n <= NrDirect /\ NrDirect \in Nat /\ BLOCKSIZE \in Nat \ {0}
      /\ m.size \in Nat /\ o \in Nat /\ done \in Nat /\ o + done = Full(num)
      /\ f.dzi.count \in Nat
  BY <1>2, <1>3, <1>4, Sizes DEF Iterator
<1>50. /\ total \in Nat /\ remain \in Nat /\ remain > 0 /\ remain <= total
      /\ done = total - remain /\ o + total <= m.size
  BY <1>1, <1>2, <1>3
<1>6. Full(num) \in Nat /\ Full(n) \in Nat /\ Full(num + 1) = Full(num) + BLOCKSIZE
  BY <1>5, FullSteps
<1>7. num < n
  <2>1. Full(num) < m.size
    BY <1>50, <1>5
  <2>2. Full(num) < Full(n)
    BY <1>4, <1>5, <1>6, <2>1 DEF Ends
  <2>3. num # n
    BY <1>6, <2>2
  <2> QED BY <1>4, <1>5, <2>3
<1>8. /\ num + 1 \in 1 .. n /\ num + 1 \in 1 .. NrDirect /\ num + 1 \in Nat \ {0}
      /\ (num + 1) - 1 = num
      /\ ~ (num + 1 > f.dzi.count + 1) /\ ~ (num + 1 > NrDirect)
  BY <1>4, <1>5, <1>7
<1>9. PICK z : z = m.direct[num + 1]
  OBVIOUS
<1>10. z # 0 /\ z \in 1 .. ZoneBits /\ z \in Zone
  <2>1. m \in Inode
    BY <1>2, <1>3
  <2>2. z \in 1 .. ZoneBits
    BY <1>4, <1>8, <1>9, <2>1, FilledNamed
  <2> QED BY <2>2 DEF Zone
<1>11. moved = [f.dzi EXCEPT !.num = num + 1, !.nil = FALSE, !.znum = z]
  BY <1>3, <1>8, <1>9 DEF MoveTo
<1>12. /\ moved \in Iterator /\ moved.num = num + 1 /\ moved.count = f.dzi.count
       /\ moved.znum = z
  BY <1>2, <1>8, <1>10, <1>11 DEF Iterator
<1> HIDE DEF moved
<1>13. b = zones[z] /\ b \in Block
  BY <1>10, <1>12 DEF read_zone, Types, StoreOK
<1>14. /\ fp' = [fp EXCEPT ![cfd].dzi = moved, ![cfd].block_nr = moved.znum, ![cfd].buf = b]
       /\ rbuf' = rbuf \o [i \in 1 .. cpcnt |-> b[i-1]]
       /\ remain' = remain - cpcnt
       /\ pc' = pc /\ cfd' = cfd /\ total' = total /\ out' = out /\ UNCHANGED <<store, table>>
  BY DEF ReadBlock, moved
<1> HIDE DEF b
<1>15. fp' = [fp EXCEPT ![cfd] = g]
  BY <1>2, <1>14 DEF Types, Descriptor
<1>16. /\ g \in Descriptor /\ g.used /\ g.inode_nr = f.inode_nr /\ g.inode = m
       /\ g.dzi = moved /\ g.offset = o /\ g.block_nr = z /\ g.buf = zones[z]
  <2> HIDE DEF f
  <2> QED BY <1>2, <1>3, <1>10, <1>12, <1>13 DEF Descriptor
<1> HIDE DEF g
<1>17. /\ fp'[cfd] = g
       /\ \A c \in Fd : c # cfd => fp'[c] = fp[c]
  BY <1>2, <1>15 DEF Types
<1>18. /\ cpcnt \in Nat \ {0} /\ cpcnt <= remain /\ cpcnt <= BLOCKSIZE
       /\ cpcnt = remain \/ cpcnt = BLOCKSIZE
  BY <1>1, <1>2, <1>5 DEF Lesser
<1> HIDE DEF cpcnt
<1>19. total' - remain' = done + cpcnt /\ remain' \in Nat /\ remain' <= total
  BY <1>50, <1>14, <1>18
<1>20. zones' = zones /\ files' = files
  BY <1>14 DEF store, table
<1>21. \A c \in Fd : /\ fp'[c].used = fp[c].used /\ fp'[c].inode_nr = fp[c].inode_nr
                     /\ fp'[c].inode = fp[c].inode /\ fp'[c].offset = fp[c].offset
  <2> TAKE c \in Fd
  <2>1. CASE c = cfd
    BY <1>2, <1>3, <1>16, <1>17, <2>1
  <2>2. CASE c # cfd
    BY <1>17, <2>2
  <2> QED BY <2>1, <2>2
<1>22. /\ Pairs' /\ Closed' /\ Covered'
       /\ \A j : Contents(j)' = Contents(j)
  BY <1>14, <1>21, SameFiles DEF Good
<1>23. Rests(zones, g, o + (done + cpcnt))
  <2>1. o + (done + cpcnt) <= Full(num + 1) /\ Full(num) < o + (done + cpcnt)
    BY <1>5, <1>6, <1>18
  <2>2. On(zones, g, o + (done + cpcnt))
    BY <1>8, <1>9, <1>10, <1>12, <1>16, <2>1 DEF On
  <2>3. Iterates(g)
    <3>1. num + 1 <= n
      BY <1>5, <1>7
    <3> QED BY <1>4, <1>12, <1>16, <3>1 DEF Iterates
  <2>4. f.offset <= f.inode.size
    BY <1>2, SMTT(20)
  <2>5. g.dzi.num # 0
    BY <1>8, <1>12, <1>16
  <2> QED BY <1>3, <1>16, <2>2, <2>3, <2>4, <2>5 DEF Rests
<1>24. Resting'
  <2> SUFFICES ASSUME NEW c \in Fd, fp'[c].used
               PROVE  Rests(zones', fp'[c], IF pc' = "read" /\ c = cfd'
                                            THEN fp'[c].offset + (total' - remain')
                                            ELSE fp'[c].offset)
    BY DEF Resting
  <2>1. CASE c = cfd
    <3>1. fp'[c] = g /\ g.offset = o /\ zones' = zones /\ pc' = "read" /\ c = cfd'
      BY <1>1, <1>14, <1>16, <1>17, <1>20, <2>1
    <3> QED BY <1>19, <1>23, <3>1
  <2>2. CASE c # cfd
    <3>1. fp'[c] = fp[c]
      BY <1>17, <2>2
    <3>2. Rests(zones, fp[c], fp[c].offset)
      BY <1>1, <2>2, <3>1 DEF Good, Resting, InWrite
    <3> QED BY <1>14, <1>20, <2>2, <3>1, <3>2
  <2> QED BY <2>1, <2>2
<1>25. rbuf' = [j \in 1 .. done + cpcnt |-> At(zones, m, o + j)]
  <2>1. PICK S : S = {At(zones, m, o + j) : j \in 1 .. done} \cup {b[i] : i \in 0 .. cpcnt - 1}
    OBVIOUS
  <2>2. rbuf = [j \in 1 .. done |-> At(zones, m, o + j)]
    BY <1>2, <1>3
  <2>3. PICK t : t = [i \in 1 .. cpcnt |-> b[i-1]]
    OBVIOUS
  <2>4. rbuf \in Seq(S) /\ Len(rbuf) = done
    BY <1>5, <2>1, <2>2
  <2>5. t \in Seq(S) /\ Len(t) = cpcnt
    BY <1>18, <2>1, <2>3
  <2>6. rbuf' = rbuf \o t
    BY <1>14, <2>3
  <2>7. /\ rbuf' \in Seq(S) /\ Len(rbuf') = done + cpcnt
        /\ \A j \in 1 .. done + cpcnt : rbuf'[j] = IF j <= done THEN rbuf[j] ELSE t[j - done]
    BY <2>4, <2>5, <2>6, ConcatProperties
  <2>8. ASSUME NEW j \in 1 .. done + cpcnt
        PROVE  rbuf'[j] = At(zones, m, o + j)
    <3>1. CASE j <= done
      <4>1. j \in 1 .. done
        BY <1>5, <1>18, <3>1
      <4> QED BY <2>2, <2>7, <3>1, <4>1
    <3>2. CASE ~ (j <= done)
      <4>1. PICK r : r = j - done - 1
        OBVIOUS
      <4>2. /\ r \in Nat /\ r < BLOCKSIZE /\ o + j = Full(num) + r + 1
            /\ j - done \in 1 .. cpcnt /\ (j - done) - 1 = r
        BY <1>5, <1>6, <1>18, <3>2, <4>1
      <4>3. r \in Index
        BY <1>5, <4>2 DEF Index
      <4>4. Spot(m, o + j, num + 1, r)
        BY <1>8, <1>9, <1>10, <4>2, <4>3 DEF Spot
      <4>5. At(zones, m, o + j) = Cell(zones, m, num + 1, r)
        BY <4>4, AtSpot
      <4>6. Cell(zones, m, num + 1, r) = b[r]
        BY <1>9, <1>13 DEF Cell
      <4>7. rbuf'[j] = t[j - done]
        BY <2>7, <3>2
      <4>8. t[j - done] = b[r]
        BY <2>3, <4>2
      <4> QED BY <4>5, <4>6, <4>7, <4>8
    <3> QED BY <3>1, <3>2
  <2>9. rbuf' = [j \in 1 .. Len(rbuf') |-> rbuf'[j]]
    BY <2>7
  <2> QED BY <2>7, <2>8, <2>9
<1>26. Reading'
  <2> SUFFICES /\ \E k \in Counts : total' = Lesser(k, fp'[cfd'].inode.size - fp'[cfd'].offset)
               /\ total' > 0 /\ remain' <= total'
               /\ remain' > 0 => fp'[cfd'].offset + (total' - remain')
                                   = Full(fp'[cfd'].dzi.num)
               /\ rbuf' = [j \in 1 .. total' - remain' |->
                             At(zones', fp'[cfd'].inode, fp'[cfd'].offset + j)]
    BY DEF Reading
  <2>1. fp'[cfd'] = g /\ total' = total /\ g.inode = f.inode /\ g.offset = f.offset
    BY <1>3, <1>14, <1>16, <1>17
  <2>2. \E k \in Counts : total = Lesser(k, g.inode.size - g.offset)
    BY <1>2, <2>1
  <2>3. remain' > 0 => o + (done + cpcnt) = Full(num + 1)
    <3>1. remain' > 0 => cpcnt = BLOCKSIZE
      BY <1>2, <1>14, <1>18, SMTT(20)
    <3> QED BY <1>5, <1>6, <1>18, <3>1
  <2>4. remain' > 0 => g.offset + (total' - remain') = Full(g.dzi.num)
    BY <1>12, <1>16, <1>19, <2>3
  <2>5. rbuf' = [j \in 1 .. total' - remain' |-> At(zones', g.inode, g.offset + j)]
    BY <1>16, <1>19, <1>20, <1>25
  <2> QED BY <1>2, <1>19, <2>1, <2>2, <2>4, <2>5
<1>27. InWriting' /\ Stages'
  BY <1>1, <1>14 DEF InWriting, Stages
<1>28. \A c \in Fd : fp[c].used => Position(c)' = Position(c)
  BY <1>1, <1>14, <1>21 DEF Position
<1>29. StoreStep
  BY <1>14, <1>20, <1>21, <1>22, <1>28, Unseen
<1> QED BY <1>22, <1>24, <1>26, <1>27, <1>29 DEF Good

\* The end of a read.
LEMMA ReadDoneGood ==
  ASSUME AllHabits, Types, Held, Good, ReadDone, NEW fd, fd = cfd
  PROVE  Good' /\ StoreStep
<1> DEFINE f == fp[fd]
           h == [f EXCEPT !.offset = @ + total]
<1>1. pc = "read" /\ remain = 0
  BY DEF ReadDone
<1>2. /\ fd \in Fd /\ f \in Descriptor /\ f.used /\ f.inode \in Inode
      /\ f.offset \in Nat /\ f.inode.size \in Nat
      /\ total \in Nat \ {0}
      /\ \E n \in Counts : total = Lesser(n, f.inode.size - f.offset)
      /\ f.offset + total <= f.inode.size
      /\ rbuf = [j \in 1 .. total - remain |-> At(zones, f.inode, f.offset + j)]
      /\ Rests(zones, f, f.offset + (total - remain))
  BY <1>1, Reader
<1>3. PICK i, m, o : i = f.inode_nr /\ m = f.inode /\ o = f.offset
  OBVIOUS
<1>4. /\ m.size \in Nat /\ o \in Nat /\ total \in Nat \ {0} /\ o + total <= m.size
      /\ total - remain = total
  BY <1>1, <1>2, <1>3
<1>5. /\ fp' = [fp EXCEPT ![fd].offset = @ + total]
      /\ out' = rbuf /\ pc' = "idle" /\ UNCHANGED <<store, table>>
  BY DEF ReadDone, Return
<1>6. zones' = zones /\ files' = files
  BY <1>5 DEF store, table
<1>7. fp' = [fp EXCEPT ![fd] = h]
  BY <1>2, <1>5 DEF Types, Descriptor
<1>8. PICK g \in Descriptor :
         /\ g = h /\ g.used /\ g.inode_nr = i /\ g.inode = m
         /\ g.dzi = f.dzi /\ g.offset = o + total /\ g.block_nr = f.block_nr
         /\ g.buf = f.buf
  <2>1. o + total \in Nat
    BY <1>4
  <2>2. h = [f EXCEPT !.offset = o + total]
    BY <1>3
  <2>3. PICK a, e : a = f /\ e = o + total
    OBVIOUS
  <2>4. h = [a EXCEPT !.offset = e] /\ a \in Descriptor /\ e \in Nat /\ a.used
        /\ a.inode_nr = i /\ a.inode = m
    BY <1>2, <1>3, <2>1, <2>2, <2>3
  <2>5. /\ h \in Descriptor /\ h.used /\ h.inode_nr = i /\ h.inode = m
        /\ h.dzi = a.dzi /\ h.offset = e /\ h.block_nr = a.block_nr
        /\ h.buf = a.buf
    <3> HIDE DEF h
    <3> QED BY <2>4 DEF Descriptor
  <2> HIDE DEF h, f
  <2> QED BY <2>3, <2>5
<1> HIDE DEF h
<1>9. fp'[fd] = g /\ \A c \in Fd : c # fd => fp'[c] = fp[c]
  BY <1>2, <1>7, <1>8 DEF Types
<1>10. \A c \in Fd : /\ fp'[c].used = fp[c].used /\ fp'[c].inode_nr = fp[c].inode_nr
                     /\ fp'[c].inode = fp[c].inode
  <2> TAKE c \in Fd
  <2>1. CASE c = fd
    BY <1>2, <1>3, <1>8, <1>9, <2>1
  <2>2. CASE c # fd
    BY <1>9, <2>2
  <2> QED BY <2>1, <2>2
<1>11. /\ Pairs' /\ Closed' /\ Covered'
       /\ \A j : Contents(j)' = Contents(j)
  BY <1>5, <1>10, SameFiles DEF Good
<1>12. Rests(zones, g, g.offset)
  <2>1. On(zones, f, o + total)
    BY <1>2, <1>3, <1>4 DEF Rests
  <2>2. On(zones, g, g.offset)
    BY <1>3, <1>8, <2>1 DEF On
  <2>3. Iterates(g)
    <3>1. Iterates(f)
      BY <1>2 DEF Rests
    <3> QED BY <1>3, <1>8, <3>1 DEF Iterates
  <2>4. g.inode.size > 0 => g.dzi.num # 0
    BY <1>2, <1>3, <1>8 DEF Rests
  <2>5. g.offset <= g.inode.size
    BY <1>4, <1>8
  <2> QED BY <2>2, <2>3, <2>4, <2>5 DEF Rests
<1>13. Resting'
  <2>1. ASSUME NEW c \in Fd, fp'[c].used PROVE Rests(zones', fp'[c], fp'[c].offset)
    <3>1. CASE c = fd
      BY <1>6, <1>9, <1>12, <3>1
    <3>2. CASE c # fd
      <4>1. Rests(zones, fp[c], fp[c].offset)
        BY <1>1, <1>9, <2>1, <3>2 DEF Good, Resting, InWrite
      <4> QED BY <1>6, <1>9, <3>2, <4>1
    <3> QED BY <3>1, <3>2
  <2>2. pc' # "read"
    BY <1>5
  <2> QED BY <2>1, <2>2, RestingNext
<1>14. Reading' /\ InWriting' /\ Stages'
  BY <1>5 DEF Reading, InWriting, Stages
<1>15. i \in files /\ Contents(i) = [j \in 1 .. m.size |-> At(zones, m, j)]
  <2>1. i \in files /\ fd \in Sharing(i)
    BY <1>2, <1>3 DEF Held, Calls, Sharing
  <2>2. Current(i) = m
    BY <1>3, <2>1, CurrentIs DEF Good
  <2>3. Bytes(m) = [j \in 1 .. m.size |-> At(zones, m, j)]
    BY <1>4, BytesAt
  <2> QED BY <2>1, <2>2, <2>3 DEF Contents
<1>16. /\ Position(fd) = [file |-> i, offset |-> o]
       /\ Position(fd)' = [file |-> i, offset |-> o + total]
  BY <1>1, <1>3, <1>5, <1>8, <1>9 DEF Position
<1>17. AllContents' = AllContents
  BY <1>6, <1>11 DEF AllContents
<1>18. PICK p : p = o + total
  OBVIOUS
<1>19. Positions' = [Positions EXCEPT ![fd].offset = p]
  <2>1. Position(fd)' = [Position(fd) EXCEPT !.offset = p]
    BY <1>16, <1>18
  <2>2. \A c \in Fd : c # fd /\ fp[c].used => Position(c)' = Position(c)
    BY <1>1, <1>5, <1>9 DEF Position
  <2>3. fd \in Fd /\ fp[fd].used /\ \A c \in Fd : fp'[c].used = fp[c].used
    BY <1>2, <1>10
  <2> QED BY <2>1, <2>2, <2>3, OneMoved
<1>20. Positions[fd].file = i /\ Positions[fd].offset = o /\ fd \in DOMAIN Positions
       /\ AllContents[i] = Contents(i)
  BY <1>2, <1>15, <1>16 DEF Positions, AllContents
<1>21. PICK s, S : s = Contents(i) /\ S = {At(zones, m, j) : j \in 1 .. m.size}
  OBVIOUS
<1>22. s \in Seq(S) /\ Len(s) = m.size /\ s = [j \in 1 .. m.size |-> At(zones, m, j)]
  BY <1>4, <1>15, <1>21
<1>23. rbuf = SubSeq(s, o + 1, p)
  <2>1. rbuf = [j \in 1 .. total |-> At(zones, m, o + j)]
    BY <1>2, <1>3, <1>4
  <2>2. \A j \in 1 .. total : o + j \in 1 .. m.size
    BY <1>4
  <2>3. \A j \in 1 .. total : At(zones, m, o + j) \in S
    BY <1>21, <2>2
  <2>4. rbuf \in Seq(S) /\ Len(rbuf) = total
    BY <1>4, <2>1, <2>3
  <2>5. /\ SubSeq(s, o + 1, p) \in Seq(S) /\ Len(SubSeq(s, o + 1, p)) = total
    <3>1. o + 1 \in 1 .. Len(s) + 1 /\ p \in o .. Len(s) /\ p - (o + 1) + 1 = total
      BY <1>4, <1>18, <1>22
    <3> QED BY <1>4, <1>22, <3>1, SubSeqProperties
  <2>6. ASSUME NEW j \in 1 .. total PROVE SubSeq(s, o + 1, p)[j] = rbuf[j]
    <3>1. SubSeq(s, o + 1, p)[j] = s[(o + 1) + j - 1]
      BY <1>4, <1>18, <1>22
    <3>2. (o + 1) + j - 1 = o + j
      BY <1>4
    <3> QED BY <1>22, <2>1, <2>2, <3>1, <3>2
  <2> QED BY <2>4, <2>5, <2>6, SeqEqual
<1>24. PICK n \in Counts : total = Lesser(n, m.size - o)
  BY <1>2, <1>3
<1>25. p = IF o + n > Len(s) THEN Len(s) ELSE o + n
  <2>1. n \in Nat
    BY Sizes
  <2> QED BY <1>4, <1>18, <1>22, <1>24, <2>1 DEF Lesser
<1>26. Store!Read(fd, n)
  BY <1>5, <1>17, <1>19, <1>20, <1>21, <1>23, <1>25 DEF Store!Read
<1>27. StoreStep
  BY <1>20, <1>26 DEF StoreStep, Store!Next, Store!InUse
<1> QED BY <1>11, <1>13, <1>14, <1>27 DEF Good

-----------------------------------------------------------------------------
(* Opening and making files *)

\* The iterator that is made for an inode stands behind or on its last zone.
LEMMA MakeIteratorCount ==
  ASSUME NEW m \in Inode, NEW n \in 0 .. NrDirect, Ends(n, m.size)
  PROVE  /\ MakeIterator(m).num = 0 /\ MakeIterator(m).count \in {n, n + 1}
         /\ m.size = 0 \/ m.size < Full(n) => MakeIterator(m).count = n
         /\ m.size = 0 <=> n = 0
<1>1. PICK s : s = m.size
  OBVIOUS
<1>2. s \in Nat /\ n \in Nat /\ BLOCKSIZE \in Nat \ {0}
  BY <1>1, Sizes DEF Inode
<1>3. PICK q : q = s \div BLOCKSIZE
  OBVIOUS
<1>4. MakeIterator(m).num = 0 /\ MakeIterator(m).count = q + IF s > 0 THEN 1 ELSE 0
  BY <1>1, <1>3 DEF MakeIterator
<1>5. s <= Full(n) /\ Full(n) \in Nat /\ (n = 0 \/ Full(n - 1) < s) /\ Full(0) = 0
  BY <1>1, <1>2, FullSteps DEF Ends
<1>6. 0 \in Index
  BY <1>2 DEF Index
<1>7. CASE n = 0
  <2>1. s = 0
    BY <1>2, <1>5, <1>7
  <2>2. 0 = Full(0) + 0
    BY <1>5
  <2>3. q = 0
    BY <1>3, <1>6, <2>1, <2>2, PlaceIs
  <2> QED BY <1>1, <1>4, <1>7, <2>1, <2>3
<1>8. CASE n # 0
  <2>1. PICK p \in Nat : n = p + 1 /\ n - 1 = p
    BY <1>2, <1>8
  <2>2. Full(p) \in Nat /\ Full(n) = Full(p) + BLOCKSIZE /\ Full(p) < s
    BY <1>2, <1>5, <1>8, <2>1, FullSteps
  <2>3. CASE s = Full(n)
    <3>1. s = Full(n) + 0
      BY <1>2, <2>3
    <3>2. q = n
      BY <1>2, <1>3, <1>6, <3>1, PlaceIs
    <3> QED BY <1>1, <1>2, <1>4, <1>8, <2>2, <2>3, <3>2
  <2>4. CASE s # Full(n)
    <3>1. s - Full(p) \in Index /\ s = Full(p) + (s - Full(p))
      BY <1>2, <1>5, <2>2, <2>4 DEF Index
    <3>2. q = p
      BY <1>3, <2>1, <3>1, PlaceIs
    <3> QED BY <1>1, <1>2, <1>4, <1>8, <2>1, <2>2, <3>2
  <2> QED BY <2>3, <2>4
<1> QED BY <1>7, <1>8

\* A descriptor that is opened is at rest at the start of its file.
LEMMA OpenedRests ==
  ASSUME Types, NEW i \in files, Whole(itab[i]), open_child(i)
  PROVE  \/ fp' = fp
         \/ \E fd \in Fd, g \in Descriptor :
              /\ fp' = [fp EXCEPT ![fd] = g] /\ ~ fp[fd].used
              /\ g.used /\ g.inode_nr = i /\ g.inode = itab[i] /\ g.offset = 0
              /\ Rests(zones, g, 0)
<1>1. SUFFICES ASSUME ~ \A fd \in Fd : fp[fd].used
               PROVE  \E fd \in Fd, g \in Descriptor :
                        /\ fp' = [fp EXCEPT ![fd] = g] /\ ~ fp[fd].used
                        /\ g.used /\ g.inode_nr = i /\ g.inode = itab[i] /\ g.offset = 0
                        /\ Rests(zones, g, 0)
  BY DEF open_child
<1> DEFINE fd == CHOOSE f \in Fd : /\ ~ fp[f].used
                                   /\ \A g \in Fd : g < f => fp[g].used
           inode == itab[i]
           start == MakeIterator(inode)
           first == MoveTo(start, inode, 1)
           opened == [Unused EXCEPT !.used = TRUE, !.inode_nr = i, !.inode = inode]
           located == [opened EXCEPT !.dzi = first, !.block_nr = first.znum,
                                     !.buf = read_zone(first.znum)]
           g == IF inode.size > 0 THEN located ELSE opened
<1>2. fd \in Fd /\ ~ fp[fd].used
  BY <1>1, FirstUnused
<1>3. fp' = [fp EXCEPT ![fd] = g]
  BY <1>1 DEF open_child
<1>4. inode \in Inode /\ i \in Files /\ inode.size \in Nat
  BY DEF Types, TableOK, Inode
<1> HIDE DEF fd
<1>5. PICK m : m = inode
  OBVIOUS
<1>6. PICK n \in 0 .. NrDirect : Ends(n, m.size) /\ Filled(m, n)
  BY <1>5 DEF Whole
<1>7. /\ start \in Iterator /\ start.num = 0 /\ start.count \in {n, n + 1}
      /\ (m.size = 0 \/ m.size < Full(n) => start.count = n)
      /\ (m.size = 0 <=> n = 0)
  BY <1>4, <1>5, <1>6, MakeIteratorType, MakeIteratorCount
<1>8. n \in Nat /\ NrDirect \in Nat \ {0} /\ n <= NrDirect
  BY <1>6, Sizes
<1>9. CASE inode.size > 0
  <2>1. n # 0 /\ 1 \in 1 .. n /\ 1 \in 1 .. NrDirect
    BY <1>4, <1>5, <1>7, <1>8, <1>9
  <2>2. PICK z : z = m.direct[1]
    OBVIOUS
  <2>3. z # 0 /\ z \in Zone /\ z \in 1 .. ZoneBits
    <3>1. z \in 1 .. ZoneBits
      BY <1>4, <1>5, <1>6, <2>1, <2>2, FilledNamed
    <3> QED BY <3>1 DEF Zone
  <2>4. first = [start EXCEPT !.num = 1, !.nil = FALSE, !.znum = z]
    <3>1. ~ (1 > start.count + 1) /\ ~ (1 > NrDirect)
      BY <1>7, <1>8
    <3> HIDE DEF start
    <3> QED BY <1>5, <2>2, <3>1 DEF MoveTo
  <2> HIDE DEF start, first
  <2>5. /\ first \in Iterator /\ first.num = 1 /\ first.count = start.count
        /\ first.znum = z
    BY <1>7, <2>3, <2>4 DEF Iterator
  <2>6. read_zone(first.znum) = zones[z] /\ zones[z] \in Block
    BY <2>3, <2>5 DEF read_zone, Types, StoreOK
  <2>7. PICK h : h = located
    OBVIOUS
  <2>8. opened \in Descriptor /\ opened.used /\ opened.inode_nr = i
        /\ opened.inode = inode /\ opened.offset = 0
    BY <1>4, UnusedType DEF Unused, Descriptor
  <2> HIDE DEF opened, inode
  <2>9. /\ h \in Descriptor /\ h.used /\ h.inode_nr = i /\ h.inode = inode
        /\ h.offset = 0 /\ h.dzi = first /\ h.block_nr = z /\ h.buf = zones[z]
    BY <2>3, <2>5, <2>6, <2>7, <2>8 DEF Descriptor
  <2>10. On(zones, h, 0)
    <3>1. 0 <= Full(1)
      BY FullSteps, Sizes
    <3> QED BY <1>5, <2>2, <2>3, <2>5, <2>9, <3>1 DEF On
  <2>11. Iterates(h)
    <3>1. 1 <= n
      BY <1>8, <2>1
    <3> QED BY <1>5, <1>6, <1>7, <2>5, <2>9, <3>1 DEF Iterates
  <2>12. Rests(zones, h, 0)
    BY <1>4, <2>5, <2>9, <2>10, <2>11 DEF Rests, inode
  <2>13. fp' = [fp EXCEPT ![fd] = h]
    BY <1>3, <1>9, <2>7
  <2> QED BY <1>2, <2>9, <2>12, <2>13 DEF inode
<1>10. CASE ~ (inode.size > 0)
  <2>1. n = 0 /\ inode.size = 0
    BY <1>4, <1>5, <1>7, <1>10
  <2>2. PICK h : h = opened
    OBVIOUS
  <2>3. MakeIterator(Fresh).num = 0 /\ MakeIterator(Fresh).count = 0
    <3>1. Fresh.size = 0 /\ Fresh \in Inode
      BY UnusedType DEF Fresh
    <3>2. Ends(0, Fresh.size) /\ 0 \in 0 .. NrDirect
      BY <1>8, <3>1, FullSteps DEF Ends
    <3> QED BY <3>1, <3>2, MakeIteratorCount
  <2>4. h \in Descriptor /\ h.used /\ h.inode_nr = i
        /\ h.inode = inode /\ h.offset = 0 /\ h.block_nr = 0
        /\ h.dzi = MakeIterator(Fresh)
    BY <1>4, <2>2, UnusedType DEF Unused, Descriptor
  <2> HIDE DEF opened, inode
  <2>5. Iterates(h)
    BY <1>5, <1>6, <2>1, <2>3, <2>4 DEF Iterates
  <2>6. On(zones, h, 0)
    BY <2>3, <2>4 DEF On
  <2>7. Rests(zones, h, 0)
    BY <2>1, <2>4, <2>5, <2>6 DEF Rests
  <2>8. fp' = [fp EXCEPT ![fd] = h]
    BY <1>3, <1>10, <2>2
  <2> QED BY <1>2, <2>4, <2>7, <2>8 DEF inode
<1> QED BY <1>9, <1>10

\* Opening a file whose descriptors have no unsaved changes.
LEMMA OpenGood ==
  ASSUME Types, Held, Good, NEW i \in files, open_child(i),
         \A c \in Sharing(i) : fp[c].inode = itab[i],
         pc \in {"idle", "open"}, pc' = "idle", UNCHANGED <<store, table, out>>
  PROVE  Good' /\ StoreStep
<1>1. zones' = zones /\ zmap' = zmap /\ itab' = itab /\ files' = files /\ out' = out
  BY DEF store, table
<1>2. /\ Reading' /\ InWriting' /\ Stages'
  BY DEF Reading, InWriting, Stages
<1>3. ASSUME NEW c \in Fd, fp[c].used PROVE Rests(zones, fp[c], fp[c].offset)
  BY <1>3 DEF Good, Resting, InWrite
<1>4. Whole(itab[i]) /\ Current(i) = itab[i]
  <2>1. CASE Sharing(i) = {}
    BY <2>1, CurrentClosed DEF Good, Closed
  <2>2. ASSUME NEW c \in Sharing(i) PROVE Whole(itab[i]) /\ Current(i) = itab[i]
    <3>1. Rests(zones, fp[c], fp[c].offset) /\ fp[c].inode = itab[i]
      BY <1>3 DEF Sharing
    <3>2. Current(i) = fp[c].inode
      BY CurrentIs DEF Good
    <3> QED BY <3>1, <3>2 DEF Rests, Iterates, Whole
  <2> QED BY <2>1, <2>2
<1>5. CASE fp' = fp
  <2>1. \A c \in Fd : fp'[c].used = fp[c].used /\ fp'[c].inode_nr = fp[c].inode_nr
                       /\ fp'[c].inode = fp[c].inode
    BY <1>5
  <2>2. /\ Pairs' /\ Closed' /\ Covered'
        /\ \A j : Contents(j)' = Contents(j)
    BY <1>1, <2>1, SameFiles DEF Good, store, table
  <2>3. Resting'
    <3>1. \A c \in Fd : fp'[c].used => Rests(zones', fp'[c], fp'[c].offset)
      BY <1>1, <1>3, <1>5
    <3> QED BY <3>1, RestingNext
  <2>4. \A c \in Fd : fp[c].used => Position(c)' = Position(c)
    BY <1>5 DEF Position
  <2>5. StoreStep
    BY <1>1, <2>1, <2>2, <2>4, Unseen
  <2> QED BY <1>2, <2>2, <2>3, <2>5 DEF Good
<1>6. ASSUME NEW fd \in Fd, NEW g \in Descriptor,
             fp' = [fp EXCEPT ![fd] = g], ~ fp[fd].used,
             g.used, g.inode_nr = i, g.inode = itab[i], g.offset = 0,
             Rests(zones, g, 0)
      PROVE  Good' /\ StoreStep
  <2>1. fp'[fd] = g /\ \A c \in Fd : c # fd => fp'[c] = fp[c]
    BY <1>6 DEF Types
  <2>2. Resting'
    <3>1. ASSUME NEW c \in Fd, fp'[c].used PROVE Rests(zones', fp'[c], fp'[c].offset)
      <4>1. CASE c = fd
        BY <1>1, <1>6, <2>1, <4>1
      <4>2. CASE c # fd
        BY <1>1, <1>3, <2>1, <3>1, <4>2
      <4> QED BY <4>1, <4>2
    <3> QED BY <3>1, RestingNext
  <2>3. Sharing(i)' = Sharing(i) \cup {fd}
    BY <1>6, <2>1 DEF Sharing
  <2>4. \A j : j # i => Sharing(j)' = Sharing(j)
    BY <1>6, <2>1 DEF Sharing
  <2>5. Pairs'
    <3> SUFFICES ASSUME NEW c \in Fd, NEW e \in Fd, fp'[c].used, fp'[e].used,
                        fp'[c].inode_nr = fp'[e].inode_nr, c # e
                 PROVE  fp'[c].inode = itab[fp'[c].inode_nr]
      BY <1>1 DEF Pairs
    <3>1. CASE c = fd
      BY <1>6, <2>1, <3>1
    <3>2. CASE c # fd /\ e = fd
      <4>1. c \in Sharing(i) /\ fp'[c] = fp[c] /\ fp[c].inode_nr = i
        BY <1>6, <2>1, <3>2 DEF Sharing
      <4> QED BY <4>1
    <3>3. CASE c # fd /\ e # fd
      BY <2>1, <3>3 DEF Good, Pairs
    <3> QED BY <3>1, <3>2, <3>3
  <2>6. ASSUME NEW j PROVE Current(j)' = Current(j)
    <3>1. CASE j = i
      <4>1. Current(i)' = fp'[fd].inode
        BY <2>3, <2>5, CurrentIsNext
      <4> QED BY <1>4, <1>6, <2>1, <3>1, <4>1
    <3>2. CASE j # i /\ Sharing(j) = {}
      BY <1>1, <2>4, <3>2, CurrentClosed
    <3>3. ASSUME j # i, NEW c \in Sharing(j) PROVE Current(j)' = Current(j)
      <4>1. c \in Sharing(j)' /\ c \in Fd /\ c # fd
        BY <1>6, <2>4, <3>3 DEF Sharing
      <4>2. Current(j)' = fp'[c].inode
        BY <2>5, <4>1, CurrentIsNext
      <4>3. Current(j) = fp[c].inode
        BY CurrentIs DEF Good
      <4> QED BY <2>1, <4>1, <4>2, <4>3
    <3> QED BY <3>1, <3>2, <3>3
  <2>7. Closed'
    <3>1. \A j : Sharing(j)' = {} => Sharing(j) = {}
      BY <2>3, <2>4
    <3> QED BY <1>1, <3>1 DEF Good, Closed
  <2>8. Covered'
    BY <1>1, <2>6 DEF Good, Covered, Named
  <2>9. \A j : Contents(j)' = Contents(j)
    BY <1>1, <2>6 DEF Contents, Bytes, read_zone
  <2>10. AllContents' = AllContents
    BY <1>1, <2>9 DEF AllContents
  <2> DEFINE p == [file |-> i, offset |-> 0]
             U == {c \in Fd : fp[c].used}
  <2>11. /\ {c \in Fd : fp'[c].used} = U \cup {fd}
         /\ fd \notin U
    BY <1>6, <2>1
  <2>12. Position(fd)' = p /\ \A c \in U : Position(c)' = Position(c)
    BY <1>6, <2>1 DEF Position
  <2>13. Positions' = Store!With(Positions, fd, p) /\ DOMAIN Positions = U
    <3> HIDE DEF U, p
    <3>1. Positions' = [c \in U \cup {fd} |-> Position(c)']
      BY <2>11 DEF Positions
    <3>2. Positions = [c \in U |-> Position(c)]
      BY DEF Positions, U
    <3>3. Store!With(Positions, fd, p)
            = [c \in U \cup {fd} |-> IF c = fd THEN p ELSE Positions[c]]
      BY <3>2 DEF Store!With
    <3>4. \A c \in U \cup {fd} : Position(c)' = IF c = fd THEN p ELSE Positions[c]
      BY <2>11, <2>12, <3>2
    <3> QED BY <3>1, <3>2, <3>3, <3>4
  <2>14. i \in DOMAIN AllContents
    BY DEF AllContents
  <2>15. Store!Open(fd, i)
    BY <1>1, <2>10, <2>11, <2>13, <2>14 DEF Store!Open, Store!InUse, Store!Exists
  <2>16. i \in Files
    BY DEF Types, TableOK
  <2>17. StoreStep
    BY <2>15, <2>16 DEF StoreStep, Store!Next
  <2> QED BY <1>2, <2>2, <2>5, <2>7, <2>8, <2>17 DEF Good
<1>7. \/ fp' = fp
      \/ \E fd \in Fd, g \in Descriptor :
              /\ fp' = [fp EXCEPT ![fd] = g] /\ ~ fp[fd].used
              /\ g.used /\ g.inode_nr = i /\ g.inode = itab[i] /\ g.offset = 0
              /\ Rests(zones, g, 0)
  BY <1>4, OpenedRests
<1> QED BY <1>5, <1>6, <1>7

\* my_open of a file.
LEMMA my_openGood ==
  ASSUME AllHabits, Types, Held, Good, NEW i \in Files, my_open(i)
  PROVE  Good' /\ StoreStep
<1>1. /\ i \in files /\ open_child(i) /\ pc = "idle" /\ pc' = "idle"
      /\ \A c \in Sharing(i) : fp[c].inode = itab[i]
      /\ UNCHANGED <<store, table, out>>
  BY DEF my_open, OpenHabits, AllHabits, call
<1> QED BY <1>1, OpenGood

\* The file that my_creat has made is opened.
LEMMA OpenCreatedGood ==
  ASSUME AllHabits, Types, Held, Good, OpenCreated
  PROVE  Good' /\ StoreStep
<1>1. PICK i : i = file
  OBVIOUS
<1>2. /\ i \in files /\ open_child(i) /\ pc = "open" /\ pc' = "idle"
      /\ \A c \in Sharing(i) : fp[c].inode = itab[i]
      /\ UNCHANGED <<store, table, out>>
  BY <1>1 DEF OpenCreated, Return, Types, Good, Stages
<1> QED BY <1>2, OpenGood

\* A new file is empty.
LEMMA my_creatGood ==
  ASSUME AllHabits, Types, Held, Good, NEW i \in Files, my_creat(i)
  PROVE  Good' /\ StoreStep
<1>1. /\ pc = "idle" /\ i \notin files /\ pc' = "open" /\ file' = i
      /\ itab' = [itab EXCEPT ![i] = Fresh] /\ files' = files \cup {i}
      /\ zones' = zones /\ zmap' = zmap /\ fp' = fp /\ out' = out
  BY DEF my_creat, store
<1>2. itab'[i] = Fresh /\ \A j : j # i => itab'[j] = itab[j]
  BY <1>1 DEF Types, TableOK
<1>3. \A c \in Fd : fp[c].used => fp[c].inode_nr \in files /\ fp[c].inode_nr # i
  BY <1>1 DEF Held, Calls
<1>4. \A j : Sharing(j)' = Sharing(j)
  BY <1>1 DEF Sharing
<1>5. Sharing(i) = {}
  BY <1>3 DEF Sharing
<1>6. /\ Reading' /\ InWriting' /\ Stages'
  BY <1>1, <1>4, <1>5 DEF Reading, InWriting, Stages
<1>7. Resting'
  <2>1. \A c \in Fd : fp'[c].used => Rests(zones', fp'[c], fp'[c].offset)
    BY <1>1 DEF Good, Resting, InWrite
  <2>2. pc' # "read"
    BY <1>1
  <2> QED BY <2>1, <2>2, RestingNext
<1>8. Pairs'
  BY <1>1, <1>2, <1>3 DEF Good, Pairs
<1>9. ASSUME NEW j, j # i PROVE Current(j)' = Current(j)
  <2>1. CASE Sharing(j) = {}
    BY <1>2, <1>4, <1>9, <2>1, CurrentClosed
  <2>2. ASSUME NEW c \in Sharing(j) PROVE Current(j)' = Current(j)
    <3>1. Current(j)' = fp'[c].inode
      BY <1>4, <1>8, CurrentIsNext
    <3>2. Current(j) = fp[c].inode
      BY CurrentIs DEF Good
    <3> QED BY <1>1, <3>1, <3>2
  <2> QED BY <2>1, <2>2
<1>10. Current(i)' = Fresh
  BY <1>2, <1>4, <1>5, CurrentClosed
<1>11. Closed'
  <2>1. Whole(Fresh)
    <3>1. Filled(Fresh, 0) /\ 0 \in 0 .. NrDirect
      BY Sizes DEF Filled, Fresh
    <3>2. Ends(0, Fresh.size)
      BY FullSteps DEF Ends, Fresh
    <3> QED BY <3>1, <3>2 DEF Whole
  <2>2. \A j \in files' : Sharing(j)' = {} => Whole(itab'[j])
    <3> TAKE j \in files'
    <3>1. CASE j = i
      BY <1>2, <2>1, <3>1
    <3>2. CASE j # i
      BY <1>1, <1>2, <1>4, <3>2 DEF Good, Closed
    <3> QED BY <3>1, <3>2
  <2> QED BY <2>2 DEF Closed
<1>12. Covered'
  <2> SUFFICES ASSUME NEW b \in zmap
               PROVE  \E j \in files' : b + 1 \in Named(Current(j)')
    BY <1>1 DEF Covered, Named
  <2>1. PICK j \in files : b + 1 \in Named(Current(j))
    BY DEF Good, Covered
  <2>2. j # i /\ j \in files'
    BY <1>1
  <2> QED BY <1>9, <2>1, <2>2
<1>13. \A j \in files : Contents(j)' = Contents(j)
  BY <1>1, <1>9 DEF Contents, Bytes, read_zone
<1>14. Contents(i)' = <<>>
  <2>1. PICK m : m = Fresh
    OBVIOUS
  <2>2. Contents(i)' = Bytes(m)' /\ m.size = 0
    BY <1>10, <2>1 DEF Contents, Bytes, Fresh
  <2>3. Bytes(m)' = [j \in 1 .. 0 |-> At(zones', m, j)]
    BY <2>2, BytesAt
  <2> QED BY <2>2, <2>3
<1>15. AllContents' = Store!With(AllContents, i, <<>>) /\ DOMAIN AllContents = files
  <2>1. AllContents' = [j \in files \cup {i} |-> Contents(j)']
    BY <1>1 DEF AllContents
  <2>2. AllContents = [j \in files |-> Contents(j)]
    BY DEF AllContents
  <2>3. Store!With(AllContents, i, <<>>)
          = [j \in files \cup {i} |-> IF j = i THEN <<>> ELSE AllContents[j]]
    BY <2>2 DEF Store!With
  <2>4. \A j \in files \cup {i} : Contents(j)' = IF j = i THEN <<>> ELSE AllContents[j]
    BY <1>1, <1>13, <1>14, <2>2
  <2> QED BY <2>1, <2>2, <2>3, <2>4
<1>16. Positions' = Positions
  <2>1. \A c \in Fd : Position(c)' = Position(c)
    BY <1>1 DEF Position
  <2> QED BY <1>1, <2>1 DEF Positions
<1>17. Store!Creat(i)
  BY <1>1, <1>15, <1>16 DEF Store!Creat, Store!Exists
<1>18. StoreStep
  BY <1>17 DEF StoreStep, Store!Next
<1> QED BY <1>6, <1>7, <1>8, <1>11, <1>12, <1>18 DEF Good

-----------------------------------------------------------------------------
(* Closing and removing files *)

\* The inode goes back to the table.
LEMMA my_closeGood ==
  ASSUME AllHabits, Types, Held, Good, NEW fd \in Fd, my_close(fd)
  PROVE  Good' /\ StoreStep
<1>1. PICK i, m : i = fp[fd].inode_nr /\ m = fp[fd].inode
  OBVIOUS
<1>2. /\ pc = "idle" /\ pc' = "idle" /\ fp[fd].used
      /\ itab' = [itab EXCEPT ![i] = m] /\ files' = files
      /\ fp' = [fp EXCEPT ![fd] = Unused]
      /\ zones' = zones /\ zmap' = zmap /\ out' = out
  BY <1>1 DEF my_close, store, call
<1>3. i \in files /\ i \in Files /\ fd \in Sharing(i)
  BY <1>1, <1>2 DEF Held, Calls, Types, TableOK, Sharing
<1>4. itab'[i] = m /\ \A j : j # i => itab'[j] = itab[j]
  BY <1>2, <1>3 DEF Types, TableOK
<1>5. ~ fp'[fd].used /\ \A c \in Fd : c # fd => fp'[c] = fp[c]
  BY <1>2 DEF Types, Unused
<1>6. Sharing(i)' = Sharing(i) \ {fd} /\ \A j : j # i => Sharing(j)' = Sharing(j)
  BY <1>1, <1>5 DEF Sharing
<1>7. \A c \in Fd : fp[c].used => Rests(zones, fp[c], fp[c].offset)
  BY <1>2 DEF Good, Resting, InWrite
<1>8. Resting'
  <2>1. \A c \in Fd : fp'[c].used => Rests(zones', fp'[c], fp'[c].offset)
    BY <1>2, <1>5, <1>7
  <2>2. pc' # "read"
    BY <1>2
  <2> QED BY <2>1, <2>2, RestingNext
<1>9. Reading' /\ InWriting' /\ Stages'
  BY <1>2 DEF Reading, InWriting, Stages
<1>10. Pairs'
  <2> SUFFICES ASSUME NEW c \in Fd, NEW e \in Fd, fp'[c].used, fp'[e].used,
                      fp'[c].inode_nr = fp'[e].inode_nr, c # e
               PROVE  fp'[c].inode = itab'[fp'[c].inode_nr]
    BY DEF Pairs
  <2>1. c # fd /\ e # fd /\ fp'[c] = fp[c] /\ fp'[e] = fp[e]
    BY <1>5
  <2>2. fp[c].inode = itab[fp[c].inode_nr]
    BY <2>1 DEF Good, Pairs
  <2>3. CASE fp[c].inode_nr = i
    <3>1. m = itab[i]
      BY <1>1, <1>2, <2>1, <2>3 DEF Good, Pairs
    <3> QED BY <1>4, <2>1, <2>2, <2>3, <3>1
  <2>4. CASE fp[c].inode_nr # i
    BY <1>4, <2>1, <2>2, <2>4
  <2> QED BY <2>3, <2>4
<1>11. Current(i) = m
  BY <1>1, <1>3, CurrentIs DEF Good
<1>12. ASSUME NEW j PROVE Current(j)' = Current(j)
  <2>1. CASE Sharing(j)' = {} /\ j = i
    BY <1>4, <1>11, <2>1, CurrentClosed
  <2>2. CASE Sharing(j)' = {} /\ j # i
    BY <1>4, <1>6, <2>2, CurrentClosed
  <2>3. ASSUME NEW c \in Sharing(j)' PROVE Current(j)' = Current(j)
    <3>1. c \in Sharing(j) /\ c \in Fd /\ c # fd
      <4>1. c \in Fd /\ fp'[c].used
        BY DEF Sharing
      <4> QED BY <1>5, <1>6, <4>1
    <3>2. Current(j)' = fp'[c].inode
      BY <1>10, CurrentIsNext
    <3>3. Current(j) = fp[c].inode
      BY <3>1, CurrentIs DEF Good
    <3> QED BY <1>5, <3>1, <3>2, <3>3
  <2> QED BY <2>1, <2>2, <2>3
<1>13. Closed'
  <2>1. Whole(m)
    BY <1>1, <1>2, <1>7 DEF Rests, Iterates, Whole
  <2>2. \A j \in files : Sharing(j)' = {} => Whole(itab'[j])
    <3> TAKE j \in files
    <3>1. CASE j = i
      BY <1>4, <2>1, <3>1
    <3>2. CASE j # i
      BY <1>4, <1>6, <3>2 DEF Good, Closed
    <3> QED BY <3>1, <3>2
  <2> QED BY <1>2, <2>2 DEF Closed
<1>14. Covered'
  BY <1>2, <1>12 DEF Good, Covered, Named
<1>15. AllContents' = AllContents
  <2>1. \A j : Contents(j)' = Contents(j)
    BY <1>2, <1>12 DEF Contents, Bytes, read_zone
  <2> QED BY <1>2, <2>1 DEF AllContents
<1>16. Positions' = Store!Without(Positions, fd) /\ fd \in DOMAIN Positions
  <2> DEFINE U == {c \in Fd : fp[c].used}
  <2>1. {c \in Fd : fp'[c].used} = U \ {fd} /\ fd \in U
    BY <1>2, <1>5
  <2>2. \A c \in U \ {fd} : Position(c)' = Position(c)
    BY <1>2, <1>5 DEF Position
  <2>3. Positions = [c \in U |-> Position(c)]
    BY DEF Positions
  <2> HIDE DEF U
  <2>4. Positions' = [c \in U \ {fd} |-> Position(c)']
    BY <2>1 DEF Positions
  <2>5. Store!Without(Positions, fd) = [c \in U \ {fd} |-> Positions[c]]
    BY <2>3 DEF Store!Without
  <2> QED BY <2>1, <2>2, <2>3, <2>4, <2>5
<1>17. Store!Close(fd)
  BY <1>2, <1>15, <1>16 DEF Store!Close, Store!InUse
<1>18. StoreStep
  BY <1>16, <1>17 DEF StoreStep, Store!Next, Store!InUse
<1> QED BY <1>8, <1>9, <1>10, <1>13, <1>14, <1>18 DEF Good

\* A file that is not open is removed, with all its zones.
LEMMA my_removeGood ==
  ASSUME AllHabits, Types, Held, Good, NEW i \in Files, my_remove(i)
  PROVE  Good' /\ StoreStep
<1>1. /\ pc = "idle" /\ pc' = "idle" /\ i \in files /\ Sharing(i) = {}
      /\ itab' = itab /\ files' = files \ {i} /\ fp' = fp
      /\ zmap' = zmap \ {z - 1 : z \in Owned(itab[i])}
      /\ zones' = zones /\ out' = out
  BY DEF my_remove, RemoveHabits, AllHabits, call
<1>2. \A j : Sharing(j)' = Sharing(j)
  BY <1>1 DEF Sharing
<1>3. Resting'
  <2>1. \A c \in Fd : fp'[c].used => Rests(zones', fp'[c], fp'[c].offset)
    BY <1>1 DEF Good, Resting, InWrite
  <2>2. pc' # "read"
    BY <1>1
  <2> QED BY <2>1, <2>2, RestingNext
<1>4. Reading' /\ InWriting' /\ Stages'
  BY <1>1 DEF Reading, InWriting, Stages
<1>5. Pairs'
  BY <1>1 DEF Good, Pairs
<1>6. ASSUME NEW j PROVE Current(j)' = Current(j)
  <2>1. CASE Sharing(j) = {}
    BY <1>1, <1>2, <2>1, CurrentClosed
  <2>2. ASSUME NEW c \in Sharing(j) PROVE Current(j)' = Current(j)
    BY <1>1, <1>2, <1>5, <2>2, CurrentIs, CurrentIsNext DEF Good
  <2> QED BY <2>1, <2>2
<1>7. Closed'
  BY <1>1, <1>2 DEF Good, Closed
<1>8. Covered'
  <2> SUFFICES ASSUME NEW b \in zmap'
               PROVE  \E j \in files' : b + 1 \in Named(Current(j)')
    BY DEF Covered, Named
  <2>1. b \in zmap /\ \A z \in Owned(itab[i]) : b # z - 1
    BY <1>1
  <2>2. PICK j \in files : b + 1 \in Named(Current(j))
    BY <2>1 DEF Good, Covered
  <2>3. ASSUME j = i PROVE FALSE
    <3>1. Current(i) = itab[i] /\ Whole(itab[i])
      BY <1>1, CurrentClosed DEF Good, Closed
    <3>2. PICK m \in Inode : m = itab[i]
      BY DEF Types, TableOK
    <3>3. PICK n \in 0 .. NrDirect : Filled(m, n)
      BY <3>1, <3>2 DEF Whole
    <3>4. Owned(m) = Named(m)
      BY <3>3, FilledNamed
    <3>5. b + 1 \in Owned(itab[i])
      BY <2>2, <2>3, <3>1, <3>2, <3>4
    <3>6. b \in Int
      BY <2>1 DEF Types, StoreOK
    <3> QED BY <2>1, <3>5, <3>6
  <2>4. j \in files'
    BY <1>1, <2>3
  <2> QED BY <1>6, <2>2, <2>4
<1>9. AllContents' = Store!Without(AllContents, i) /\ DOMAIN AllContents = files
  <2>1. \A j : Contents(j)' = Contents(j)
    BY <1>1, <1>6 DEF Contents, Bytes, read_zone
  <2>2. AllContents = [j \in files |-> Contents(j)]
    BY DEF AllContents
  <2>3. AllContents' = [j \in files \ {i} |-> Contents(j)']
    BY <1>1 DEF AllContents
  <2>4. Store!Without(AllContents, i) = [j \in files \ {i} |-> AllContents[j]]
    BY <2>2 DEF Store!Without
  <2> QED BY <2>1, <2>2, <2>3, <2>4
<1>10. Positions' = Positions
  <2>1. \A c \in Fd : Position(c)' = Position(c)
    BY <1>1 DEF Position
  <2> QED BY <1>1, <2>1 DEF Positions
<1>11. Store!Remove(i)
  BY <1>1, <1>9, <1>10 DEF Store!Remove, Store!Exists
<1>12. StoreStep
  BY <1>11 DEF StoreStep, Store!Next
<1> QED BY <1>3, <1>4, <1>5, <1>7, <1>8, <1>12 DEF Good

-----------------------------------------------------------------------------
(* The theorems *)

\* At first there are no files.
LEMMA InitGood == Init => Good /\ Store!Init
<1> SUFFICES ASSUME Init PROVE Good /\ Store!Init
  OBVIOUS
<1>1. /\ pc = "idle" /\ zmap = {} /\ files = {} /\ out = <<>>
      /\ \A fd \in Fd : ~ fp[fd].used
  BY DEF Init, Unused
<1>2. Good
  BY <1>1 DEF Good, Stages, Resting, Reading, InWriting, Pairs, Closed, Covered
<1>3. {fd \in Fd : fp[fd].used} = {}
  BY <1>1
<1>4. AllContents = <<>> /\ Positions = <<>>
  BY <1>1, <1>3 DEF AllContents, Positions
<1> QED BY <1>1, <1>2, <1>4 DEF Store!Init

\* Every step keeps the contents of files, and is one of FileStore or none.
LEMMA NextGood ==
  ASSUME AllHabits, IInv, Good, [Next]_vars
  PROVE  Good' /\ StoreStep
<1>0. Types /\ Held
  BY DEF IInv
<1>1. CASE UNCHANGED vars
  <2>1. UNCHANGED <<zmap, zones, itab, files, fp, pc, cfd, file, rest, rbuf, remain,
                    total, out>>
    BY <1>1 DEF vars, store, table, call
  <2>2. UNCHANGED <<Stages, Resting, Reading, InWriting, Pairs, Closed, Covered>>
    BY <2>1 DEF Stages, Resting, Reading, InWriting, InWrite, Pairs, Closed, Covered,
       Sharing, FreeZones, Current, Named, Wrote, Writes
  <2>3. UNCHANGED <<AllContents, Positions>>
    BY <2>1 DEF AllContents, Positions, Contents, Position, Bytes, read_zone, Current,
       Sharing
  <2> QED BY <2>1, <2>2, <2>3 DEF Good, StoreStep
<1>2. ASSUME NEW i \in Files, my_open(i) PROVE Good' /\ StoreStep
  BY <1>0, <1>2, my_openGood
<1>3. ASSUME NEW i \in Files, my_creat(i) PROVE Good' /\ StoreStep
  BY <1>0, <1>3, my_creatGood
<1>4. ASSUME NEW i \in Files, my_remove(i) PROVE Good' /\ StoreStep
  BY <1>0, <1>4, my_removeGood
<1>5. ASSUME NEW fd \in Fd, my_close(fd) PROVE Good' /\ StoreStep
  BY <1>0, <1>5, my_closeGood
<1>6. ASSUME NEW fd \in Fd, NEW d \in Data, my_write(fd, d) PROVE Good' /\ StoreStep
  BY <1>0, <1>6, my_writeEmpty, my_writeFills
<1>7. ASSUME NEW fd \in Fd, NEW n \in Counts, my_read(fd, n) PROVE Good' /\ StoreStep
  BY <1>0, <1>7, my_readGood
<1>8. CASE Continue
  <2>1. CASE OpenCreated
    BY <1>0, <2>1, OpenCreatedGood
  <2>2. ASSUME NEW z \in 1 .. ZoneBits, NextZone(z) PROVE Good' /\ StoreStep
    BY <1>0, <2>2, NextZoneGood
  <2>3. CASE TooLong \/ NoSpace \/ OldZone
    BY <1>0, <2>3, NotTooLong
  <2>4. CASE WriteBlock
    BY <1>0, <2>4, WriteBlockGood
  <2>5. CASE WriteDone
    BY <1>0, <2>5, WriteDoneGood
  <2>6. CASE ReadBlock
    BY <1>0, <2>6, ReadBlockGood
  <2>7. CASE ReadDone
    BY <1>0, <2>7, ReadDoneGood
  <2> QED BY <1>8, <2>1, <2>2, <2>3, <2>4, <2>5, <2>6, <2>7 DEF Continue
<1> QED BY <1>1, <1>2, <1>3, <1>4, <1>5, <1>6, <1>7, <1>8 DEF Next

\* The zones of careful clients' files.
LEMMA GoodOwned ==
  ASSUME IInv, Good
  PROVE  ZonesOwned
<1>0. Types /\ Held
  BY DEF IInv
<1>1. ASSUME NEW i \in files
      PROVE  /\ Owned(Current(i)) = Named(Current(i))
             /\ Named(Current(i)) \subseteq 1 .. ZoneBits
             /\ Named(Current(i)) \subseteq Holds(i)
  <2>1. PICK m \in Inode : m = Current(i) /\ Named(m) \subseteq Holds(i)
    BY <1>0, CurrentHeld DEF Good
  <2>2. \E n \in 0 .. NrDirect : Filled(m, n)
    <3>1. CASE \A c \in Sharing(i) : ~ InWrite(c)
      BY <1>0, <2>1, <3>1, WholeCurrent DEF Good, Whole
    <3>2. ASSUME NEW c \in Sharing(i), InWrite(c)
          PROVE  \E n \in 0 .. NrDirect : Filled(m, n)
      <4>1. pc \in {"write", "block"} /\ c = cfd
        BY <3>2 DEF InWrite
      <4>2. Filled(fp[c].inode, fp[c].dzi.count)
        BY <4>1 DEF Good, InWriting, Writes
      <4>3. Current(i) = fp[c].inode
        BY CurrentIs DEF Good
      <4> QED BY <2>1, <4>2, <4>3 DEF Filled
    <3> QED BY <3>1, <3>2
  <2>3. PICK n \in 0 .. NrDirect : Filled(m, n)
    BY <2>2
  <2>4. /\ Owned(m) = Named(m) /\ Named(m) = {m.direct[k] : k \in 1 .. n}
        /\ \A k \in 1 .. n : m.direct[k] \in 1 .. ZoneBits
    BY <2>3, FilledNamed
  <2> QED BY <2>1, <2>4
<1>2. \A i, j \in files : i # j => Owned(Current(i)) \cap Owned(Current(j)) = {}
  BY <1>0, <1>1 DEF Held, Apart
<1>3. \A i \in files : \A z \in Owned(Current(i)) : z \in 1 .. ZoneBits /\ z - 1 \in zmap
  BY <1>0, <1>1 DEF Held, Apart
<1>4. \A z \in 1 .. ZoneBits : z - 1 \in zmap => \E i \in files : z \in Owned(Current(i))
  <2> SUFFICES ASSUME NEW z \in 1 .. ZoneBits, z - 1 \in zmap
               PROVE  \E i \in files : z \in Owned(Current(i))
    OBVIOUS
  <2>1. (z - 1) + 1 = z
    OBVIOUS
  <2>2. \E i \in files : z \in Named(Current(i))
    BY <2>1 DEF Good, Covered
  <2> QED BY <1>1, <2>2
<1>5. pc # "full"
  BY DEF Good, Stages
<1> QED BY <1>2, <1>3, <1>4, <1>5 DEF ZonesOwned

\* What holds of careful clients.
LEMMA SpecGood ==
  AllHabits => (Spec => [](IInv /\ Good) /\ [][StoreStep]_vars)
<1> SUFFICES ASSUME AllHabits PROVE Spec => [](IInv /\ Good) /\ [][StoreStep]_vars
  OBVIOUS
<1>1. Init => Good
  BY InitGood
<1>2. IInv /\ Good /\ [Next]_vars => Good' /\ StoreStep
  BY NextGood
<1>3. Spec => []IInv
  BY SpecIInv DEF AllHabits
<1> QED BY <1>1, <1>2, <1>3, PTL DEF Spec

\* zone.c and file.c: with clients that append, start no call inside a file
\* where a block ends, are alone when they write and have the space, the zones
\* marked in the map are those of the files, and each is one file's.
THEOREM FileIOZonesOwned ==
  ASSUME {"append", "inside", "exclusive", "closed", "space"} \subseteq Habits
  PROVE  Spec => []ZonesOwned
<1>1. AllHabits
  BY DEF AllHabits
<1>2. Spec => [](IInv /\ Good)
  BY <1>1, SpecGood
<1>3. IInv /\ Good => ZonesOwned
  BY GoodOwned
<1> QED BY <1>2, <1>3, PTL

\* file.c: for the same clients, files are sequences of bytes and descriptors
\* positions in them: what is read is what was written, at every position,
\* across closing, reopening, removing and reusing zones.
THEOREM FileIOImplementsFiles ==
  ASSUME {"append", "inside", "exclusive", "closed", "space"} \subseteq Habits
  PROVE  Spec => ImplementsFiles
<1>1. AllHabits
  BY DEF AllHabits
<1>2. Init => Store!Init
  BY InitGood
<1>3. IInv /\ Good /\ [Next]_vars => [Store!Next]_Store!vars
  <2> SUFFICES ASSUME IInv, Good, [Next]_vars PROVE [Store!Next]_Store!vars
    OBVIOUS
  <2>1. StoreStep
    BY <1>1, NextGood
  <2> QED BY <2>1 DEF StoreStep, Store!vars
<1>4. Spec => [](IInv /\ Good)
  BY <1>1, SpecGood
<1> QED BY <1>2, <1>3, <1>4, PTL DEF Spec, ImplementsFiles, Store!Spec
=============================================================================
