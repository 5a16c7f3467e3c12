-------------------------- MODULE NamespaceProofs ---------------------------
(***************************************************************************)
(* Proofs about Namespace.tla, for every set of names and paths, every     *)
(* number of inodes, zones and descriptors, and every size of a zone.      *)
(*                                                                         *)
(* Two things are assumed.  Careful: clients do not remove, format or      *)
(* close behind the back of an open descriptor.  MaxEntries <              *)
(* DIR_PER_BLOCK: no directory fills its first zone, for the calls go      *)
(* wrong where the last zone is exactly full.                              *)
(*                                                                         *)
(* A directory then has one zone, and its entries are the pairs Live of    *)
(* the directory and an index.  Each action has a lemma (...Keeps): it     *)
(* keeps the invariant IInv, loses no inode (NoneLost), and is a step of   *)
(* the abstract tree (TreeStep).                                           *)
(***************************************************************************)
EXTENDS Namespace, FiniteSetTheorems, SequenceTheorems, TLAPS

\* What the scan of a bitmap answers, and LeastNumber.
Bitmaps == INSTANCE BitmapProofs

-----------------------------------------------------------------------------
(* The invariant *)

\* The kinds of TypeOK.
Zone == 0 .. ZoneBits
Inode == [mode : {0, NORMAL_FILE, DIR_FILE}, size : 0 .. MaxEntries,
          direct : [1 .. NrDirect -> Zone]]
Descriptor == [used : BOOLEAN, inode_nr : 0 .. InodeBits, inode : Inode]

\* Both maps, and hints that name what is free.
MapsOK ==
  /\ imap \subseteq 0 .. InodeBits - 1 /\ first_zero_index \in 0 .. InodeBits
  /\ first_zero_index \notin imap
  /\ zmap \subseteq 0 .. ZoneBits - 1 /\ last_free_zone_num \in Zone
  /\ last_free_zone_num # 0 => last_free_zone_num - 1 \notin zmap

\* The zones, the inode table, the descriptors and the call at work.
ZonesOK == zones \in [1 .. ZoneBits -> Block] /\ zone0 \in Block
TableOK == itab \in [InodeNr -> Inode]
FdOK == fp \in [Fd -> Descriptor]
CallOK ==
  /\ pc \in {"idle", "rename", "link", "open"}
  /\ op \in {"none", "mkdir", "creat", "rename"}
  /\ pinum \in 0 .. InodeBits /\ cinum \in 0 .. InodeBits
  /\ parent \in Inode
  /\ name \in Names \cup {NoName} /\ to \in Paths \cup {<<>>}
  /\ ret \in {0, -1}

Types == MapsOK /\ ZonesOK /\ TableOK /\ FdOK /\ CallOK

\* The entries there are, and what they say.
Live == {x \in InodeNr \X Index : /\ InUse(x[1])
                                  /\ itab[x[1]].mode = DIR_FILE
                                  /\ x[2] < itab[x[1]].size}
E(x) == read_zone(itab[x[1]].direct[1])[x[2]]

\* The root is a directory.
Roots == InUse(ROOT) /\ itab[ROOT].mode = DIR_FILE

\* An inode in use has one zone at most, and one if it has entries.
OneZone(inode) ==
  /\ inode.mode # 0
  /\ \A k \in 2 .. NrDirect : inode.direct[k] = 0
  /\ inode.size > 0 => inode.direct[1] # 0

Shape == \A i \in InodeNr : InUse(i) => OneZone(itab[i])

\* A call that is about to add an entry has room for it.
RoomLeft == pc \in {"rename", "link"} => Room

\* EntriesSound, of Live.
Sound ==
  /\ \A x, y \in Live : x # y =>
       /\ E(x).inode_nr # E(y).inode_nr
       /\ x[1] = y[1] => E(x).name # E(y).name
  /\ \A x \in Live :
       E(x).inode_nr \in InodeNr \ {ROOT} /\ InUse(E(x).inode_nr)

\* CopiesAgree; only files are open.
Copies ==
  \A fd \in Fd : fp[fd].used =>
     /\ fp[fd].inode_nr \in InodeNr /\ InUse(fp[fd].inode_nr)
     /\ itab[fp[fd].inode_nr] = fp[fd].inode
     /\ fp[fd].inode.mode = NORMAL_FILE

\* A zone was allocated for parent and is not in the table yet.
InHand == pc = "link" /\ itab[pinum].direct[1] = 0 /\ parent.direct[1] # 0

\* ZonesOwned: inodes in use have zones of their own, which are in use, and no
\* zone is in use but these and the one in hand.
Owning ==
  /\ \A i, j \in InodeNr : InUse(i) /\ InUse(j) /\ i # j /\ itab[i].direct[1] # 0
       => itab[i].direct[1] # itab[j].direct[1]
  /\ \A i \in InodeNr : InUse(i) /\ itab[i].direct[1] # 0
       => itab[i].direct[1] - 1 \in zmap
  /\ \A b \in zmap : \/ InHand /\ b = parent.direct[1] - 1
                     \/ \E i \in InodeNr : InUse(i) /\ b = itab[i].direct[1] - 1
  /\ InHand => /\ parent.direct[1] - 1 \in zmap
               /\ \A i \in InodeNr : InUse(i) => itab[i].direct[1] # parent.direct[1]

\* An inode in use that no directory lists.
Loose(c) ==
  /\ c \in InodeNr \ {ROOT} /\ InUse(c)
  /\ \A x \in Live : E(x).inode_nr # c

\* What a call that adds an entry has found out, and still holds.
Linking ==
  /\ op \in {"mkdir", "creat", "rename"}
  /\ Loose(cinum)
  /\ pinum \in InodeNr \ {cinum} /\ InUse(pinum) /\ itab[pinum].mode = DIR_FILE
  /\ \A x \in Live : x[1] = pinum => E(x).name # name
  /\ parent.mode = DIR_FILE /\ parent.size = itab[pinum].size
  /\ \A k \in 2 .. NrDirect : parent.direct[k] = 0
  /\ itab[pinum].direct[1] \in {0, parent.direct[1]}
  /\ op # "rename" =>
       /\ itab[cinum] = Fresh(IF op = "mkdir" THEN DIR_FILE ELSE NORMAL_FILE)
       /\ ~ Opened(cinum)

\* What holds at the stages of a call.
Stage ==
  /\ pc = "idle" => cinum = 0 /\ op = "none"
  /\ pc = "rename" => op = "rename" /\ to \in Paths /\ Loose(cinum)
  /\ pc = "link" => Linking
  /\ pc = "open" => /\ op = "creat" /\ cinum \in InodeNr /\ InUse(cinum)
                    /\ itab[cinum].mode = NORMAL_FILE
                    /\ \E x \in Live : E(x).inode_nr = cinum

\* The inductive invariant.
IInv == /\ Types /\ Roots /\ Shape /\ RoomLeft /\ Sound /\ Copies /\ Owning
        /\ Stage

-----------------------------------------------------------------------------
(* The constants, and the two maps *)

\* What is assumed of the constants, for leaves that need no more.
LEMMA Sizes ==
  /\ DIR_PER_BLOCK \in Nat \ {0} /\ NrDirect \in Nat \ {0}
  /\ InodeBits \in Nat \ {0} /\ ZoneBits \in Nat \ {0}
  /\ MAX_OPEN_FILES \in Nat \ {0} /\ MaxEntries \in Nat \ {0}
  /\ NoName \notin Names
  /\ Paths \subseteq Seq(Names \cup {NoName}) \ {<<>>}
BY NamespaceAssumption DEF NamespaceAssumption

\* TypeOK is the conjunction of these parts, but for the hints.
LEMMA TypeParts == Types => TypeOK
BY Sizes, SMTT(20) DEF Types, MapsOK, ZonesOK, TableOK, FdOK, CallOK, TypeOK, Zone, Inode,
   Descriptor, IMap!TypeOK, IMap!Bit, IMap!Bits, IMap!Number,
   ZMap!TypeOK, ZMap!Bit, ZMap!Bits, ZMap!Number, ZMap!Stored

\* inode.c:30: alloc_inode sets one clear bit, or answers 0 and changes nothing.
LEMMA AllocInode ==
  ASSUME MapsOK, NEW n \in 0 .. InodeBits, IMap!alloc_inode(n)
  PROVE  \/ /\ n \in InodeNr /\ n - 1 \notin imap
            /\ imap' = imap \cup {n - 1} /\ first_zero_index' = InodeBits
         \/ n = 0 /\ UNCHANGED <<imap, first_zero_index>>
<1>0. InodeBits \in Nat \ {0} /\ imap \subseteq 0 .. InodeBits - 1
  BY Sizes DEF MapsOK
<1> DEFINE index == IMap!find_first_zero(imap, InodeBits)
<1>1. /\ index \in 0 .. InodeBits
      /\ index \notin imap
  <2>1. index = Bitmaps!find_first_zero(imap, InodeBits)
    BY DEF IMap!find_first_zero, Bitmaps!find_first_zero, IMap!Bits, Bitmaps!Bits
  <2> QED BY <1>0, <2>1, Bitmaps!FindFirstZero DEF Bitmaps!Bits
<1>2. CASE IMap!AllocByScan(n)
  BY <1>0, <1>1, <1>2 DEF IMap!AllocByScan, InodeNr
<1>3. CASE IMap!AllocFails(n)
  BY <1>3 DEF IMap!AllocFails
<1>4. CASE IMap!AllocByHint(n)
  BY <1>0, <1>4 DEF IMap!AllocByHint, MapsOK, InodeNr
<1> QED BY <1>2, <1>3, <1>4 DEF IMap!alloc_inode

\* zone.c:18: the same of alloc_zone, which also fills the zone with zeros.
LEMMA AllocZone ==
  ASSUME MapsOK, NEW n \in Zone, ZMap!alloc_zone(n)
  PROVE  /\ last_free_zone_num' = 0
         /\ \/ /\ n \in 1 .. ZoneBits /\ n - 1 \notin zmap
               /\ zmap' = zmap \cup {n - 1}
               /\ zones' = [zones EXCEPT ![n] = EmptyBlock]
            \/ n = 0 /\ UNCHANGED <<zmap, zones>>
<1>0. ZoneBits \in Nat \ {0} /\ zmap \subseteq 0 .. ZoneBits - 1
  BY Sizes DEF MapsOK
<1> DEFINE index == ZMap!find_first_zero(zmap, ZoneBits)
<1>1. /\ index \in 0 .. ZoneBits
      /\ index \notin zmap
  <2>1. index = Bitmaps!find_first_zero(zmap, ZoneBits)
    BY DEF ZMap!find_first_zero, Bitmaps!find_first_zero, ZMap!Bits, Bitmaps!Bits
  <2> QED BY <1>0, <2>1, Bitmaps!FindFirstZero DEF Bitmaps!Bits
<1>2. CASE ZMap!AllocByScan(n)
  BY <1>0, <1>1, <1>2 DEF ZMap!AllocByScan, ZMap!Take, ZMap!Written, ZMap!Stored
<1>3. CASE ZMap!AllocFails(n)
  BY <1>3 DEF ZMap!AllocFails
<1>4. CASE ZMap!AllocByHint(n)
  BY <1>0, <1>4 DEF ZMap!AllocByHint, ZMap!Take, ZMap!Written, ZMap!Stored,
     MapsOK, Zone
<1> QED BY <1>2, <1>3, <1>4 DEF ZMap!alloc_zone

\* inode.c: free_inode clears a bit, and a hint stays one of a clear bit.
LEMMA FreeInode ==
  ASSUME MapsOK, NEW n \in InodeNr,
         \/ imap' = imap /\ first_zero_index' = first_zero_index
         \/ IMap!free_inode(n)
  PROVE  /\ imap' \subseteq 0 .. InodeBits - 1 /\ first_zero_index' \in 0 .. InodeBits
         /\ first_zero_index' \notin imap'
<1>1. InodeBits \in Nat /\ n \in Nat \ {0} /\ n - 1 \in 0 .. InodeBits - 1
  BY Sizes DEF InodeNr
<1>2. CASE IMap!free_inode(n)
  <2>1. /\ imap' = imap \ {n - 1}
        /\ first_zero_index' \in {n - 1, first_zero_index}
    BY <1>2 DEF IMap!free_inode
  <2> QED BY <1>1, <2>1 DEF MapsOK
<1>3. CASE imap' = imap /\ first_zero_index' = first_zero_index
  BY <1>3 DEF MapsOK
<1> QED BY <1>2, <1>3

-----------------------------------------------------------------------------
(* Directories of less than a zone *)

\* Such a directory has one zone if it has entries, and they are the first in it.
LEMMA OneZoneSlots ==
  ASSUME MaxEntries < DIR_PER_BLOCK, NEW d \in Inode
  PROVE  /\ Count(d) = IF d.size > 0 THEN 1 ELSE 0
         /\ d.size > 0 => ASize(d, 1) = d.size
         /\ Slots(d) = {<<1, i>> : i \in 0 .. d.size - 1}
         /\ d.size \in Nat /\ d.size < DIR_PER_BLOCK
<1>1. d.size \in Nat /\ d.size < DIR_PER_BLOCK /\ DIR_PER_BLOCK \in Nat \ {0}
  BY Sizes DEF Inode
<1>2. d.size \div DIR_PER_BLOCK = 0 /\ d.size % DIR_PER_BLOCK = d.size
  BY <1>1
<1>3. Count(d) = IF d.size > 0 THEN 1 ELSE 0
  BY <1>2 DEF Count
<1>4. d.size > 0 => ASize(d, 1) = d.size
  BY <1>2, <1>3 DEF ASize
<1>5. CASE d.size > 0
  <2>1. \A s : s \in Slots(d) <=> s \in {<<1, i>> : i \in 0 .. d.size - 1}
    <3>1. Slots(d) = {s \in (1 .. 1) \X Index : s[2] < ASize(d, s[1])}
      BY <1>3, <1>5 DEF Slots
    <3>2. \A i \in 0 .. d.size - 1 : i \in Index
      BY <1>1 DEF Index
    <3>3. \A i \in Index : i < d.size <=> i \in 0 .. d.size - 1
      BY <1>1 DEF Index
    <3>4. \A s \in (1 .. 1) \X Index : s = <<1, s[2]>> /\ s[1] = 1 /\ s[2] \in Index
      OBVIOUS
    <3>5. ASize(d, 1) = d.size
      BY <1>4, <1>5
    <3>6. ASSUME NEW s \in Slots(d)
          PROVE  s \in {<<1, i>> : i \in 0 .. d.size - 1}
      BY <3>1, <3>3, <3>4, <3>5
    <3>7. ASSUME NEW i \in 0 .. d.size - 1
          PROVE  <<1, i>> \in Slots(d)
      BY <3>1, <3>2, <3>3, <3>5
    <3> QED BY <3>6, <3>7
  <2> QED BY <1>1, <1>3, <1>4, <2>1
<1>6. CASE d.size = 0
  <2>1. Slots(d) = {}
    BY <1>3, <1>6 DEF Slots
  <2> QED BY <1>1, <1>3, <1>6, <2>1
<1> QED BY <1>1, <1>5, <1>6

\* What clear_data_zones frees is that one zone.
LEMMA OneZoneOwned ==
  ASSUME NEW d, \A k \in 2 .. NrDirect : d.direct[k] = 0
  PROVE  Owned(d) = {d.direct[1]} \ {0}
<1> DEFINE J == {j \in 1 .. NrDirect : \A l \in 1 .. j : d.direct[l] # 0}
<1>1. \A k \in J : k = 1
  <2> SUFFICES ASSUME NEW k \in J, k # 1 PROVE FALSE
    OBVIOUS
  <2>1. k \in 2 .. NrDirect /\ k \in 1 .. k
    OBVIOUS
  <2> QED BY <2>1
<1>2. d.direct[1] # 0 => 1 \in J
  BY Sizes
<1>3. \A k \in J : d.direct[k] # 0
  OBVIOUS
<1>4. Owned(d) = {d.direct[k] : k \in J}
  BY DEF Owned
<1> HIDE DEF J
<1> QED BY <1>1, <1>2, <1>3, <1>4

\* The entries of all directories as LiveSlots has them.
LEMMA LiveEntries ==
  ASSUME MaxEntries < DIR_PER_BLOCK, TableOK
  PROVE  /\ LiveSlots = {<<x[1], <<1, x[2]>>>> : x \in Live}
         /\ \A x \in Live : At(<<x[1], <<1, x[2]>>>>) = E(x)
<1>1. \A d \in InodeNr : itab[d] \in Inode
  BY DEF TableOK
<1>2. ASSUME NEW y \in LiveSlots
      PROVE  \E x \in Live : y = <<x[1], <<1, x[2]>>>>
  <2>1. y[1] \in InodeNr /\ InUse(y[1]) /\ itab[y[1]].mode = DIR_FILE
        /\ y[2] \in Slots(itab[y[1]]) /\ y = <<y[1], y[2]>>
    BY DEF LiveSlots, Dirs
  <2>2. PICK i \in 0 .. itab[y[1]].size - 1 : y[2] = <<1, i>>
    BY <1>1, <2>1, OneZoneSlots
  <2>3. i \in Index /\ i < itab[y[1]].size
    BY <1>1, <2>1, <2>2, OneZoneSlots, Sizes DEF Index
  <2> DEFINE x == <<y[1], i>>
  <2>4. x \in Live
    BY <2>1, <2>3 DEF Live
  <2>5. y = <<x[1], <<1, x[2]>>>>
    BY <2>1, <2>2
  <2> QED BY <2>4, <2>5
<1>3. ASSUME NEW x \in Live
      PROVE  <<x[1], <<1, x[2]>>>> \in LiveSlots
  <2>1. x[1] \in Dirs /\ x[2] \in Index /\ x[2] \in 0 .. itab[x[1]].size - 1
    BY <1>1, OneZoneSlots DEF Live, Dirs, Index
  <2>2. <<1, x[2]>> \in Slots(itab[x[1]])
    BY <1>1, <2>1, OneZoneSlots DEF Dirs
  <2>3. 1 \in 1 .. NrDirect
    BY Sizes
  <2> QED BY <2>1, <2>2, <2>3 DEF LiveSlots
<1>4. \A x \in Live : At(<<x[1], <<1, x[2]>>>>) = E(x)
  BY DEF At, EntryAt, E
<1> QED BY <1>2, <1>3, <1>4

\* The hits of a name in a directory, among the entries there are.
LEMMA HitsLive ==
  ASSUME MaxEntries < DIR_PER_BLOCK, TableOK, NEW d \in InodeNr, InUse(d),
         itab[d].mode = DIR_FILE, NEW n
  PROVE  /\ \A x \in Live : x[1] = d /\ E(x).name = n => <<1, x[2]>> \in Hits(itab[d], n)
         /\ \A s \in Hits(itab[d], n) :
              /\ s = <<1, s[2]>> /\ <<d, s[2]>> \in Live
              /\ E(<<d, s[2]>>).name = n
              /\ EntryAt(itab[d], s) = E(<<d, s[2]>>)
<1>1. itab[d] \in Inode
  BY DEF TableOK
<1>2. ASSUME NEW x \in Live, x[1] = d, E(x).name = n
      PROVE  <<1, x[2]>> \in Hits(itab[d], n)
  <2>1. x[2] \in 0 .. itab[d].size - 1
    BY <1>1, <1>2, OneZoneSlots DEF Live, Index
  <2>2. <<1, x[2]>> \in Slots(itab[d])
    BY <1>1, <2>1, OneZoneSlots
  <2> QED BY <1>2, <2>2 DEF Hits, EntryAt, E
<1>3. ASSUME NEW s \in Hits(itab[d], n)
      PROVE  /\ s = <<1, s[2]>> /\ <<d, s[2]>> \in Live
             /\ E(<<d, s[2]>>).name = n
             /\ EntryAt(itab[d], s) = E(<<d, s[2]>>)
  <2>1. PICK i \in 0 .. itab[d].size - 1 : s = <<1, i>>
    BY <1>1, OneZoneSlots DEF Hits
  <2>2. i \in Index /\ i < itab[d].size
    BY <1>1, <2>1, OneZoneSlots, Sizes DEF Index
  <2>3. <<d, i>> \in Live
    BY <2>2 DEF Live
  <2>4. EntryAt(itab[d], s) = E(<<d, i>>) /\ EntryAt(itab[d], s).name = n
    BY <2>1 DEF EntryAt, E, Hits
  <2> QED BY <2>1, <2>3, <2>4
<1> QED BY <1>2, <1>3

\* Names are unique in a directory, so the first hit is the only one.
LEMMA FirstHitLive ==
  ASSUME MaxEntries < DIR_PER_BLOCK, TableOK, Sound, NEW d \in InodeNr, InUse(d),
         itab[d].mode = DIR_FILE, NEW n, Hits(itab[d], n) # {}
  PROVE  LET s == FirstHit(itab[d], n)
         IN  s \in Hits(itab[d], n)
<1>1. PICK s \in Hits(itab[d], n) : TRUE
  OBVIOUS
<1>2. ASSUME NEW t \in Hits(itab[d], n)
      PROVE  t = s
  <2>1. /\ s = <<1, s[2]>> /\ <<d, s[2]>> \in Live /\ E(<<d, s[2]>>).name = n
        /\ t = <<1, t[2]>> /\ <<d, t[2]>> \in Live /\ E(<<d, t[2]>>).name = n
    BY HitsLive
  <2>2. <<d, s[2]>> = <<d, t[2]>>
    BY <2>1 DEF Sound
  <2> QED BY <2>1, <2>2
<1>3. \E u \in Hits(itab[d], n) : \A t \in Hits(itab[d], n) : t = u \/ Before(u, t)
  BY <1>2
<1> QED BY <1>3 DEF FirstHit

-----------------------------------------------------------------------------
(* Paths *)

\* One component of the walk, from inode i by component n, the kth.
Go(i, n, k) ==
  IF i < 0 \/ n = NoName THEN -2
  ELSE IF k > 1 /\ itab[i].mode # DIR_FILE THEN -2
  ELSE IF Hits(itab[i], n) = {} THEN -1
  ELSE EntryAt(itab[i], FirstHit(itab[i], n)).inode_nr

\* f is the walk along the first n components of p.
IsWalk(f, p, n) == f = [k \in 0 .. n |-> IF k = 0 THEN ROOT ELSE Go(f[k-1], p[k], k)]

\* The recursion of the walk has a solution.
LEMMA WalkDefined ==
  ASSUME NEW p, NEW end \in Nat
  PROVE  \E f : IsWalk(f, p, end)
<1> DEFINE None == {n \in 0 .. end : ~ \E f : IsWalk(f, p, n)}
<1>1. SUFFICES ASSUME None # {} PROVE FALSE
  OBVIOUS
<1>2. PICK n \in None : \A m \in None : n <= m
  <2>1. None \in SUBSET Nat
    OBVIOUS
  <2> HIDE DEF None
  <2> QED BY <1>1, <2>1, Bitmaps!LeastNumber
<1>3. CASE n = 0
  <2>1. IsWalk([k \in 0 .. 0 |-> ROOT], p, 0)
    BY DEF IsWalk
  <2> QED BY <1>3, <2>1
<1>4. CASE n > 0
  <2>1. PICK f : IsWalk(f, p, n - 1)
    <3>1. n - 1 \in 0 .. end /\ n - 1 \notin None
      BY <1>2, <1>4
    <3> QED BY <3>1
  <2> DEFINE g == [k \in 0 .. n |-> IF k = n THEN Go(f[n-1], p[n], n) ELSE f[k]]
  <2>2. \A k \in 0 .. n : g[k] = IF k = 0 THEN ROOT ELSE Go(g[k-1], p[k], k)
    BY <2>1, <1>4 DEF IsWalk
  <2>3. IsWalk(g, p, n)
    BY <2>2 DEF IsWalk
  <2> QED BY <2>3
<1> QED BY <1>3, <1>4

\* path.c: last_dir, one component after the other.
LEMMA WalkSteps ==
  ASSUME NEW p, Len(p) \in Nat
  PROVE  /\ Walk(p)[0] = ROOT
         /\ \A k \in 1 .. Len(p) : Walk(p)[k] = Go(Walk(p)[k-1], p[k], k)
<1> DEFINE f0 == CHOOSE f : IsWalk(f, p, Len(p))
<1>1. Walk(p) = f0
  BY DEF Walk, IsWalk, Go
<1>2. IsWalk(f0, p, Len(p))
  BY WalkDefined
<1> HIDE DEF f0
<1>3. f0[0] = ROOT
  BY <1>2 DEF IsWalk
<1>4. \A k \in 1 .. Len(p) : f0[k] = Go(f0[k-1], p[k], k)
  <2> SUFFICES ASSUME NEW k \in 1 .. Len(p)
               PROVE  f0[k] = Go(f0[k-1], p[k], k)
    OBVIOUS
  <2>1. k \in 0 .. Len(p) /\ k # 0
    OBVIOUS
  <2> QED BY <1>2, <2>1 DEF IsWalk
<1> QED BY <1>1, <1>3, <1>4

\* An inode a walk may be at: the root or one that is listed.
Reached(i) == \/ i = ROOT
              \/ \E x \in Live : E(x).inode_nr = i

\* What holds between calls and is all that paths depend on.
TreeOK == MaxEntries < DIR_PER_BLOCK /\ TableOK /\ Roots /\ Sound

\* Whatever is reached is in use.
LEMMA ReachedInUse ==
  ASSUME TreeOK, NEW i, Reached(i)
  PROVE  i \in InodeNr /\ InUse(i)
BY Sizes DEF TreeOK, Reached, Roots, Sound, InodeNr, ROOT

\* A component that is followed leads from a directory to a listed inode.
LEMMA GoSteps ==
  ASSUME TreeOK, NEW i, Reached(i) \/ i \in {-1, -2}, NEW n, NEW k \in Nat \ {0},
         k = 1 => i = ROOT
  PROVE  \/ Go(i, n, k) = -2
         \/ /\ Reached(i) /\ itab[i].mode = DIR_FILE /\ n # NoName
            /\ \/ /\ Go(i, n, k) = -1
                  /\ \A x \in Live : x[1] = i => E(x).name # n
               \/ \E x \in Live : /\ x[1] = i /\ E(x).name = n
                                  /\ Go(i, n, k) = E(x).inode_nr
                                  /\ FirstHit(itab[i], n) = <<1, x[2]>>
<1>1. CASE i < 0 \/ n = NoName
  BY <1>1 DEF Go
<1>2. CASE ~ (i < 0 \/ n = NoName) /\ k > 1 /\ itab[i].mode # DIR_FILE
  BY <1>2 DEF Go
<1>3. CASE ~ (i < 0 \/ n = NoName) /\ ~ (k > 1 /\ itab[i].mode # DIR_FILE)
  <2>1. Reached(i)
    BY <1>3
  <2>2. i \in InodeNr /\ InUse(i)
    BY <2>1, ReachedInUse
  <2>3. itab[i].mode = DIR_FILE
    BY <1>3 DEF TreeOK, Roots
  <2>4. CASE Hits(itab[i], n) = {}
    <3>1. Go(i, n, k) = -1
      BY <1>3, <2>4 DEF Go
    <3>2. \A x \in Live : x[1] = i => E(x).name # n
      BY <2>2, <2>3, <2>4, HitsLive DEF TreeOK
    <3> QED BY <1>3, <2>1, <2>3, <3>1, <3>2
  <2>5. CASE Hits(itab[i], n) # {}
    <3> DEFINE s == FirstHit(itab[i], n)
               x == <<i, s[2]>>
    <3>1. s \in Hits(itab[i], n)
      BY <2>2, <2>3, <2>5, FirstHitLive DEF TreeOK
    <3> HIDE DEF s
    <3>2. /\ s = <<1, s[2]>> /\ x \in Live /\ E(x).name = n
          /\ EntryAt(itab[i], s) = E(x)
      BY <2>2, <2>3, <3>1, HitsLive DEF TreeOK
    <3>3. Go(i, n, k) = E(x).inode_nr
      BY <1>3, <2>5, <3>2 DEF Go, s
    <3>4. x[1] = i /\ x[2] = s[2]
      OBVIOUS
    <3> HIDE DEF x
    <3> QED BY <1>3, <2>1, <2>3, <3>2, <3>3, <3>4 DEF s
  <2> QED BY <2>4, <2>5
<1> QED BY <1>1, <1>2, <1>3

\* The walk stays in the tree or ends.
LEMMA WalkReaches ==
  ASSUME TreeOK, NEW p, Len(p) \in Nat
  PROVE  \A k \in 0 .. Len(p) : Reached(Walk(p)[k]) \/ Walk(p)[k] \in {-1, -2}
<1> DEFINE f == Walk(p)
           Off == {k \in 0 .. Len(p) : ~ (Reached(f[k]) \/ f[k] \in {-1, -2})}
<1>a. /\ f[0] = ROOT
      /\ \A k \in 1 .. Len(p) : f[k] = Go(f[k-1], p[k], k)
  BY WalkSteps
<1> HIDE DEF f
<1>1. SUFFICES ASSUME Off # {} PROVE FALSE
  BY DEF f
<1>2. PICK k \in Off : \A m \in Off : k <= m
  <2>1. Off \in SUBSET Nat
    OBVIOUS
  <2> HIDE DEF Off
  <2> QED BY <1>1, <2>1, Bitmaps!LeastNumber
<1>3. k # 0
  BY <1>a, <1>2 DEF Reached
<1>4. k \in 1 .. Len(p) /\ k - 1 \in 0 .. Len(p) /\ k - 1 \notin Off
  BY <1>2, <1>3
<1>5. Reached(f[k-1]) \/ f[k-1] \in {-1, -2}
  BY <1>4
<1>6. k = 1 => f[k-1] = ROOT
  BY <1>a
<1>7. f[k] = -2 \/ f[k] = -1 \/ \E x \in Live : f[k] = E(x).inode_nr
  <2> DEFINE i == f[k-1]
             n == p[k]
  <2>1. f[k] = Go(i, n, k)
    BY <1>a, <1>4
  <2>2. k \in Nat \ {0} /\ (Reached(i) \/ i \in {-1, -2}) /\ (k = 1 => i = ROOT)
    BY <1>4, <1>5, <1>6
  <2> HIDE DEF Off, i, n
  <2>3. \/ Go(i, n, k) = -2 \/ Go(i, n, k) = -1
        \/ \E x \in Live : Go(i, n, k) = E(x).inode_nr
    BY <2>2, GoSteps
  <2> QED BY <2>1, <2>3
<1>8. Reached(f[k]) \/ f[k] \in {-1, -2}
  BY <1>7 DEF Reached
<1> QED BY <1>2, <1>8

\* The last component of a path: nothing is there, or one entry.
LEMMA LastStep ==
  ASSUME TreeOK, NEW p \in Paths
  PROVE  LET d == Parent(p)
             n == p[Len(p)]
         IN  \/ Child(p) = -2
             \/ /\ d \in InodeNr /\ InUse(d) /\ Reached(d)
                /\ itab[d].mode = DIR_FILE /\ n \in Names
                /\ \/ /\ Child(p) = -1
                      /\ \A x \in Live : x[1] = d => E(x).name # n
                   \/ \E x \in Live : /\ x[1] = d /\ E(x).name = n
                                      /\ Child(p) = E(x).inode_nr
                                      /\ FirstHit(itab[d], n) = <<1, x[2]>>
<1>1. p \in Seq(Names \cup {NoName}) /\ p # <<>>
  BY Sizes
<1>2. Len(p) \in Nat \ {0}
  BY <1>1, LenProperties, EmptySeq
<1>3. p[Len(p)] \in Names \cup {NoName}
  BY <1>1, <1>2
<1>4. Len(p) - 1 \in 0 .. Len(p) /\ Len(p) \in 1 .. Len(p)
  BY <1>2
<1>5. Reached(Parent(p)) \/ Parent(p) \in {-1, -2}
  BY <1>2, <1>4, WalkReaches DEF Parent
<1>6. Child(p) = Go(Parent(p), p[Len(p)], Len(p))
  BY <1>2, <1>4, WalkSteps DEF Child, Parent
<1>7. Len(p) = 1 => Parent(p) = ROOT
  BY <1>2, WalkSteps DEF Parent
<1> DEFINE d == Parent(p)
           n == p[Len(p)]
           k == Len(p)
<1>a. /\ Child(p) = Go(d, n, k)
      /\ k \in Nat \ {0} /\ (Reached(d) \/ d \in {-1, -2}) /\ (k = 1 => d = ROOT)
  BY <1>2, <1>5, <1>6, <1>7
<1> HIDE DEF d, n, k
<1>8. \/ Child(p) = -2
      \/ /\ Reached(d) /\ itab[d].mode = DIR_FILE /\ n # NoName
         /\ \/ /\ Child(p) = -1
               /\ \A x \in Live : x[1] = d => E(x).name # n
            \/ \E x \in Live : /\ x[1] = d /\ E(x).name = n
                               /\ Child(p) = E(x).inode_nr
                               /\ FirstHit(itab[d], n) = <<1, x[2]>>
  BY <1>a, GoSteps
<1>9. Reached(d) => d \in InodeNr /\ InUse(d)
  BY ReachedInUse
<1>10. n \in Names \cup {NoName}
  BY <1>3 DEF n
<1> QED BY <1>8, <1>9, <1>10 DEF d, n

-----------------------------------------------------------------------------
(* The tree *)

\* The edge that entry x is.
EdgeOf(x) == [dir |-> x[1], name |-> E(x).name, node |-> E(x).inode_nr,
              mode |-> itab[E(x).inode_nr].mode]

\* While an entry is put into a directory, that directory is attached.
Linked == pc = "link" => pinum \in Tree!Attached

\* The step is one of the abstract tree, or leaves it as it is.
TreeStep == (Tree!Next \/ UNCHANGED <<Edges, Moving>>) /\ Linked'

\* Edges, in terms of Live.
LEMMA EdgesLive ==
  ASSUME MaxEntries < DIR_PER_BLOCK
  PROVE  TableOK => Edges = {EdgeOf(x) : x \in Live}
<1> SUFFICES ASSUME TableOK PROVE Edges = {EdgeOf(x) : x \in Live}
  OBVIOUS
<1>1. /\ LiveSlots = {<<x[1], <<1, x[2]>>>> : x \in Live}
      /\ \A x \in Live : At(<<x[1], <<1, x[2]>>>>) = E(x)
  BY LiveEntries
<1>2. ASSUME NEW e \in Edges PROVE e \in {EdgeOf(x) : x \in Live}
  <2>1. PICK u \in LiveSlots : e = Edge(u)
    BY DEF Edges
  <2>2. PICK x \in Live : u = <<x[1], <<1, x[2]>>>>
    BY <1>1
  <2>3. At(u) = E(x) /\ u[1] = x[1]
    BY <1>1, <2>2
  <2>4. e = EdgeOf(x)
    BY <2>1, <2>3 DEF Edge, EdgeOf
  <2> QED BY <2>4
<1>3. ASSUME NEW x \in Live PROVE EdgeOf(x) \in Edges
  <2> DEFINE u == <<x[1], <<1, x[2]>>>>
  <2>1. u \in LiveSlots /\ At(u) = E(x) /\ u[1] = x[1]
    BY <1>1
  <2> HIDE DEF u
  <2>2. Edge(u) = EdgeOf(x)
    BY <2>1 DEF Edge, EdgeOf
  <2> QED BY <2>1, <2>2 DEF Edges
<1> QED BY <1>2, <1>3

\* The same of the state after a step.
LEMMA EdgesLiveNext ==
  ASSUME MaxEntries < DIR_PER_BLOCK
  PROVE  TableOK' => Edges' = {EdgeOf(x) : x \in Live}'
<1> DEFINE F == TableOK => Edges = {EdgeOf(x) : x \in Live}
<1>1. F
  BY EdgesLive
<1>2. F'
  <2> HIDE DEF F
  <2> QED BY <1>1, PTL
<1> QED BY <1>2

\* The same entries, of inodes of the same kind, are the same edges.
LEMMA EdgesSame ==
  ASSUME MaxEntries < DIR_PER_BLOCK, TableOK, TableOK', Live' = Live,
         \A x \in Live : E(x)' = E(x) /\ itab'[E(x).inode_nr].mode = itab[E(x).inode_nr].mode
  PROVE  Edges' = Edges
<1>1. \A x \in Live : EdgeOf(x)' = EdgeOf(x)
  BY DEF EdgeOf
<1>2. {EdgeOf(x) : x \in Live}' = {EdgeOf(x) : x \in Live}
  BY <1>1
<1> QED BY <1>2, EdgesLive, EdgesLiveNext

\* One entry less is one edge less.
LEMMA EdgesRemoved ==
  ASSUME MaxEntries < DIR_PER_BLOCK, TableOK, TableOK', Sound,
         NEW x0 \in Live, NEW last \in Live, x0[1] = last[1],
         Live' = Live \ {last},
         \A x \in Live \ {last} : E(x)' = IF x = x0 THEN E(last) ELSE E(x),
         \A x \in Live : itab'[E(x).inode_nr].mode = itab[E(x).inode_nr].mode
  PROVE  Edges' = Edges \ {EdgeOf(x0)} /\ EdgeOf(x0) \in Edges
<1>1. Edges = {EdgeOf(x) : x \in Live} /\ Edges' = {EdgeOf(x) : x \in Live}'
  BY EdgesLive, EdgesLiveNext
<1>2. ASSUME NEW x \in Live, x # last PROVE EdgeOf(x)' = IF x = x0 THEN EdgeOf(last) ELSE EdgeOf(x)
  BY <1>2 DEF EdgeOf
<1>3. \A x \in Live : x # x0 => EdgeOf(x) # EdgeOf(x0)
  <2> SUFFICES ASSUME NEW x \in Live, x # x0 PROVE EdgeOf(x) # EdgeOf(x0)
    OBVIOUS
  <2>1. EdgeOf(x).node = E(x).inode_nr /\ EdgeOf(x0).node = E(x0).inode_nr
    BY DEF EdgeOf
  <2>2. EdgeOf(x).node # EdgeOf(x0).node
    BY <2>1 DEF Sound
  <2> QED BY <2>2
<1>4. ASSUME NEW e, e \in Edges' PROVE e \in Edges \ {EdgeOf(x0)}
  <2>1. PICK x \in Live \ {last} : e = EdgeOf(x)'
    BY <1>1, <1>4
  <2>2. CASE x = x0
    <3>1. e = EdgeOf(last) /\ last # x0
      BY <1>2, <2>1, <2>2
    <3> QED BY <1>1, <1>3, <3>1
  <2>3. CASE x # x0
    <3>1. e = EdgeOf(x)
      BY <1>2, <2>1, <2>3
    <3> QED BY <1>1, <1>3, <2>3, <3>1
  <2> QED BY <2>2, <2>3
<1>5. ASSUME NEW e \in Edges, e # EdgeOf(x0) PROVE e \in Edges'
  <2>1. PICK y \in Live : e = EdgeOf(y)
    BY <1>1
  <2>2. y # x0
    BY <1>5, <2>1
  <2>3. CASE y = last
    <3>1. x0 \in Live' /\ EdgeOf(x0)' = e
      BY <1>2, <2>1, <2>2, <2>3
    <3> QED BY <1>1, <3>1
  <2>4. CASE y # last
    <3>1. y \in Live' /\ EdgeOf(y)' = e
      BY <1>2, <2>1, <2>2, <2>4
    <3> QED BY <1>1, <3>1
  <2> QED BY <2>3, <2>4
<1> QED BY <1>1, <1>4, <1>5

\* One entry more is one edge more.
LEMMA EdgesAdded ==
  ASSUME MaxEntries < DIR_PER_BLOCK, TableOK, TableOK',
         NEW x0, NEW e, NEW m, x0 \notin Live, Live' = Live \cup {x0},
         \A x \in Live : E(x)' = E(x), E(x0)' = e, itab'[e.inode_nr].mode = m,
         \A x \in Live : itab'[E(x).inode_nr].mode = itab[E(x).inode_nr].mode
  PROVE  Edges' = Edges \cup {[dir |-> x0[1], name |-> e.name,
                               node |-> e.inode_nr, mode |-> m]}
<1> DEFINE new == [dir |-> x0[1], name |-> e.name, node |-> e.inode_nr, mode |-> m]
<1>1. Edges = {EdgeOf(x) : x \in Live} /\ Edges' = {EdgeOf(x) : x \in Live}'
  BY EdgesLive, EdgesLiveNext
<1>2. \A x \in Live : EdgeOf(x)' = EdgeOf(x)
  BY DEF EdgeOf
<1>3. EdgeOf(x0)' = new
  BY DEF EdgeOf
<1> HIDE DEF new
<1>4. \A g : g \in Edges' <=> g \in Edges \/ g = new
  BY <1>1, <1>2, <1>3
<1> QED BY <1>4 DEF new

\* What is attached: the root, and a directory listed by such a directory.
LEMMA AttachedClosed ==
  /\ ROOT \in Tree!Attached
  /\ \A e \in Edges : e.dir \in Tree!Attached /\ e.mode = DIR_FILE /\ e.node \in InodeNr
                        => e.node \in Tree!Attached
BY Sizes DEF Tree!Attached, InodeNr, ROOT

\* A walk is at attached directories, until it ends.
LEMMA WalkAttached ==
  ASSUME TreeOK, NEW p, Len(p) \in Nat
  PROVE  \A k \in 0 .. Len(p) :
            Reached(Walk(p)[k]) /\ itab[Walk(p)[k]].mode = DIR_FILE
              => Walk(p)[k] \in Tree!Attached
<1> DEFINE f == Walk(p)
           Off == {k \in 0 .. Len(p) : /\ Reached(f[k]) /\ itab[f[k]].mode = DIR_FILE
                                       /\ f[k] \notin Tree!Attached}
<1>a. /\ f[0] = ROOT
      /\ \A k \in 1 .. Len(p) : f[k] = Go(f[k-1], p[k], k)
      /\ \A k \in 0 .. Len(p) : Reached(f[k]) \/ f[k] \in {-1, -2}
  BY WalkSteps, WalkReaches
<1>b. Edges = {EdgeOf(x) : x \in Live}
  BY EdgesLive DEF TreeOK
<1> HIDE DEF f
<1>1. SUFFICES ASSUME Off # {} PROVE FALSE
  BY DEF f
<1>2. PICK k \in Off : \A m \in Off : k <= m
  <2>1. Off \in SUBSET Nat
    OBVIOUS
  <2> HIDE DEF Off
  <2> QED BY <1>1, <2>1, Bitmaps!LeastNumber
<1>3. k # 0
  BY <1>a, <1>2, AttachedClosed
<1>4. k \in 1 .. Len(p) /\ k - 1 \in 0 .. Len(p) /\ k - 1 \notin Off
  BY <1>2, <1>3
<1>5. PICK i, n, j : i = f[k-1] /\ n = p[k] /\ j = f[k]
  OBVIOUS
<1>6. /\ j = Go(i, n, k) /\ k \in Nat \ {0} /\ (Reached(i) \/ i \in {-1, -2})
      /\ (k = 1 => i = ROOT) /\ Reached(j) /\ itab[j].mode = DIR_FILE
      /\ j \notin Tree!Attached
      /\ (Reached(i) /\ itab[i].mode = DIR_FILE => i \in Tree!Attached)
  BY <1>a, <1>2, <1>4, <1>5
<1> HIDE DEF Off
<1>7. j \in InodeNr
  BY <1>6, ReachedInUse
<1>8. PICK x \in Live : x[1] = i /\ j = E(x).inode_nr /\ itab[i].mode = DIR_FILE /\ Reached(i)
  <2>1. j # -1 /\ j # -2
    BY <1>7, Sizes DEF InodeNr
  <2> QED BY <1>6, <2>1, GoSteps
<1>9. /\ EdgeOf(x) \in Edges /\ EdgeOf(x).dir = i /\ EdgeOf(x).node = j
      /\ EdgeOf(x).mode = DIR_FILE
  BY <1>b, <1>6, <1>8 DEF EdgeOf
<1> QED BY <1>6, <1>7, <1>8, <1>9, AttachedClosed

\* So the directory that a path leads to is attached.
LEMMA ParentAttached ==
  ASSUME TreeOK, NEW p \in Paths, Found(p) \/ Missing(p)
  PROVE  Parent(p) \in Tree!Attached
<1>1. p \in Seq(Names \cup {NoName}) /\ p # <<>>
  BY Sizes
<1>2. Len(p) \in Nat \ {0} /\ Len(p) - 1 \in 0 .. Len(p)
  BY <1>1, LenProperties, EmptySeq
<1>3. Reached(Parent(p)) /\ itab[Parent(p)].mode = DIR_FILE
  <2>1. Child(p) # -2
    BY DEF Found, Missing
  <2> QED BY <2>1, LastStep
<1>4. Parent(p) = Walk(p)[Len(p) - 1]
  BY DEF Parent
<1> QED BY <1>2, <1>3, <1>4, WalkAttached
-----------------------------------------------------------------------------
(* What a change of the entries keeps sound *)

\* Some directory lists i.
IsListed(i) == \E x \in Live : E(x).inode_nr = i

\* The same entries, and the inodes they list are still in use.
LEMMA SoundSame ==
  ASSUME Sound, Live' = Live, \A x \in Live : E(x)' = E(x),
         \A i \in InodeNr : InUse(i) /\ IsListed(i) => InUse(i)'
  PROVE  Sound' /\ \A i : IsListed(i)' <=> IsListed(i)
<1>1. \A i : IsListed(i)' <=> IsListed(i)
  BY DEF IsListed
<1>2. \A x \in Live' : E(x)'.inode_nr \in InodeNr \ {ROOT} /\ InUse(E(x).inode_nr)'
  BY DEF Sound, IsListed
<1>3. \A x, y \in Live' : x # y =>
        /\ E(x)'.inode_nr # E(y)'.inode_nr
        /\ x[1] = y[1] => E(x)'.name # E(y)'.name
  BY DEF Sound
<1> QED BY <1>1, <1>2, <1>3 DEF Sound

\* One entry less: the last of the directory is in its place.
LEMMA SoundRemoved ==
  ASSUME Sound, NEW x0 \in Live, NEW last \in Live, x0[1] = last[1],
         Live' = Live \ {last},
         \A x \in Live \ {last} : E(x)' = IF x = x0 THEN E(last) ELSE E(x),
         \A i \in InodeNr : InUse(i) /\ i # E(x0).inode_nr => InUse(i)'
  PROVE  /\ Sound'
         /\ \A i : IsListed(i)' <=> IsListed(i) /\ i # E(x0).inode_nr
<1> DEFINE c == E(x0).inode_nr
           Old(x) == IF x = x0 THEN last ELSE x
<1>1. \A x \in Live' : /\ Old(x) \in Live /\ E(x)' = E(Old(x)) /\ Old(x) # x0
                       /\ Old(x)[1] = x[1]
  OBVIOUS
<1>2. \A x, y \in Live' : x # y => Old(x) # Old(y)
  OBVIOUS
<1>3. \A x \in Live : x # x0 => E(x).inode_nr # c
  BY DEF Sound
<1>4. \A y \in Live : y # x0 => \E x \in Live' : Old(x) = y
  <2> SUFFICES ASSUME NEW y \in Live, y # x0
               PROVE  \E x \in Live' : Old(x) = y
    OBVIOUS
  <2>1. CASE y = last
    <3>1. x0 \in Live' /\ Old(x0) = y
      BY <2>1
    <3> QED BY <3>1
  <2>2. CASE y # last
    <3>1. y \in Live' /\ Old(y) = y
      BY <2>2
    <3> QED BY <3>1
  <2> QED BY <2>1, <2>2
<1> HIDE DEF Old
<1>5. \A x \in Live' : E(x)'.inode_nr # c
  BY <1>1, <1>3
<1>6. \A i : IsListed(i)' <=> IsListed(i) /\ i # c
  <2>1. ASSUME NEW i, IsListed(i)'
        PROVE  IsListed(i) /\ i # c
    <3>1. PICK x \in Live' : E(x)'.inode_nr = i
      BY <2>1 DEF IsListed
    <3>2. Old(x) \in Live /\ E(Old(x)).inode_nr = i
      BY <1>1, <3>1
    <3> QED BY <1>5, <3>1, <3>2 DEF IsListed
  <2>2. ASSUME NEW i, IsListed(i), i # c
        PROVE  IsListed(i)'
    <3>1. PICK y \in Live : E(y).inode_nr = i
      BY <2>2 DEF IsListed
    <3>2. y # x0
      BY <2>2, <3>1
    <3>3. PICK x \in Live' : Old(x) = y
      BY <1>4, <3>2
    <3>4. E(x)'.inode_nr = i
      BY <1>1, <3>1, <3>3
    <3> QED BY <3>4 DEF IsListed
  <2> QED BY <2>1, <2>2
<1>7. \A x \in Live' : E(x)'.inode_nr \in InodeNr \ {ROOT} /\ InUse(E(x).inode_nr)'
  <2> SUFFICES ASSUME NEW x \in Live'
               PROVE  E(x)'.inode_nr \in InodeNr \ {ROOT} /\ InUse(E(x).inode_nr)'
    OBVIOUS
  <2>1. E(Old(x)).inode_nr \in InodeNr \ {ROOT} /\ InUse(E(Old(x)).inode_nr)
    BY <1>1 DEF Sound
  <2>2. E(x)'.inode_nr = E(Old(x)).inode_nr /\ E(x)'.inode_nr # c
    BY <1>1, <1>5
  <2> QED BY <2>1, <2>2
<1>8. \A x, y \in Live' : x # y =>
        /\ E(x)'.inode_nr # E(y)'.inode_nr
        /\ x[1] = y[1] => E(x)'.name # E(y)'.name
  <2> SUFFICES ASSUME NEW x \in Live', NEW y \in Live', x # y
               PROVE  /\ E(x)'.inode_nr # E(y)'.inode_nr
                      /\ x[1] = y[1] => E(x)'.name # E(y)'.name
    OBVIOUS
  <2>1. Old(x) \in Live /\ Old(y) \in Live /\ Old(x) # Old(y)
        /\ Old(x)[1] = x[1] /\ Old(y)[1] = y[1]
    BY <1>1, <1>2
  <2>2. /\ E(Old(x)).inode_nr # E(Old(y)).inode_nr
        /\ Old(x)[1] = Old(y)[1] => E(Old(x)).name # E(Old(y)).name
    BY <2>1 DEF Sound
  <2> QED BY <1>1, <2>1, <2>2
<1> QED BY <1>6, <1>7, <1>8 DEF Sound

\* One entry more, with a new name for an inode that was not listed.
LEMMA SoundAdded ==
  ASSUME Sound, NEW x0, NEW e, x0 \notin Live, Live' = Live \cup {x0},
         \A x \in Live : E(x)' = E(x), E(x0)' = e,
         Loose(e.inode_nr),
         \A x \in Live : x[1] = x0[1] => E(x).name # e.name,
         \A i \in InodeNr : InUse(i) => InUse(i)'
  PROVE  /\ Sound'
         /\ \A i : IsListed(i)' <=> IsListed(i) \/ i = e.inode_nr
<1>1. \A i : IsListed(i)' <=> IsListed(i) \/ i = e.inode_nr
  BY DEF IsListed
<1>2. \A x \in Live' : E(x)'.inode_nr \in InodeNr \ {ROOT} /\ InUse(E(x).inode_nr)'
  BY DEF Sound, Loose
<1>3. \A x, y \in Live' : x # y =>
        /\ E(x)'.inode_nr # E(y)'.inode_nr
        /\ x[1] = y[1] => E(x)'.name # E(y)'.name
  <2> SUFFICES ASSUME NEW x \in Live', NEW y \in Live', x # y
               PROVE  /\ E(x)'.inode_nr # E(y)'.inode_nr
                      /\ x[1] = y[1] => E(x)'.name # E(y)'.name
    OBVIOUS
  <2>1. CASE x \in Live /\ y \in Live
    BY <2>1 DEF Sound
  <2>2. CASE x = x0 /\ y \in Live
    BY <2>2 DEF Loose
  <2>3. CASE x \in Live /\ y = x0
    BY <2>3 DEF Loose
  <2> QED BY <2>1, <2>2, <2>3
<1> QED BY <1>1, <1>2, <1>3 DEF Sound

\* remove_dir_entry_from_parent: the last entry takes the place of entry x.
LEMMA UnlinkEffect ==
  ASSUME MaxEntries < DIR_PER_BLOCK, ZonesOK, TableOK, Shape, Owning,
         NEW x \in Live, Unlink(x[1], <<1, x[2]>>)
  PROVE  LET d == x[1]
             last == <<d, itab[d].size - 1>>
         IN  /\ itab' = [itab EXCEPT ![d].size = @ - 1]
             /\ ZonesOK' /\ last \in Live
             /\ \A y \in Live : E(y)' = IF y = x THEN E(last) ELSE E(y)
<1> DEFINE d == x[1]
           n == itab[d].size
           z == itab[d].direct[1]
           last == <<d, n - 1>>
           b == zones[z]
<1>1. /\ d \in InodeNr /\ itab[d] \in Inode /\ InUse(d) /\ itab[d].mode = DIR_FILE
      /\ x[2] \in Index /\ x[2] < n /\ x = <<d, x[2]>>
  BY DEF Live, TableOK
<1>2. n \in Nat /\ n > 0 /\ n < DIR_PER_BLOCK /\ n - 1 \in Index /\ n - 1 < n
  <2>1. n \in Nat /\ n < DIR_PER_BLOCK
    BY <1>1, OneZoneSlots
  <2>2. DIR_PER_BLOCK \in Nat
    BY Sizes
  <2> QED BY <1>1, <2>1, <2>2 DEF Index
<1>3. Count(itab[d]) = 1 /\ ASize(itab[d], 1) = n
  BY <1>1, <1>2, OneZoneSlots
<1>4. z \in 1 .. ZoneBits
  <2>1. z # 0
    BY <1>1, <1>2 DEF Shape, OneZone
  <2>2. z \in Zone
    BY <1>1, Sizes, SMTT(20) DEF Inode
  <2> QED BY <2>1, <2>2 DEF Zone
<1>5. last \in Live
  BY <1>1, <1>2 DEF Live
<1>6. read_zone(z) = b
  BY <1>4 DEF read_zone
<1>7. /\ zones' = [zones EXCEPT ![z] = [b EXCEPT ![x[2]] = b[n - 1]]]
      /\ zone0' = zone0
      /\ itab' = [itab EXCEPT ![d].size = @ - 1]
  <2> DEFINE L == IF z = itab[d].direct[1] THEN {b[n - 1]} ELSE {}
  <2>1. /\ \E e \in {b[n - 1]} : write_zone(z, [b EXCEPT ![x[2]] = e])
        /\ itab' = [itab EXCEPT ![d].size = @ - 1]
    BY <1>3, <1>6 DEF Unlink
  <2> QED BY <1>4, <2>1 DEF write_zone
<1>8. b \in Block /\ b[n-1] \in Entry
  BY <1>2, <1>4 DEF ZonesOK, Block
<1>9. ZonesOK'
  BY <1>7, <1>8 DEF ZonesOK, Block
<1>10. \A i \in InodeNr : itab'[i].direct = itab[i].direct
  BY <1>1, <1>7 DEF TableOK, Inode
<1>11. zones'[z] = [b EXCEPT ![x[2]] = b[n - 1]] /\ \A y \in 1 .. ZoneBits : y # z => zones'[y] = zones[y]
  BY <1>4, <1>7 DEF ZonesOK
<1>12. ASSUME NEW y \in Live
       PROVE  E(y)' = IF y = x THEN E(last) ELSE E(y)
  <2>1. /\ y[1] \in InodeNr /\ itab[y[1]] \in Inode /\ InUse(y[1])
        /\ y[2] \in Index /\ itab[y[1]].size > 0 /\ y = <<y[1], y[2]>>
    BY OneZoneSlots DEF Live, TableOK, Index
  <2>2. itab[y[1]].direct[1] \in 1 .. ZoneBits
    <3>1. itab[y[1]].direct[1] # 0
      BY <2>1 DEF Shape, OneZone
    <3>2. itab[y[1]].direct[1] \in Zone
      BY <2>1, Sizes DEF Inode
    <3> QED BY <3>1, <3>2 DEF Zone
  <2>3. /\ E(y) = zones[itab[y[1]].direct[1]][y[2]]
        /\ E(y)' = zones'[itab[y[1]].direct[1]][y[2]]
    BY <1>10, <2>1, <2>2 DEF E, read_zone
  <2>4. E(last) = b[n - 1]
    BY <1>6 DEF E
  <2>5. CASE y[1] = d
    <3>1. E(y) = b[y[2]] /\ E(y)' = [b EXCEPT ![x[2]] = b[n - 1]][y[2]]
      BY <1>11, <2>3, <2>5
    <3>2. y = x <=> y[2] = x[2]
      BY <1>1, <2>1, <2>5
    <3>3. \A k \in Index : [b EXCEPT ![x[2]] = b[n - 1]][k]
                             = IF k = x[2] THEN b[n - 1] ELSE b[k]
      BY <1>8 DEF Block
    <3> QED BY <2>1, <2>4, <3>1, <3>2, <3>3
  <2>6. CASE y[1] # d
    <3>1. itab[y[1]].direct[1] # z
      BY <1>1, <1>4, <2>1, <2>6 DEF Owning
    <3>2. y # x
      BY <2>6
    <3> QED BY <1>11, <2>2, <2>3, <3>1, <3>2
  <2> QED BY <2>5, <2>6
<1> QED BY <1>5, <1>7, <1>9, <1>12

\* A path that is found ends in an entry, and its name finds that entry.
LEMMA FoundEntry ==
  ASSUME TreeOK, NEW p \in Paths, Found(p)
  PROVE  \E x \in Live : /\ E(x).inode_nr = Child(p) /\ x[1] = Parent(p)
                         /\ FirstHit(itab[Parent(p)], p[Len(p)]) = <<1, x[2]>>
<1>1. Child(p) # -1 /\ Child(p) # -2
  BY DEF Found
<1> QED BY <1>1, LastStep

\* A path that is missing ends in a directory that has no entry of the name.
LEMMA MissingEntry ==
  ASSUME TreeOK, NEW p \in Paths, Missing(p)
  PROVE  /\ Parent(p) \in InodeNr /\ InUse(Parent(p)) /\ Reached(Parent(p))
         /\ itab[Parent(p)].mode = DIR_FILE /\ p[Len(p)] \in Names
         /\ \A x \in Live : x[1] = Parent(p) => E(x).name # p[Len(p)]
<1>1. Child(p) = -1 /\ Child(p) # -2
  BY DEF Missing
<1>2. \A x \in Live : E(x).inode_nr # -1
  BY DEF TreeOK, Sound, InodeNr
<1> QED BY <1>1, <1>2, LastStep

\* The zone of a directory with an entry, and the entry in it.
LEMMA EntryZone ==
  ASSUME TableOK, Shape, Owning, NEW x \in Live
  PROVE  /\ x = <<x[1], x[2]>> /\ x[1] \in InodeNr /\ x[2] \in Index /\ InUse(x[1])
         /\ itab[x[1]] \in Inode /\ itab[x[1]].size > 0
         /\ itab[x[1]].mode = DIR_FILE
         /\ itab[x[1]].direct[1] \in 1 .. ZoneBits
         /\ itab[x[1]].direct[1] - 1 \in zmap
         /\ E(x) = zones[itab[x[1]].direct[1]][x[2]]
<1>1. /\ x[1] \in InodeNr /\ itab[x[1]] \in Inode /\ InUse(x[1])
      /\ x[2] \in Index /\ x[2] < itab[x[1]].size /\ x = <<x[1], x[2]>>
      /\ itab[x[1]].mode = DIR_FILE
  BY DEF Live, TableOK
<1>2. itab[x[1]].size > 0
  BY <1>1, Sizes DEF Index, Inode
<1>3. itab[x[1]].direct[1] # 0
  BY <1>1, <1>2 DEF Shape, OneZone
<1>4. itab[x[1]].direct[1] \in 1 .. ZoneBits
  <2>1. itab[x[1]].direct[1] \in Zone
    BY <1>1, Sizes, SMTT(20) DEF Inode
  <2> QED BY <1>3, <2>1 DEF Zone
<1>5. itab[x[1]].direct[1] - 1 \in zmap
  BY <1>1, <1>3 DEF Owning
<1> QED BY <1>1, <1>2, <1>4, <1>5 DEF E, read_zone

\* add_dir_entry_to_parent uses the one zone of the parent.
LEMMA AddsToZone ==
  ASSUME MaxEntries < DIR_PER_BLOCK, TableOK, CallOK, Shape, pc = "link", Linking,
         AddToLastZone \/ AddToNextZone
  PROVE  parent.direct[1] # 0 /\ PutEntry(1, parent.size)
<1>1. parent \in Inode /\ pinum \in InodeNr /\ InUse(pinum)
  BY DEF CallOK, Linking
<1>2. /\ Count(parent) = IF parent.size > 0 THEN 1 ELSE 0
      /\ parent.size > 0 => ASize(parent, 1) = parent.size
      /\ parent.size \in Nat /\ parent.size < DIR_PER_BLOCK
  BY <1>1, OneZoneSlots
<1>3. CASE parent.size > 0
  <2>1. Count(parent) = 1 /\ ASize(parent, 1) = parent.size
    BY <1>2, <1>3
  <2>2. LastZoneHasRoom
    BY <1>2, <2>1 DEF LastZoneHasRoom
  <2>3. PutEntry(Count(parent), ASize(parent, Count(parent)))
    BY <2>2 DEF AddToLastZone, AddToNextZone
  <2>4. parent.direct[1] # 0
    BY <1>1, <1>3 DEF Linking, Shape, OneZone
  <2> QED BY <2>1, <2>3, <2>4
<1>4. CASE ~ parent.size > 0
  <2>1. Count(parent) = 0 /\ parent.size = 0
    BY <1>2, <1>4
  <2>2. ~ LastZoneHasRoom
    BY <2>1 DEF LastZoneHasRoom
  <2>3. parent.direct[Count(parent) + 1] # 0 /\ PutEntry(Count(parent) + 1, 0)
    BY <2>2 DEF AddToLastZone, AddToNextZone
  <2>4. Count(parent) + 1 = 1
    BY <2>1
  <2> QED BY <2>1, <2>3, <2>4
<1> QED BY <1>3, <1>4

\* The new entry goes behind the last; the other entries stay.
LEMMA PutEffect ==
  ASSUME MaxEntries < DIR_PER_BLOCK, Types, Shape, Owning, Linking, RoomLeft,
         pc = "link", parent.direct[1] # 0, PutEntry(1, parent.size),
         NEW x0, x0 = <<pinum, parent.size>>,
         NEW e, e = [inode_nr |-> cinum, name |-> name]
  PROVE  /\ itab' = [itab EXCEPT ![pinum] = [parent EXCEPT !.size = @ + 1]]
         /\ ZonesOK' /\ TableOK'
         /\ x0 \notin Live /\ Live' = Live \cup {x0}
         /\ \A x \in Live : E(x)' = E(x)
         /\ E(x0)' = e
<1> DEFINE z == parent.direct[1]
           n == parent.size
           b == zones[z]
<1>0. x0 = <<pinum, n>> /\ x0[1] = pinum /\ x0[2] = n
  OBVIOUS
<1>1. /\ parent \in Inode /\ pinum \in InodeNr /\ InUse(pinum) /\ itab[pinum] \in Inode
      /\ itab[pinum].mode = DIR_FILE /\ itab[pinum].size = n
      /\ parent.mode = DIR_FILE
  BY DEF Types, CallOK, TableOK, Linking
<1>2. /\ n \in Nat /\ n < MaxEntries /\ MaxEntries \in Nat /\ n \in Index
      /\ DIR_PER_BLOCK \in Nat
  <2>1. n < MaxEntries
    BY <1>1 DEF RoomLeft, Room
  <2> QED BY <1>1, <2>1, Sizes DEF Index, Inode
<1>3. z \in 1 .. ZoneBits
  <2>1. z \in Zone
    BY <1>1, Sizes DEF Inode
  <2> QED BY <2>1 DEF Zone
<1>4. e \in Entry /\ b \in Block
  BY <1>3 DEF Types, ZonesOK, CallOK, Entry
<1>5. /\ zones' = [zones EXCEPT ![z] = [b EXCEPT ![n] = e]] /\ zone0' = zone0
      /\ itab' = [itab EXCEPT ![pinum] = [parent EXCEPT !.size = @ + 1]]
      /\ imap' = imap
  BY <1>3 DEF PutEntry, write_zone, read_zone
<1>6. ZonesOK'
  BY <1>4, <1>5 DEF Types, ZonesOK, Block
<1>7. [parent EXCEPT !.size = @ + 1] \in Inode
  BY <1>1, <1>2 DEF Inode
<1>8. TableOK'
  BY <1>5, <1>7 DEF Types, TableOK
<1>9. x0 \notin Live
  BY <1>1, <1>2 DEF Live
<1>10. itab'[pinum] = [parent EXCEPT !.size = @ + 1]
  BY <1>1, <1>5 DEF Types, TableOK
<1>11. \A i \in InodeNr : i # pinum => itab'[i] = itab[i]
  BY <1>5 DEF Types, TableOK
<1>12. itab'[pinum].mode = DIR_FILE /\ itab'[pinum].size = n + 1
       /\ itab'[pinum].direct = parent.direct
  BY <1>1, <1>10 DEF Inode
<1>13. Live' = Live \cup {x0}
  <2>1. ASSUME NEW x \in InodeNr \X Index
        PROVE  x \in Live' <=> x \in Live \/ x = x0
    <3>1. x[1] \in InodeNr /\ x[2] \in Index /\ x = <<x[1], x[2]>>
      OBVIOUS
    <3>2. CASE x[1] # pinum
      BY <1>5, <1>11, <3>1, <3>2 DEF Live, InUse
    <3>3. CASE x[1] = pinum
      <4>1. x \in Live' <=> x[2] < n + 1
        BY <1>1, <1>5, <1>12, <3>1, <3>3 DEF Live, InUse
      <4>2. x \in Live <=> x[2] < n
        BY <1>1, <3>1, <3>3 DEF Live
      <4>3. x = x0 <=> x[2] = n
        BY <1>0, <3>1, <3>3
      <4>4. x[2] \in Nat
        BY <1>2, <3>1 DEF Index
      <4> QED BY <1>2, <4>1, <4>2, <4>3, <4>4
    <3> QED BY <3>2, <3>3
  <2>2. Live \subseteq InodeNr \X Index /\ Live' \subseteq InodeNr \X Index
    BY DEF Live
  <2>3. x0 \in InodeNr \X Index
    BY <1>0, <1>1, <1>2
  <2> QED BY <2>1, <2>2, <2>3
<1>14. /\ zones'[z] = [b EXCEPT ![n] = e]
       /\ \A y \in 1 .. ZoneBits : y # z => zones'[y] = zones[y]
  BY <1>3, <1>5 DEF Types, ZonesOK
<1>15. ASSUME NEW x \in Live
       PROVE  E(x)' = E(x)
  <2> DEFINE y == itab[x[1]].direct[1]
  <2>1. /\ x = <<x[1], x[2]>> /\ x[1] \in InodeNr /\ x[2] \in Index /\ InUse(x[1])
        /\ y \in 1 .. ZoneBits /\ E(x) = zones[y][x[2]]
    BY EntryZone DEF Types
  <2>2. CASE x[1] = pinum
    <3>1. y = z
      BY <2>1, <2>2 DEF Linking
    <3>2. itab'[x[1]].direct[1] = z
      BY <1>12, <2>2
    <3>3. E(x)' = [b EXCEPT ![n] = e][x[2]]
      BY <1>3, <1>14, <3>2 DEF E, read_zone
    <3>4. x[2] # n
      BY <1>0, <1>9, <2>1, <2>2
    <3> QED BY <1>4, <2>1, <3>1, <3>3, <3>4 DEF Block
  <2>3. CASE x[1] # pinum
    <3>1. y # z
      <4>1. CASE itab[pinum].direct[1] = 0
        BY <2>1, <4>1 DEF Owning, InHand
      <4>2. CASE itab[pinum].direct[1] # 0
        BY <1>1, <2>1, <2>3, <4>2 DEF Owning, Linking
      <4> QED BY <4>1, <4>2
    <3>2. itab'[x[1]] = itab[x[1]]
      BY <1>11, <2>1, <2>3
    <3>3. E(x)' = zones'[y][x[2]]
      BY <2>1, <3>2 DEF E, read_zone
    <3> QED BY <1>14, <2>1, <3>1, <3>3
  <2> QED BY <2>2, <2>3
<1>16. E(x0)' = e
  <2>1. itab'[x0[1]].direct[1] = z /\ z # 0
    BY <1>0, <1>12
  <2>2. E(x0)' = zones'[z][n]
    BY <1>0, <2>1 DEF E, read_zone
  <2> QED BY <1>2, <1>4, <1>14, <2>2 DEF Block
<1> QED BY <1>5, <1>6, <1>8, <1>9, <1>13, <1>15, <1>16

-----------------------------------------------------------------------------
(* Steps that change little *)

\* The step makes no inode one that is in use, not listed and in no call's hand.
NoneLost ==
  \A i \in InodeNr \ {ROOT} :
     InUse(i)' /\ ~ IsListed(i)' /\ i # cinum' => InUse(i) /\ ~ IsListed(i) /\ i # cinum

\* With the disk as it is, an inode that a call lets go of has to be listed.
LEMMA SameLost ==
  ASSUME UNCHANGED disk, cinum' = cinum \/ cinum = 0 \/ IsListed(cinum)
  PROVE  NoneLost
<1>1. Live' = Live /\ \A x \in Live : E(x)' = E(x)
  BY DEF disk, Live, InUse, E, read_zone
<1>2. \A i : (IsListed(i)' <=> IsListed(i)) /\ (InUse(i)' <=> InUse(i))
  BY <1>1 DEF IsListed, disk, InUse
<1>3. 0 \notin InodeNr
  BY Sizes DEF InodeNr
<1> QED BY <1>2, <1>3 DEF NoneLost

\* A step that leaves the edges and the node on its way alone.
LEMMA TreeStays ==
  ASSUME Edges' = Edges, Moving' = Moving, Linked,
         pc' = "link" => pinum' \in Tree!Attached \/ (pc = "link" /\ pinum' = pinum)
  PROVE  TreeStep
<1>1. Tree!Attached' = Tree!Attached
  BY DEF Tree!Attached
<1>2. Linked'
  BY <1>1 DEF Linked
<1> QED BY <1>2 DEF TreeStep

\* The edges are on the disk.
LEMMA DiskEdges ==
  ASSUME MaxEntries < DIR_PER_BLOCK, TableOK, UNCHANGED disk
  PROVE  Edges' = Edges
<1>1. Live' = Live /\ \A x \in Live : E(x)' = E(x)
  BY DEF disk, Live, InUse, E, read_zone
<1>2. itab' = itab /\ TableOK'
  BY DEF disk, TableOK
<1> QED BY <1>1, <1>2, EdgesSame

\* What a rename has in hand is left behind.
LEMMA Abandoned ==
  ASSUME op = "rename", cinum \in InodeNr, Edges' = Edges, Return(-1)
  PROVE  TreeStep
<1>1. Moving = [node |-> cinum, mode |-> itab[cinum].mode]
  BY DEF Moving
<1>2. Moving' = [node |-> 0, mode |-> 0]
  BY DEF Moving, Return
<1>3. Moving # [node |-> 0, mode |-> 0]
  <2>1. Moving.node # 0
    BY <1>1, Sizes DEF InodeNr
  <2> QED BY <2>1
<1>4. Tree!Abandon
  BY <1>2, <1>3 DEF Tree!Abandon, Tree!Nobody
<1>5. Linked'
  BY DEF Linked, Return
<1> QED BY <1>4, <1>5 DEF TreeStep, Tree!Next

\* A step that leaves the disk, the descriptors and the call alone.
LEMMA Still ==
  ASSUME IInv, Linked, MaxEntries < DIR_PER_BLOCK, UNCHANGED <<disk, fp, call>>, ret' \in {0, -1}
  PROVE  IInv' /\ NoneLost /\ TreeStep
<1>1. Live' = Live /\ \A x \in Live : E(x)' = E(x)
  BY DEF disk, Live, InUse, E, read_zone
<1>2. Types'
  BY DEF IInv, disk, call, Types, MapsOK, ZonesOK, TableOK, FdOK, CallOK
<1>3. Roots' /\ Shape' /\ RoomLeft'
  BY DEF IInv, disk, call, Roots, Shape, RoomLeft, Room, InUse
<1>4. Sound'
  BY <1>1 DEF IInv, disk, Sound, InUse
<1>5. Copies'
  BY DEF IInv, disk, Copies, InUse
<1>6. Owning'
  BY DEF IInv, disk, call, Owning, InHand, InUse
<1>7. Stage'
  <2>1. \A c : Loose(c)' <=> Loose(c)
    BY <1>1 DEF disk, Loose, InUse
  <2>2. Linking' <=> Linking
    BY <1>1, <2>1 DEF disk, call, Linking, InUse, Opened
  <2> QED BY <1>1, <2>1, <2>2 DEF IInv, disk, call, Stage, InUse
<1>lost. NoneLost
  BY SameLost DEF call
<1>tree. TreeStep
  <2>1. Edges' = Edges
    BY DiskEdges DEF IInv, Types
  <2>2. Moving' = Moving /\ pc' = pc /\ pinum' = pinum
    BY DEF Moving, disk, call
  <2> QED BY <2>1, <2>2, TreeStays
<1> QED BY <1>tree, <1>lost, <1>2, <1>3, <1>4, <1>5, <1>6, <1>7 DEF IInv

\* A call ends, or opens a file, with the disk as it is and no zone in hand.
LEMMA Ends ==
  ASSUME IInv, UNCHANGED disk, ~ InHand, FdOK', Copies',
         \/ \E r \in {0, -1} : Return(r)
         \/ UNCHANGED call /\ pc = "idle" /\ ret' \in {0, -1}
  PROVE  IInv'
<1>1. Live' = Live /\ \A x \in Live : E(x)' = E(x)
  BY DEF disk, Live, InUse, E, read_zone
<1>2. pc' = "idle" /\ cinum' = 0 /\ op' = "none"
  BY DEF IInv, Stage, Return, call
<1>3. CallOK'
  <2>1. NoZones \in [1 .. NrDirect -> Zone]
    BY Sizes DEF NoZones, Zone
  <2>2. Blank \in Inode
    BY <2>1, Sizes DEF Blank, Inode
  <2>3. CASE \E r \in {0, -1} : Return(r)
    BY <2>2, <2>3, Sizes DEF Return, CallOK
  <2>4. CASE UNCHANGED call /\ ret' \in {0, -1}
    BY <2>4 DEF IInv, Types, CallOK, call
  <2> QED BY <2>3, <2>4
<1>4. Types'
  BY <1>3 DEF IInv, disk, Types, MapsOK, ZonesOK, TableOK
<1>5. Roots' /\ Shape' /\ RoomLeft'
  BY <1>2 DEF IInv, disk, Roots, Shape, RoomLeft, InUse
<1>6. Sound'
  BY <1>1 DEF IInv, disk, Sound, InUse
<1>7. Owning'
  BY <1>2 DEF IInv, disk, Owning, InHand, InUse
<1>8. Stage'
  BY <1>2 DEF Stage
<1> QED BY <1>4, <1>5, <1>6, <1>7, <1>8 DEF IInv

\* file.c: open_child fills the lowest free descriptor, or fails.
LEMMA OpenStep ==
  ASSUME IInv, NEW i \in InodeNr, InUse(i), itab[i].mode = NORMAL_FILE,
         open_child(i), UNCHANGED disk
  PROVE  /\ FdOK' /\ Copies'
         /\ \E r \in {0, -1} : Return(r)
<1>1. CASE \A fd \in Fd : fp[fd].used
  <2>1. Return(-1) /\ fp' = fp
    BY <1>1 DEF open_child
  <2> QED BY <2>1 DEF IInv, Types, FdOK, Copies, disk, InUse
<1>2. CASE ~ \A fd \in Fd : fp[fd].used
  <2> DEFINE fd == CHOOSE f \in Fd : /\ ~ fp[f].used
                                     /\ \A g \in Fd : g < f => fp[g].used
             S == {f \in Fd : ~ fp[f].used}
  <2>1. \E f \in S : \A g \in S : f <= g
    <3>1. S \in SUBSET Nat /\ S # {}
      BY <1>2 DEF Fd
    <3> HIDE DEF S
    <3> QED BY <3>1, Bitmaps!LeastNumber
  <2>2. fd \in Fd
    <3>1. PICK f \in S : \A g \in S : f <= g
      BY <2>1
    <3>2. \A g \in Fd : g < f => fp[g].used
      BY <3>1, Sizes DEF Fd
    <3> QED BY <3>1, <3>2
  <2>3. /\ fp' = [fp EXCEPT ![fd] = [used |-> TRUE, inode_nr |-> i, inode |-> itab[i]]]
        /\ Return(0)
    BY <1>2 DEF open_child
  <2> HIDE DEF fd
  <2>4. [used |-> TRUE, inode_nr |-> i, inode |-> itab[i]] \in Descriptor
    BY DEF IInv, Types, TableOK, Descriptor, InodeNr
  <2>5. FdOK'
    BY <2>2, <2>3, <2>4 DEF IInv, Types, FdOK
  <2>6. Copies'
    <3> SUFFICES ASSUME NEW f \in Fd, fp'[f].used
                 PROVE  /\ fp'[f].inode_nr \in InodeNr /\ InUse(fp'[f].inode_nr)
                        /\ itab[fp'[f].inode_nr] = fp'[f].inode
                        /\ fp'[f].inode.mode = NORMAL_FILE
      BY DEF Copies, disk, InUse
    <3>1. CASE f = fd
      BY <2>2, <2>3, <3>1 DEF IInv, Types, FdOK
    <3>2. CASE f # fd
      BY <2>2, <2>3, <3>2 DEF IInv, Types, FdOK, Copies
    <3> QED BY <3>1, <3>2
  <2> QED BY <2>3, <2>5, <2>6
<1> QED BY <1>1, <1>2

-----------------------------------------------------------------------------
(* The actions *)

\* What holds with the entries in order is all that paths need.
LEMMA TreeHolds ==
  ASSUME IInv, MaxEntries < DIR_PER_BLOCK
  PROVE  TreeOK
BY DEF IInv, Types, TreeOK

\* A call that is refused changes its answer only.
LEMMA RefuseKeeps ==
  ASSUME IInv, Linked, MaxEntries < DIR_PER_BLOCK, NEW o, NEW p, Refuse(o, p)
  PROVE  IInv' /\ NoneLost /\ TreeStep
BY Still DEF Refuse

\* Without a free inode nothing is made.
LEMMA NoInodeKeeps ==
  ASSUME IInv, Linked, MaxEntries < DIR_PER_BLOCK, NEW o, NEW p, NoInode(o, p)
  PROVE  IInv' /\ NoneLost /\ TreeStep
<1>1. UNCHANGED <<imap, first_zero_index>>
  <2>1. 0 \in 0 .. InodeBits /\ 0 \notin InodeNr
    BY Sizes DEF InodeNr
  <2>2. MapsOK /\ IMap!alloc_inode(0)
    BY DEF IInv, Types, NoInode
  <2> QED BY <2>1, <2>2, AllocInode
<1>2. UNCHANGED <<disk, fp, call>> /\ ret' \in {0, -1}
  BY <1>1 DEF NoInode, disk, call
<1> QED BY <1>2, Still

\* my_open fills a descriptor with an inode that a path leads to ...
LEMMA OpenKeeps ==
  ASSUME IInv, Linked, MaxEntries < DIR_PER_BLOCK, NEW p \in Paths, my_open(p)
  PROVE  IInv' /\ NoneLost /\ TreeStep
<1>1. pc = "idle" /\ UNCHANGED disk /\ open_child(Child(p)) /\ Found(p)
      /\ itab[Child(p)].mode # DIR_FILE
  BY DEF my_open, Calling, Refused
<1>2. TreeOK
  BY TreeHolds
<1>3. Child(p) \in InodeNr /\ InUse(Child(p))
  <2>1. PICK x \in Live : E(x).inode_nr = Child(p)
    BY <1>1, <1>2, FoundEntry
  <2> QED BY <2>1 DEF IInv, Sound
<1>4. itab[Child(p)].mode = NORMAL_FILE
  <2>1. itab[Child(p)].mode # 0 /\ itab[Child(p)] \in Inode
    BY <1>3 DEF IInv, Types, TableOK, Shape, OneZone
  <2> QED BY <1>1, <2>1 DEF Inode
<1>5. /\ FdOK' /\ Copies'
      /\ \E r \in {0, -1} : Return(r)
  BY <1>1, <1>3, <1>4, OpenStep
<1>6. ~ InHand
  BY <1>1 DEF InHand
<1>lost. NoneLost
  BY <1>1, SameLost DEF IInv, Stage
<1>tree. TreeStep
  <2>1. Edges' = Edges
    BY <1>1, DiskEdges DEF IInv, Types
  <2>2. op \in {"none", "creat"} /\ op' = "none" /\ pc' = "idle"
    BY <1>1, <1>5 DEF IInv, Stage, Return
  <2>3. Moving' = Moving
    BY <2>2 DEF Moving
  <2> QED BY <2>1, <2>2, <2>3, TreeStays
<1> QED BY <1>tree, <1>lost, <1>1, <1>5, <1>6, Ends

\* ... and my_creat with the one it has just made and listed.
LEMMA OpenCreatedKeeps ==
  ASSUME IInv, Linked, MaxEntries < DIR_PER_BLOCK, OpenCreated
  PROVE  IInv' /\ NoneLost /\ TreeStep
<1>1. /\ pc = "open" /\ UNCHANGED disk /\ open_child(cinum)
      /\ cinum \in InodeNr /\ InUse(cinum) /\ itab[cinum].mode = NORMAL_FILE
  BY DEF IInv, Stage, OpenCreated
<1>2. /\ FdOK' /\ Copies'
      /\ \E r \in {0, -1} : Return(r)
  BY <1>1, OpenStep
<1>3. ~ InHand
  BY <1>1 DEF InHand
<1>lost. NoneLost
  BY <1>1, SameLost DEF IInv, Stage, IsListed
<1>tree. TreeStep
  <2>1. Edges' = Edges
    BY <1>1, DiskEdges DEF IInv, Types
  <2>2. op \in {"none", "creat"} /\ op' = "none" /\ pc' = "idle"
    BY <1>1, <1>2 DEF IInv, Stage, Return
  <2>3. Moving' = Moving
    BY <2>2 DEF Moving
  <2> QED BY <2>1, <2>2, <2>3, TreeStays
<1> QED BY <1>tree, <1>lost, <1>1, <1>2, <1>3, Ends

\* While clients respect open descriptors, closing writes back what is there.
LEMMA CloseKeeps ==
  ASSUME IInv, Linked, MaxEntries < DIR_PER_BLOCK, Careful, NEW fd \in Fd, my_close(fd)
  PROVE  IInv' /\ NoneLost /\ TreeStep
<1>1. fp[fd].used /\ itab[fp[fd].inode_nr] = fp[fd].inode
  BY DEF my_close, IInv, Copies
<1>2. itab' = itab
  <2>1. itab' = [i \in InodeNr |-> itab[i]]
    BY <1>1 DEF my_close
  <2> QED BY <2>1 DEF IInv, Types, TableOK
<1>3. UNCHANGED disk /\ UNCHANGED call /\ pc = "idle" /\ ret' \in {0, -1}
  BY <1>2 DEF my_close, disk, call, Calling
<1>4. fp' = [fp EXCEPT ![fd].used = FALSE] /\ fp \in [Fd -> Descriptor]
  BY DEF my_close, IInv, Types, FdOK
<1>5. FdOK'
  BY <1>4 DEF FdOK, Descriptor
<1>6. Copies'
  <2> SUFFICES ASSUME NEW f \in Fd, fp'[f].used
               PROVE  /\ fp'[f].inode_nr \in InodeNr /\ InUse(fp'[f].inode_nr)
                      /\ itab[fp'[f].inode_nr] = fp'[f].inode
                      /\ fp'[f].inode.mode = NORMAL_FILE
    BY <1>3 DEF Copies, disk, InUse
  <2>1. f # fd /\ fp'[f] = fp[f]
    BY <1>4 DEF Descriptor
  <2> QED BY <2>1 DEF IInv, Copies
<1>7. ~ InHand
  BY <1>3 DEF InHand
<1>lost. NoneLost
  BY <1>3, SameLost DEF call
<1>tree. TreeStep
  <2>1. Edges' = Edges
    BY <1>3, DiskEdges DEF IInv, Types
  <2>2. Moving' = Moving /\ pc' = pc /\ pinum' = pinum
    BY <1>3 DEF Moving, disk, call
  <2> QED BY <2>1, <2>2, TreeStays
<1> QED BY <1>tree, <1>lost, <1>3, <1>5, <1>6, <1>7, Ends

\* The second walk of a rename fails.
LEMMA RenameFailsKeeps ==
  ASSUME IInv, Linked, MaxEntries < DIR_PER_BLOCK, RenameFails
  PROVE  IInv' /\ TreeStep
<1>1. pc = "rename" /\ UNCHANGED <<disk, fp>> /\ Return(-1)
  BY DEF RenameFails
<1>2. ~ InHand
  BY <1>1 DEF InHand
<1>3. FdOK' /\ Copies'
  BY <1>1 DEF IInv, Types, FdOK, Copies, disk, InUse
<1>4. UNCHANGED disk /\ \E r \in {0, -1} : Return(r)
  BY <1>1
<1>tree. TreeStep
  <2>1. Edges' = Edges
    BY <1>1, DiskEdges DEF IInv, Types
  <2>2. op = "rename" /\ cinum \in InodeNr
    BY <1>1 DEF IInv, Stage, Loose
  <2> QED BY <1>1, <2>1, <2>2, Abandoned
<1> QED BY <1>tree, <1>2, <1>3, <1>4, Ends

\* An entry is put in: the parent is as big as before but for this entry.
LEMMA AddEntryKeeps ==
  ASSUME IInv, Linked, MaxEntries < DIR_PER_BLOCK, AddToLastZone \/ AddToNextZone
  PROVE  IInv' /\ NoneLost /\ TreeStep
<1>1. pc = "link" /\ Linking
  BY DEF AddToLastZone, AddToNextZone, IInv, Stage
<1>2. /\ Types /\ Roots /\ Shape /\ RoomLeft /\ Sound /\ Copies /\ Owning
      /\ MapsOK /\ TableOK /\ FdOK /\ CallOK
  BY DEF IInv, Types
<1>3. parent.direct[1] # 0 /\ PutEntry(1, parent.size)
  BY <1>1, <1>2, AddsToZone
<1>4. PICK x0, e : x0 = <<pinum, parent.size>> /\ e = [inode_nr |-> cinum, name |-> name]
  OBVIOUS
<1>5. /\ itab' = [itab EXCEPT ![pinum] = [parent EXCEPT !.size = @ + 1]]
      /\ ZonesOK' /\ TableOK'
      /\ x0 \notin Live /\ Live' = Live \cup {x0}
      /\ \A x \in Live : E(x)' = E(x)
      /\ E(x0)' = e
  BY <1>1, <1>2, <1>3, <1>4, PutEffect
<1>6. PICK c : c = cinum
  OBVIOUS
<1>7. /\ parent \in Inode /\ pinum \in InodeNr \ {c} /\ InUse(pinum)
      /\ parent.mode = DIR_FILE /\ itab[pinum].mode = DIR_FILE
      /\ \A k \in 2 .. NrDirect : parent.direct[k] = 0
      /\ op \in {"mkdir", "creat", "rename"} /\ Loose(c)
      /\ itab[pinum].direct[1] \in {0, parent.direct[1]}
  BY <1>1, <1>2, <1>6 DEF CallOK, Linking
<1>8. PICK d \in InodeNr : d = pinum
  BY <1>7
<1>9. PICK new : new = [parent EXCEPT !.size = @ + 1]
  OBVIOUS
<1>10. /\ itab' = [itab EXCEPT ![d] = new] /\ itab \in [InodeNr -> Inode]
       /\ new.direct = parent.direct /\ new.mode = DIR_FILE
  BY <1>2, <1>5, <1>7, <1>8, <1>9 DEF TableOK, Inode
<1>11. /\ itab'[d] = new
       /\ \A i \in InodeNr : i # d => itab'[i] = itab[i]
  BY <1>10
<1>12. UNCHANGED <<imap, first_zero_index, zmap, last_free_zone_num, fp>>
  BY <1>3 DEF PutEntry
<1>13. \/ /\ op = "creat" /\ pc' = "open"
          /\ UNCHANGED <<op, pinum, parent, cinum, name, to, ret>>
       \/ pc' = "idle" /\ Return(0)
  BY <1>3 DEF PutEntry, Return
<1>14. CallOK'
  <2>1. NoZones \in [1 .. NrDirect -> Zone]
    BY Sizes DEF NoZones, Zone
  <2>2. Blank \in Inode
    BY <2>1, Sizes DEF Blank, Inode
  <2>3. CASE Return(0)
    BY <2>2, <2>3, Sizes DEF Return, CallOK
  <2>4. CASE pc' = "open" /\ UNCHANGED <<op, pinum, parent, cinum, name, to, ret>>
    BY <1>2, <2>4 DEF CallOK
  <2> QED BY <1>13, <2>3, <2>4
<1>15. Types'
  BY <1>2, <1>5, <1>12, <1>14 DEF Types, MapsOK, FdOK
<1>16. Roots'
  BY <1>2, <1>11, <1>10, <1>12, Sizes DEF Roots, InUse, InodeNr, ROOT
<1>17. Shape'
  <2>1. OneZone(new)
    BY <1>3, <1>7, <1>10 DEF OneZone, DIR_FILE
  <2> QED BY <1>2, <1>11, <1>12, <2>1 DEF Shape, InUse, OneZone
<1>18. RoomLeft'
  BY <1>13 DEF RoomLeft
<1>19. Sound' /\ \A i : IsListed(i)' <=> IsListed(i) \/ i = c
  <2>1. e.inode_nr = c /\ e.name = name /\ x0[1] = pinum
    BY <1>4, <1>6
  <2>2. \A x \in Live : x[1] = x0[1] => E(x).name # e.name
    BY <1>1, <2>1 DEF Linking
  <2>3. Loose(e.inode_nr) /\ \A i \in InodeNr : InUse(i) => InUse(i)'
    BY <1>7, <1>12, <2>1 DEF InUse
  <2> HIDE DEF Loose, Sound, InUse
  <2> QED BY <1>2, <1>5, <2>1, <2>2, <2>3, SoundAdded
<1>20. Copies'
  <2> SUFFICES ASSUME NEW fd \in Fd, fp[fd].used
               PROVE  /\ fp[fd].inode_nr \in InodeNr /\ InUse(fp[fd].inode_nr)
                      /\ itab'[fp[fd].inode_nr] = fp[fd].inode
                      /\ fp[fd].inode.mode = NORMAL_FILE
    BY <1>12 DEF Copies, InUse
  <2>1. fp[fd].inode_nr # d
    BY <1>2, <1>7, <1>8 DEF Copies, NORMAL_FILE, DIR_FILE
  <2> QED BY <1>2, <1>11, <2>1 DEF Copies
<1>21. Owning'
  <2>1. ~ InHand'
    BY <1>13 DEF InHand
  <2>2. PICK z : z = parent.direct[1]
    OBVIOUS
  <2>3. itab'[d].direct[1] = z /\ z # 0
    BY <1>3, <1>10, <1>11, <2>2
  <2>4. \A i \in InodeNr : i # d => itab'[i].direct[1] = itab[i].direct[1]
    BY <1>11
  <2>5. z - 1 \in zmap /\ \A i \in InodeNr : InUse(i) /\ i # d => itab[i].direct[1] # z
    <3>1. CASE itab[d].direct[1] = 0
      <4>1. InHand
        BY <1>1, <1>3, <1>8, <3>1 DEF InHand
      <4> QED BY <1>2, <2>2, <4>1 DEF Owning
    <3>2. CASE itab[d].direct[1] # 0
      <4>1. itab[d].direct[1] = z
        BY <1>7, <1>8, <2>2, <3>2
      <4> QED BY <1>2, <1>7, <1>8, <3>2, <4>1 DEF Owning
    <3> QED BY <3>1, <3>2
  <2>6. \A b \in zmap : b = z - 1 \/ \E i \in InodeNr : InUse(i) /\ i # d /\ b = itab[i].direct[1] - 1
    <3> SUFFICES ASSUME NEW b \in zmap
                 PROVE  b = z - 1 \/ \E i \in InodeNr : InUse(i) /\ i # d /\ b = itab[i].direct[1] - 1
      OBVIOUS
    <3>1. CASE InHand /\ b = parent.direct[1] - 1
      BY <2>2, <3>1
    <3>2. CASE \E i \in InodeNr : InUse(i) /\ b = itab[i].direct[1] - 1
      <4>1. PICK i \in InodeNr : InUse(i) /\ b = itab[i].direct[1] - 1
        BY <3>2
      <4>2. CASE i = d
        <5>1. b \in 0 .. ZoneBits - 1 /\ itab[d].direct[1] \in {0, z}
          BY <1>2, <1>7, <1>8, <2>2 DEF MapsOK
        <5>2. itab[d].direct[1] # 0
          BY <4>1, <4>2, <5>1, Sizes
        <5> QED BY <4>1, <4>2, <5>1, <5>2
      <4> QED BY <4>1, <4>2
    <3> QED BY <1>2, <3>1, <3>2 DEF Owning
  <2>7. \A i, j \in InodeNr : InUse(i) /\ InUse(j) /\ i # j /\ itab'[i].direct[1] # 0
          => itab'[i].direct[1] # itab'[j].direct[1]
    <3> SUFFICES ASSUME NEW i \in InodeNr, NEW j \in InodeNr, InUse(i), InUse(j), i # j,
                        itab'[i].direct[1] # 0
                 PROVE  itab'[i].direct[1] # itab'[j].direct[1]
      OBVIOUS
    <3>1. CASE i = d
      BY <2>3, <2>4, <2>5, <3>1
    <3>2. CASE j = d
      BY <2>3, <2>4, <2>5, <3>2
    <3>3. CASE i # d /\ j # d
      BY <1>2, <2>4, <3>3 DEF Owning
    <3> QED BY <3>1, <3>2, <3>3
  <2>8. \A i \in InodeNr : InUse(i) /\ itab'[i].direct[1] # 0 => itab'[i].direct[1] - 1 \in zmap
    BY <1>2, <2>3, <2>4, <2>5 DEF Owning
  <2>9. \A b \in zmap : \E i \in InodeNr : InUse(i) /\ b = itab'[i].direct[1] - 1
    BY <1>7, <1>8, <2>3, <2>4, <2>6
  <2>10. zmap' = zmap /\ imap' = imap
    BY <1>12
  <2> QED BY <2>1, <2>7, <2>8, <2>9, <2>10 DEF Owning, InUse
<1>22. Stage'
  <2>1. CASE pc' = "idle" /\ Return(0)
    BY <2>1 DEF Stage, Return
  <2>2. CASE op = "creat" /\ pc' = "open" /\ UNCHANGED <<op, pinum, parent, cinum, name, to, ret>>
    <3>1. itab'[c].mode = NORMAL_FILE
      <4>1. itab[c] = Fresh(NORMAL_FILE)
        BY <1>1, <1>6, <2>2 DEF Linking
      <4>2. c # d /\ c \in InodeNr
        BY <1>7, <1>8 DEF Loose
      <4> QED BY <1>11, <4>1, <4>2 DEF Fresh
    <3>2. c \in InodeNr /\ InUse(c)'
      BY <1>7, <1>12 DEF Loose, InUse
    <3>3. \E x \in Live' : E(x)'.inode_nr = c
      BY <1>19 DEF IsListed
    <3>4. cinum' = c
      BY <1>6, <2>2
    <3> QED BY <2>2, <3>1, <3>2, <3>3, <3>4 DEF Stage, InUse
  <2> QED BY <1>13, <2>1, <2>2
<1>lost. NoneLost
  BY <1>6, <1>12, <1>19 DEF NoneLost, InUse
<1>tree. TreeStep
  <2>1. PICK m : m = itab[c].mode
    OBVIOUS
  <2>2. PICK g : g = [dir |-> d, name |-> name, node |-> c, mode |-> m]
    OBVIOUS
  <2>3. g.dir = d /\ g.name = name /\ g.node = c /\ g.mode = m
    BY <2>2
  <2>4. /\ e.inode_nr = c /\ e.name = name /\ x0[1] = d
        /\ c \in InodeNr /\ c # d /\ itab'[c] = itab[c]
    BY <1>4, <1>6, <1>7, <1>8, <1>11 DEF Loose
  <2>5. \A x \in Live : itab'[E(x).inode_nr].mode = itab[E(x).inode_nr].mode
    <3>1. \A i \in InodeNr : itab'[i].mode = itab[i].mode
      BY <1>7, <1>8, <1>10, <1>11
    <3> QED BY <1>2, <3>1 DEF Sound
  <2>6. Edges' = Edges \cup {g}
    <3>1. itab'[e.inode_nr].mode = m
      BY <2>1, <2>4
    <3>2. Edges' = Edges \cup {[dir |-> x0[1], name |-> e.name, node |-> e.inode_nr, mode |-> m]}
      BY <1>2, <1>5, <2>5, <3>1, EdgesAdded
    <3> QED BY <2>2, <2>4, <3>2
  <2>7. Edges = {EdgeOf(x) : x \in Live}
    BY <1>2, EdgesLive
  <2>8. g \notin Edges /\ Tree!FreeName(d, name) /\ Tree!Unlisted(c)
    <3>1. \A h \in Edges : h.node # c /\ ~ (h.dir = d /\ h.name = name)
      <4> SUFFICES ASSUME NEW x \in Live
                   PROVE  EdgeOf(x).node # c /\ ~ (EdgeOf(x).dir = d /\ EdgeOf(x).name = name)
        BY <2>7
      <4>1. EdgeOf(x).node = E(x).inode_nr /\ EdgeOf(x).dir = x[1] /\ EdgeOf(x).name = E(x).name
        BY DEF EdgeOf
      <4>2. E(x).inode_nr # c /\ (x[1] = d => E(x).name # name)
        BY <1>1, <1>7, <1>8 DEF Linking, Loose
      <4> QED BY <4>1, <4>2
    <3>2. c # ROOT
      BY <1>7 DEF Loose
    <3> QED BY <2>3, <3>1, <3>2 DEF Tree!FreeName, Tree!Unlisted
  <2>9. d \in Tree!Attached
    BY <1>1, <1>8 DEF Linked
  <2>10. Linked'
    BY <1>13 DEF Linked
  <2>11. CASE op = "rename"
    <3>1. Moving = [node |-> g.node, mode |-> g.mode]
      BY <1>6, <2>1, <2>3, <2>11 DEF Moving
    <3>2. Moving' = [node |-> 0, mode |-> 0]
      BY <1>13, <2>11 DEF Moving, Return
    <3>3. Tree!Attach(g)
      BY <2>3, <2>6, <2>8, <2>9, <3>1, <3>2 DEF Tree!Attach, Tree!Nobody
    <3>4. g \in Edges' \ Edges
      BY <2>6, <2>8
    <3> QED BY <2>10, <3>3, <3>4 DEF TreeStep, Tree!Next
  <2>12. CASE op # "rename"
    <3>1. Moving' = Moving
      BY <1>13, <2>12 DEF Moving, Return
    <3>2. Tree!Leaf(c)
      <4>1. itab[c].size = 0
        BY <1>1, <1>6, <2>12 DEF Linking, Fresh
      <4>2. \A x \in Live : x[1] # c
        <5> SUFFICES ASSUME NEW x \in Live, x[1] = c PROVE FALSE
          OBVIOUS
        <5>1. itab[c].size > 0
          BY <1>2, EntryZone
        <5> QED BY <4>1, <5>1
      <4> QED BY <2>7, <4>2 DEF Tree!Leaf, EdgeOf
    <3>3. Tree!Create(g)
      BY <2>3, <2>4, <2>6, <2>8, <2>9, <3>1, <3>2 DEF Tree!Create
    <3>4. g \in Edges' \ Edges
      BY <2>6, <2>8
    <3> QED BY <2>10, <3>3, <3>4 DEF TreeStep, Tree!Next
  <2> QED BY <2>11, <2>12
<1> QED BY <1>tree, <1>lost, <1>15, <1>16, <1>17, <1>18, <1>19, <1>20, <1>21, <1>22 DEF IInv

\* Where the entry needs a zone, its parent has none.
LEMMA NeedsZone ==
  ASSUME IInv, MaxEntries < DIR_PER_BLOCK, pc = "link", ~ LastZoneHasRoom
  PROVE  Count(parent) + 1 = 1 /\ Linking /\ parent \in Inode /\ pinum \in InodeNr
<1>1. Linking /\ parent \in Inode /\ pinum \in InodeNr
  BY DEF IInv, Stage, Types, CallOK, Linking
<1>2. /\ Count(parent) = IF parent.size > 0 THEN 1 ELSE 0
      /\ parent.size > 0 => ASize(parent, 1) = parent.size
      /\ parent.size \in Nat /\ parent.size < DIR_PER_BLOCK
  BY <1>1, OneZoneSlots
<1>3. Count(parent) = 0
  BY <1>2 DEF LastZoneHasRoom
<1> QED BY <1>1, <1>3

\* A zone is allocated for the first entry: it is in hand, and of no inode.
LEMMA AddZoneKeeps ==
  ASSUME IInv, Linked, MaxEntries < DIR_PER_BLOCK, NEW z \in 1 .. ZoneBits, AddZone(z)
  PROVE  IInv' /\ NoneLost /\ TreeStep
<1>1. /\ pc = "link" /\ Count(parent) + 1 = 1 /\ Linking
      /\ parent \in Inode /\ pinum \in InodeNr
  BY NeedsZone DEF AddZone
<1>2. /\ Types /\ Roots /\ Shape /\ RoomLeft /\ Sound /\ Copies /\ Owning
      /\ MapsOK /\ ZonesOK /\ TableOK /\ FdOK /\ CallOK
  BY DEF IInv, Types
<1>3. /\ parent.direct[1] = 0
      /\ parent' = [parent EXCEPT !.direct[1] = z]
      /\ UNCHANGED <<imap, first_zero_index, zone0, itab, fp,
                     pc, op, pinum, cinum, name, to, ret>>
  BY <1>1 DEF AddZone
<1>4. /\ last_free_zone_num' = 0 /\ z - 1 \notin zmap /\ zmap' = zmap \cup {z - 1}
      /\ zones' = [zones EXCEPT ![z] = EmptyBlock]
  <2>1. z \in Zone /\ z # 0 /\ ZMap!alloc_zone(z)
    BY Sizes DEF AddZone, Zone
  <2> QED BY <1>2, <2>1, AllocZone
<1>5. itab[pinum].direct[1] = 0
  BY <1>1, <1>3 DEF Linking
<1>6. /\ parent'.direct[1] = z /\ parent'.mode = parent.mode
      /\ parent'.size = parent.size /\ parent' \in Inode
      /\ \A k \in 2 .. NrDirect : parent'.direct[k] = parent.direct[k]
  <2>1. parent' = [parent EXCEPT !.direct = [parent.direct EXCEPT ![1] = z]]
    BY <1>1, <1>3 DEF Inode
  <2>2. parent.direct \in [1 .. NrDirect -> Zone]
    BY <1>1 DEF Inode
  <2>3. parent'.direct = [parent.direct EXCEPT ![1] = z] /\ parent'.mode = parent.mode
        /\ parent'.size = parent.size
    BY <1>1, <2>1 DEF Inode
  <2>4. z \in Zone /\ 1 \in 1 .. NrDirect /\ \A k \in 2 .. NrDirect : k \in 1 .. NrDirect /\ k # 1
    BY Sizes DEF Zone
  <2>5. [parent.direct EXCEPT ![1] = z] \in [1 .. NrDirect -> Zone]
    BY <2>2, <2>4
  <2>6. parent' \in Inode
    BY <1>1, <2>1, <2>5 DEF Inode
  <2> QED BY <2>2, <2>3, <2>4, <2>6
<1>7. Live' = Live
  BY <1>3 DEF Live, InUse
<1>8. ASSUME NEW x \in Live PROVE E(x)' = E(x)
  <2> DEFINE y == itab[x[1]].direct[1]
  <2>1. y \in 1 .. ZoneBits /\ y - 1 \in zmap /\ E(x) = zones[y][x[2]]
    BY <1>2, EntryZone
  <2>2. y # z
    BY <1>4, <2>1
  <2>3. zones'[y] = zones[y]
    BY <1>2, <1>4, <2>1, <2>2 DEF ZonesOK
  <2>4. E(x)' = zones'[y][x[2]]
    BY <1>3, <2>1 DEF E, read_zone
  <2> QED BY <2>1, <2>3, <2>4
<1>9. Types'
  <2>1. EmptyBlock \in Block
    BY Sizes DEF EmptyBlock, Block, NilEntry, Entry
  <2>2. ZonesOK'
    BY <1>2, <1>3, <1>4, <2>1 DEF ZonesOK
  <2>3. MapsOK'
    BY <1>2, <1>3, <1>4, Sizes DEF MapsOK, Zone
  <2>4. CallOK'
    BY <1>2, <1>3, <1>6 DEF CallOK
  <2> QED BY <1>2, <1>3, <2>2, <2>3, <2>4 DEF Types, TableOK, FdOK
<1>10. Roots' /\ Shape' /\ RoomLeft' /\ Copies'
  BY <1>2, <1>3 DEF Roots, Shape, RoomLeft, Room, Copies, InUse
<1>11. Sound'
  BY <1>2, <1>3, <1>7, <1>8 DEF Sound, InUse
<1>12. Owning'
  <2>1. InHand'
    BY <1>1, <1>3, <1>5, <1>6 DEF InHand
  <2>2. ~ InHand
    BY <1>3 DEF InHand
  <2>3. \A i \in InodeNr : InUse(i) => itab[i].direct[1] # z
    <3> SUFFICES ASSUME NEW i \in InodeNr, InUse(i), itab[i].direct[1] = z PROVE FALSE
      OBVIOUS
    <3>1. z # 0
      OBVIOUS
    <3>2. itab[i].direct[1] - 1 \in zmap
      BY <1>2, <3>1 DEF Owning
    <3> QED BY <1>4, <3>2
  <2> QED BY <1>2, <1>3, <1>4, <1>6, <2>1, <2>2, <2>3 DEF Owning, InUse
<1>13. Stage'
  <2>1. Loose(cinum)'
    BY <1>1, <1>3, <1>7, <1>8 DEF Linking, Loose, InUse
  <2>2. Linking'
    <3>1. \A x \in Live' : x[1] = pinum => E(x)'.name # name
      BY <1>1, <1>7, <1>8 DEF Linking
    <3>2. pc' = "link" /\ op' = op /\ pinum' = pinum /\ cinum' = cinum /\ name' = name
          /\ itab' = itab /\ imap' = imap /\ fp' = fp
      BY <1>1, <1>3
    <3>3. parent'.mode = DIR_FILE /\ parent'.size = itab[pinum].size
          /\ \A k \in 2 .. NrDirect : parent'.direct[k] = 0
      BY <1>1, <1>6 DEF Linking
    <3> HIDE DEF Loose
    <3> QED BY <1>1, <1>5, <2>1, <3>1, <3>2, <3>3 DEF Linking, InUse, Opened
  <2> QED BY <1>1, <1>3, <2>2 DEF Stage
<1>lost. NoneLost
  BY <1>3, <1>7, <1>8 DEF NoneLost, IsListed, InUse
<1>tree. TreeStep
  <2>1. Edges' = Edges
    <3>1. TableOK'
      BY <1>9 DEF Types
    <3> QED BY <1>2, <1>3, <1>7, <1>8, <3>1, EdgesSame
  <2>2. Moving' = Moving /\ pc' = pc /\ pinum' = pinum
    BY <1>3 DEF Moving
  <2> QED BY <2>1, <2>2, TreeStays
<1> QED BY <1>tree, <1>lost, <1>9, <1>10, <1>11, <1>12, <1>13 DEF IInv

\* No zone is left: a new inode is given back.
LEMMA NoZoneKeeps ==
  ASSUME IInv, Linked, MaxEntries < DIR_PER_BLOCK, NoZone
  PROVE  IInv' /\ (op # "rename" => NoneLost) /\ TreeStep
<1>1. /\ pc = "link" /\ Count(parent) + 1 = 1 /\ Linking
      /\ parent \in Inode /\ pinum \in InodeNr
  BY NeedsZone DEF NoZone
<1>2. /\ Types /\ Roots /\ Shape /\ RoomLeft /\ Sound /\ Copies /\ Owning
      /\ MapsOK /\ ZonesOK /\ TableOK /\ FdOK /\ CallOK
  BY DEF IInv, Types
<1>3. parent.direct[1] = 0 /\ Return(-1) /\ UNCHANGED <<zone0, itab, fp>>
  BY <1>1 DEF NoZone
<1>4. last_free_zone_num' = 0 /\ UNCHANGED <<zmap, zones>>
  <2>1. 0 \in Zone /\ ZMap!alloc_zone(0) /\ 0 \notin 1 .. ZoneBits
    BY Sizes DEF NoZone, Zone
  <2> QED BY <1>2, <2>1, AllocZone
<1>5. ~ InHand
  BY <1>3 DEF InHand
<1>6. PICK c : c = cinum
  OBVIOUS
<1>7. c \in InodeNr \ {ROOT} /\ InUse(c) /\ \A x \in Live : E(x).inode_nr # c
  BY <1>1, <1>6 DEF Linking, Loose
<1>8. \/ imap' = imap /\ first_zero_index' = first_zero_index
      \/ /\ itab[c].size = 0 /\ itab[c].direct[1] = 0 /\ ~ Opened(c)
         /\ IMap!free_inode(c)
  <2>1. CASE op = "rename"
    BY <2>1 DEF NoZone
  <2>2. CASE op # "rename"
    <3>1. IMap!free_inode(c) /\ ~ Opened(c)
          /\ itab[c] = Fresh(IF op = "mkdir" THEN DIR_FILE ELSE NORMAL_FILE)
      BY <1>1, <1>6, <2>2 DEF NoZone, Linking
    <3>2. itab[c].size = 0 /\ itab[c].direct[1] = 0
      BY <3>1, Sizes DEF Fresh, NoZones
    <3> QED BY <3>1, <3>2
  <2> QED BY <2>1, <2>2
<1>9. \A i \in InodeNr : InUse(i)' =>  InUse(i)
  BY <1>8 DEF InUse, IMap!free_inode
<1>10. \A i \in InodeNr : InUse(i) =>
         InUse(i)' \/ (i = c /\ itab[c].size = 0 /\ itab[c].direct[1] = 0 /\ ~ Opened(c))
  <2>1. \A i \in InodeNr : i - 1 = c - 1 => i = c
    BY <1>7, Sizes DEF InodeNr
  <2> QED BY <1>7, <1>8, <2>1 DEF InUse, IMap!free_inode
<1>11. Live' = Live
  <2>1. \A x \in InodeNr \X Index : x \in Live' <=> x \in Live
    <3> SUFFICES ASSUME NEW x \in InodeNr \X Index
                 PROVE  x \in Live' <=> x \in Live
      OBVIOUS
    <3>1. x \in Live' => x \in Live
      BY <1>3, <1>9 DEF Live
    <3>2. ASSUME x \in Live PROVE x \in Live'
      <4>1. itab[x[1]].size > 0
        BY <1>2, <3>2, EntryZone
      <4>2. x[1] \in InodeNr /\ InUse(x[1]) /\ ~ itab[x[1]].size = 0
        BY <3>2, <4>1 DEF Live
      <4>3. InUse(x[1])'
        BY <1>10, <4>2
      <4> QED BY <1>3, <3>2, <4>3 DEF Live
    <3> QED BY <3>1, <3>2
  <2> QED BY <2>1 DEF Live
<1>12. \A x \in Live : E(x)' = E(x)
  BY <1>3, <1>4 DEF E, read_zone
<1>13. Types'
  <2>1. NoZones \in [1 .. NrDirect -> Zone]
    BY Sizes DEF NoZones, Zone
  <2>2. Blank \in Inode
    BY <2>1, Sizes DEF Blank, Inode
  <2>3. CallOK'
    BY <1>3, <2>2, Sizes DEF Return, CallOK
  <2>4. MapsOK'
    <3>1. /\ imap' \subseteq 0 .. InodeBits - 1 /\ first_zero_index' \in 0 .. InodeBits
          /\ first_zero_index' \notin imap'
      BY <1>2, <1>7, <1>8, FreeInode DEF MapsOK
    <3> QED BY <1>2, <1>4, <3>1, Sizes DEF MapsOK, Zone
  <2> QED BY <1>2, <1>3, <1>4, <2>3, <2>4 DEF Types, TableOK, FdOK, ZonesOK
<1>14. Roots'
  <2>1. ROOT \in InodeNr /\ ROOT # c
    BY <1>7, Sizes DEF ROOT, InodeNr
  <2> QED BY <1>2, <1>3, <1>10, <2>1 DEF Roots
<1>15. Shape'
  BY <1>2, <1>3, <1>9 DEF Shape
<1>16. pc' = "idle" /\ cinum' = 0 /\ op' = "none"
  BY <1>3 DEF Return
<1>17. RoomLeft' /\ Stage'
  BY <1>16 DEF RoomLeft, Stage
<1>18. Sound'
  <2>1. \A i \in InodeNr : InUse(i) /\ IsListed(i) => InUse(i)'
    BY <1>7, <1>10 DEF IsListed
  <2> QED BY <1>2, <1>11, <1>12, <2>1, SoundSame
<1>19. Copies'
  <2> SUFFICES ASSUME NEW fd \in Fd, fp[fd].used
               PROVE  /\ fp[fd].inode_nr \in InodeNr /\ InUse(fp[fd].inode_nr)'
                      /\ itab[fp[fd].inode_nr] = fp[fd].inode
                      /\ fp[fd].inode.mode = NORMAL_FILE
    BY <1>3 DEF Copies, InUse
  <2>1. Opened(fp[fd].inode_nr)
    BY DEF Opened
  <2>2. fp' = fp
    BY <1>3
  <2> QED BY <1>2, <1>10, <2>1, <2>2 DEF Copies, InUse
<1>20. Owning'
  <2>1. ~ InHand'
    BY <1>16 DEF InHand
  <2>2. \A b \in zmap : \E i \in InodeNr : InUse(i) /\ b = itab[i].direct[1] - 1
    BY <1>2, <1>5 DEF Owning
  <2>3. \A b \in zmap : \E i \in InodeNr : InUse(i)' /\ b = itab[i].direct[1] - 1
    <3> SUFFICES ASSUME NEW b \in zmap
                 PROVE  \E i \in InodeNr : InUse(i)' /\ b = itab[i].direct[1] - 1
      OBVIOUS
    <3>1. PICK i \in InodeNr : InUse(i) /\ b = itab[i].direct[1] - 1
      BY <2>2
    <3>2. itab[i].direct[1] # 0
      BY <1>2, <3>1, Sizes DEF MapsOK
    <3> QED BY <1>10, <3>1, <3>2
  <2> QED BY <1>2, <1>3, <1>4, <1>9, <2>1, <2>3 DEF Owning
<1>lost. op # "rename" => NoneLost
  <2> SUFFICES ASSUME op # "rename" PROVE NoneLost
    OBVIOUS
  <2>1. ~ InUse(c)'
    BY <1>6 DEF NoZone, IMap!free_inode, InUse
  <2>2. \A i : IsListed(i)' <=> IsListed(i)
    BY <1>11, <1>12 DEF IsListed
  <2> QED BY <1>6, <1>9, <2>1, <2>2 DEF NoneLost
<1>tree. TreeStep
  <2>1. Edges' = Edges
    <3>1. TableOK' /\ itab' = itab
      BY <1>3, <1>13 DEF Types
    <3> QED BY <1>2, <1>11, <1>12, <3>1, EdgesSame
  <2>2. CASE op = "rename"
    BY <1>3, <1>6, <1>7, <2>1, <2>2, Abandoned
  <2>3. CASE op # "rename"
    <3>1. Moving' = Moving
      BY <1>16, <2>3 DEF Moving
    <3> QED BY <1>16, <2>1, <3>1, TreeStays
  <2> QED BY <2>2, <2>3
<1> QED BY <1>tree, <1>lost, <1>13, <1>14, <1>15, <1>17, <1>18, <1>19, <1>20 DEF IInv

\* An inode is made, where the path is missing, and is not listed yet.
LEMMA MakeInodeKeeps ==
  ASSUME IInv, Linked, MaxEntries < DIR_PER_BLOCK, NEW p \in Paths, NEW n \in InodeNr,
         NEW o \in {"mkdir", "creat"}, MakeInode(o, p, n)
  PROVE  IInv' /\ NoneLost /\ TreeStep
<1>1. /\ pc = "idle" /\ Missing(p) /\ Room
      /\ Target(p) /\ op' = o /\ cinum' = n /\ ret' = 0
      /\ UNCHANGED <<zmap, last_free_zone_num, zones, zone0, fp, to>>
  BY DEF MakeInode, Calling, Refused
<1>2. /\ Types /\ Roots /\ Shape /\ RoomLeft /\ Sound /\ Copies /\ Owning
      /\ MapsOK /\ ZonesOK /\ TableOK /\ FdOK /\ CallOK
  BY DEF IInv, Types
<1>3. n - 1 \notin imap /\ imap' = imap \cup {n - 1} /\ first_zero_index' = InodeBits
  <2>1. n \in 0 .. InodeBits /\ n # 0 /\ IMap!alloc_inode(n)
    BY Sizes DEF MakeInode, InodeNr
  <2> QED BY <1>2, <2>1, AllocInode
<1>4. PICK new : new = Fresh(IF o = "mkdir" THEN DIR_FILE ELSE NORMAL_FILE)
  OBVIOUS
<1>5. /\ new.size = 0 /\ new.mode \in {NORMAL_FILE, DIR_FILE} /\ new.mode # 0
      /\ new.direct[1] = 0 /\ \A k \in 2 .. NrDirect : new.direct[k] = 0
      /\ new \in Inode
  BY <1>4, Sizes DEF Fresh, NoZones, Inode, Zone, NORMAL_FILE, DIR_FILE
<1>6. /\ itab' = [itab EXCEPT ![n] = new]
      /\ itab'[n] = new
      /\ \A i \in InodeNr : i # n => itab'[i] = itab[i]
  BY <1>2, <1>4 DEF MakeInode, TableOK
<1>7. \A i \in InodeNr : InUse(i)' <=> InUse(i) \/ i = n
  BY <1>3 DEF InUse, InodeNr
<1>8. ~ InUse(n)
  BY <1>3 DEF InUse
<1>9. PICK d : d = Parent(p)
  OBVIOUS
<1>10. /\ d \in InodeNr /\ InUse(d) /\ itab[d].mode = DIR_FILE
       /\ p[Len(p)] \in Names
       /\ \A x \in Live : x[1] = d => E(x).name # p[Len(p)]
  BY <1>1, <1>9, TreeHolds, MissingEntry
<1>11. pc' = "link" /\ pinum' = d /\ parent' = itab[d] /\ name' = p[Len(p)]
  BY <1>1, <1>9 DEF Target
<1>12. d # n /\ itab'[d] = itab[d]
  BY <1>6, <1>8, <1>10
<1>13. Live' = Live
  <2>1. ASSUME NEW x \in InodeNr \X Index PROVE x \in Live' <=> x \in Live
    <3>1. CASE x[1] = n
      <4>1. ~ x[2] < itab'[x[1]].size
        BY <1>5, <1>6, <3>1 DEF Index
      <4> QED BY <1>8, <3>1, <4>1 DEF Live
    <3>2. CASE x[1] # n
      BY <1>6, <1>7, <3>2 DEF Live
    <3> QED BY <3>1, <3>2
  <2> QED BY <2>1 DEF Live
<1>14. \A x \in Live : x[1] \in InodeNr /\ x[1] # n
  BY <1>8 DEF Live
<1>15. \A x \in Live : E(x)' = E(x)
  BY <1>1, <1>6, <1>14 DEF E, read_zone
<1>16. \A x \in Live : E(x).inode_nr # n
  BY <1>2, <1>8 DEF Sound
<1>17. Types'
  <2>1. TableOK'
    BY <1>2, <1>5, <1>6 DEF TableOK
  <2>2. CallOK'
    BY <1>1, <1>2, <1>10, <1>11, Sizes DEF CallOK, TableOK, InodeNr
  <2>3. MapsOK'
    BY <1>1, <1>2, <1>3, Sizes DEF MapsOK, InodeNr
  <2> QED BY <1>1, <1>2, <2>1, <2>2, <2>3 DEF Types, FdOK, ZonesOK
<1>18. n # ROOT /\ Roots'
  <2>1. ROOT \in InodeNr /\ n # ROOT
    BY <1>2, <1>8, Sizes DEF Roots, InodeNr, ROOT
  <2> QED BY <1>2, <1>6, <1>7, <2>1 DEF Roots
<1>19. Shape'
  BY <1>2, <1>5, <1>6, <1>7 DEF Shape, OneZone
<1>20. RoomLeft'
  <2>1. new.size < MaxEntries
    BY <1>5, Sizes
  <2> QED BY <1>1, <1>6, <1>7, <2>1 DEF RoomLeft, Room
<1>21. Sound'
  BY <1>2, <1>7, <1>13, <1>15, SoundSame
<1>22. \A fd \in Fd : fp[fd].used => fp[fd].inode_nr # n
  BY <1>2, <1>8 DEF Copies
<1>23. Copies'
  BY <1>1, <1>2, <1>6, <1>7, <1>22 DEF Copies
<1>24. Owning'
  <2>1. ~ InHand' /\ ~ InHand
    BY <1>1, <1>11, <1>12 DEF InHand
  <2>2. \A b \in zmap : \E i \in InodeNr : InUse(i) /\ i # n /\ b = itab[i].direct[1] - 1
    BY <1>2, <1>8, <2>1 DEF Owning
  <2>3. \A b \in zmap : \E i \in InodeNr : InUse(i)' /\ b = itab'[i].direct[1] - 1
    BY <1>6, <1>7, <2>2
  <2>4. \A i \in InodeNr : InUse(i)' /\ itab'[i].direct[1] # 0
          => i # n /\ InUse(i) /\ itab'[i] = itab[i]
    BY <1>5, <1>6, <1>7
  <2>5. \A i \in InodeNr : InUse(i)' => i = n \/ (InUse(i) /\ itab'[i] = itab[i])
    BY <1>6, <1>7
  <2>6. \A i, j \in InodeNr : InUse(i)' /\ InUse(j)' /\ i # j /\ itab'[i].direct[1] # 0
          => itab'[i].direct[1] # itab'[j].direct[1]
    <3> SUFFICES ASSUME NEW i \in InodeNr, NEW j \in InodeNr, InUse(i)', InUse(j)', i # j,
                        itab'[i].direct[1] # 0
                 PROVE  itab'[i].direct[1] # itab'[j].direct[1]
      OBVIOUS
    <3>1. i # n /\ InUse(i) /\ itab'[i] = itab[i]
      BY <2>4
    <3>2. CASE j = n
      BY <1>5, <1>6, <3>2
    <3>3. CASE j # n
      <4>1. InUse(j) /\ itab'[j] = itab[j]
        BY <2>5, <3>3
      <4> QED BY <1>2, <3>1, <4>1 DEF Owning
    <3> QED BY <3>2, <3>3
  <2> QED BY <1>1, <1>2, <2>1, <2>3, <2>4, <2>6 DEF Owning
<1>25. Stage'
  <2>1. Loose(n)'
    BY <1>7, <1>13, <1>15, <1>16, <1>18 DEF Loose
  <2>2. ~ Opened(n)'
    BY <1>1, <1>22 DEF Opened
  <2>3. \A x \in Live' : x[1] = d => E(x)'.name # name'
    BY <1>10, <1>11, <1>13, <1>15
  <2>4. \A k \in 2 .. NrDirect : itab[d].direct[k] = 0
    BY <1>2, <1>10 DEF Shape, OneZone
  <2>5. InUse(d)' /\ itab'[d].mode = DIR_FILE
    BY <1>7, <1>10, <1>12
  <2>6. /\ o \in {"mkdir", "creat"}
        /\ itab'[n] = Fresh(IF o = "mkdir" THEN DIR_FILE ELSE NORMAL_FILE)
    BY <1>4, <1>6
  <2> HIDE DEF Loose, Opened, InUse
  <2>7. Loose(cinum)' /\ ~ Opened(cinum)'
    BY <1>1, <2>1, <2>2 DEF Loose, Opened, InUse
  <2>8. Linking'
    <3>1. InUse(pinum)'
      BY <1>11, <2>5 DEF InUse
    <3>2. op' \in {"mkdir", "creat", "rename"}
      BY <1>1
    <3>3. pinum' \in InodeNr \ {cinum'} /\ itab'[pinum'].mode = DIR_FILE
      BY <1>1, <1>10, <1>11, <1>12, <2>5
    <3>4. /\ parent'.mode = DIR_FILE /\ parent'.size = itab'[pinum'].size
          /\ \A k \in 2 .. NrDirect : parent'.direct[k] = 0
          /\ itab'[pinum'].direct[1] \in {0, parent'.direct[1]}
      BY <1>10, <1>11, <1>12, <2>4
    <3>5. \A x \in Live' : x[1] = pinum' => E(x)'.name # name'
      BY <1>11, <2>3
    <3>6. itab'[cinum'] = Fresh(IF op' = "mkdir" THEN DIR_FILE ELSE NORMAL_FILE)
      BY <1>1, <2>6
    <3> QED BY <2>7, <3>1, <3>2, <3>3, <3>4, <3>5, <3>6 DEF Linking
  <2> QED BY <1>11, <2>8 DEF Stage
<1>lost. NoneLost
  <2>1. \A i : IsListed(i)' <=> IsListed(i)
    BY <1>13, <1>15 DEF IsListed
  <2>2. cinum = 0 /\ 0 \notin InodeNr
    BY <1>1, Sizes DEF IInv, Stage, InodeNr
  <2> QED BY <1>1, <1>7, <2>1, <2>2 DEF NoneLost
<1>tree. TreeStep
  <2>1. Edges' = Edges
    <3>1. TableOK'
      BY <1>17 DEF Types
    <3>2. \A x \in Live : itab'[E(x).inode_nr].mode = itab[E(x).inode_nr].mode
      BY <1>2, <1>6, <1>16 DEF Sound
    <3> QED BY <1>2, <1>13, <1>15, <3>1, <3>2, EdgesSame
  <2>2. op = "none" /\ op' # "rename"
    BY <1>1 DEF IInv, Stage
  <2>3. Moving' = Moving
    BY <2>2 DEF Moving
  <2>4. d \in Tree!Attached
    BY <1>1, <1>9, TreeHolds, ParentAttached
  <2> QED BY <1>11, <2>1, <2>3, <2>4, TreeStays
<1> QED BY <1>tree, <1>lost, <1>17, <1>18, <1>19, <1>20, <1>21, <1>23, <1>24, <1>25 DEF IInv

\* The entry taken out gets a place in a directory, where its name is missing.
LEMMA RenameTargetKeeps ==
  ASSUME IInv, Linked, MaxEntries < DIR_PER_BLOCK, RenameTarget
  PROVE  IInv' /\ TreeStep
<1>1. /\ pc = "rename" /\ Missing(to) /\ Target(to)
      /\ UNCHANGED <<disk, fp, op, cinum, to, ret>>
  BY DEF RenameTarget
<1>2. /\ Types /\ Roots /\ Shape /\ RoomLeft /\ Sound /\ Copies /\ Owning
      /\ MapsOK /\ ZonesOK /\ TableOK /\ FdOK /\ CallOK
      /\ op = "rename" /\ to \in Paths /\ Loose(cinum)
  BY <1>1 DEF IInv, Types, Stage
<1>3. PICK p \in Paths : p = to
  BY <1>2
<1>4. PICK d : d = Parent(p)
  OBVIOUS
<1>5. /\ d \in InodeNr /\ InUse(d) /\ Reached(d) /\ itab[d].mode = DIR_FILE
      /\ p[Len(p)] \in Names
      /\ \A x \in Live : x[1] = d => E(x).name # p[Len(p)]
  BY <1>1, <1>3, <1>4, TreeHolds, MissingEntry
<1>6. pc' = "link" /\ pinum' = d /\ parent' = itab[d] /\ name' = p[Len(p)]
  <2>1. Parent(to) = d
    BY <1>3, <1>4
  <2> QED BY <1>1, <1>3, <2>1 DEF Target
<1>7. imap' = imap /\ itab' = itab /\ zmap' = zmap /\ zones' = zones /\ zone0' = zone0
      /\ first_zero_index' = first_zero_index /\ last_free_zone_num' = last_free_zone_num
      /\ fp' = fp /\ op' = op /\ cinum' = cinum /\ to' = to /\ ret' = ret
  BY <1>1 DEF disk
<1>8. Live' = Live /\ \A x \in Live : E(x)' = E(x)
  BY <1>7 DEF Live, InUse, E, read_zone
<1>9. Types'
  <2>1. CallOK'
    BY <1>2, <1>5, <1>6, <1>7, Sizes DEF CallOK, TableOK, InodeNr
  <2> QED BY <1>2, <1>7, <2>1 DEF Types, MapsOK, ZonesOK, TableOK, FdOK
<1>10. Roots' /\ Shape' /\ Copies'
  BY <1>2, <1>7 DEF Roots, Shape, Copies, InUse
<1>11. RoomLeft'
  BY <1>1, <1>2, <1>7 DEF RoomLeft, Room, InUse
<1>12. Sound'
  BY <1>2, <1>7, <1>8 DEF Sound, InUse
<1>13. Owning'
  <2>1. ~ InHand /\ ~ InHand'
    BY <1>1, <1>6, <1>7 DEF InHand
  <2> QED BY <1>2, <1>7, <2>1 DEF Owning, InUse
<1>14. Stage'
  <2>1. Loose(cinum)'
    BY <1>2, <1>7, <1>8 DEF Loose, InUse
  <2>2. d # cinum
    BY <1>2, <1>5 DEF Reached, Loose
  <2>3. \A k \in 2 .. NrDirect : itab[d].direct[k] = 0
    BY <1>2, <1>5 DEF Shape, OneZone
  <2>4. \A x \in Live' : x[1] = pinum' => E(x)'.name # name'
    BY <1>5, <1>6, <1>8
  <2>5. InUse(pinum)'
    BY <1>5, <1>6, <1>7 DEF InUse
  <2> HIDE DEF Loose
  <2>6. Linking'
    BY <1>2, <1>5, <1>6, <1>7, <2>1, <2>2, <2>3, <2>4, <2>5 DEF Linking
  <2> QED BY <1>6, <2>6 DEF Stage
<1>tree. TreeStep
  <2>1. Edges' = Edges
    BY <1>1, DiskEdges DEF IInv, Types
  <2>2. Moving' = Moving
    BY <1>7 DEF Moving
  <2>3. d \in Tree!Attached
    BY <1>1, <1>3, <1>4, TreeHolds, ParentAttached
  <2> QED BY <1>6, <2>1, <2>2, <2>3, TreeStays
<1> QED BY <1>tree, <1>9, <1>10, <1>11, <1>12, <1>13, <1>14 DEF IInv

\* What Unlink leaves, whatever comes of the inode that was listed.
LEMMA UnlinkLeaves ==
  ASSUME MaxEntries < DIR_PER_BLOCK, Types, Roots, Shape, Sound, Copies, Owning,
         NEW x0 \in Live, Unlink(x0[1], <<1, x0[2]>>),
         NEW c, c = E(x0).inode_nr, fp' = fp,
         \/ imap' = imap
         \/ /\ imap' = imap \ {c - 1} /\ ~ Opened(c)
            /\ itab[c].mode # DIR_FILE \/ itab[c].size = 0
  PROVE  /\ Edges' = Edges \ {EdgeOf(x0)} /\ EdgeOf(x0) \in Edges
         /\ \A i \in InodeNr : itab'[i].mode = itab[i].mode
         /\ TableOK' /\ ZonesOK' /\ Roots' /\ Shape' /\ Sound' /\ Copies'
         /\ \A i : IsListed(i)' <=> IsListed(i) /\ i # c
         /\ \A i \in InodeNr : InUse(i)' => InUse(i)
         /\ \A i \in InodeNr : InUse(i) => InUse(i)' \/ i = c
         /\ \A i \in InodeNr : /\ itab'[i].direct = itab[i].direct
                               /\ itab'[i].size <= itab[i].size
<1>1. MapsOK /\ ZonesOK /\ TableOK /\ FdOK
  BY DEF Types
<1>2. PICK d, n : d = x0[1] /\ n = itab[d].size
  OBVIOUS
<1>3. PICK last : last = <<d, n - 1>>
  OBVIOUS
<1>4. /\ itab' = [itab EXCEPT ![d].size = @ - 1]
      /\ ZonesOK' /\ last \in Live
      /\ \A y \in Live : E(y)' = IF y = x0 THEN E(last) ELSE E(y)
  BY <1>1, <1>2, <1>3, UnlinkEffect
<1>5. /\ d \in InodeNr /\ InUse(d) /\ itab[d] \in Inode /\ itab[d].size > 0
      /\ itab[d].mode = DIR_FILE
  BY <1>1, <1>2, EntryZone
<1>6. n \in 1 .. MaxEntries /\ MaxEntries \in Nat /\ DIR_PER_BLOCK \in Nat
  BY <1>2, <1>5, Sizes DEF Inode
<1>7. /\ itab'[d] = [itab[d] EXCEPT !.size = n - 1]
      /\ itab'[d].size = n - 1 /\ itab'[d].mode = DIR_FILE
      /\ itab'[d].direct = itab[d].direct
      /\ itab'[d] \in Inode
      /\ \A i \in InodeNr : i # d => itab'[i] = itab[i]
  <2>1. /\ itab'[d] = [itab[d] EXCEPT !.size = itab[d].size - 1]
        /\ \A i \in InodeNr : i # d => itab'[i] = itab[i]
    BY <1>1, <1>4, <1>5 DEF TableOK
  <2>2. itab'[d] = [itab[d] EXCEPT !.size = n - 1]
    BY <1>2, <2>1
  <2>3. n - 1 \in 0 .. MaxEntries
    BY <1>6
  <2>4. /\ itab'[d].size = n - 1 /\ itab'[d].mode = itab[d].mode
        /\ itab'[d].direct = itab[d].direct /\ itab'[d] \in Inode
    BY <1>5, <2>2, <2>3 DEF Inode
  <2> QED BY <1>5, <2>1, <2>2, <2>4
<1>8. TableOK'
  BY <1>1, <1>4, <1>7 DEF TableOK
<1>9. c \in InodeNr \ {ROOT} /\ InUse(c)
  BY DEF Sound
<1>10. /\ \A i \in InodeNr : InUse(i)' => InUse(i)
       /\ \A i \in InodeNr : InUse(i) => InUse(i)' \/ i = c
  <2>1. \A i \in InodeNr : i - 1 = c - 1 => i = c
    BY <1>9, Sizes DEF InodeNr
  <2> QED BY <2>1 DEF InUse
<1>11. c # d \/ imap' = imap
  BY <1>2, <1>5
<1>12. Live' = Live \ {last}
  <2>1. ASSUME NEW x \in InodeNr \X Index
        PROVE  x \in Live' <=> x \in Live /\ x # last
    <3>1. x[1] \in InodeNr /\ x[2] \in Index /\ x = <<x[1], x[2]>>
      OBVIOUS
    <3>2. CASE x[1] = d
      <4>1. InUse(d)'
        BY <1>5, <1>10, <1>11 DEF InUse
      <4>2. x \in Live' <=> x[2] < n - 1
        BY <1>5, <1>7, <3>1, <3>2, <4>1 DEF Live
      <4>3. x \in Live <=> x[2] < n
        BY <1>2, <1>5, <3>1, <3>2 DEF Live
      <4>4. x = last <=> x[2] = n - 1
        BY <1>3, <3>1, <3>2
      <4>5. x[2] \in Int
        BY <1>6, <3>1 DEF Index
      <4> QED BY <1>6, <4>2, <4>3, <4>4, <4>5
    <3>3. CASE x[1] # d
      <4>1. x # last
        BY <1>3, <3>3
      <4>2. x \in Live => InUse(x[1])'
        <5> SUFFICES ASSUME x \in Live, ~ InUse(x[1])' PROVE FALSE
          OBVIOUS
        <5>1. x[1] = c /\ imap' # imap
          BY <1>10, <3>1 DEF Live, InUse
        <5>2. itab[c].mode # DIR_FILE \/ itab[c].size = 0
          BY <5>1
        <5>3. itab[c].mode = DIR_FILE /\ itab[c].size > 0
          BY <1>1, <5>1, EntryZone
        <5> QED BY <5>2, <5>3
      <4> QED BY <1>7, <1>10, <3>1, <3>3, <4>1, <4>2 DEF Live
    <3> QED BY <3>2, <3>3
  <2> QED BY <2>1 DEF Live
<1>13. /\ Sound'
       /\ \A i : IsListed(i)' <=> IsListed(i) /\ i # c
  <2>1. x0[1] = last[1]
    BY <1>2, <1>3
  <2>2. \A x \in Live \ {last} : E(x)' = IF x = x0 THEN E(last) ELSE E(x)
    BY <1>4
  <2>3. \A i \in InodeNr : InUse(i) /\ i # E(x0).inode_nr => InUse(i)'
    BY <1>10
  <2> HIDE DEF Sound
  <2>4. /\ Sound'
        /\ \A i : IsListed(i)' <=> IsListed(i) /\ i # E(x0).inode_nr
    BY <1>4, <1>12, <2>1, <2>2, <2>3, SoundRemoved
  <2> QED BY <2>4
<1>14. Roots'
  <2>1. ROOT \in InodeNr /\ ROOT # c
    BY <1>9, Sizes DEF ROOT, InodeNr
  <2>2. itab'[ROOT].mode = itab[ROOT].mode
    BY <1>5, <1>7, <2>1
  <2> QED BY <1>10, <2>1, <2>2 DEF Roots
<1>15. Shape'
  <2>1. OneZone(itab[d])
    BY <1>5 DEF Shape
  <2>2. OneZone(itab'[d])
    BY <1>5, <1>6, <1>7, <2>1 DEF OneZone
  <2>3. \A i \in InodeNr : InUse(i)' => OneZone(itab'[i])
    BY <1>7, <1>10, <2>2 DEF Shape
  <2> QED BY <2>3 DEF Shape, OneZone
<1>16. Copies'
  <2> SUFFICES ASSUME NEW fd \in Fd, fp[fd].used, NEW i, i = fp[fd].inode_nr
               PROVE  /\ i \in InodeNr /\ InUse(i)'
                      /\ itab'[i] = fp[fd].inode
                      /\ fp[fd].inode.mode = NORMAL_FILE
    BY DEF Copies, InUse
  <2>1. /\ i \in InodeNr /\ InUse(i) /\ itab[i] = fp[fd].inode
        /\ fp[fd].inode.mode = NORMAL_FILE
    BY DEF Copies
  <2>2. i # d
    BY <1>5, <2>1 DEF NORMAL_FILE, DIR_FILE
  <2>3. InUse(i)'
    <3>1. CASE imap' = imap
      BY <2>1, <3>1 DEF InUse
    <3>2. CASE ~ Opened(c)
      BY <1>10, <2>1, <3>2 DEF Opened
    <3> QED BY <3>1, <3>2
  <2> QED BY <1>7, <2>1, <2>2, <2>3
<1>17. \A i \in InodeNr : /\ itab'[i].direct = itab[i].direct
                          /\ itab'[i].size <= itab[i].size
  <2>1. \A i \in InodeNr : itab[i].size \in Int
    BY <1>1, Sizes DEF TableOK, Inode
  <2>2. itab'[d].size <= itab[d].size /\ itab'[d].direct = itab[d].direct
    BY <1>2, <1>6, <1>7
  <2>3. \A i \in InodeNr : i # d => itab'[i] = itab[i] /\ itab[i].size <= itab[i].size
    BY <1>7, <2>1
  <2> SUFFICES ASSUME NEW i \in InodeNr
               PROVE  itab'[i].direct = itab[i].direct /\ itab'[i].size <= itab[i].size
    OBVIOUS
  <2>4. CASE i = d
    BY <2>2, <2>4
  <2>5. CASE i # d
    BY <2>3, <2>5
  <2> QED BY <2>4, <2>5
<1>18. \A i \in InodeNr : itab'[i].mode = itab[i].mode
  BY <1>5, <1>7
<1>19. Edges' = Edges \ {EdgeOf(x0)} /\ EdgeOf(x0) \in Edges
  <2>1. x0[1] = last[1]
    BY <1>2, <1>3
  <2>2. \A x \in Live \ {last} : E(x)' = IF x = x0 THEN E(last) ELSE E(x)
    BY <1>4
  <2>3. \A x \in Live : itab'[E(x).inode_nr].mode = itab[E(x).inode_nr].mode
    BY <1>18 DEF Sound
  <2> HIDE DEF Sound
  <2> QED BY <1>1, <1>4, <1>8, <1>12, <2>1, <2>2, <2>3, EdgesRemoved
<1> QED BY <1>18, <1>19, <1>4, <1>8, <1>10, <1>13, <1>14, <1>15, <1>16, <1>17

\* my_rename takes the old entry out, and has the inode in hand.
LEMMA RenameKeeps ==
  ASSUME IInv, Linked, MaxEntries < DIR_PER_BLOCK, NEW p \in Paths, NEW q \in Paths,
         my_rename(p, q)
  PROVE  IInv' /\ NoneLost /\ TreeStep
<1>1. /\ pc = "idle" /\ Found(p) /\ Room /\ UnlinkPath(p)
      /\ pc' = "rename" /\ op' = "rename" /\ cinum' = Child(p) /\ to' = q
      /\ ret' = 0
      /\ UNCHANGED <<imap, first_zero_index, zmap, last_free_zone_num, fp,
                     pinum, parent, name>>
  BY DEF my_rename, Calling, Refused
<1>2. /\ Types /\ Roots /\ Shape /\ Sound /\ Copies /\ Owning
      /\ MapsOK /\ ZonesOK /\ TableOK /\ FdOK /\ CallOK
  BY DEF IInv, Types
<1>3. PICK x0 \in Live : /\ E(x0).inode_nr = Child(p) /\ x0[1] = Parent(p)
                         /\ FirstHit(itab[Parent(p)], p[Len(p)]) = <<1, x0[2]>>
  BY <1>1, TreeHolds, FoundEntry
<1>4. Unlink(x0[1], <<1, x0[2]>>)
  BY <1>1, <1>3 DEF UnlinkPath
<1>5. PICK c : c = E(x0).inode_nr
  OBVIOUS
<1>6. /\ TableOK' /\ ZonesOK' /\ Roots' /\ Shape' /\ Sound' /\ Copies'
      /\ Edges' = Edges \ {EdgeOf(x0)} /\ EdgeOf(x0) \in Edges
      /\ \A i \in InodeNr : itab'[i].mode = itab[i].mode
      /\ \A i : IsListed(i)' <=> IsListed(i) /\ i # c
      /\ \A i \in InodeNr : InUse(i)' => InUse(i)
      /\ \A i \in InodeNr : InUse(i) => InUse(i)' \/ i = c
      /\ \A i \in InodeNr : /\ itab'[i].direct = itab[i].direct
                            /\ itab'[i].size <= itab[i].size
  <2>1. fp' = fp /\ imap' = imap
    BY <1>1
  <2> HIDE DEF Types, Roots, Shape, Sound, Copies, Owning
  <2> QED BY <1>2, <1>4, <1>5, <2>1, UnlinkLeaves
<1>7. c \in InodeNr \ {ROOT} /\ InUse(c) /\ cinum' = c
  BY <1>1, <1>2, <1>3, <1>5 DEF Sound
<1>8. Types'
  <2>1. CallOK'
    BY <1>1, <1>2, <1>7, Sizes DEF CallOK, InodeNr
  <2>2. MapsOK' /\ FdOK'
    BY <1>1, <1>2 DEF MapsOK, FdOK
  <2> QED BY <1>6, <2>1, <2>2 DEF Types
<1>9. RoomLeft'
  <2> SUFFICES ASSUME NEW i \in InodeNr, InUse(i)'
               PROVE  itab'[i].size < MaxEntries
    BY DEF RoomLeft, Room
  <2>1. itab[i].size < MaxEntries /\ itab'[i].size <= itab[i].size
    BY <1>1, <1>6 DEF Room
  <2>2. itab[i].size \in Int /\ itab'[i].size \in Int /\ MaxEntries \in Int
    BY <1>2, <1>6, Sizes DEF TableOK, Inode
  <2> QED BY <2>1, <2>2
<1>10. Owning'
  <2>1. ~ InHand /\ ~ InHand'
    BY <1>1 DEF InHand
  <2>2. imap' = imap /\ zmap' = zmap
    BY <1>1
  <2> QED BY <1>2, <1>6, <2>1, <2>2 DEF Owning, InUse
<1>11. Stage'
  <2>1. InUse(c)'
    BY <1>1, <1>7 DEF InUse
  <2>2. \A x \in Live' : E(x)'.inode_nr # c
    BY <1>6 DEF IsListed
  <2>3. Loose(cinum)'
    BY <1>7, <2>1, <2>2 DEF Loose, InUse
  <2> QED BY <1>1, <2>3 DEF Stage
<1>lost. NoneLost
  <2>1. cinum = 0 /\ 0 \notin InodeNr
    BY <1>1, Sizes DEF IInv, Stage, InodeNr
  <2> QED BY <1>6, <1>7, <2>1 DEF NoneLost
<1>tree. TreeStep
  <2>1. PICK g : g = EdgeOf(x0)
    OBVIOUS
  <2>2. g.dir = x0[1] /\ g.node = c /\ g.mode = itab[c].mode
    BY <1>5, <2>1 DEF EdgeOf
  <2>3. g.dir \in Tree!Attached
    BY <1>1, <1>3, <2>2, TreeHolds, ParentAttached
  <2>4. Moving = [node |-> 0, mode |-> 0]
    BY <1>1 DEF Moving, IInv, Stage
  <2>5. Moving' = [node |-> g.node, mode |-> g.mode]
    BY <1>1, <1>6, <1>7, <2>2 DEF Moving
  <2>6. g \in Edges \ Edges' /\ Edges' = Edges \ {g}
    BY <1>6, <2>1
  <2>7. Tree!Detach(g)
    BY <2>3, <2>4, <2>5, <2>6 DEF Tree!Detach, Tree!Nobody
  <2>8. Linked'
    BY <1>1 DEF Linked
  <2> QED BY <2>6, <2>7, <2>8 DEF TreeStep, Tree!Next
<1> QED BY <1>tree, <1>lost, <1>6, <1>8, <1>9, <1>10, <1>11 DEF IInv

\* clear_data_zones frees the one zone there is.
LEMMA ClearZones ==
  ASSUME MapsOK, NEW d \in Inode, \A k \in 2 .. NrDirect : d.direct[k] = 0,
         clear_data_zones(d)
  PROVE  /\ zmap' = zmap \ {d.direct[1] - 1}
         /\ zmap' \subseteq 0 .. ZoneBits - 1 /\ last_free_zone_num' \in Zone
         /\ last_free_zone_num' # 0 => last_free_zone_num' - 1 \notin zmap'
<1> DEFINE z == d.direct[1]
<1>1. Owned(d) = {z} \ {0}
  BY OneZoneOwned
<1>2. /\ zmap' = zmap \ {y - 1 : y \in Owned(d)}
      /\ last_free_zone_num' = IF Owned(d) = {} THEN last_free_zone_num
                               ELSE d.direct[Cardinality(Owned(d))]
  BY DEF clear_data_zones
<1>3. z \in Zone /\ zmap \subseteq 0 .. ZoneBits - 1
  BY Sizes DEF Inode, MapsOK
<1>4. CASE z = 0
  <2>1. Owned(d) = {}
    BY <1>1, <1>4
  <2>2. zmap' = zmap /\ last_free_zone_num' = last_free_zone_num /\ -1 \notin zmap
    BY <1>2, <1>3, <2>1, Sizes
  <2> QED BY <1>4, <2>2 DEF MapsOK
<1>5. CASE z # 0
  <2>1. Owned(d) = {z}
    BY <1>1, <1>5
  <2>2. Cardinality(Owned(d)) = 1
    BY <2>1, FS_Singleton
  <2>3. zmap' = zmap \ {z - 1} /\ last_free_zone_num' = z
    BY <1>2, <2>1, <2>2
  <2> QED BY <1>3, <2>3
<1> QED BY <1>4, <1>5

\* my_rmdir and my_remove: the entry, the zone and the inode go together.
LEMMA DeleteKeeps ==
  ASSUME IInv, Linked, MaxEntries < DIR_PER_BLOCK, NEW p \in Paths, Found(p), pc = "idle",
         ~ Opened(Child(p)),
         itab[Child(p)].mode # DIR_FILE \/ itab[Child(p)].size = 0,
         Delete(p)
  PROVE  IInv' /\ NoneLost /\ TreeStep
<1>1. /\ UnlinkPath(p) /\ clear_data_zones(itab[Child(p)])
      /\ IMap!free_inode(Child(p)) /\ ret' = 0
      /\ UNCHANGED <<fp, call>>
  BY DEF Delete
<1>2. /\ Types /\ Roots /\ Shape /\ Sound /\ Copies /\ Owning
      /\ MapsOK /\ ZonesOK /\ TableOK /\ FdOK /\ CallOK
  BY DEF IInv, Types
<1>3. PICK x0 \in Live : /\ E(x0).inode_nr = Child(p) /\ x0[1] = Parent(p)
                         /\ FirstHit(itab[Parent(p)], p[Len(p)]) = <<1, x0[2]>>
  BY TreeHolds, FoundEntry
<1>4. Unlink(x0[1], <<1, x0[2]>>)
  BY <1>1, <1>3 DEF UnlinkPath
<1>5. PICK c : c = E(x0).inode_nr
  OBVIOUS
<1>6. c \in InodeNr \ {ROOT} /\ InUse(c) /\ c = Child(p)
  BY <1>2, <1>3, <1>5 DEF Sound
<1>7. imap' = imap \ {c - 1} /\ IMap!free_inode(c) /\ ~ Opened(c)
      /\ (itab[c].mode # DIR_FILE \/ itab[c].size = 0)
      /\ clear_data_zones(itab[c])
  BY <1>1, <1>6 DEF IMap!free_inode
<1>8. /\ TableOK' /\ ZonesOK' /\ Roots' /\ Shape' /\ Sound' /\ Copies'
      /\ Edges' = Edges \ {EdgeOf(x0)} /\ EdgeOf(x0) \in Edges
      /\ \A i \in InodeNr : itab'[i].mode = itab[i].mode
      /\ \A i : IsListed(i)' <=> IsListed(i) /\ i # c
      /\ \A i \in InodeNr : InUse(i)' => InUse(i)
      /\ \A i \in InodeNr : InUse(i) => InUse(i)' \/ i = c
      /\ \A i \in InodeNr : itab'[i].direct = itab[i].direct
  <2>1. fp' = fp
    BY <1>1
  <2> HIDE DEF Types, Roots, Shape, Sound, Copies, Owning
  <2> QED BY <1>2, <1>4, <1>5, <1>7, <2>1, UnlinkLeaves
<1>9. ~ InUse(c)'
  BY <1>7 DEF InUse
<1>10. /\ zmap' = zmap \ {itab[c].direct[1] - 1}
       /\ zmap' \subseteq 0 .. ZoneBits - 1 /\ last_free_zone_num' \in Zone
       /\ last_free_zone_num' # 0 => last_free_zone_num' - 1 \notin zmap'
  <2>1. itab[c] \in Inode /\ \A k \in 2 .. NrDirect : itab[c].direct[k] = 0
    BY <1>2, <1>6 DEF TableOK, Shape, OneZone
  <2> QED BY <1>2, <1>7, <2>1, ClearZones
<1>11. Types'
  <2>1. /\ imap' \subseteq 0 .. InodeBits - 1 /\ first_zero_index' \in 0 .. InodeBits
        /\ first_zero_index' \notin imap'
    BY <1>2, <1>6, <1>7, FreeInode
  <2>2. MapsOK'
    BY <1>10, <2>1 DEF MapsOK
  <2>3. CallOK'
    BY <1>1, <1>2, Sizes DEF CallOK, call
  <2>4. FdOK'
    BY <1>1, <1>2 DEF FdOK
  <2> QED BY <1>8, <2>2, <2>3, <2>4 DEF Types
<1>12. pc' = "idle" /\ cinum' = cinum /\ cinum = 0 /\ op' = "none" /\ op = "none"
  BY <1>1 DEF call, IInv, Stage
<1>13. RoomLeft' /\ Stage'
  BY <1>12 DEF RoomLeft, Stage
<1>14. Owning'
  <2>1. ~ InHand /\ ~ InHand'
    BY <1>12 DEF InHand
  <2>2. \A i \in InodeNr : InUse(i)' => InUse(i) /\ i # c
    BY <1>8, <1>9
  <2>3. \A i \in InodeNr : itab'[i].direct[1] = itab[i].direct[1]
    BY <1>8
  <2>4. \A i, j \in InodeNr : InUse(i)' /\ InUse(j)' /\ i # j /\ itab'[i].direct[1] # 0
          => itab'[i].direct[1] # itab'[j].direct[1]
    BY <1>2, <2>2, <2>3 DEF Owning
  <2>5. \A i \in InodeNr : InUse(i)' /\ itab'[i].direct[1] # 0
          => itab'[i].direct[1] - 1 \in zmap'
    <3> SUFFICES ASSUME NEW i \in InodeNr, InUse(i)', itab'[i].direct[1] # 0
                 PROVE  itab[i].direct[1] - 1 \in zmap'
      BY <2>3
    <3>1. InUse(i) /\ i # c /\ itab[i].direct[1] # 0
      BY <2>2, <2>3
    <3>2. itab[i].direct[1] - 1 \in zmap /\ itab[i].direct[1] # itab[c].direct[1]
      BY <1>2, <1>6, <3>1 DEF Owning
    <3>3. itab[i].direct[1] \in Int /\ itab[c].direct[1] \in Int
      <4>1. itab[i] \in Inode /\ itab[c] \in Inode
        BY <1>2, <1>6 DEF TableOK
      <4>2. itab[i].direct[1] \in Zone /\ itab[c].direct[1] \in Zone
        BY <4>1, Sizes DEF Inode
      <4> QED BY <4>2, Sizes DEF Zone
    <3>4. itab[i].direct[1] - 1 # itab[c].direct[1] - 1
      BY <3>2, <3>3
    <3> QED BY <1>10, <3>2, <3>4
  <2>6. \A b \in zmap' : \E i \in InodeNr : InUse(i)' /\ b = itab'[i].direct[1] - 1
    <3> SUFFICES ASSUME NEW b \in zmap'
                 PROVE  \E i \in InodeNr : InUse(i)' /\ b = itab'[i].direct[1] - 1
      OBVIOUS
    <3>1. b \in zmap /\ b # itab[c].direct[1] - 1
      BY <1>10
    <3>2. PICK i \in InodeNr : InUse(i) /\ b = itab[i].direct[1] - 1
      BY <1>2, <2>1, <3>1 DEF Owning
    <3>3. i # c
      BY <3>1, <3>2
    <3> QED BY <1>8, <2>3, <3>2, <3>3
  <2> QED BY <2>1, <2>4, <2>5, <2>6 DEF Owning
<1>lost. NoneLost
  <2>1. 0 \notin InodeNr
    BY Sizes DEF InodeNr
  <2> QED BY <1>8, <1>9, <1>12, <2>1 DEF NoneLost
<1>tree. TreeStep
  <2>1. PICK g : g = EdgeOf(x0)
    OBVIOUS
  <2>2. g.dir = x0[1] /\ g.node = c
    BY <1>5, <2>1 DEF EdgeOf
  <2>3. g.dir \in Tree!Attached
    BY <1>3, <2>2, TreeHolds, ParentAttached
  <2>4. Moving' = Moving
    BY <1>12 DEF Moving
  <2>5. Tree!Leaf(c)
    <3>1. \A x \in Live : x[1] # c
      <4> SUFFICES ASSUME NEW x \in Live, x[1] = c PROVE FALSE
        OBVIOUS
      <4>1. itab[c].size > 0 /\ itab[c].mode = DIR_FILE
        BY <1>2, EntryZone
      <4> QED BY <1>7, <4>1
    <3>2. Edges = {EdgeOf(x) : x \in Live}
      BY <1>2, EdgesLive
    <3> QED BY <3>1, <3>2 DEF Tree!Leaf, EdgeOf
  <2>6. g \in Edges \ Edges' /\ Edges' = Edges \ {g}
    BY <1>8, <2>1
  <2>7. Tree!Delete(g)
    BY <2>2, <2>3, <2>4, <2>5, <2>6 DEF Tree!Delete
  <2>8. Linked'
    BY <1>12 DEF Linked
  <2> QED BY <2>6, <2>7, <2>8 DEF TreeStep, Tree!Next
<1> QED BY <1>tree, <1>lost, <1>8, <1>11, <1>13, <1>14 DEF IInv

\* my_rmdir deletes an empty directory, which no descriptor has.
LEMMA RmdirKeeps ==
  ASSUME IInv, Linked, MaxEntries < DIR_PER_BLOCK, NEW p \in Paths, my_rmdir(p)
  PROVE  IInv' /\ NoneLost /\ TreeStep
<1>1. pc = "idle" /\ Delete(p) /\ Found(p)
      /\ itab[Child(p)].mode = DIR_FILE /\ ~ itab[Child(p)].size > 0
  BY DEF my_rmdir, Calling, Refused
<1>2. Child(p) \in InodeNr
  <2>1. PICK x \in Live : E(x).inode_nr = Child(p)
    BY <1>1, TreeHolds, FoundEntry
  <2> QED BY <2>1 DEF IInv, Sound
<1>3. itab[Child(p)].size = 0
  <2>1. itab[Child(p)].size \in Nat
    BY <1>2, Sizes DEF IInv, Types, TableOK, Inode
  <2> QED BY <1>1, <2>1
<1>4. ~ Opened(Child(p))
  <2> SUFFICES ASSUME NEW fd \in Fd, fp[fd].used, fp[fd].inode_nr = Child(p)
               PROVE  FALSE
    BY DEF Opened
  <2>1. itab[Child(p)].mode = NORMAL_FILE
    BY DEF IInv, Copies
  <2> QED BY <1>1, <2>1 DEF NORMAL_FILE, DIR_FILE
<1> QED BY <1>1, <1>3, <1>4, DeleteKeeps

\* my_remove deletes a file that is not open.
LEMMA RemoveKeeps ==
  ASSUME IInv, Linked, Careful, MaxEntries < DIR_PER_BLOCK, NEW p \in Paths, my_remove(p)
  PROVE  IInv' /\ NoneLost /\ TreeStep
<1>1. pc = "idle" /\ Delete(p) /\ Found(p) /\ ~ Opened(Child(p))
      /\ itab[Child(p)].mode # DIR_FILE
  BY DEF my_remove, Calling, Refused
<1> QED BY <1>1, DeleteKeeps

\* The file system is made anew: only the root is in use, and it is empty.
LEMMA MkfsKeeps ==
  ASSUME IInv, Linked, MaxEntries < DIR_PER_BLOCK, Careful, my_mkfs
  PROVE  IInv' /\ NoneLost /\ TreeStep
<1>1. /\ pc = "idle" /\ \A fd \in Fd : ~ fp[fd].used
      /\ imap' = {ROOT - 1} /\ first_zero_index' = InodeBits
      /\ itab' = [itab EXCEPT ![ROOT] = Fresh(DIR_FILE)]
      /\ zmap' = {} /\ UNCHANGED <<last_free_zone_num, zones>>
      /\ zone0' = EmptyBlock /\ ret' = 0
      /\ UNCHANGED <<fp, call>>
  BY DEF my_mkfs, Calling, ZMap!clear_zones
<1>2. MapsOK /\ ZonesOK /\ TableOK /\ FdOK /\ CallOK
  BY DEF IInv, Types
<1>3. PICK new : new = Fresh(DIR_FILE)
  OBVIOUS
<1>4. /\ new.size = 0 /\ new.mode = DIR_FILE /\ new.mode # 0
      /\ new.direct[1] = 0 /\ \A k \in 2 .. NrDirect : new.direct[k] = 0
      /\ new \in Inode
  BY <1>3, Sizes DEF Fresh, NoZones, Inode, Zone, DIR_FILE
<1>5. ROOT \in InodeNr /\ ROOT = 1
  BY Sizes DEF ROOT, InodeNr
<1>6. itab'[ROOT] = new
  BY <1>1, <1>2, <1>3, <1>5 DEF TableOK
<1>7. \A i \in InodeNr : InUse(i)' <=> i = ROOT
  BY <1>1, <1>5, Sizes DEF InUse, InodeNr
<1>8. Live' = {}
  <2> SUFFICES ASSUME NEW x \in Live' PROVE FALSE
    OBVIOUS
  <2>1. x[1] = ROOT /\ x[2] \in Nat /\ x[2] < itab'[x[1]].size
    BY <1>7 DEF Live, Index
  <2> QED BY <1>4, <1>6, <2>1
<1>9. Types'
  <2>1. EmptyBlock \in Block
    BY Sizes DEF EmptyBlock, Block, NilEntry, Entry
  <2>2. MapsOK'
    BY <1>1, <1>2, <1>5, Sizes DEF MapsOK
  <2>3. ZonesOK'
    BY <1>1, <1>2, <2>1 DEF ZonesOK
  <2>4. TableOK'
    BY <1>1, <1>2, <1>3, <1>4 DEF TableOK
  <2>5. CallOK' /\ FdOK'
    BY <1>1, <1>2, Sizes DEF CallOK, FdOK, call
  <2> QED BY <2>2, <2>3, <2>4, <2>5 DEF Types
<1>10. Roots' /\ Shape'
  <2>1. OneZone(new)
    BY <1>4 DEF OneZone
  <2>2. \A i \in InodeNr : InUse(i)' => itab'[i] = new
    BY <1>6, <1>7
  <2>3. Shape'
    BY <2>1, <2>2 DEF Shape, OneZone
  <2>4. Roots'
    BY <1>4, <1>5, <1>6, <1>7 DEF Roots
  <2> QED BY <2>3, <2>4
<1>11. pc' = "idle" /\ cinum' = 0 /\ op' = "none"
  BY <1>1 DEF call, IInv, Stage
<1>12. RoomLeft' /\ Stage'
  BY <1>11 DEF RoomLeft, Stage
<1>13. Sound'
  BY <1>8 DEF Sound
<1>14. Copies'
  BY <1>1 DEF Copies
<1>15. Owning'
  <2>1. ~ InHand'
    BY <1>11 DEF InHand
  <2>2. zmap' = {} /\ \A i \in InodeNr : InUse(i)' => itab'[i].direct[1] = 0 /\ i = ROOT
    BY <1>1, <1>4, <1>6, <1>7
  <2> QED BY <2>1, <2>2 DEF Owning
<1>lost. NoneLost
  BY <1>7 DEF NoneLost
<1>tree. TreeStep
  <2>1. Edges' = {}
    <3>1. TableOK'
      BY <1>9 DEF Types
    <3>2. Edges' = {EdgeOf(x) : x \in Live}'
      BY <3>1, EdgesLiveNext
    <3> QED BY <1>8, <3>2
  <2>2. Moving' = [node |-> 0, mode |-> 0]
    BY <1>11 DEF Moving
  <2>3. Linked'
    BY <1>11 DEF Linked
  <2> QED BY <2>1, <2>2, <2>3 DEF TreeStep, Tree!Next, Tree!Format, Tree!Nobody
<1> QED BY <1>tree, <1>lost, <1>9, <1>10, <1>12, <1>13, <1>14, <1>15 DEF IInv

-----------------------------------------------------------------------------
(* Every step *)

\* After the first my_mkfs the root alone is in use.
LEMMA InitHolds == Init => IInv
<1> SUFFICES ASSUME Init PROVE IInv
  OBVIOUS
<1>1. NoZones \in [1 .. NrDirect -> Zone] /\ \A k \in 1 .. NrDirect : NoZones[k] = 0
  BY Sizes DEF NoZones, Zone
<1>2. Blank \in Inode /\ Fresh(DIR_FILE) \in Inode
  BY <1>1, Sizes DEF Blank, Fresh, Inode
<1>3. ROOT \in InodeNr /\ ROOT = 1
  BY Sizes DEF ROOT, InodeNr
<1>4. \A i \in InodeNr : InUse(i) <=> i = ROOT
  BY <1>3, Sizes DEF Init, InUse, InodeNr
<1>5. itab[ROOT] = Fresh(DIR_FILE)
  BY <1>3 DEF Init
<1>6. /\ itab[ROOT].mode = DIR_FILE /\ itab[ROOT].size = 0
      /\ itab[ROOT].direct = NoZones
  BY <1>5 DEF Fresh
<1>7. Live = {}
  <2> SUFFICES ASSUME NEW x \in Live PROVE FALSE
    OBVIOUS
  <2>1. x[1] = ROOT /\ x[2] \in Nat /\ x[2] < itab[x[1]].size
    BY <1>4 DEF Live, Index
  <2> QED BY <1>6, <2>1
<1>8. EmptyBlock \in Block
  BY Sizes DEF EmptyBlock, Block, NilEntry, Entry
<1>9. Types
  <2>1. MapsOK
    BY <1>3, Sizes DEF Init, MapsOK, Zone
  <2>2. ZonesOK
    BY <1>8 DEF Init, ZonesOK
  <2>3. TableOK
    BY <1>2 DEF Init, TableOK
  <2>4. FdOK
    BY <1>2, Sizes DEF Init, FdOK, Descriptor
  <2>5. CallOK
    BY <1>2, Sizes DEF Init, CallOK
  <2> QED BY <2>1, <2>2, <2>3, <2>4, <2>5 DEF Types
<1>10. Roots /\ Shape
  <2>1. OneZone(itab[ROOT])
    BY <1>1, <1>6 DEF OneZone, DIR_FILE
  <2> QED BY <1>3, <1>4, <1>6, <2>1 DEF Roots, Shape
<1>11. RoomLeft /\ Stage
  BY DEF Init, RoomLeft, Stage
<1>12. Sound /\ Copies
  BY <1>7 DEF Init, Sound, Copies
<1>13. Owning
  <2>1. \A i \in InodeNr : InUse(i) => itab[i].direct[1] = 0 /\ i = ROOT
    BY <1>1, <1>4, <1>6, Sizes
  <2> QED BY <2>1 DEF Init, Owning, InHand
<1> QED BY <1>9, <1>10, <1>11, <1>12, <1>13 DEF IInv

\* Only a rename looks at a second path.
LEMMA TargetOp ==
  ASSUME IInv, RenameTarget \/ RenameFails
  PROVE  op = "rename"
BY DEF IInv, Stage, RenameTarget, RenameFails

\* Every step keeps the invariant, loses nothing unless it is of a rename, and
\* is a step of the tree.
LEMMA NextHolds ==
  ASSUME Careful, MaxEntries < DIR_PER_BLOCK
  PROVE  IInv /\ Linked /\ [Next]_vars =>
           IInv' /\ (op # "rename" => NoneLost) /\ TreeStep
<1> DEFINE Goal == IInv' /\ (op # "rename" => NoneLost) /\ TreeStep
<1> SUFFICES ASSUME IInv, Linked, [Next]_vars PROVE Goal
  OBVIOUS
<1>1. CASE UNCHANGED vars
  <2>1. UNCHANGED <<disk, fp, call>> /\ ret' \in {0, -1}
    BY <1>1 DEF vars, IInv, Types, CallOK
  <2> QED BY <2>1, Still
<1>2. ASSUME NEW p \in Paths, NEW o \in Ops, Refuse(o, p) PROVE Goal
  BY <1>2, RefuseKeeps
<1>3. ASSUME NEW p \in Paths, my_rmdir(p) PROVE Goal
  BY <1>3, RmdirKeeps
<1>4. ASSUME NEW p \in Paths, my_remove(p) PROVE Goal
  BY <1>4, RemoveKeeps
<1>5. ASSUME NEW p \in Paths, my_open(p) PROVE Goal
  BY <1>5, OpenKeeps
<1>6. ASSUME NEW p \in Paths, NEW q \in Paths, my_rename(p, q) PROVE Goal
  BY <1>6, RenameKeeps
<1>7. ASSUME NEW p \in Paths, NEW o \in {"mkdir", "creat"}, NoInode(o, p) PROVE Goal
  BY <1>7, NoInodeKeeps
<1>8. ASSUME NEW p \in Paths, NEW o \in {"mkdir", "creat"}, NEW n \in InodeNr,
             MakeInode(o, p, n)
      PROVE  Goal
  BY <1>8, MakeInodeKeeps
<1>9. CASE RenameTarget
  BY <1>9, RenameTargetKeeps, TargetOp
<1>10. CASE RenameFails
  BY <1>10, RenameFailsKeeps, TargetOp
<1>11. CASE AddToLastZone \/ AddToNextZone
  BY <1>11, AddEntryKeeps
<1>12. CASE NoZone
  BY <1>12, NoZoneKeeps
<1>13. ASSUME NEW z \in 1 .. ZoneBits, AddZone(z) PROVE Goal
  BY <1>13, AddZoneKeeps
<1>14. CASE OpenCreated
  BY <1>14, OpenCreatedKeeps
<1>15. ASSUME NEW fd \in Fd, my_close(fd) PROVE Goal
  BY <1>15, CloseKeeps
<1>16. CASE my_mkfs
  BY <1>16, MkfsKeeps
<1> QED BY <1>1, <1>2, <1>3, <1>4, <1>5, <1>6, <1>7, <1>8, <1>9, <1>10, <1>11,
           <1>12, <1>13, <1>14, <1>15, <1>16 DEF Next

\* So the invariant holds in every behaviour.
LEMMA SpecHolds ==
  ASSUME Careful, MaxEntries < DIR_PER_BLOCK
  PROVE  Spec => [](IInv /\ Linked)
<1>1. Init => IInv /\ Linked
  BY InitHolds DEF Init, Linked
<1>2. IInv /\ Linked /\ [Next]_vars => IInv' /\ Linked'
  BY NextHolds DEF TreeStep
<1> QED BY <1>1, <1>2, PTL DEF Spec

-----------------------------------------------------------------------------
(* What follows *)

\* Every register and every table entry is of its kind (Namespace.tla: TypeOK).
THEOREM NamespaceTypeCorrect ==
  ASSUME Careful, MaxEntries < DIR_PER_BLOCK
  PROVE  Spec => []TypeOK
<1>1. IInv => TypeOK
  BY TypeParts DEF IInv
<1> QED BY <1>1, SpecHolds, PTL

\* What a directory lists is in use, not the root, and listed once.
THEOREM NamespaceEntriesSound ==
  ASSUME Careful, MaxEntries < DIR_PER_BLOCK
  PROVE  Spec => []EntriesSound
<1>1. IInv => EntriesSound
  <2> SUFFICES ASSUME IInv PROVE EntriesSound
    OBVIOUS
  <2>1. /\ LiveSlots = {<<x[1], <<1, x[2]>>>> : x \in Live}
        /\ \A x \in Live : At(<<x[1], <<1, x[2]>>>>) = E(x)
    BY LiveEntries DEF IInv, Types
  <2>2. Sound
    BY DEF IInv
  <2>3. \A u, v \in LiveSlots : u # v =>
          /\ At(u).inode_nr # At(v).inode_nr
          /\ u[1] = v[1] => At(u).name # At(v).name
    <3> SUFFICES ASSUME NEW u \in LiveSlots, NEW v \in LiveSlots, u # v
                 PROVE  /\ At(u).inode_nr # At(v).inode_nr
                        /\ u[1] = v[1] => At(u).name # At(v).name
      OBVIOUS
    <3>1. PICK x \in Live : u = <<x[1], <<1, x[2]>>>>
      BY <2>1
    <3>2. PICK y \in Live : v = <<y[1], <<1, y[2]>>>>
      BY <2>1
    <3>3. x # y /\ u[1] = x[1] /\ v[1] = y[1]
      BY <3>1, <3>2
    <3>4. At(u) = E(x) /\ At(v) = E(y)
      BY <2>1, <3>1, <3>2
    <3> QED BY <2>2, <3>3, <3>4 DEF Sound
  <2>4. \A i \in Listed : i \in InodeNr /\ i # ROOT /\ InUse(i)
    <3> SUFFICES ASSUME NEW i \in Listed
                 PROVE  i \in InodeNr /\ i # ROOT /\ InUse(i)
      OBVIOUS
    <3>1. PICK u \in LiveSlots : i = At(u).inode_nr
      BY DEF Listed
    <3>2. PICK x \in Live : u = <<x[1], <<1, x[2]>>>>
      BY <2>1
    <3>3. At(u) = E(x)
      BY <2>1, <3>2
    <3> QED BY <2>2, <3>1, <3>3 DEF Sound
  <2> QED BY <2>3, <2>4 DEF EntriesSound
<1> QED BY <1>1, SpecHolds, PTL

\* A descriptor's copy of the inode is what the table has.
THEOREM NamespaceCopiesAgree ==
  ASSUME Careful, MaxEntries < DIR_PER_BLOCK
  PROVE  Spec => []CopiesAgree
<1>1. IInv => CopiesAgree
  BY DEF IInv, Copies, CopiesAgree
<1> QED BY <1>1, SpecHolds, PTL

\* No zone in use is shared, and none leaks.
THEOREM NamespaceZonesOwned ==
  ASSUME Careful, MaxEntries < DIR_PER_BLOCK
  PROVE  Spec => []ZonesOwned
<1>1. IInv => ZonesOwned
  <2> SUFFICES ASSUME IInv PROVE ZonesOwned
    OBVIOUS
  <2> DEFINE Users == {i \in InodeNr : InUse(i)}
             Hand == IF pc = "link" THEN Owned(parent) \ Owned(itab[pinum]) ELSE {}
             U == {Owned(itab[i]) : i \in Users}
  <2>1. MapsOK /\ TableOK /\ Shape /\ Owning /\ CallOK
    BY DEF IInv, Types
  <2>2. \A i \in Users : Owned(itab[i]) = {itab[i].direct[1]} \ {0}
    BY <2>1, OneZoneOwned DEF Shape, OneZone
  <2>3. \A i \in Users : itab[i].direct[1] \in 0 .. ZoneBits
    <3> SUFFICES ASSUME NEW i \in Users PROVE itab[i].direct[1] \in 0 .. ZoneBits
      OBVIOUS
    <3>1. itab[i] \in Inode
      BY <2>1 DEF TableOK
    <3> QED BY <3>1, Sizes DEF Inode, Zone
  <2>4. Hand = IF InHand THEN {parent.direct[1]} ELSE {}
    <3>1. CASE pc = "link"
      <4>1. /\ pinum \in Users /\ \A k \in 2 .. NrDirect : parent.direct[k] = 0
            /\ itab[pinum].direct[1] \in {0, parent.direct[1]}
        BY <3>1 DEF IInv, Stage, Linking
      <4>2. Owned(parent) = {parent.direct[1]} \ {0}
        BY <4>1, OneZoneOwned
      <4>3. Owned(itab[pinum]) = {itab[pinum].direct[1]} \ {0}
        BY <2>2, <4>1
      <4>4. CASE itab[pinum].direct[1] = 0
        BY <3>1, <4>2, <4>3, <4>4 DEF InHand
      <4>5. CASE itab[pinum].direct[1] # 0
        BY <3>1, <4>1, <4>2, <4>3, <4>5 DEF InHand
      <4> QED BY <4>4, <4>5
    <3>2. CASE pc # "link"
      BY <3>2 DEF InHand
    <3> QED BY <3>1, <3>2
  <2>5. \A i, j \in Users : i # j => Owned(itab[i]) \cap Owned(itab[j]) = {}
    <3> SUFFICES ASSUME NEW i \in Users, NEW j \in Users, i # j,
                        NEW z \in Owned(itab[i]), z \in Owned(itab[j])
                 PROVE  FALSE
      OBVIOUS
    <3>1. z # 0 /\ z = itab[i].direct[1] /\ z = itab[j].direct[1]
      BY <2>2
    <3> QED BY <2>1, <3>1 DEF Owning
  <2>6. ASSUME NEW z \in 1 .. ZoneBits, z - 1 \in zmap
        PROVE  z \in UNION U \/ z \in Hand
    <3>1. CASE InHand /\ z - 1 = parent.direct[1] - 1
      <4>1. parent.direct[1] \in Zone
        BY <2>1, Sizes DEF CallOK, Inode
      <4>2. z = parent.direct[1]
        BY <3>1, <4>1, Sizes DEF Zone
      <4> HIDE DEF Hand
      <4> QED BY <2>4, <3>1, <4>2
    <3>2. CASE \E i \in InodeNr : InUse(i) /\ z - 1 = itab[i].direct[1] - 1
      <4>1. PICK i \in Users : z - 1 = itab[i].direct[1] - 1
        BY <3>2
      <4>2. z = itab[i].direct[1] /\ z # 0
        BY <2>3, <4>1, Sizes
      <4>3. z \in Owned(itab[i]) /\ Owned(itab[i]) \in U
        BY <2>2, <4>2
      <4> QED BY <4>3
    <3> QED BY <2>1, <2>6, <3>1, <3>2 DEF Owning
  <2>7. ASSUME NEW z \in UNION U
        PROVE  z \in 1 .. ZoneBits /\ z - 1 \in zmap
    <3>1. PICK i \in Users : z \in Owned(itab[i])
      OBVIOUS
    <3>2. z = itab[i].direct[1] /\ z # 0
      BY <2>2, <3>1
    <3>3. z \in 1 .. ZoneBits
      BY <2>3, <3>2, Sizes
    <3> QED BY <2>1, <3>2, <3>3 DEF Owning
  <2>8. ASSUME NEW z \in Hand
        PROVE  z \in 1 .. ZoneBits /\ z - 1 \in zmap
    <3>1. InHand /\ z = parent.direct[1]
      <4> HIDE DEF Hand
      <4> QED BY <2>4
    <3>2. z # 0 /\ z \in Zone
      BY <2>1, <3>1, Sizes DEF InHand, CallOK, Inode
    <3> QED BY <2>1, <3>1, <3>2, Sizes DEF Owning, Zone
  <2> HIDE DEF U, Hand
  <2>9. {z \in 1 .. ZoneBits : z - 1 \in zmap} = (UNION U) \cup Hand
    BY <2>6, <2>7, <2>8
  <2> QED BY <2>5, <2>9 DEF ZonesOwned, U, Hand
<1> QED BY <1>1, SpecHolds, PTL

\* An inode that no directory lists and no call has in hand, in these terms.
LEMMA OrphansListed ==
  ASSUME MaxEntries < DIR_PER_BLOCK, TableOK
  PROVE  Orphans = {i \in InodeNr \ {ROOT, cinum} : InUse(i) /\ ~ IsListed(i)}
<1>1. /\ LiveSlots = {<<x[1], <<1, x[2]>>>> : x \in Live}
      /\ \A x \in Live : At(<<x[1], <<1, x[2]>>>>) = E(x)
  BY LiveEntries
<1>2. \A i : i \in Listed <=> IsListed(i)
  <2>1. ASSUME NEW i, i \in Listed PROVE IsListed(i)
    <3>1. PICK u \in LiveSlots : i = At(u).inode_nr
      BY <2>1 DEF Listed
    <3>2. PICK x \in Live : u = <<x[1], <<1, x[2]>>>>
      BY <1>1
    <3> QED BY <1>1, <3>1, <3>2 DEF IsListed
  <2>2. ASSUME NEW i, IsListed(i) PROVE i \in Listed
    <3>1. PICK x \in Live : i = E(x).inode_nr
      BY <2>2 DEF IsListed
    <3>2. /\ <<x[1], <<1, x[2]>>>> \in LiveSlots
          /\ At(<<x[1], <<1, x[2]>>>>).inode_nr = i
      BY <1>1, <3>1
    <3> QED BY <3>2 DEF Listed
  <2> QED BY <2>1, <2>2
<1> QED BY <1>2 DEF Orphans

\* An inode is lost by a rename alone (Namespace.tla: OnlyRenameLoses).
THEOREM NamespaceOnlyRenameLoses ==
  ASSUME Careful, MaxEntries < DIR_PER_BLOCK
  PROVE  Spec => OnlyRenameLoses
<1> DEFINE A == Orphans' \subseteq Orphans \/ op = "rename"
           Lost == {i \in InodeNr \ {ROOT, cinum} : InUse(i) /\ ~ IsListed(i)}
           AreLost == TableOK => Orphans = Lost
<1>a. AreLost
  BY OrphansListed
<1>b. AreLost'
  <2> HIDE DEF AreLost
  <2> QED BY <1>a, PTL
<1>1. IInv /\ Linked /\ [Next]_vars => [A]_vars
  <2> SUFFICES ASSUME IInv, Linked, [Next]_vars, op # "rename"
               PROVE  Orphans' \subseteq Orphans
    OBVIOUS
  <2>1. IInv' /\ NoneLost
    BY NextHolds
  <2>2. TableOK /\ TableOK'
    BY <2>1 DEF IInv, Types
  <2>3. Orphans = {i \in InodeNr \ {ROOT, cinum} : InUse(i) /\ ~ IsListed(i)}
    BY <1>a, <2>2
  <2>4. Orphans' = {i \in InodeNr \ {ROOT, cinum'} : InUse(i)' /\ ~ IsListed(i)'}
    BY <1>b, <2>2
  <2> QED BY <2>1, <2>3, <2>4 DEF NoneLost
<1>2. Spec => [](IInv /\ Linked)
  BY SpecHolds
<1> QED BY <1>1, <1>2, PTL DEF Spec, OnlyRenameLoses

\* Entries in zones, inode numbers and copies make up a tree, of which every
\* call adds, deletes or moves one attached edge (Namespace.tla: ImplementsDirTree).
THEOREM NamespaceImplementsDirTree ==
  ASSUME Careful, MaxEntries < DIR_PER_BLOCK
  PROVE  Spec => ImplementsDirTree
<1>1. Init => Tree!Init
  <2> SUFFICES ASSUME Init PROVE Tree!Init
    OBVIOUS
  <2>1. TableOK /\ Roots
    BY InitHolds DEF IInv, Types
  <2>2. Live = {}
    <3> SUFFICES ASSUME NEW x \in Live PROVE FALSE
      OBVIOUS
    <3>1. x[1] \in InodeNr /\ x[1] - 1 \in {ROOT - 1} /\ x[2] \in Nat
      BY DEF Init, Live, InUse, Index
    <3>2. x[1] = ROOT
      BY <3>1, Sizes DEF InodeNr, ROOT
    <3>3. itab[x[1]].size = 0
      BY <3>1, <3>2 DEF Init, Fresh
    <3> QED BY <3>1, <3>3 DEF Live
  <2>3. Edges = {}
    BY <2>1, <2>2, EdgesLive
  <2>4. Moving = [node |-> 0, mode |-> 0]
    BY DEF Init, Moving
  <2> QED BY <2>3, <2>4 DEF Tree!Init, Tree!Nobody
<1>2. IInv /\ Linked /\ [Next]_vars => [Tree!Next]_(Tree!vars)
  BY NextHolds DEF TreeStep, Tree!vars
<1>3. Spec => [](IInv /\ Linked)
  BY SpecHolds
<1> QED BY <1>1, <1>2, <1>3, PTL DEF Spec, ImplementsDirTree, Tree!Spec
=============================================================================
