----------------------------- MODULE DataZones ------------------------------
(***************************************************************************)
(* The data zones of a file: src/src/dz.c, driven by my_read, my_write and *)
(* the other calls of src/src/file.c, on the zone map of ZoneMap.          *)
(*                                                                         *)
(* Block k of a file is in a direct zone, or in one named by the index     *)
(* zone ind1, or in one named by an index zone which ind2 names.  Moving   *)
(* an iterator builds the index zones that are missing, one step each, and *)
(* may find no zone for them.  An iterator keeps copies of the two index   *)
(* zones it used last.                                                     *)
(*                                                                         *)
(* Data is written and read by blocks here, bytes are in FileIO: the size  *)
(* of a file is that of its blocks, the last of which is never exactly     *)
(* full.  A my_write fills up the current block, adds any number of blocks *)
(* and then raises the size by all of them, unless no zone is left for one *)
(* of them: then it returns with the size as it was.  A my_read is a       *)
(* ReadOn for each block it goes on to.                                    *)
(*                                                                         *)
(* All clients here append: see Appending.  What my_write does in the      *)
(* middle of a file, at the maximum size (IP_NIL) and behind the size, and *)
(* what my_read does there, is in FileIO.                                  *)
(***************************************************************************)
EXTENDS Integers, FiniteSets

CONSTANTS
  Files,            \* inode numbers of files
  MAX_OPEN_FILES,   \* descriptors: 0 .. MAX_OPEN_FILES-1
  NR_DIRECT_ZONES,
  U32_PER_BLOCK,    \* words of a zone
  ZoneBits,         \* zone numbers: 1 .. ZoneBits
  BLOCKSIZE, Tail,  \* bytes of a zone; bytes of a last zone, always: asize
                    \* is a number that can be taken for that of a zone
  Data,             \* what clients write as block 1, 2, ...: blocks of
                    \* data, as the words they would read as
  MaxBlocks,        \* bound, for each file: no block is added to that many
  Once,             \* bound: files that are not made again once written
  Habits            \* what clients take care of: see Short, WriteHabits,
                    \* OpenHabits, RemoveHabits

NR_IND1_ZONES == U32_PER_BLOCK
NR_IND2_ZONES == U32_PER_BLOCK * U32_PER_BLOCK

Fd == 0 .. MAX_OPEN_FILES - 1
Number == 1 .. ZoneBits
Word == 0 .. U32_PER_BLOCK - 1
Table == [Word -> 0 .. ZoneBits]
EmptyTable == [w \in Word |-> 0]

ASSUME DataZonesAssumption ==
  /\ {NR_DIRECT_ZONES, U32_PER_BLOCK, ZoneBits, MAX_OPEN_FILES}
       \subseteq Nat \ {0}
  /\ Files \subseteq Nat \ {0}
  /\ BLOCKSIZE \in Number /\ Tail \in 1 .. BLOCKSIZE - 1
  /\ MaxBlocks \in
       [Files -> 0 .. NR_DIRECT_ZONES + NR_IND1_ZONES + NR_IND2_ZONES]
  /\ Data \in [1 .. NR_DIRECT_ZONES + NR_IND1_ZONES + NR_IND2_ZONES
                 -> SUBSET Table]
  /\ Once \subseteq Files
  /\ Habits \subseteq {"short", "exclusive", "closed"}

VARIABLES
  zmap, last_free_zone_num, zones,   \* zone map and zones (ZoneMap)
  itab, files,                       \* inode table; the files there are
  fp,                                \* the descriptors, with their iterators
  pc, doing, cfd, new_zone,          \* stage, purpose, descriptor of the call
                                     \* and the zone it has allocated for data
  out,                               \* the block my_read gave, until the next
                                     \* call
  spoiled                            \* files a call about which was refused
                                     \* an index zone, or a data zone after
                                     \* others (for the properties)

store == <<zmap, last_free_zone_num, zones>>
table == <<itab, files>>
call == <<pc, doing, cfd, new_zone>>
vars == <<store, table, fp, call, out, spoiled>>

Fresh == [blocks |-> 0, direct |-> [k \in 1 .. NR_DIRECT_ZONES |-> 0],
          ind1 |-> 0, ind2 |-> 0]

ZMap == INSTANCE ZoneMap
          WITH bit_count <- ZoneBits, DeviceZones <- ZoneBits,
               Content <- Table, zeros <- EmptyTable, num <- 0

-----------------------------------------------------------------------------
(* The iterator.  Index -1 of a 32-bit u32_t array is the word before it:  *)
(* asize lies before zbuf1, and znum2 after zbuf2 (dz.h:41-49).            *)

\* Zone 0, the last block of the zone bitmap, is never looked into here.
read_zone(n) == IF n \in Number THEN zones[n] ELSE EmptyTable

zbuf1_at(d, i) == IF i = -1 THEN d.asize ELSE d.zbuf1[i]
zbuf2_at(d, i) == IF i = U32_PER_BLOCK THEN d.znum2 ELSE d.zbuf2[i]

\* dzi_make_iterator
MakeIterator(inode) ==
  [count |-> inode.blocks, num |-> 0, place |-> "direct", index |-> 0,
   index2 |-> 0, znum |-> 0, asize |-> 0, znum1 |-> 0, zbuf1 |-> EmptyTable,
   znum2 |-> 0, zbuf2 |-> EmptyTable]

\* dzi_move_to, as far as the place of block k.
Placed(d, k) ==
  LET need == k - NR_DIRECT_ZONES - NR_IND1_ZONES
      at == [d EXCEPT !.num = k, !.asize = IF k = d.count THEN Tail ELSE BLOCKSIZE]
  IN  IF k <= NR_DIRECT_ZONES
      THEN [at EXCEPT !.place = "direct", !.index = k - 1]
      ELSE IF need <= 0
      THEN [at EXCEPT !.place = "ind1", !.index = k - NR_DIRECT_ZONES - 1]
      ELSE [at EXCEPT !.place = "ind2",
                      !.index2 = need \div NR_IND1_ZONES,
                      !.index = (need % NR_IND1_ZONES) - 1]

ReadNever(d, n) == [d EXCEPT !.znum1 = n]

\* read_at_znum1, read_at_znum2
ReadAt1(d, n) == IF d.znum1 = n THEN d
                 ELSE [d EXCEPT !.zbuf1 = read_zone(n), !.znum1 = n]
ReadAt2(d, n) == IF d.znum2 = n THEN d
                 ELSE [d EXCEPT !.zbuf2 = read_zone(n), !.znum2 = n]

\* The index zone the place needs and the inode does not have.
Missing(d, inode) ==
  CASE d.place = "ind1" /\ inode.ind1 = 0 -> "ind1"
    [] d.place = "ind2" /\ inode.ind2 = 0 -> "ind2"
    [] /\ d.place = "ind2" /\ inode.ind2 # 0
       /\ zbuf2_at(ReadAt2(d, inode.ind2), d.index2) = 0 -> "table"
    [] OTHER -> "none"

\* The end of dzi_move_to, with every index zone there.  A word that is 0
\* makes it fail and leaves znum as it was.
Arrived(d, inode) ==
  LET d2 == IF d.place = "ind2" THEN ReadAt2(d, inode.ind2) ELSE d
      d1 == CASE d.place = "direct" -> d
              [] d.place = "ind1" -> ReadAt1(d, inode.ind1)
              [] d.place = "ind2" -> ReadAt1(d2, zbuf2_at(d2, d.index2))
      n == IF d.place = "direct" THEN inode.direct[d.index + 1]
           ELSE zbuf1_at(d1, d.index)
  IN  IF d.place # "direct" /\ n = 0 THEN d1 ELSE [d1 EXCEPT !.znum = n]

-----------------------------------------------------------------------------
(* Habits of clients *)

Sharing(i) == {fd \in Fd : fp[fd].used /\ fp[fd].inode_nr = i}

\* A file ends before the first block that dz.c:81 puts at index -1.
Short(k) ==
  "short" \in Habits =>
     k < NR_DIRECT_ZONES + NR_IND1_ZONES + U32_PER_BLOCK

\* Clients write at the end of a file, where the iterator is on the last block
\* (the habits append and inside of FileIO): not behind the end, where a
\* my_write that was cut short leaves the offset.
AtLastZone(fd) == fp[fd].dzi.num = fp[fd].dzi.count
Appending(fd) == AtLastZone(fd) /\ ~ fp[fd].past

\* A file is written through its only descriptor, and opened when no descriptor
\* has unsaved changes to it; it is removed when none is open.
WriteHabits(fd) == "exclusive" \in Habits => Sharing(fp[fd].inode_nr) = {fd}
OpenHabits(i) ==
  "exclusive" \in Habits => \A fd \in Sharing(i) : fp[fd].inode = itab[i]
RemoveHabits(i) == "closed" \in Habits => Sharing(i) = {}

-----------------------------------------------------------------------------
(* Opening, closing, removing *)

Unused == [used |-> FALSE, inode_nr |-> 0, inode |-> Fresh, past |-> FALSE,
           dzi |-> MakeIterator(Fresh)]

my_creat(i) ==
  /\ pc = "idle" /\ i \notin files /\ (i \in Once => itab[i] = Fresh)
  /\ itab' = [itab EXCEPT ![i] = Fresh] /\ files' = files \cup {i}
  /\ out' = <<>>
  /\ UNCHANGED <<store, fp, call, spoiled>>

\* The lowest unused descriptor is positioned on block 1, if there is one.
my_open(i) ==
  /\ pc = "idle" /\ i \in files /\ OpenHabits(i)
  /\ \E fd \in Fd :
        /\ ~ fp[fd].used /\ \A g \in Fd : g < fd => fp[g].used
        /\ LET start == MakeIterator(itab[i])
           IN  fp' = [fp EXCEPT ![fd] =
                        [used |-> TRUE, inode_nr |-> i, inode |-> itab[i],
                         past |-> FALSE,
                         dzi |-> IF itab[i].blocks = 0 THEN start
                                 ELSE Arrived(Placed(start, 1), itab[i])]]
  /\ out' = <<>>
  /\ UNCHANGED <<store, table, call, spoiled>>

my_close(fd) ==
  /\ pc = "idle" /\ fp[fd].used
  /\ itab' = [itab EXCEPT ![fp[fd].inode_nr] = fp[fd].inode]
  /\ fp' = [fp EXCEPT ![fd] = Unused]
  /\ out' = <<>>
  /\ UNCHANGED <<store, files, call, spoiled>>

\* The words of an index zone up to the first that is 0.
Prefix(t) == {w \in Word : \A u \in 0 .. w : t[u] # 0}
Named(t) == {t[w] : w \in Prefix(t)}

\* The index zones ind2 names, up to the first with a word that is 0.
Groups(t) ==
  {t[w] : w \in {v \in Prefix(t) : \A u \in 0 .. v - 1 :
                                      Prefix(read_zone(t[u])) = Word}}

DirectPrefix(inode) ==
  {k \in 1 .. NR_DIRECT_ZONES : \A l \in 1 .. k : inode.direct[l] # 0}

ClearedButInd2(inode) ==
  LET direct == {inode.direct[k] : k \in DirectPrefix(inode)}
      ind1 == {inode.ind1} \cup Named(read_zone(inode.ind1))
  IN  IF DirectPrefix(inode) # 1 .. NR_DIRECT_ZONES \/ inode.ind1 = 0 THEN direct
      ELSE direct \cup ind1

\* The zones clear_data_zones frees ...
Cleared(inode) ==
  LET direct == {inode.direct[k] : k \in DirectPrefix(inode)}
      ind1 == {inode.ind1} \cup Named(read_zone(inode.ind1))
      groups == Groups(read_zone(inode.ind2))
      ind2 == {inode.ind2} \cup groups \cup UNION {Named(read_zone(t)) : t \in groups}
  IN  IF DirectPrefix(inode) # 1 .. NR_DIRECT_ZONES \/ inode.ind1 = 0 THEN direct
      ELSE IF inode.ind2 = 0 THEN direct \cup ind1
      ELSE direct \cup ind1 \cup ind2

\* ... and the one it frees last.
ClearedLast(inode) ==
  IF DirectPrefix(inode) # 1 .. NR_DIRECT_ZONES
  THEN inode.direct[Cardinality(DirectPrefix(inode))]
  ELSE IF inode.ind1 = 0 THEN inode.direct[NR_DIRECT_ZONES]
  ELSE IF inode.ind2 = 0 THEN inode.ind1 ELSE inode.ind2

my_remove(i) ==
  /\ pc = "idle" /\ i \in files /\ RemoveHabits(i)
  /\ files' = files \ {i}
  /\ zmap' = zmap \ {z - 1 : z \in Cleared(itab[i])}
  /\ last_free_zone_num' = IF Cleared(itab[i]) = {} THEN last_free_zone_num
                           ELSE ClearedLast(itab[i])
  /\ out' = <<>>
  /\ UNCHANGED <<zones, itab, fp, call, spoiled>>

-----------------------------------------------------------------------------
(* Moving *)

\* my_read goes on to the next block: there is one.
ReadOn(fd) ==
  /\ pc = "idle" /\ fp[fd].used /\ fp[fd].dzi.num < fp[fd].inode.blocks
  /\ fp' = [fp EXCEPT ![fd].dzi = Placed(@, @.num + 1)]
  /\ pc' = "move" /\ doing' = "read" /\ cfd' = fd
  /\ out' = <<>>
  /\ UNCHANGED <<store, table, new_zone, spoiled>>

\* What a client writes ends within the bounds.
Room(fd) == /\ fp[fd].dzi.count < MaxBlocks[fp[fd].inode_nr]
            /\ Short(fp[fd].dzi.count + 1)

\* my_write fills up the current block first, if there is one.
my_write(fd) ==
  LET n == fp[fd].dzi.znum
  IN  /\ pc = "idle" /\ fp[fd].used /\ Appending(fd) /\ WriteHabits(fd)
      /\ IF n = 0 THEN Room(fd) /\ UNCHANGED store
         ELSE \E b \in Data[fp[fd].dzi.num] : ZMap!write_zone(n, b)
      /\ pc' = "write" /\ doing' = "add" /\ cfd' = fd
      /\ out' = <<>>
      /\ UNCHANGED <<table, fp, new_zone, spoiled>>

\* Then there is data left for another block, behind the last.
Writing == pc = "write" /\ AtLastZone(cfd) /\ Room(cfd)

\* A zone for the data, and a move to the place it will have.
AddBlock(z) ==
  /\ Writing
  /\ ZMap!alloc_zone(z)
  /\ z # 0
  /\ fp' = [fp EXCEPT ![cfd].dzi = Placed(@, @.count + 1)]
  /\ pc' = "move" /\ new_zone' = z
  /\ UNCHANGED <<table, doing, cfd, out, spoiled>>

Moving == pc = "move"
Lacks(what) == Missing(fp[cfd].dzi, fp[cfd].inode) = what

BuildInd1(z) ==
  /\ Moving /\ Lacks("ind1")
  /\ ZMap!alloc_zone(z)
  /\ z # 0
  /\ fp' = [fp EXCEPT ![cfd].inode.ind1 = z]
  /\ UNCHANGED <<table, call, out, spoiled>>

BuildInd2(z) ==
  /\ Moving /\ Lacks("ind2")
  /\ ZMap!alloc_zone(z)
  /\ z # 0
  /\ fp' = [fp EXCEPT ![cfd].inode.ind2 = z]
  /\ UNCHANGED <<table, call, out, spoiled>>

\* The new table is entered into the copy of ind2, which is then saved.
BuildTable(z) ==
  /\ Moving /\ Lacks("table")
  /\ ZMap!alloc_zone(z)
  /\ z # 0
  /\ LET d == ReadAt2(fp[cfd].dzi, fp[cfd].inode.ind2)
     IN  fp' = [fp EXCEPT ![cfd].dzi = [d EXCEPT !.zbuf2[d.index2] = z]]
  /\ pc' = "save"
  /\ UNCHANGED <<table, doing, cfd, new_zone, out, spoiled>>

SaveTable ==
  /\ pc = "save"
  /\ ZMap!write_zone(fp[cfd].dzi.znum2, fp[cfd].dzi.zbuf2)
  /\ pc' = "move"
  /\ UNCHANGED <<table, fp, doing, cfd, new_zone, out, spoiled>>

\* No zone is left for an index zone: dzi_move_to answers -1, which its
\* callers do not look at.
NoIndexZone ==
  /\ Moving /\ ~ Lacks("none")
  /\ ZMap!alloc_zone(0)
  /\ fp' = [fp EXCEPT ![cfd].dzi = IF Lacks("table")
                                  THEN ReadAt2(@, fp[cfd].inode.ind2) ELSE @]
  /\ pc' = "moved" /\ spoiled' = spoiled \cup {fp[cfd].inode_nr}
  /\ UNCHANGED <<table, doing, cfd, new_zone, out>>

Arrive ==
  /\ Moving /\ Lacks("none")
  /\ fp' = [fp EXCEPT ![cfd].dzi = Arrived(@, fp[cfd].inode)]
  /\ pc' = "moved"
  /\ UNCHANGED <<store, table, doing, cfd, new_zone, out, spoiled>>

-----------------------------------------------------------------------------
(* Reading and writing *)

ReturnKeepsPurpose ==
  pc' = "idle" /\ cfd' = 0 /\ new_zone' = 0 /\ UNCHANGED doing

Return == pc' = "idle" /\ doing' = "none" /\ cfd' = 0 /\ new_zone' = 0

ReadBlock ==
  /\ pc = "moved" /\ doing = "read"
  /\ out' = read_zone(fp[cfd].dzi.znum)
  /\ Return
  /\ UNCHANGED <<store, table, fp, spoiled>>

RedirectedUnsaved(d, n) == [d EXCEPT !.znum = n]

\* dzi_redirect puts the new zone into the inode or into the copy of the
\* index zone, which it saves.
Redirected(d, n) ==
  CASE d.place = "direct" -> [d EXCEPT !.znum = n]
    [] d.place # "direct" /\ d.index = -1 -> [d EXCEPT !.znum = n, !.asize = n]
    [] OTHER -> [d EXCEPT !.znum = n, !.zbuf1[d.index] = n]

\* The end of the loop in my_write.  With no index zone at all the copy is
\* written to zone 0, over the last block of the zone bitmap; the model
\* stops there.
WriteBlock ==
  LET d == fp[cfd].dzi
      new == Redirected(d, new_zone)
      saved == IF d.place = "direct" THEN zones
               ELSE [zones EXCEPT ![d.znum1] = new.zbuf1]
  IN  /\ pc = "moved" /\ doing = "add"
      /\ IF d.place # "direct" /\ d.znum1 = 0
         THEN pc' = "ruined" /\ UNCHANGED <<zones, fp, new_zone>>
         ELSE /\ \E b \in Data[d.num] : zones' = [saved EXCEPT ![new_zone] = b]
              /\ fp' = [fp EXCEPT
                   ![cfd].dzi = [new EXCEPT !.count = @ + 1],
                   ![cfd].inode.direct = IF d.place # "direct" THEN @
                                         ELSE [@ EXCEPT ![d.index + 1] = new_zone]]
              /\ pc' = "write" /\ new_zone' = 0
      /\ UNCHANGED <<zmap, last_free_zone_num, table, doing, cfd, out, spoiled>>

\* No zone is left for the data: my_write returns with the size as it was, but
\* the offset behind what it has written, and the iterator and the inode ahead
\* by the blocks it has added.
NoDataZone ==
  LET f == fp[cfd]
  IN  /\ Writing
      /\ ZMap!alloc_zone(0)
      /\ fp' = [fp EXCEPT ![cfd].past = f.dzi.znum # 0]
      /\ spoiled' = IF f.dzi.count = f.inode.blocks THEN spoiled
                    ELSE spoiled \cup {f.inode_nr}
      /\ Return
      /\ UNCHANGED <<table, out>>

\* All data is written: the size grows by as much.
WriteDone ==
  /\ pc = "write" /\ fp[cfd].dzi.znum # 0
  /\ fp' = [fp EXCEPT ![cfd].inode.blocks = fp[cfd].dzi.count]
  /\ Return
  /\ UNCHANGED <<store, table, out, spoiled>>

-----------------------------------------------------------------------------

Init ==
  /\ zmap = {} /\ last_free_zone_num = 0
  /\ zones = [z \in Number |-> EmptyTable]
  /\ itab = [i \in Files |-> Fresh] /\ files = {}
  /\ fp = [fd \in Fd |-> Unused]
  /\ pc = "idle" /\ doing = "none" /\ cfd = 0 /\ new_zone = 0
  /\ out = <<>> /\ spoiled = {}

Next ==
  \/ \E i \in Files : my_creat(i) \/ my_open(i) \/ my_remove(i)
  \/ \E fd \in Fd : my_close(fd) \/ ReadOn(fd) \/ my_write(fd)
  \/ \E z \in Number : \/ AddBlock(z)
                        \/ BuildInd1(z) \/ BuildInd2(z) \/ BuildTable(z)
  \/ SaveTable \/ NoIndexZone \/ Arrive \/ ReadBlock
  \/ WriteBlock \/ NoDataZone \/ WriteDone

Spec == Init /\ [][Next]_vars

-----------------------------------------------------------------------------
(* Properties *)

\* Every variable is of its kind, and those of a call are set during one.
TypeOK ==
  LET Zone == 0 .. ZoneBits
      Inode == [blocks : Nat, direct : [1 .. NR_DIRECT_ZONES -> Zone],
                ind1 : Zone, ind2 : Zone]
      Iterator == [count : Nat, num : Nat,
                   place : {"direct", "ind1", "ind2"},
                   index : Word \cup (-1 .. NR_DIRECT_ZONES - 1),
                   index2 : 0 .. U32_PER_BLOCK,
                   znum : Zone, asize : Zone,
                   znum1 : Zone, zbuf1 : Table, znum2 : Zone, zbuf2 : Table]
  IN  /\ ZMap!TypeOK
      /\ itab \in [Files -> Inode] /\ files \subseteq Files
      /\ fp \in [Fd -> [used : BOOLEAN, inode_nr : Files \cup {0},
                        inode : Inode, past : BOOLEAN, dzi : Iterator]]
      /\ pc \in {"idle", "write", "move", "save", "moved", "ruined"}
      /\ doing \in {"none", "read", "add"} /\ cfd \in Fd /\ new_zone \in Zone
      /\ doing = "none" <=> pc = "idle"
      /\ new_zone # 0 <=> doing = "add" /\ pc # "write"
      /\ out \in Table \cup {<<>>} /\ spoiled \subseteq Files

\* The inode of a file as its users see it: an open one's is in a descriptor.
Current(i) == IF Sharing(i) = {} THEN itab[i]
              ELSE fp[CHOOSE fd \in Sharing(i) : TRUE].inode

\* All the zones that can be reached from an inode.
Words(n) == IF n = 0 THEN {} ELSE {zones[n][w] : w \in Word} \ {0}
Owned(inode) ==
  ({inode.direct[k] : k \in 1 .. NR_DIRECT_ZONES} \cup {inode.ind1, inode.ind2}
    \cup Words(inode.ind1) \cup Words(inode.ind2)
    \cup UNION {Words(t) : t \in Words(inode.ind2)}) \ {0}

\* Zones a call has allocated that are not reached yet.
InHand == ({new_zone} \ {0})
          \cup IF pc = "save" THEN {fp[cfd].dzi.zbuf2[fp[cfd].dzi.index2]} ELSE {}

\* No zone is reached from two files, the zones of a file are in use, and
\* the zones in use are those of the files, index zones included, and what the
\* call under way has in hand: none leaks when a file with index zones grows,
\* is closed and is removed.  That none leaks holds as long as no call was
\* refused an index zone, or a data zone after it had added others: after
\* closing, the next append enters other zones in their place.
ZonesOwned ==
  LET InUse == {z \in Number : z - 1 \in zmap}
      All == UNION {Owned(Current(i)) : i \in files}
  IN  /\ \A i, j \in files : i # j =>
            Owned(Current(i)) \cap Owned(Current(j)) = {}
      /\ All \subseteq InUse
      /\ spoiled = {} => InUse = All \cup InHand

\* The copies of index zones an iterator goes by are what is in those zones
\* (but where a call was refused a zone in the middle: after that even a read
\* may build them).
IndexCopiesAgree ==
  \A fd \in Fd : fp[fd].used /\ fp[fd].inode_nr \notin spoiled =>
    LET d == fp[fd].dzi
    IN  /\ d.znum1 # 0 => d.zbuf1 = zones[d.znum1]
        /\ d.znum2 # 0 /\ ~ (pc = "save" /\ cfd = fd) => d.zbuf2 = zones[d.znum2]

\* The zone of block k, worked out from the three ranges.
ZoneOf(inode, k) ==
  LET k1 == k - NR_DIRECT_ZONES - 1
      k2 == k1 - NR_IND1_ZONES
      word(n, w) == IF n = 0 THEN 0 ELSE zones[n][w]
  IN  IF k1 < 0 THEN inode.direct[k]
      ELSE IF k2 < 0 THEN word(inode.ind1, k1)
      ELSE word(word(inode.ind2, k2 \div U32_PER_BLOCK), k2 % U32_PER_BLOCK)

\* A my_write under way has the blocks it has added in the iterator's count.
Length(i) == IF doing = "add" /\ fp[cfd].inode_nr = i THEN fp[cfd].dzi.count
             ELSE Current(i).blocks

Contents(i) ==
  IF i \in spoiled THEN <<>>
  ELSE [k \in 1 .. Length(i) |-> read_zone(ZoneOf(Current(i), k))]

Position(fd) ==
  LET i == fp[fd].inode_nr
  IN  [file |-> i,
       at |-> IF i \in spoiled THEN 0
              ELSE fp[fd].dzi.num - IF pc \notin {"idle", "write"} /\ cfd = fd
                                    THEN 1 ELSE 0]

Promised == INSTANCE BlockFile
  WITH Fds <- Fd, Data <- UNION {Data[k] : k \in DOMAIN Data},
       content <- [i \in files |-> Contents(i)],
       cursor <- [fd \in {g \in Fd : fp[g].used} |-> Position(fd)]

\* Direct zones, index zones and copies of them add up to files: block k that
\* is read is block k that was written, whichever of the ranges it is in,
\* through other calls, closing, removing and the reuse of zones.  When a call
\* is refused an index zone, or a data zone after others, the file it is about
\* is the only one that suffers; when the first data zone is refused, none is.
ImplementsBlocks == Promised!Spec

-----------------------------------------------------------------------------
(* What comments of the code say and the code does not do *)

\* dz.c:36, "Move the iterator to the zone at the specified number": where
\* it has arrived is that block of the file.
MovedToNumber ==
  pc = "moved" /\ doing = "read" =>
    fp[cfd].dzi.znum = ZoneOf(fp[cfd].inode, fp[cfd].dzi.num)

\* dz.c:130, "Clear all data zones owned by the inode": what a removed file
\* could reach is free.
RemoveFreesAll ==
  [][\A i \in files \ files' :
       \A z \in Owned(itab[i]) : z - 1 \notin zmap']_vars
=============================================================================
