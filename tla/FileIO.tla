------------------------------- MODULE FileIO -------------------------------
(***************************************************************************)
(* Reading and writing files: src/src/file.c with the iterator of          *)
(* src/src/dz.c, on the zone map of ZoneMap.                               *)
(*                                                                         *)
(* A file is known by its inode number; names are in Namespace.  A         *)
(* descriptor has a copy of the inode, a buffer with the contents of its   *)
(* current zone, and an iterator.  A call is split at its zone operations: *)
(* one step per block of the data.                                         *)
(*                                                                         *)
(* A file here has its direct zones only, as if NR_IND1_ZONES and          *)
(* NR_IND2_ZONES were 0.                                                   *)
(***************************************************************************)
EXTENDS Integers, Sequences, FiniteSets

CONSTANTS
  Files,           \* inode numbers of files
  BLOCKSIZE,       \* bytes of a zone
  NrDirect,        \* zones of a file
  ZoneBits,        \* zone numbers: 1 .. ZoneBits
  MAX_OPEN_FILES,  \* descriptors: 0 .. MAX_OPEN_FILES-1
  Byte, Zero,      \* bytes, and the one of a cleared zone
  Junk,            \* a byte from behind the end of the client's buffer, or
                   \* from a block that is no zone
  Data,            \* what clients write: sequences of bytes
  Counts,          \* how much clients ask to read
  MaxSize,         \* bound: no write from there on, or to a file of that size
  Habits           \* what clients take care of: see WriteHabits, ReadHabits

ASSUME FileIOAssumption ==
  /\ {BLOCKSIZE, NrDirect, ZoneBits, MAX_OPEN_FILES} \subseteq Nat \ {0}
  /\ Files \subseteq Nat \ {0}
  /\ Zero \in Byte /\ Junk \notin Byte
  /\ Data \subseteq Seq(Byte) \ {<<>>}
  /\ Counts \subseteq Nat \ {0}
  /\ MaxSize \in Nat
  /\ Habits \subseteq {"append", "inside", "exclusive", "closed", "space"}

VARIABLES
  zmap, last_free_zone_num, zones,   \* zone map and zones (ZoneMap)
  itab, files,                       \* inode table; the files there are
  fp,                                \* the descriptors, with their iterators
  pc, cfd, file,                     \* stage, descriptor and file of the call
  rest, rbuf, remain, total,         \* my_write: data left to write; my_read:
                                     \* bytes read, number of bytes left; both:
                                     \* number of bytes of the whole call
  new_zone,                          \* my_write: the zone just allocated
  out                                \* what the last my_read gave

store == <<zmap, last_free_zone_num, zones>>
table == <<itab, files>>
call == <<pc, cfd, file, rest, rbuf, remain, total, new_zone>>
vars == <<store, table, fp, call, out>>

Fd == 0 .. MAX_OPEN_FILES - 1
Index == 0 .. BLOCKSIZE - 1
Block == [Index -> Byte \cup {Junk}]
EmptyBlock == [i \in Index |-> Zero]
Fresh == [size |-> 0, direct |-> [k \in 1 .. NrDirect |-> 0]]

ZMap == INSTANCE ZoneMap
          WITH bit_count <- ZoneBits, DeviceZones <- ZoneBits,
               Content <- Block, zeros <- EmptyBlock, num <- 0

\* Zone 0 would be the block in front of zone 1: the last of the zone bitmap.
read_zone(n) == IF n = 0 THEN [i \in Index |-> Junk] ELSE zones[n]

Lesser(x, y) == IF x < y THEN x ELSE y
Drop(s, n) == SubSeq(s, n + 1, Len(s))

-----------------------------------------------------------------------------
(* The iterator *)

\* dzi_make_iterator: one zone too many if the last one is exactly full.
MakeIterator(inode) ==
  [count |-> inode.size \div BLOCKSIZE + IF inode.size > 0 THEN 1 ELSE 0,
   num |-> 0, znum |-> 0, nil |-> FALSE]

\* dzi_move_to: past count + 1 nothing happens; past the last zone a file can
\* have, the place is IP_NIL and the zone is still that of before.
MoveTo(d, inode, k) ==
  IF k > d.count + 1 THEN d
  ELSE IF k > NrDirect THEN [d EXCEPT !.num = k, !.nil = TRUE]
  ELSE [d EXCEPT !.num = k, !.nil = FALSE, !.znum = inode.direct[k]]

-----------------------------------------------------------------------------
(* Habits of clients *)

Sharing(i) == {fd \in Fd : fp[fd].used /\ fp[fd].inode_nr = i}
FreeZones == {z \in 1 .. ZoneBits : z - 1 \notin zmap}

\* Starting a call where a block ends and another begins, inside a file.
AtBoundary(f) == f.offset > 0 /\ f.offset % BLOCKSIZE = 0

WriteHabits(fd, d) ==
  LET f == fp[fd]
  IN  /\ "append" \in Habits => f.offset = f.inode.size
      /\ "inside" \in Habits => ~ AtBoundary(f)
      /\ "exclusive" \in Habits => Sharing(f.inode_nr) = {fd}
      /\ "space" \in Habits => /\ Cardinality(FreeZones) * BLOCKSIZE >= Len(d)
                               /\ f.offset + Len(d) <= NrDirect * BLOCKSIZE

ReadHabits(f) ==
  "inside" \in Habits => ~ AtBoundary(f) \/ f.offset = f.inode.size

\* A file is opened when no descriptor has unsaved changes to it; it is removed
\* when none is open.
OpenHabits(i) ==
  "exclusive" \in Habits => \A fd \in Sharing(i) : fp[fd].inode = itab[i]
RemoveHabits(i) == "closed" \in Habits => Sharing(i) = {}

-----------------------------------------------------------------------------
(* Opening and closing *)

Return ==
  /\ pc' = "idle" /\ cfd' = 0 /\ file' = 0 /\ rest' = <<>> /\ rbuf' = <<>>
  /\ remain' = 0 /\ total' = 0 /\ new_zone' = 0

Unused == [used |-> FALSE, inode_nr |-> 0, inode |-> Fresh, block_nr |-> 0,
           buf |-> EmptyBlock, offset |-> 0, dzi |-> MakeIterator(Fresh)]

\* open_child: a non-empty file is positioned on its first zone.
open_child(i) ==
  IF \A fd \in Fd : fp[fd].used THEN UNCHANGED fp
  ELSE LET fd == CHOOSE f \in Fd : /\ ~ fp[f].used
                                   /\ \A g \in Fd : g < f => fp[g].used
           inode == itab[i]
           start == MakeIterator(inode)
           first == MoveTo(start, inode, 1)
           opened == [Unused EXCEPT !.used = TRUE, !.inode_nr = i,
                                    !.inode = inode]
       IN  fp' = [fp EXCEPT ![fd] =
                    IF inode.size > 0
                    THEN [opened EXCEPT !.dzi = first, !.block_nr = first.znum,
                                        !.buf = read_zone(first.znum)]
                    ELSE opened]

my_open(i) ==
  /\ pc = "idle" /\ i \in files /\ OpenHabits(i)
  /\ open_child(i)
  /\ UNCHANGED <<store, table, call, out>>

\* my_creat: the file is made, then opened.
my_creat(i) ==
  /\ pc = "idle" /\ i \notin files
  /\ itab' = [itab EXCEPT ![i] = Fresh] /\ files' = files \cup {i}
  /\ pc' = "open" /\ file' = i
  /\ UNCHANGED <<store, fp, cfd, rest, rbuf, remain, total, new_zone, out>>

OpenCreated ==
  /\ pc = "open"
  /\ open_child(file)
  /\ Return
  /\ UNCHANGED <<store, table, out>>

\* my_close of a descriptor in use: the copy of the inode is written back.
\* (What is left in the descriptor matters to a second close only, for which
\* see Namespace.)
my_close(fd) ==
  /\ pc = "idle" /\ fp[fd].used
  /\ itab' = [itab EXCEPT ![fp[fd].inode_nr] = fp[fd].inode]
  /\ fp' = [fp EXCEPT ![fd] = Unused]
  /\ UNCHANGED <<store, files, call, out>>

\* clear_data_zones over the direct zones: up to the first that is 0.
Owned(inode) == {inode.direct[k] : k \in {j \in 1 .. NrDirect :
                                     \A l \in 1 .. j : inode.direct[l] # 0}}

RemoveKeepsZones(i) ==
  /\ pc = "idle" /\ i \in files /\ RemoveHabits(i)
  /\ files' = files \ {i}
  /\ UNCHANGED <<store, itab, fp, call, out>>

my_remove(i) ==
  /\ pc = "idle" /\ i \in files /\ RemoveHabits(i)
  /\ files' = files \ {i}
  /\ LET own == Owned(itab[i])
     IN  /\ zmap' = zmap \ {z - 1 : z \in own}
         /\ last_free_zone_num' =
              IF own = {} THEN last_free_zone_num
              ELSE itab[i].direct[Cardinality(own)]
  /\ UNCHANGED <<zones, itab, fp, call, out>>

-----------------------------------------------------------------------------
(* Writing *)

\* What is left of the current block is filled first.
my_write(fd, d) ==
  LET f == fp[fd]
      zoff == f.offset % BLOCKSIZE
      cpcnt == IF f.block_nr = 0 THEN 0 ELSE Lesser(Len(d), BLOCKSIZE - zoff)
      b == [i \in Index |-> IF i \in zoff .. zoff + cpcnt - 1
                            THEN d[i - zoff + 1] ELSE f.buf[i]]
  IN  /\ pc = "idle" /\ f.used /\ WriteHabits(fd, d)
      /\ f.inode.size < MaxSize /\ f.offset < MaxSize
      /\ IF f.block_nr = 0 THEN UNCHANGED <<zones, fp>>
         ELSE /\ zones' = [zones EXCEPT ![f.block_nr] = b]
              /\ fp' = [fp EXCEPT ![fd].buf = b, ![fd].offset = @ + cpcnt]
      /\ pc' = "write" /\ cfd' = fd /\ rest' = Drop(d, cpcnt) /\ total' = Len(d)
      /\ UNCHANGED <<zmap, last_free_zone_num, table, file, rbuf, remain,
                     new_zone, out>>

Writing == pc = "write" /\ rest # <<>>
AtLastZone == fp[cfd].dzi.num = fp[cfd].dzi.count

\* Behind the last zone a new one is allocated; there may be no place for it.
NextZone(z) ==
  LET f == fp[cfd]
      moved == MoveTo(f.dzi, f.inode, f.dzi.count + 1)
  IN  /\ Writing /\ AtLastZone
      /\ ZMap!alloc_zone(z)
      /\ z # 0
      /\ IF moved.nil
         THEN /\ fp' = [fp EXCEPT ![cfd].dzi = moved]
              /\ pc' = "full"
         ELSE /\ fp' = [fp EXCEPT
                   ![cfd].inode.direct[moved.num] = z,
                   ![cfd].dzi = [moved EXCEPT !.znum = z, !.count = @ + 1]]
              /\ pc' = "block"
      /\ new_zone' = z
      /\ UNCHANGED <<table, cfd, file, rest, rbuf, remain, total, out>>

TooLongFreesOld ==
  /\ pc = "full"
  /\ ZMap!free_zone(fp[cfd].dzi.znum)
  /\ Return
  /\ UNCHANGED <<table, fp, out>>

\* The two returns in the middle leave the size as it was.
TooLong ==
  /\ pc = "full"
  /\ ZMap!free_zone(new_zone)
  /\ Return
  /\ UNCHANGED <<table, fp, out>>

NoSpaceRetries ==
  /\ Writing /\ AtLastZone
  /\ ZMap!alloc_zone(0)
  /\ UNCHANGED <<table, fp, call, out>>

NoSpace ==
  /\ Writing /\ AtLastZone
  /\ ZMap!alloc_zone(0)
  /\ Return
  /\ UNCHANGED <<table, fp, out>>

OldZone ==
  /\ Writing /\ ~ AtLastZone
  /\ fp' = [fp EXCEPT ![cfd].dzi =
              MoveTo(@, fp[cfd].inode, fp[cfd].dzi.num + 1)]
  /\ pc' = "block"
  /\ UNCHANGED <<store, table, cfd, file, rest, rbuf, remain, total, new_zone, out>>

\* A whole zone is written from the client's buffer, however little of it is
\* data.  If that is zone 0 it is the zone bitmap: the model stops.
WriteBlock ==
  LET z == fp[cfd].dzi.znum
      cpcnt == Lesser(Len(rest), BLOCKSIZE)
      b == [i \in Index |-> IF i < cpcnt THEN rest[i+1] ELSE Junk]
  IN  /\ pc = "block"
      /\ IF z = 0
         THEN pc' = "ruined" /\ UNCHANGED <<zones, fp, rest>>
         ELSE /\ zones' = [zones EXCEPT ![z] = b]
              /\ fp' = [fp EXCEPT ![cfd].block_nr = z, ![cfd].offset = @ + cpcnt]
              /\ rest' = Drop(rest, cpcnt) /\ pc' = "write"
      /\ UNCHANGED <<zmap, last_free_zone_num, table, cfd, file, rbuf, remain,
                     total, new_zone, out>>

WriteDoneKeepsBuffer ==
  /\ pc = "write" /\ rest = <<>>
  /\ fp' = [fp EXCEPT ![cfd].inode.size = @ + total]
  /\ Return
  /\ UNCHANGED <<store, table, out>>

\* The size grows by the whole count, wherever the data went.
WriteDone ==
  /\ pc = "write" /\ rest = <<>>
  /\ fp' = [fp EXCEPT ![cfd].buf = read_zone(fp[cfd].block_nr),
                      ![cfd].inode.size = @ + total]
  /\ Return
  /\ UNCHANGED <<store, table, out>>

-----------------------------------------------------------------------------
(* Reading *)

ReadWholeBlock(fd, n) ==
  LET f == fp[fd]
      zoff == f.offset % BLOCKSIZE
      acount == Lesser(n, f.inode.size - f.offset)
      cpcnt == BLOCKSIZE - zoff
  IN  /\ pc = "idle" /\ f.used /\ ReadHabits(f) /\ acount > 0
      /\ pc' = "read" /\ cfd' = fd /\ total' = acount
      /\ rbuf' = [i \in 1 .. cpcnt |-> f.buf[zoff + i - 1]]
      /\ remain' = acount - cpcnt
      /\ UNCHANGED <<store, table, fp, file, rest, new_zone, out>>

\* At the end of the file nothing is read.  Past it the count to copy is
\* negative, and memcpy takes it for a huge one.
my_read(fd, n) ==
  LET f == fp[fd]
      zoff == f.offset % BLOCKSIZE
      acount == Lesser(n, f.inode.size - f.offset)
      cpcnt == Lesser(acount, BLOCKSIZE - zoff)
  IN  /\ pc = "idle" /\ f.used /\ ReadHabits(f)
      /\ f.offset # f.inode.size
      /\ IF acount < 0
         THEN pc' = "crashed" /\ UNCHANGED <<cfd, rbuf, remain, total>>
         ELSE /\ pc' = "read" /\ cfd' = fd /\ total' = acount
              /\ rbuf' = [i \in 1 .. cpcnt |-> f.buf[zoff + i - 1]]
              /\ remain' = acount - cpcnt
      /\ UNCHANGED <<store, table, fp, file, rest, new_zone, out>>

ReadBlockForever ==
  LET f == fp[cfd]
      moved == MoveTo(f.dzi, f.inode, f.dzi.num + 1)
  IN  /\ pc = "read" /\ remain > 0
      /\ fp' = [fp EXCEPT ![cfd].dzi = moved, ![cfd].block_nr = moved.znum]
      /\ UNCHANGED <<store, table, call, out>>

ReadBlock ==
  LET f == fp[cfd]
      moved == MoveTo(f.dzi, f.inode, f.dzi.num + 1)
      b == read_zone(moved.znum)
      cpcnt == Lesser(remain, BLOCKSIZE)
  IN  /\ pc = "read" /\ remain > 0
      /\ fp' = [fp EXCEPT ![cfd].dzi = moved, ![cfd].block_nr = moved.znum,
                          ![cfd].buf = b]
      /\ rbuf' = rbuf \o [i \in 1 .. cpcnt |-> b[i-1]]
      /\ remain' = remain - cpcnt
      /\ UNCHANGED <<store, table, pc, cfd, file, rest, total, new_zone, out>>

ReadDone ==
  /\ pc = "read" /\ remain = 0
  /\ fp' = [fp EXCEPT ![cfd].offset = @ + total]
  /\ out' = rbuf
  /\ Return
  /\ UNCHANGED <<store, table>>

-----------------------------------------------------------------------------

Init ==
  /\ zmap = {} /\ last_free_zone_num = 0
  /\ zones = [z \in 1 .. ZoneBits |-> EmptyBlock]
  /\ itab = [i \in Files |-> Fresh] /\ files = {}
  /\ fp = [fd \in Fd |-> Unused]
  /\ pc = "idle" /\ cfd = 0 /\ file = 0 /\ rest = <<>> /\ rbuf = <<>>
  /\ remain = 0 /\ total = 0 /\ new_zone = 0
  /\ out = <<>>

\* The next step of a call under way.
Continue ==
  \/ OpenCreated
  \/ \E z \in 1 .. ZoneBits : NextZone(z)
  \/ TooLong \/ NoSpace \/ OldZone \/ WriteBlock \/ WriteDone
  \/ ReadBlock \/ ReadDone

Next ==
  \/ \E i \in Files : my_open(i) \/ my_creat(i) \/ my_remove(i)
  \/ \E fd \in Fd : \/ my_close(fd)
                    \/ \E d \in Data : my_write(fd, d)
                    \/ \E n \in Counts : my_read(fd, n)
  \/ Continue

Spec == Init /\ [][Next]_vars

\* A call waits for nothing but the zones it reads and writes; clients may
\* stop calling at any time.
FairSpec == Spec /\ WF_vars(Continue)

-----------------------------------------------------------------------------
(* Properties *)

\* Every variable is of its kind.
TypeOK ==
  LET Zone == 0 .. ZoneBits
      Inode == [size : Nat, direct : [1 .. NrDirect -> Zone]]
      Iterator == [count : Nat, num : Nat, znum : Zone, nil : BOOLEAN]
  IN  /\ ZMap!TypeOK
      /\ itab \in [Files -> Inode] /\ files \subseteq Files
      /\ fp \in [Fd -> [used : BOOLEAN, inode_nr : Files \cup {0},
                        inode : Inode, block_nr : Zone, buf : Block,
                        offset : Nat, dzi : Iterator]]
      /\ pc \in {"idle", "open", "write", "block", "full", "read", "crashed",
               "ruined"}
      /\ cfd \in Fd /\ file \in Files \cup {0} /\ new_zone \in Zone
      /\ rest \in Seq(Byte) /\ rbuf \in Seq(Byte \cup {Junk})
      /\ remain \in Nat /\ total \in Nat

\* The inode of a file as its users see it: an open one's is in a descriptor.
Current(i) == IF Sharing(i) = {} THEN itab[i]
              ELSE fp[CHOOSE fd \in Sharing(i) : TRUE].inode

\* No zone belongs to two files, and the zones in use are those of the files:
\* also between the steps of a write, when only the copy knows the new zone.
ZonesOwned ==
  LET InHand == IF pc = "full" THEN {new_zone} ELSE {}
  IN  /\ \A i, j \in files : i # j =>
            Owned(Current(i)) \cap Owned(Current(j)) = {}
      /\ {z \in 1 .. ZoneBits : z - 1 \in zmap}
           = (UNION {Owned(Current(i)) : i \in files}) \cup InHand

\* The zones named by any of the inodes a file has: the one of the table and the
\* copies of its descriptors, which differ as soon as two of them write.
Claimed(i) == Owned(itab[i])
                \cup UNION {Owned(fp[fd].inode) : fd \in Sharing(i)}

\* No zone a file has in the table or in the copy of any descriptor is marked
\* free or claimed by a second file, when writes fail for want of space and
\* when descriptors of one file write by turns, with copies that know nothing of
\* each other: no later allocation hands out a zone that holds data.
ZonesHeld ==
  /\ \A i, j \in files : i # j => Claimed(i) \cap Claimed(j) = {}
  /\ \A i \in files : \A z \in Claimed(i) : z - 1 \in zmap

\* The zones of a file change only in a step of a call on that file: however
\* far behind its own file a descriptor is, it writes to no zone of another.
OthersUntouched ==
  [][\A i \in files :
       (\E z \in Claimed(i) : zones'[z] # zones[z])
         => \E fd \in Sharing(i) : fp'[fd] # fp[fd]]_vars

Bytes(inode) ==
  [i \in 1 .. inode.size |->
     read_zone(inode.direct[(i-1) \div BLOCKSIZE + 1])[(i-1) % BLOCKSIZE]]

Contents(i) == Bytes(Current(i))

Position(fd) ==
  [file |-> fp[fd].inode_nr,
   offset |-> IF pc \in {"write", "block", "full"} /\ cfd = fd
              THEN fp[fd].offset - (total - Len(rest)) ELSE fp[fd].offset]

AllContents == [i \in files |-> Contents(i)]
Positions == [fd \in {g \in Fd : fp[g].used} |-> Position(fd)]

Store == INSTANCE FileStore
  WITH Fds <- Fd, content <- AllContents, pos <- Positions

\* Blocks written through buffers and zones that are recycled add up to
\* files: what is read is what was written, at every position, across
\* closing, reopening, removing and reusing zones.
ImplementsFiles == Store!Spec

\* The loops of my_read and my_write end, whether the data fits, the disk is
\* full or the file is as long as it can be.
EveryCallReturns == pc # "idle" ~> pc \in {"idle", "crashed", "ruined"}

-----------------------------------------------------------------------------
(* What comments and assertions of the code say and the code does not do *)

\* file.c:180, "Return bytes actually written": they are in the file, so no
\* descriptor is behind the end of it.
OffsetInFile ==
  pc = "idle" => \A fd \in Fd : fp[fd].used => fp[fd].offset <= fp[fd].inode.size

\* file.c:127, "Return bytes actually read": those of the file from the
\* offset on.
ReadIsFile ==
  pc = "read" /\ remain = 0 =>
    rbuf = SubSeq(Bytes(fp[cfd].inode), fp[cfd].offset + 1, fp[cfd].offset + total)

\* file.c:205, "Copy buf to the remaining of the current block": what is in
\* the file already is not written to by a client that appends.
AppendKeepsOld ==
  [][\A i \in files \cap files' : \A k \in 1 .. Current(i).size :
       (Contents(i)')[k] = Contents(i)[k]]_vars

\* zone.c:67: a zone that is read is a zone.
ReadZonePresent ==
  \A fd \in Fd : fp[fd].used /\ fp[fd].inode.size > 0 => fp[fd].block_nr # 0

\* file.c:266, "Write back inode to update filesize": closing a descriptor
\* takes nothing off a file.
CloseKeepsSize ==
  [][\A i \in files \cap files' : itab[i].size <= itab'[i].size]_vars
=============================================================================
