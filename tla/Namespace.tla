----------------------------- MODULE Namespace ------------------------------
(***************************************************************************)
(* Directories, paths and descriptors: src/src/path.c, src/src/dir.c and   *)
(* the my_open, my_creat and my_close of src/src/file.c, on the inode and  *)
(* zone maps of InodeMap and ZoneMap.                                      *)
(*                                                                         *)
(* The library runs one call at a time.  A call that adds an entry takes   *)
(* several steps: the inode, perhaps a zone, the entry, the descriptor; a  *)
(* rename takes the entry out before it looks where to put it.             *)
(*                                                                         *)
(* A directory's size is counted in entries, and a zone holds              *)
(* DIR_PER_BLOCK of them.  zone0 is the block in front of the first data   *)
(* zone, which read_zone(0) and write_zone(0) reach.  Files have no data   *)
(* here, and a directory stays within its direct zones.                    *)
(***************************************************************************)
EXTENDS Integers, Sequences, FiniteSets

CONSTANTS
  Names,           \* well-formed path components
  NoName,          \* an empty or over-long component; the name of no entry
  Paths,           \* the paths clients use, each a sequence of components;
                   \* "/", and a path not from the root, is <<NoName>>
  DIR_PER_BLOCK,   \* entries of a zone
  NrDirect,        \* direct zones of an inode
  InodeBits,       \* inode numbers: 1 .. InodeBits
  ZoneBits,        \* zone numbers: 1 .. ZoneBits
  MAX_OPEN_FILES,  \* descriptors: 0 .. MAX_OPEN_FILES-1
  JunkEntries,     \* what dir_entry_buf[-1] may read as
  MaxEntries,      \* bound: no entry is added while a directory has so many
  Calls,           \* the library functions clients call
  Careful          \* clients do not remove, format or close behind the
                   \* back of an open descriptor

NORMAL_FILE == 1
DIR_FILE == 2
ROOT == 1

Entry == [inode_nr : 0 .. InodeBits, name : Names \cup {NoName}]

ASSUME NamespaceAssumption ==
  /\ NoName \notin Names
  /\ Paths \subseteq Seq(Names \cup {NoName}) \ {<<>>}
  /\ {DIR_PER_BLOCK, NrDirect, InodeBits, ZoneBits, MAX_OPEN_FILES}
       \subseteq Nat \ {0}
  /\ JunkEntries \subseteq Entry
  /\ \A e \in JunkEntries : e.inode_nr = 0 => e.name = NoName
  /\ MaxEntries \in 1 .. NrDirect * DIR_PER_BLOCK - 1
  /\ Calls \subseteq {"mkfs", "mkdir", "rmdir", "remove", "rename", "open",
                      "creat", "close"}
  /\ Careful \in BOOLEAN

VARIABLES
  imap, first_zero_index,               \* inode map (InodeMap)
  zmap, last_free_zone_num, zones,      \* zone map and zones (ZoneMap)
  zone0,                                \* the block in front of zone 1
  itab,                                 \* the inode table
  fp,                                   \* the descriptors
  pc, op,                               \* stage and name of the call
  pinum, parent, cinum, name,           \* the globals of path.c it keeps
  to,                                   \* second path of a rename
  ret                                   \* -1 if the last call failed

disk == <<imap, first_zero_index, zmap, last_free_zone_num, zones, zone0, itab>>
call == <<pc, op, pinum, parent, cinum, name, to>>
vars == <<disk, fp, call, ret>>

InodeNr == 1 .. InodeBits
Fd == 0 .. MAX_OPEN_FILES - 1
Index == 0 .. DIR_PER_BLOCK - 1
NilEntry == [inode_nr |-> 0, name |-> NoName]
EmptyBlock == [i \in Index |-> NilEntry]
Block == [Index -> Entry]
NoZones == [k \in 1 .. NrDirect |-> 0]
Blank == [mode |-> 0, size |-> 0, direct |-> NoZones]

\* make_inode
Fresh(m) == [mode |-> m, size |-> 0, direct |-> NoZones]

IMap == INSTANCE InodeMap
          WITH bit_count <- InodeBits, ninodes <- InodeBits, num <- 0
ZMap == INSTANCE ZoneMap
          WITH bit_count <- ZoneBits, DeviceZones <- ZoneBits,
               Content <- Block, zeros <- EmptyBlock, num <- 0

InUse(i) == i - 1 \in imap

-----------------------------------------------------------------------------
(* Directory zones, as the iterator of dz.c visits them. *)

\* dzi.count: one too many when the last zone is exactly full.
Count(d) == d.size \div DIR_PER_BLOCK + IF d.size > 0 THEN 1 ELSE 0

\* dzi.asize, in entries, at zone k
ASize(d, k) == IF k = Count(d) THEN d.size % DIR_PER_BLOCK ELSE DIR_PER_BLOCK

read_zone(n) == IF n = 0 THEN zone0 ELSE zones[n]

write_zone(n, b) ==
  IF n = 0 THEN zone0' = b /\ UNCHANGED zones
  ELSE zones' = [zones EXCEPT ![n] = b] /\ UNCHANGED zone0

Slots(d) == {s \in (1 .. Count(d)) \X Index : s[2] < ASize(d, s[1])}
EntryAt(d, s) == read_zone(d.direct[s[1]])[s[2]]
Hits(d, n) == {s \in Slots(d) : EntryAt(d, s).name = n}
Before(s, t) == s[1] < t[1] \/ (s[1] = t[1] /\ s[2] < t[2])

\* find_dir_entry_in_parent: the first entry of that name
FirstHit(d, n) ==
  CHOOSE s \in Hits(d, n) : \A t \in Hits(d, n) : t = s \/ Before(s, t)

\* The walk of last_dir, component by component: the inode found, -1 for
\* "no such entry", -2 once the path cannot be followed.
Walk(p) ==
  LET Node[k \in 0 .. Len(p)] ==
        IF k = 0 THEN ROOT
        ELSE LET i == Node[k-1]
             IN  IF i < 0 \/ p[k] = NoName THEN -2
                 ELSE IF k > 1 /\ itab[i].mode # DIR_FILE THEN -2
                 ELSE IF Hits(itab[i], p[k]) = {} THEN -1
                 ELSE EntryAt(itab[i], FirstHit(itab[i], p[k])).inode_nr
  IN  Node

Child(p) == Walk(p)[Len(p)]
Parent(p) == Walk(p)[Len(p) - 1]
Found(p) == Child(p) > 0
Missing(p) == Child(p) = -1

-----------------------------------------------------------------------------
(* Calls *)

\* The globals mean nothing between calls: every call sets them first.
Return(r) ==
  /\ pc' = "idle" /\ op' = "none" /\ pinum' = 0 /\ parent' = Blank
  /\ cinum' = 0 /\ name' = NoName /\ to' = <<>>
  /\ ret' = r

\* MaxEntries bounds the model: a call that may add an entry is made while
\* every directory has fewer.
Room == \A i \in InodeNr : InUse(i) => itab[i].size < MaxEntries

Opened(i) == \E fd \in Fd : fp[fd].used /\ fp[fd].inode_nr = i

Calling(o) == pc = "idle" /\ o \in Calls

RmdirOfAnything(o, p) ==
  CASE o \in {"mkdir", "creat"}  -> ~ Missing(p)
    [] o \in {"rename", "rmdir"} -> ~ Found(p)
    [] o \in {"remove", "open"}  -> Found(p) => itab[Child(p)].mode = DIR_FILE

\* What each call checks before it does anything.
Refused(o, p) ==
  LET child == itab[Child(p)]
  IN  CASE o \in {"mkdir", "creat"}  -> ~ Missing(p)
        [] o = "rename"              -> ~ Found(p)
        [] o = "rmdir"               -> Found(p) => child.mode # DIR_FILE \/ child.size > 0
        [] o \in {"remove", "open"}  -> Found(p) => child.mode = DIR_FILE

Refuse(o, p) ==
  /\ Calling(o) /\ Refused(o, p)
  /\ ret' = -1
  /\ UNCHANGED <<disk, fp, call>>

-----------------------------------------------------------------------------
(* Taking an entry out *)

UnlinkPastTheLast(d, s) ==
  LET zone == itab[d].direct[s[1]]
      b == read_zone(zone)
  IN  /\ write_zone(zone, [b EXCEPT ![s[2]] = b[ASize(itab[d], s[1])]])
      /\ itab' = [itab EXCEPT ![d].size = @ - 1]

\* remove_dir_entry_from_parent, entry s of directory d: the last entry takes
\* its place.  If that is in another zone which counts no entries, the word
\* in front of the buffer is taken for it.
Unlink(d, s) ==
  LET dir == itab[d]
      k == Count(dir)
      zone == dir.direct[s[1]]
      b == read_zone(zone)
      Last == IF zone = dir.direct[k] THEN {b[ASize(dir, s[1]) - 1]}
              ELSE IF ASize(dir, k) = 0 THEN JunkEntries
              ELSE {read_zone(dir.direct[k])[ASize(dir, k) - 1]}
  IN  /\ \E last \in Last : write_zone(zone, [b EXCEPT ![s[2]] = last])
      /\ itab' = [itab EXCEPT ![d].size = @ - 1]

UnlinkPath(p) == Unlink(Parent(p), FirstHit(itab[Parent(p)], p[Len(p)]))

\* clear_data_zones over the direct zones: up to the first that is 0.
Owned(d) == {d.direct[k] : k \in {j \in 1 .. NrDirect :
                                    \A l \in 1 .. j : d.direct[l] # 0}}
ClearNothing(d) == UNCHANGED <<zmap, last_free_zone_num>>
clear_data_zones(d) ==
  /\ zmap' = zmap \ {z - 1 : z \in Owned(d)}
  /\ last_free_zone_num' = IF Owned(d) = {} THEN last_free_zone_num
                           ELSE d.direct[Cardinality(Owned(d))]

Delete(p) ==
  /\ UnlinkPath(p)
  /\ clear_data_zones(itab[Child(p)])
  /\ IMap!free_inode(Child(p))
  /\ ret' = 0
  /\ UNCHANGED <<fp, call>>

my_rmdir(p) ==
  /\ Calling("rmdir") /\ ~ Refused("rmdir", p)
  /\ Delete(p)

my_remove(p) ==
  /\ Calling("remove") /\ ~ Refused("remove", p)
  /\ Careful => ~ Opened(Child(p))
  /\ Delete(p)

\* my_rename takes the old entry out before it looks at the new path.
my_rename(p, q) ==
  /\ Calling("rename") /\ ~ Refused("rename", p) /\ Room
  /\ UnlinkPath(p)
  /\ pc' = "rename" /\ op' = "rename" /\ cinum' = Child(p) /\ to' = q
  /\ ret' = 0
  /\ UNCHANGED <<imap, first_zero_index, zmap, last_free_zone_num, fp,
                 pinum, parent, name>>

-----------------------------------------------------------------------------
(* Putting an entry in *)

\* parent and name are set for add_dir_entry_to_parent.
Target(p) ==
  /\ pc' = "link"
  /\ pinum' = Parent(p) /\ parent' = itab[Parent(p)] /\ name' = p[Len(p)]

\* my_mkdir and my_creat: an inode for the new name.
MakeInode(o, p, n) ==
  /\ Calling(o) /\ ~ Refused(o, p) /\ Room
  /\ IMap!alloc_inode(n)
  /\ n # 0
  /\ itab' = [itab EXCEPT ![n] =
                Fresh(IF o = "mkdir" THEN DIR_FILE ELSE NORMAL_FILE)]
  /\ Target(p)
  /\ op' = o /\ cinum' = n /\ ret' = 0
  /\ UNCHANGED <<zmap, last_free_zone_num, zones, zone0, fp, to>>

NoInode(o, p) ==
  /\ Calling(o) /\ ~ Refused(o, p)
  /\ IMap!alloc_inode(0)
  /\ ret' = -1
  /\ UNCHANGED <<zmap, last_free_zone_num, zones, zone0, itab, fp, call>>

\* The second walk of my_rename: it fails on an existing name and on a path
\* that cannot be followed, and the entry taken out stays out.
RenameTarget ==
  /\ pc = "rename" /\ Missing(to)
  /\ Target(to)
  /\ UNCHANGED <<disk, fp, op, cinum, to, ret>>

RenameFails ==
  /\ pc = "rename" /\ ~ Missing(to)
  /\ Return(-1)
  /\ UNCHANGED <<disk, fp>>

PutBlock(k, i) ==
  /\ write_zone(parent.direct[k],
                [read_zone(parent.direct[k]) EXCEPT ![i] =
                    [inode_nr |-> cinum, name |-> name]])
  /\ itab' = [itab EXCEPT ![pinum] =
                [parent EXCEPT !.size = @ + DIR_PER_BLOCK]]
  /\ IF op = "creat" THEN /\ pc' = "open"
                          /\ UNCHANGED <<op, pinum, parent, cinum, name, to, ret>>
     ELSE Return(0)
  /\ UNCHANGED <<imap, first_zero_index, zmap, last_free_zone_num, fp>>

\* The entry goes to index i of zone k of parent; then creat opens the file.
PutEntry(k, i) ==
  /\ write_zone(parent.direct[k],
                [read_zone(parent.direct[k]) EXCEPT ![i] =
                    [inode_nr |-> cinum, name |-> name]])
  /\ itab' = [itab EXCEPT ![pinum] = [parent EXCEPT !.size = @ + 1]]
  /\ IF op = "creat" THEN /\ pc' = "open"
                          /\ UNCHANGED <<op, pinum, parent, cinum, name, to, ret>>
     ELSE Return(0)
  /\ UNCHANGED <<imap, first_zero_index, zmap, last_free_zone_num, fp>>

\* add_dir_entry_to_parent: the last zone of the count is not full ...
LastZoneHasRoom ==
  Count(parent) > 0 /\ ASize(parent, Count(parent)) < DIR_PER_BLOCK

AddToLastZone ==
  /\ pc = "link" /\ LastZoneHasRoom
  /\ PutEntry(Count(parent), ASize(parent, Count(parent)))

\* ... or the zone after it is used, which may be there already ...
AddToNextZone ==
  /\ pc = "link" /\ ~ LastZoneHasRoom
  /\ parent.direct[Count(parent) + 1] # 0
  /\ PutEntry(Count(parent) + 1, 0)

\* ... and otherwise is allocated and put into parent by dzi_redirect.
AddZone(z) ==
  /\ pc = "link" /\ ~ LastZoneHasRoom
  /\ parent.direct[Count(parent) + 1] = 0
  /\ ZMap!alloc_zone(z)
  /\ z # 0
  /\ parent' = [parent EXCEPT !.direct[Count(parent) + 1] = z]
  /\ UNCHANGED <<imap, first_zero_index, zone0, itab, fp,
                 pc, op, pinum, cinum, name, to, ret>>

NoZoneKeepsInode ==
  /\ pc = "link" /\ ~ LastZoneHasRoom
  /\ parent.direct[Count(parent) + 1] = 0
  /\ ZMap!alloc_zone(0)
  /\ Return(-1)
  /\ UNCHANGED <<imap, first_zero_index, zone0, itab, fp>>

\* No zone is left: a new inode is given back, a renamed one is not.
NoZone ==
  /\ pc = "link" /\ ~ LastZoneHasRoom
  /\ parent.direct[Count(parent) + 1] = 0
  /\ ZMap!alloc_zone(0)
  /\ IF op = "rename" THEN UNCHANGED <<imap, first_zero_index>>
     ELSE IMap!free_inode(cinum)
  /\ Return(-1)
  /\ UNCHANGED <<zone0, itab, fp>>

-----------------------------------------------------------------------------
(* Descriptors *)

OpenReused(i) ==
  /\ fp' = [fp EXCEPT ![0] = [used |-> TRUE, inode_nr |-> i,
                              inode |-> fp[0].inode]]
  /\ Return(0)

\* open_child: the lowest unused descriptor gets a copy of the inode.
open_child(i) ==
  IF \A fd \in Fd : fp[fd].used
  THEN Return(-1) /\ UNCHANGED fp
  ELSE LET fd == CHOOSE f \in Fd : /\ ~ fp[f].used
                                   /\ \A g \in Fd : g < f => fp[g].used
       IN  /\ fp' = [fp EXCEPT ![fd] = [used |-> TRUE, inode_nr |-> i,
                                        inode |-> itab[i]]]
           /\ Return(0)

my_open(p) ==
  /\ Calling("open") /\ ~ Refused("open", p)
  /\ open_child(Child(p))
  /\ UNCHANGED disk

\* The last step of my_creat.
OpenCreated ==
  /\ pc = "open"
  /\ open_child(cinum)
  /\ UNCHANGED disk

\* The copy is written back before the descriptor is looked at.  One that
\* was never used has number 0, which no block of the device holds.
my_close(fd) ==
  /\ Calling("close") /\ (Careful => fp[fd].used)
  /\ itab' = [i \in InodeNr |->
                IF i = fp[fd].inode_nr THEN fp[fd].inode ELSE itab[i]]
  /\ fp' = [fp EXCEPT ![fd].used = FALSE]
  /\ ret' = IF fp[fd].used THEN 0 ELSE -1
  /\ UNCHANGED <<imap, first_zero_index, zmap, last_free_zone_num, zones, zone0,
                 call>>

MkfsKeepsRoot ==
  /\ Calling("mkfs") /\ (Careful => \A fd \in Fd : ~ fp[fd].used)
  /\ imap' = {ROOT - 1} /\ first_zero_index' = InodeBits
  /\ ZMap!clear_zones
  /\ zone0' = EmptyBlock
  /\ ret' = 0
  /\ UNCHANGED <<itab, fp, call>>

\* The maps are cleared and the root is made; the last block of the zone
\* map, which is zone0, is cleared with them.  Descriptors stay.
my_mkfs ==
  /\ Calling("mkfs") /\ (Careful => \A fd \in Fd : ~ fp[fd].used)
  /\ imap' = {ROOT - 1} /\ first_zero_index' = InodeBits
  /\ itab' = [itab EXCEPT ![ROOT] = Fresh(DIR_FILE)]
  /\ ZMap!clear_zones
  /\ zone0' = EmptyBlock
  /\ ret' = 0
  /\ UNCHANGED <<fp, call>>

-----------------------------------------------------------------------------

\* After the first my_mkfs on a blank device.
Init ==
  /\ imap = {ROOT - 1} /\ first_zero_index = InodeBits
  /\ zmap = {} /\ last_free_zone_num = 0
  /\ zones = [z \in 1 .. ZoneBits |-> EmptyBlock] /\ zone0 = EmptyBlock
  /\ itab = [i \in InodeNr |-> IF i = ROOT THEN Fresh(DIR_FILE) ELSE Blank]
  /\ fp = [fd \in Fd |-> [used |-> FALSE, inode_nr |-> 0, inode |-> Blank]]
  /\ pc = "idle" /\ op = "none" /\ pinum = 0 /\ parent = Blank
  /\ cinum = 0 /\ name = NoName /\ to = <<>>
  /\ ret = 0

Ops == {"mkdir", "rmdir", "remove", "rename", "open", "creat"}

Next ==
  \/ \E p \in Paths :
        \/ \E o \in Ops : Refuse(o, p)
        \/ my_rmdir(p) \/ my_remove(p) \/ my_open(p)
        \/ \E q \in Paths : my_rename(p, q)
        \/ \E o \in {"mkdir", "creat"} :
              NoInode(o, p) \/ \E n \in InodeNr : MakeInode(o, p, n)
  \/ RenameTarget \/ RenameFails
  \/ AddToLastZone \/ AddToNextZone \/ NoZone
  \/ \E z \in 1 .. ZoneBits : AddZone(z)
  \/ OpenCreated
  \/ \E fd \in Fd : my_close(fd)
  \/ my_mkfs

Spec == Init /\ [][Next]_vars

-----------------------------------------------------------------------------
(* Properties *)

\* Every register and every table entry is of its kind.
TypeOK ==
  LET Inode == [mode : {0, NORMAL_FILE, DIR_FILE}, size : 0 .. MaxEntries,
                direct : [1 .. NrDirect -> 0 .. ZoneBits]]
  IN  /\ IMap!TypeOK /\ ZMap!TypeOK
      /\ zone0 \in Block
      /\ itab \in [InodeNr -> Inode]
      /\ fp \in [Fd -> [used : BOOLEAN, inode_nr : 0 .. InodeBits, inode : Inode]]
      /\ pc \in {"idle", "rename", "link", "open"}
      /\ op \in {"none", "mkdir", "creat", "rename"}
      /\ pinum \in 0 .. InodeBits /\ cinum \in 0 .. InodeBits
      /\ parent \in Inode
      /\ name \in Names \cup {NoName} /\ to \in Paths \cup {<<>>}
      /\ ret \in {0, -1}

Dirs == {d \in InodeNr : InUse(d) /\ itab[d].mode = DIR_FILE}
LiveSlots == {x \in Dirs \X ((1 .. NrDirect) \X Index) : x[2] \in Slots(itab[x[1]])}
At(x) == EntryAt(itab[x[1]], x[2])
Listed == {At(x).inode_nr : x \in LiveSlots}

\* The directories list every inode at most once and a name at most once per
\* directory, the inodes listed are in use, and the root is not listed:
\* through all swaps of entries, reuse of inode numbers and of zones.
EntriesSound ==
  /\ \A x, y \in LiveSlots : x # y =>
       /\ At(x).inode_nr # At(y).inode_nr
       /\ x[1] = y[1] => At(x).name # At(y).name
  /\ \A i \in Listed : i \in InodeNr /\ i # ROOT /\ InUse(i)

\* Every zone in use belongs to one inode in use, or is on its way to it in
\* parent, and to no second one: none is shared and none leaks.
ZonesOwned ==
  LET Users == {i \in InodeNr : InUse(i)}
      InHand == IF pc = "link" THEN Owned(parent) \ Owned(itab[pinum]) ELSE {}
  IN  /\ \A i, j \in Users : i # j => Owned(itab[i]) \cap Owned(itab[j]) = {}
      /\ {z \in 1 .. ZoneBits : z - 1 \in zmap}
           = (UNION {Owned(itab[i]) : i \in Users}) \cup InHand

\* An inode in use that no directory lists, and no call has in hand.
Orphans == {i \in InodeNr \ {ROOT, cinum} : InUse(i) /\ i \notin Listed}

\* Only a rename makes an inode unreachable for good: a mkdir or creat that
\* fails, at whatever point, gives back the inode it took.
OnlyRenameLoses == [][Orphans' \subseteq Orphans \/ op = "rename"]_vars

\* While clients respect open descriptors, the copy a descriptor will write
\* back when it is closed is what the table holds, for an inode in use.
CopiesAgree ==
  \A fd \in Fd : fp[fd].used =>
     /\ InUse(fp[fd].inode_nr)
     /\ itab[fp[fd].inode_nr] = fp[fd].inode

Edge(x) == [dir |-> x[1], name |-> At(x).name, node |-> At(x).inode_nr,
            mode |-> itab[At(x).inode_nr].mode]

Edges == {Edge(x) : x \in LiveSlots}
Moving == IF op # "rename" THEN [node |-> 0, mode |-> 0]
          ELSE [node |-> cinum, mode |-> itab[cinum].mode]

Tree == INSTANCE DirTree
  WITH Root <- ROOT, Nodes <- InodeNr, Dir <- DIR_FILE,
       tree <- Edges, moving <- Moving

\* Entries packed into zones with swap-on-remove, inode numbers from a
\* bitmap with a hint and stale descriptor copies make up a tree: every call
\* adds, deletes or moves exactly one named edge of the attached part.
ImplementsDirTree == Tree!Spec

-----------------------------------------------------------------------------
(* What comments and assertions of the code say and the code does not do *)

\* dir.c:139: a my_rename that answers -1 has failed, so the file or
\* directory it was called for is still in some directory.
FailedRenameKeepsEntry ==
  [][op = "rename" /\ ret' = -1 => cinum \in Listed']_vars

\* file.c:81: -1 from my_creat means that the creation failed.
FailedCreatMakesNothing ==
  [][op = "creat" /\ ret' = -1 => cinum \notin Listed']_vars

\* file.c:263: -1 from my_close means that closing failed; nothing has been
\* written into the inode table.
FailedCloseWritesNothing ==
  [][\A fd \in Fd : my_close(fd) /\ ret' = -1 => UNCHANGED itab]_vars

\* inode.c:110: an inode that is written is in use.
ClosedInodeInUse ==
  [][\A fd \in Fd : my_close(fd) /\ fp[fd].used => InUse(fp[fd].inode_nr)]_vars

\* path.c:26: the zones of a directory that are looked at are there.
DirectoryZonesPresent ==
  \A d \in Dirs, k \in 1 .. NrDirect :
     k <= Count(itab[d]) => itab[d].direct[k] # 0

\* path.c:121: an entry is added to those of the parent.
AddKeepsEntries == [][pc = "link" => Listed \subseteq Listed']_vars
=============================================================================
