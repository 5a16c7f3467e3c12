# p5fs in TLA+

A verification project for p5fs, a small Minix-3-like file system in C: a
library, `src/src/*.c`, over one simulated device. The modules here are written
from that code; file and line references are to `src/src/` unless they say
otherwise.

## 1. The system

The library has no threads, no callbacks from outside and no messages. A client
calls `my_mkfs`, `my_mkdir`, `my_open`, ... one at a time and every call runs to
its end. What makes the code hard is state that outlives a call or is handed
from function to function in globals:

* hints that name "the next free" inode or zone;
* a write-back cache below everything;
* descriptors with private copies of an inode, of a block and of an iterator;
* the globals of `path.c` (`parent`, `child`, `dir_entry_index`, ...) that one
  search leaves for a later change;
* calls of several steps that can fail between two of them.

There is no mount: every session begins with `my_mkfs`, and the cache is never
flushed. A program that ends, in the middle of a call or between two, leaves a
device on which any block may be older than another; nothing is recovered from
it, and what has to hold is that the next `my_mkfs` makes an empty file system
over whatever it finds (`Layout`).

A client may stop calling at any time, so nothing is promised about calls being
made. A call that has begun is sequential code that waits for nobody: its next
step is always possible and is always taken in the end, unless the program ends.
That is the one fairness assumption, weak fairness of `Continue`, the steps of a
running call of `FileIO`; the property it serves is that the loops of `my_read`
and `my_write` end (`EveryCallReturns`).

`src/makefile` compiles with `-DNDEBUG`: every `assert` is absent from the
program. The models follow the compiled code; a few assertions are checked as
expectations (section 5).

### Inventory

| Part | State | Operations | Used by | What makes it correct |
|---|---|---|---|---|
| Block device, `block.c` | the file `simulated_device`, `devsize` | `dev_open`, `read_block`, `write_block` | cache, `my_mkfs` | refuses what it cannot store |
| Cache, `cache.c` | `pool` of 8191 slots | `cached_read_block`, `cached_write_block` | bitmaps, inodes, zones | a read returns the last write; the super block survives |
| Bitmaps, `bitmap.c` | a range of blocks; counters | `set_bit`, `clear_bits`, `find_first_zero`, counts | inode map, zone map | finds a zero if there is one |
| Inodes, `inode.c` | `imap`, `first_zero_index`, the inode table | `alloc_inode`, `free_inode`, `read_inode`, `write_inode`, `clear_inodes` | path, dir, file, fs | no number handed out twice |
| Zones, `zone.c` | `zmap`, `last_free_zone_num`, the zones | `alloc_zone`, `free_zone`, `read_zone`, `write_zone`, `clear_zones` | dz, path, file | no number handed out twice; fresh zones are zero |
| Iterator, `dz.c` | one per descriptor and one for paths | `dzi_make_iterator`, `dzi_move_to`, `dzi_redirect`, `clear_data_zones` | path, dir, file | block k of a file is block k of its data; all zones are freed |
| Paths and entries, `path.c` | `pinum`, `parent`, `cinum`, `child`, `name_buf`, the entry buffer and its indices | `last_dir`, `add_dir_entry_to_parent`, `remove_dir_entry_from_parent` | dir, file | entries of a directory are what was added and not removed |
| Directories, `dir.c` | none of its own | `my_mkdir`, `my_rmdir`, `my_remove`, `my_rename` | clients | the entries are a tree; a call that fails changes nothing |
| Files, `file.c` | `fp`, `dzis` | `my_open`, `my_creat`, `my_read`, `my_write`, `my_close` | clients | what is read is what was written |
| Creation, `fs.c` | `super_block` | `my_mkfs`, `print_disk_layout` | clients | nothing of an old file system survives |

Not modelled: the Windows and Minix copies of `block.c` and `p5.h`, the test
program `testp5.c`, `misc/mkdev.c`, and everything that only prints.
`PROJECT.json` lists the hazards of each part with their lines.

## 2. Modules

| Module | Models | Promise it is checked against |
|---|---|---|
| `Cache` | `cache.c` over `block.c`, and the super block write of `fs.c` | `BlockStore`, an array of blocks |
| `Bitmap` | a bitmap as the set of its ones; `find_first_zero` | lemmas in `BitmapProofs` |
| `InodeMap` | the allocator of `inode.c` | `ResourcePool`, a pool of numbers |
| `ZoneMap` | `zone.c` | `ResourcePool` |
| `Namespace` | `path.c`, `dir.c`, the descriptor part of `file.c`, `my_mkfs`; uses `InodeMap` and `ZoneMap` | `DirTree`, a tree of named nodes |
| `FileIO` | the data part of `file.c` with the iterator over direct zones; uses `ZoneMap` | `FileStore`, files as byte sequences |
| `DataZones` | `dz.c` with all three kinds of zones, as `file.c` and `dir.c` call it; uses `ZoneMap` | `BlockFile`, files as block sequences |
| `Layout` | `bitmap.c`, `inode.c`, `zone.c` and `fs.c` on blocks, `dev_open`, the end and start of programs | `InodeMap` and `ZoneMap` |

`MCCache`, `MCZoneMap`, `MCNamespace`, `MCFileIO`, `MCDataZones` and `MCLayout`
give the instances for TLC;
`CacheProofs`, `BitmapProofs`, `InodeMapProofs`, `ZoneMapProofs`, `LayoutProofs`,
`FileIOProofs`, `NamespaceProofs` and `DataZonesProofs` hold the proofs.

The layers are cut where a promise was shown. `Cache` implements `BlockStore`,
so `Layout` works on an array of blocks; `Layout` implements `InodeMap` and
`ZoneMap` and keeps the inode table (`BlocksKept`), so `Namespace`, `FileIO` and
`DataZones` keep zones and the table as plain functions, and use the allocators'
actions (`IMap!alloc_inode(n)`, `ZMap!free_zone(n)`, ...) themselves; these
implement `ResourcePool` in turn.

Definitions have the names of the functions and variables they stand for
(`my_rename`, `last_free_zone_num`, `dzi`); `PROJECT.json` maps each to its
lines. Actions that begin with a capital letter (`AddZone`, `RenameFails`) are
parts of a function: its branches and the steps of a call that takes several.
A few definitions are faulty variants of the one below them, with the mistake in
their name (`HintUsedTwice`, `RemoveKeepsZones`, `WriteHitStaysClean`): no
specification uses them; put in the place of the right definition, each makes a
property fail, which shows that the property looks at that code.

### Cache

A slot is `[dirty, num, block]`. `ReadMiss` writes a dirty victim back and takes
what the device gives, or leaves the victim's bytes if the device refuses the
block. `Accepts(b)` is what the device stores: blocks below `devsize` that are
not in `BadBlocks`. Initially each slot claims block 0 without having read it.

### InodeMap, ZoneMap

Number n has bit n-1. `alloc_inode(n)` holds of a step in which the function
answers n; the hint is `first_zero_index` (none: `bit_count`) and
`last_free_zone_num` (none: 0). Both maps have more bits than there are inodes
(8192 and 5008) or zones (253952 and 249654), which is why `ninodes` and
`DeviceZones` are parameters of their own. The releases are unguarded, as in the
code without its assertions. `clear_zones` is `my_mkfs` again in one program,
where the remembered zone stays; `new_program` is the first `my_mkfs` of another.

### Layout

A byte is the set of its bits, a block a function from offsets to bytes.
`At(map, index)` is the arithmetic of `bitmap.c`; `iterate_over_bits` visits bits
with a procedure that may end the loop, so `find_first_zero` and the counts are
written with it as in the code. `my_mkfs` is five steps (`stage`); in `Restart`
the statics of the library take their initial values and every block is one of
`Leftovers`: what the program had written, or what was there before. `saved` only
remembers what `write_inode` was given last. `Live` says when there is a file
system; the refinement mappings show an empty map when there is none, so
`Restart` and the first steps of `my_mkfs` are the abstract `clear` or
`new_program`.

The habit `inside` keeps inode numbers inside the table. Without it
`ImplementsZoneMap` fails: `MCTableEnd` in section 5.

### Namespace

A zone is a block of `DIR_PER_BLOCK` entries, a directory's size the number of
its entries. `Walk(p)` is `last_dir`: it sees what `Count` and `ASize` of the
iterator make it see. `Unlink` is `remove_dir_entry_from_parent`. `pc` and the
globals that a call still needs tell which step of a call comes next: `rename`
between the two halves of `my_rename`, `link` in front of
`add_dir_entry_to_parent`, `open` before the `open_child` of `my_creat`. Zone 0
is the block that `read_zone(0)` and `write_zone(0)` reach, the last block of
the zone bitmap. `Refuse` is a call that returns on its first checks.

`Careful = TRUE` stands for clients that do not remove an open file, format with
a file open, or close what is not open.

### FileIO

A descriptor carries `inode`, `block_nr`, `buf`, `offset` and its iterator. A
`my_write` is split where it allocates and where it writes a block; `total` and
`rest` are `count` and the data from `buf` on. `Junk` is a byte from behind the
client's buffer, since `my_write` always writes whole blocks from it.

`Habits` are the conditions under which the code does what its comments say;
each is there because a run without it finds a violation (section 5):

* `append`: writing at the end of the file only;
* `inside`: no call begins exactly where a block ends and another begins;
* `exclusive`: a file is written through its only descriptor, and not opened
  while a descriptor has unsaved changes to it;
* `closed`: no file is removed while it is open;
* `space`: no write that does not fit.

`testp5.c` keeps to `exclusive`, `closed` and `space`. It does not keep to `append`: it
rewrites the first half of each file in place (line 147), which makes the size
wrong, but never reads as far as that. Nor to `inside` with its largest file,
whose half is a multiple of the block: reading on from there (line 156) gives
every block one too late, which the test cannot see because its data repeats
every 128 bytes.

### DataZones

An inode has direct zones, `ind1` and `ind2`; index zones are zones like any
other, tables of `U32_PER_BLOCK` words, and data are such tables too, so that a
block of data taken for an index zone leads somewhere. A call that moves the
iterator is `Placed`, then one step for each index zone that is `Missing`
(`BuildInd1`, `BuildInd2`, `BuildTable` and `SaveTable`), then `Arrive`; or
`NoIndexZone`, when there is no zone for one: then `dzi_move_to` answers -1 and
the caller goes on, which spoils its file (`spoiled`). `Cleared` is what
`clear_data_zones` frees, with its early ends.

A `my_read` is a `ReadOn` for each block it goes on to. A `my_write` fills up the
current block (`my_write`), then adds blocks one by one (`AddBlock`, the move,
`WriteBlock`), in the iterator's `count` and the inode's zones but not yet in its
size; the size grows by all of them at the end (`WriteDone`). When no zone is left
for one of them it returns at once (`NoDataZone`): the size is as it was, the
offset behind what was written (`past`), and if it had added others, the iterator
and the inode are ahead of the size. Such a file is `spoiled` too: after closing,
the next append enters other zones in their place. When the first is refused,
nothing is spoiled.

Bytes are left to `FileIO`; a file has the sizes of which the last block is never
exactly full. Index -1 is what 32-bit arithmetic makes of it, the word in front of
the array: the 64 bytes of an inode on the device fit `inode_t` in a 32-bit build
only.

All clients append (`Appending`): a `my_write` begins at the end of the file, with
the iterator on the last block. Writing in the middle or behind the end, which the
code allows (`file.c:241`), is in `FileIO`, in `MCSpace` and the theorems about all
clients. Habits: `short`, a file ends before block 7 + 256 + 256 (in the model the
same sum of its parameters), the first with index -1; `exclusive` and `closed` as
in `FileIO`.

## 3. What the passing runs check

| Run | Instance | States | Shows |
|---|---|---|---|
| `MCCache` | 2 slots, 5 blocks, requests up to 6, block 4 bad, 2 contents | 33,696 | `CleanAgrees`, `SuperBlockKept`, `ImplementsStore` |
| `MCInodeMap` | 6 bits, 4 table entries | 768 | `HintFree`, `ImplementsPool` |
| `MCZoneMap` | 5 bits, 3 stored zones, 2 contents | 4,536 | `HintFree`, `ImplementsPool`, `FreshZoneIsZero` |
| `MCFiles` | 2 names, depth 2, 3 inodes, 2 zones, 2 descriptors | 98,277 | `EntriesSound`, `CopiesAgree`, `ImplementsDirTree` |
| `MCFormat` | 1 name, depth 3, 4 inodes, 2 zones, repeated formatting | 24,798 | `EntriesSound`, `ZonesOwned`, `OnlyRenameLoses` |
| `MCFileIO` | 2 files, 2 descriptors, blocks of 2 bytes, 2 zones | 154,791 | `ZonesOwned`, `ImplementsFiles`, `EveryCallReturns` |
| `MCSpace` | 2 files of up to 2 zones, 3 zones, 2 descriptors, of the habits only `closed` | 228,211 | `ZonesHeld`, `OthersUntouched`, `EveryCallReturns` |
| `MCDataZones` | 1 direct zone, 3 words to an index zone, 10 zones; one file of up to 6 blocks, one of up to 2; 2 descriptors | 556,131 | `ZonesOwned`, `IndexCopiesAgree`, `ImplementsBlocks` |
| `MCLayout` | bytes of 2 bits, blocks of 2 bytes; maps of 1 and 2 blocks, 2 inodes, 3 stored zones | 42,399 | `BlocksKept`, `CountsRight`, `ImplementsInodeMap`, `ImplementsZoneMap`, `FormatMakesEmpty` |

The type invariant of each module is checked in one run of it.

Why the bounds are enough:

* `MCCache`: every slot is shared by three block numbers, one of them beyond the
  device or bad, and slot 0 also by the super block; evictions, refused reads
  and refused writes meet in all orders.
* `MCInodeMap`, `MCZoneMap`: all sets of used numbers with all hints; the maps
  fill up, and numbers beyond the table or the device are reached.
* `MCFiles`, `MCFormat`: an entry is removed in front of another and last, inode
  numbers and zones are reused, inodes run out in both runs and zones in
  `MCFormat`, there in the middle of calls; renames go down, up and nowhere. There
  are four entries to a zone and a directory has `MaxEntries` = 3 at most, so it
  never fills a zone exactly: the code fails there (section 5), and the theorems
  about `Namespace` have the same hypothesis. `MCFullDirRemove` and its like let
  directories fill a zone.
* `MCFileIO`: pieces of data of one, two and three bytes with blocks of two begin
  and end at every place in a block and cover more than one; a file takes over
  the other's zones in either order; `MaxSize` is the bound on file size.
* `MCSpace`: two files of up to two blocks compete for three zones, with one piece
  of data of three bytes, which begins and ends in the middle of a block or covers
  one and a half; so a write meets a full device and a full inode, and goes on at a
  boundary after it was refused. Overwriting makes sizes and offsets run past the
  zones there are (`MaxSize` bounds them), and two descriptors write to one file
  and close in any order.

`MCSpace` drops the habits under which the contents of a file are right and asks
what is left: the damage a client does stays in its own file. Nobody reads in it
(`Counts` is empty): reading changes no zone, and without `space` a file can be
shorter than a descriptor's offset, where `my_read` passes a negative count to
`memcpy` and the model stops (`pc = "crashed"`), as the program may. A write to
zone 0 is one to the last block of the zone bitmap, after which nothing is known:
there the model stops too (`pc = "ruined"`), and the run does not check deadlock.

* `MCDataZones`: the long file has blocks in its direct zone, in `ind1` and in the
  first index zone under `ind2`; with the second file ten zones are one to three
  too few, so that each of the allocations of a call, for data and for indices, is
  the one that fails, in the first and in later blocks of a `my_write`, and zones
  change hands between data and index in both directions. Four marks tell
  blocks apart, and as words they are numbers of other zones. `MaxBlocks` bounds
  the lengths, `Once` says which files are not made a second time.
* `MCLayout`: the inode map has more bits (4) than inodes (2), the zone map more
  bits (8) than zones on the device (3), both as in the original; the zone map
  has two blocks, so every part of `At` counts. Each map is found all zeros or
  all ones. `MaxZone` and `Freed` bound the zone numbers in use and those freed;
  both have numbers in each block of the map and beyond the device.

`EveryCallReturns` is checked with `FairSpec`, the other properties hold of
`Spec`. The loops end because `rest` and `remain` shrink with every block; the
two runs show it for full disks and full inodes, and for iterators that do not
move.

## 4. What is proved

TLAPS proves, for every value of the constants that satisfies the named
assumptions (`CacheAssumption`, `InodeMapAssumption`, `ZoneMapAssumption`,
`LayoutAssumption`, `FileIOAssumption`, `NamespaceAssumption`,
`DataZonesAssumption`):

* `CacheImplementsStore`, `CacheCleanAgrees`, `CacheSuperBlockKept`,
  `CacheTypeCorrect`. The inductive invariant is
  `IInv == TypeOK /\ OwnSlot /\ CleanAgrees /\ ZeroNeverDirty`. `CleanAgrees`
  alone is not inductive: that no second slot holds a copy of a block needs
  `OwnSlot`; that the slots which claim block 0 from the start are never
  written back needs `ZeroNeverDirty`. The refinement rests on two lemmas: a
  read miss changes nobody's view of a block (`ReadMissView`), a write changes
  the view of its own block only (`WriteView`).
* `InodeMapImplementsPool`, `InodeHintFree`, `InodeMapTypeCorrect` and
  `ZoneMapImplementsPool`, `ZoneHintFree`, `ZoneMapFreshZoneIsZero`,
  `ZoneMapTypeCorrect`, also across a new program. Here
  `IInv == TypeOK /\ HintFree`: an allocation by hint does not look at the bit,
  so that the bit is clear has to be carried along.
  What the scan of a map answers is taken from its definition there (the lemma
  `FindFirstZero`, with `LeastNumber`: a set of numbers that is not empty has a
  least one); that the loop of `bitmap.c` answers that is `FirstZeroLoop` below.

* Everything the runs check of `Layout`, for every geometry, whatever clients
  write and whatever is left on the device: `LayoutTypeCorrect`,
  `LayoutImplementsInodeMap`, `LayoutBlocksKept`, `LayoutFormatMakesEmpty`,
  `LayoutCountsRight`, all of them also when inode numbers run past the table;
  and `LayoutImplementsZoneMap`, which needs `"inside" \in Habits` and is false
  without (`MCTableEnd`).
  - Different bits have different places (`PlaceUnique`), the regions of the
    device are apart (`Regions`) and the inodes of a block too (`SlotsApart`).
    So `set_bit` changes one bit (`SetBit`), `write_inode` one inode
    (`EnteredRead`), `write_zone` one zone (`WritingZone`).
  - What the loop over the bits answers (`FirstZeroLoop`, `Counting`) is shown
    at the first bit after which it would be wrong, by `LeastNumber`: induction
    itself is out of the prover's reach.
  - `IInv == TypeOK /\ CleanStart`. `ClearZones` is where the refinement begins
    to show the inode bitmap; that it is still empty there, since `ClearInodes`
    emptied it, is `CleanStart`. `Kept` adds that the super block is written,
    that both maps are empty before the root is made, and that the table is what
    was saved also in the steps of `my_mkfs`, when it is not in use.

* `NamespaceImplementsDirTree`, `NamespaceEntriesSound`, `NamespaceCopiesAgree`,
  `NamespaceZonesOwned`, `NamespaceOnlyRenameLoses` and `NamespaceTypeCorrect`:
  everything the runs check of `Namespace`, for any names, paths, inodes, zones and
  descriptors. They assume `Careful`, and `MaxEntries < DIR_PER_BLOCK`: that no
  directory fills its first zone. Without either the code fails (`MCCloseRemoved`,
  `MCFullDirRemove`).
  - `IInv` has these parts beside the types. A directory has one zone, which it
    has if it lists anything (`Shape`); so its entries are the pairs `Live` of a
    directory and an index, and `Sound` is `EntriesSound` of them. `Owning` is
    `ZonesOwned` with the zone in the hand of a call: between
    `add_dir_entry_to_parent` allocating a zone and the write of the inode, only
    `parent` names it. `Stage` is what a call in the middle has found out and
    later steps rely on: that the inode it holds is listed nowhere (`Loose`),
    that the name is not in the directory yet, that the copy in `parent` is still
    that of the table (`Linking`).
  - What `last_dir` finds is a recursive function over a path. That the walk
    stays in the table and in the tree (`WalkDefined`, `WalkAttached`) is shown
    at the first step at which it would not, by `LeastNumber`.
  - Each action has one lemma: it keeps `IInv`, loses no inode (`NoneLost`) and is
    a step of the tree or stutters (`TreeStep`). For the last, `Linked` is
    carried along: the directory a call adds to is still attached to the root.
* `FileIOZonesHeld`, `FileIOOthersUntouched`, for clients that keep to `closed` and
  whatever else they do, several descriptors of one file and overwriting included;
  and `FileIOTypeCorrect` for all clients. `ZonesHeld` looks at the zones in a
  file's inode and in the copy written last. That is not inductive: after a write
  that failed, a zone may be named by nothing but another descriptor's copy, a
  `block_nr` or an iterator, from where it comes back into the file.
  `IInv == Types /\ Held` gives each file all the zones so named (`Holds`);
  those of two files are apart and none is free (`Apart`), the calls are on files
  there are (`Calls`), and what `alloc_zone` handed out is nobody's (`Spare`).

* `FileIOImplementsFiles` and `FileIOZonesOwned`, for clients that have all five
  habits. They assume no more than `MCFileIO` does; without any one of the habits
  the code differs from `FileStore` (section 5). `IInv` is not enough for them: it
  says whose a zone is, not where in the file.
  - `Good` says that. A file has exactly the zones its size needs, all different
    (`Ends`, `Filled`). A descriptor at rest has in its buffer the block its offset
    is in or the one that ends there, and its iterator stands on that block
    (`Rests`, `On`). In the middle of `my_read`, `rbuf` holds the bytes from the
    offset to the end of that block (`Reading`); in the middle of `my_write`, the
    first of the data are in the file, from its old size on, and there are free
    zones for the rest (`Writes`). Descriptors that share a file agree with the
    table (`Pairs`), and every zone in use is a file's (`Covered`).
  - A byte is shown to be at one place of one block (`Place`, `PlaceUnique`), so a
    block written leaves the bytes of all others alone. After that the arithmetic
    is linear: `Full(n)` stands for `n * BLOCKSIZE`.
  - Each step keeps `Good` and is a step of `FileStore` or stutters (`StoreStep`).
    A write is a step of `FileStore` when it returns (`WriteDoneGood`); what it
    wrote until then is behind the size of the inode and unseen (`WriteUnseen`).

* `DataZonesTypeCorrect` for all clients that append, and
  `DataZonesIndexCopiesAgree` and `DataZonesZonesOwned` for those that have the three
  habits (`AllHabits`), whichever zones a call is refused. Without `exclusive` the
  second is false (`MCStaleIndex`); without `short` index -1 is reached, the place
  the iterator goes by is wrong and so is what it frees (`MCGroupEnd`,
  `MCRemoveLeak`). What is said of the copies and of leaks is not said of a spoiled
  file, since it is not so: see section 5. Neither property is inductive.
  - `Fits(R)`: some `R` says of each zone which file it belongs to and whether it
    is data, names data or names index zones, and every inode, every iterator with
    its two copies and every word of an index zone agrees with it. An allocation
    gives a role to a zone that has none, a removal takes away those of a file.
    That data are never taken for an index zone, and that two files never meet,
    follows from `R` having one value for each zone.
  - `Shape`: the index zones of a file of n blocks name n zones and then zeros, and
    there is none it does not need but those the block being added does. While a
    `my_write` runs, n is the iterator's count, not the size. So a copy
    that is brought up to date by one word is the whole zone again, and
    `clear_data_zones`, which stops at the first 0, finds all (`ClearedAll`).
  - `Opened` and `Stored` say that of the inode that counts: a descriptor's while
    the file is open, the table's otherwise; in a call, with what each stage of it
    may rely on (`InCall`): after `BuildTable` the copy of `ind2` is ahead of
    `ind2` by one word (`Saving`).
  - `NoLeak`: a zone in use is in the hand of a call or reached from a file
    (`InFile`); descriptors that share a file have the same inode (`Pairs`). A call
    that adds a block hands its zone from the one to the other (`GrownOwns`).

Only model-checked: `ImplementsBlocks` of `DataZones`; and `EveryCallReturns`, a
liveness property, which the prover does not reach.

## 5. Where the code differs from what it says

Each of these runs checks one property, taken from a comment or an assertion of
the code, and finds it violated. `PROJECT.json` quotes the lines.

| Run | Expectation | What happens |
|---|---|---|
| `MCFullDirRemove` | `path.c:163` | removing an entry from a directory of exactly 16 entries loses another |
| `MCBoundaryWrite` | `file.c:205` | appending overwrites the block before |
| `MCGroupEnd` | `dz.c:36` | in the double indirect range the last zone of a group is looked for at index -1 |

More of the kind, each with a `.cfg` of its own beside the listed runs; TLC finds
each of them violated as well. They explain the habits and the bounds of the
passing runs.

| Configuration | Property | Expectation | What happens |
|---|---|---|---|
| `MCInodeTable` | `InsideTable` | `inode.c:107` | inode numbers beyond the table are handed out |
| `MCTableEnd` | `ImplementsZoneMap` | `inode.c:107` | the entries of such inodes land in the zone bitmap |
| `MCNoSize` | `OpenKnowsSize` | `block.c:14` | `fstat` fails; the next `dev_open` succeeds with size 0 |
| `MCRenameFails` | `FailedRenameKeepsEntry` | `dir.c:139` | a failed rename has removed the old entry |
| `MCDiskFull` | `OffsetInFile` | `file.c:180` | bytes reported as written are not in the file |
| `MCRemoveLeak` | `RemoveFreesAll` | `dz.c:130` | index zones after the first that begins with 0 are never freed |
| `MCStaleIndex` | `IndexCopiesAgree` | `dz.h:43` | a second descriptor goes by an index zone as it was |
| `MCInodeHint` | `HintIsFirst` | `inode.c:11` | the hint is a free index, not always the first |
| `MCZoneDevice` | `OnDevice` | `zone.c:18` | zone numbers beyond the device instead of 0 |
| `MCCreatFails` | `FailedCreatMakesNothing` | `file.c:81` | -1 although the file was created |
| `MCCloseTwice` | `FailedCloseWritesNothing` | `file.c:263` | a failed close writes the inode table |
| `MCCloseRemoved` | `ClosedInodeInUse` | `inode.c:110` | closing writes an inode that is free or another file's |
| `MCFullDirZone` | `DirectoryZonesPresent` | `path.c:26` | in a directory of exactly 16 entries zone 0 is searched |
| `MCSharedZone` | `AddKeepsEntries` | `path.c:121` | adding an entry there writes in front of the first zone |
| `MCBoundaryRead` | `ReadIsFile` | `file.c:127` | a block is read twice instead of the next one |
| `MCOverwrite` | `ReadZonePresent` | `zone.c:67` | overwriting lengthens the file; zone 0 is read |
| `MCTwoWriters` | `CloseKeepsSize` | `file.c:266` | a close takes back another descriptor's size |

`OnlyRenameLoses` passes in `MCFormat` and fails in `MCFullDirRemove`: only in
the second can a directory fill its last zone exactly.

Two more, not worth a run: `file.c:48` says that a descriptor is greater than 0
where the first one is 0, and a write that fails for want of space after it has
added blocks leaks their zones if the file is then closed and written to again.
`ZonesOwned` does not hold of `FileIO` without `space`, which is why `MCSpace`
checks `ZonesHeld`; in `DataZones` its part about leaks ends with the first such
write.

## 6. Left out

* `FileIO` and `Namespace` have direct zones only, `DataZones` no bytes and only
  clients that append: a `my_write` that overwrites, begins at a block boundary or
  reaches the maximum size (`IP_NIL`) is checked in `FileIO` only.
* What happens after zone 0 is written over the zone bitmap: `FileIO` and
  `DataZones` stop there; in `Namespace`, `zone0` is a block of its own.
* What lies behind an index that wraps, in a 64-bit build.
* Transient I/O errors. A device that cannot be opened makes `my_mkfs` return
  with nothing changed; the client that goes on all the same is not modelled.
* `print_bits`, and the texts of `print_disk_layout`.
* Timestamps, owners, link counts, messages.
* `dir_entry_buf[-1]`: which word lies there depends on the build;
  `JunkEntries` is what it may read as, in the runs zeros.

## 7. Plan

The refinement of `BlockFile` by `DataZones` (`ImplementsBlocks`): the invariant
it needs is there (`Sound`), and that a block added leaves the others where they
are (`Grown`); what is left is that distinct blocks have distinct zones, and one
step of `BlockFile` for each action.
