------------------------------- MODULE Cache --------------------------------
(***************************************************************************)
(* The block cache (src/src/cache.c) over the simulated device             *)
(* (src/src/block.c).  The cache is direct-mapped: block b may only live   *)
(* in slot b % CACHED_BLOCKS.  A read miss allocates the slot and writes a *)
(* dirty victim back; a write miss goes straight to the device; nothing    *)
(* ever flushes the pool.                                                  *)
(*                                                                         *)
(* my_mkfs writes the super block past the cache.  A zero-initialised pool *)
(* entry carries the number 0 and so claims block 0 without having read    *)
(* it; the properties below say why that is harmless.                      *)
(*                                                                         *)
(* A block the device refuses is one beyond its end -- the bitmaps have    *)
(* more bits than the device has zones, so such numbers are really asked   *)
(* for -- or one on which the host's seek, read or write always fails.     *)
(***************************************************************************)
EXTENDS Integers

CONSTANTS CACHED_BLOCKS,  \* slots of the pool
          devsize,        \* blocks on the device, set by dev_open
          LastRequest,    \* bound: the highest block number asked for
          BadBlocks,      \* blocks on which the host's I/O fails
          Data,           \* contents of a block
          Zero            \* the all-zero block

ASSUME CacheAssumption ==
  /\ CACHED_BLOCKS \in Nat \ {0}
  /\ devsize \in Nat \ {0}
  /\ LastRequest \in Nat \ {0}
  /\ Zero \in Data

VARIABLES pool,   \* the cache entries: [dirty, num, block]
          dev,    \* the device: its blocks 0 .. devsize-1
          out     \* block number, data and code the last call answered

vars == <<pool, dev, out>>

Slot == 0 .. CACHED_BLOCKS - 1
Requests == 1 .. LastRequest   \* no caller of the cache names block 0
hash(b) == b % CACHED_BLOCKS
hit(b) == pool[hash(b)].num = b

Answer(block, data, ret) == [block |-> block, data |-> data, ret |-> ret]

-----------------------------------------------------------------------------
(* block.c *)

Accepts(b) == b < devsize /\ b \notin BadBlocks

\* The device after write_block(b, d), and the code the call returns.
write_block(b, d) == IF Accepts(b) THEN [dev EXCEPT ![b] = d] ELSE dev
write_block_ret(b) == IF Accepts(b) THEN 0 ELSE -1

-----------------------------------------------------------------------------
(* cache.c *)

Init ==
  /\ pool = [s \in Slot |-> [dirty |-> 0, num |-> 0, block |-> Zero]]
  /\ dev \in [0 .. devsize - 1 -> Data]
  /\ out = Answer(0, Zero, 0)

EvictedForgetsDirty(s) == dev

\* The device once slot s has given up its block.
Evicted(s) ==
  IF pool[s].dirty = 1 THEN write_block(pool[s].num, pool[s].block) ELSE dev

ReadMiss(b) ==
  LET s == hash(b) IN
  /\ ~hit(b)
  /\ dev' = Evicted(s)
     \* a refused read_block leaves the victim's bytes under the new number
  /\ LET data == IF Accepts(b) THEN dev'[b] ELSE pool[s].block
     IN  /\ pool' = [pool EXCEPT ![s] = [dirty |-> 0, num |-> b, block |-> data]]
         /\ out' = Answer(b, data, 0)

ReadHit(b) ==
  /\ hit(b)
  /\ out' = Answer(b, pool[hash(b)].block, 0)
  /\ UNCHANGED <<pool, dev>>

cached_read_block(b) == ReadMiss(b) \/ ReadHit(b)

WriteMiss(b, d) ==
  /\ ~hit(b)
  /\ dev' = write_block(b, d)
  /\ out' = Answer(b, d, write_block_ret(b))
  /\ UNCHANGED pool

WriteHitCounts(b, d) ==
  /\ hit(b)
  /\ pool' = [pool EXCEPT ![hash(b)].block = d, ![hash(b)].dirty = @ + 1]
  /\ out' = Answer(b, d, 0)
  /\ UNCHANGED dev

WriteHitStaysClean(b, d) ==
  /\ hit(b)
  /\ pool' = [pool EXCEPT ![hash(b)].block = d]
  /\ out' = Answer(b, d, 0)
  /\ UNCHANGED dev

WriteHitIgnoresNum(b, d) ==
  /\ pool' = [pool EXCEPT ![hash(b)].block = d, ![hash(b)].dirty = 1]
  /\ out' = Answer(b, d, 0)
  /\ UNCHANGED dev

WriteHit(b, d) ==
  /\ hit(b)
  /\ pool' = [pool EXCEPT ![hash(b)] = [dirty |-> 1, num |-> b, block |-> d]]
  /\ out' = Answer(b, d, 0)
  /\ UNCHANGED dev

cached_write_block(b, d) == WriteMiss(b, d) \/ WriteHit(b, d)

\* my_mkfs writes the super block with write_block, past the cache.
WriteSuperBlock(d) ==
  /\ dev' = write_block(0, d)
  /\ UNCHANGED <<pool, out>>

Next ==
  \/ \E b \in Requests : cached_read_block(b)
  \/ \E b \in Requests, d \in Data : cached_write_block(b, d)
  \/ \E d \in Data : WriteSuperBlock(d)

Spec == Init /\ [][Next]_vars

-----------------------------------------------------------------------------
(* Properties *)

\* Every pool entry holds a requested number (or the initial 0), block
\* contents and a 0/1 dirty flag, and the device keeps its size.
TypeOK ==
  /\ pool \in [Slot -> [dirty : {0, 1}, num : 0 .. LastRequest, block : Data]]
  /\ dev \in [0 .. devsize - 1 -> Data]
  /\ out \in [block : 0 .. LastRequest, data : Data, ret : {0, -1}]

\* A block is only ever cached in the slot its number hashes to, so no two
\* slots can hold different copies of one block.
OwnSlot == \A s \in Slot : pool[s].num # 0 => hash(pool[s].num) = s

\* The device may be behind the cache for a block only while the block's
\* slot is dirty: cached_read_block can drop a clean victim without losing
\* a write (the eviction branch tests the flag and nothing else).
CleanAgrees ==
  \A s \in Slot :
    /\ pool[s].dirty = 0
    /\ pool[s].num # 0
    /\ Accepts(pool[s].num)
    => pool[s].block = dev[pool[s].num]

\* The entry that claims block 0 from the start is never dirty, so it is
\* never written back over the super block.
ZeroNeverDirty == \A s \in Slot : pool[s].num = 0 => pool[s].dirty = 0

IInv == TypeOK /\ OwnSlot /\ CleanAgrees /\ ZeroNeverDirty

\* Only my_mkfs's own write reaches block 0 of the device: no eviction and
\* no write-through lands on the super block, whatever the pool holds.
SuperBlockKept == [][dev'[0] # dev[0] => \E d \in Data : WriteSuperBlock(d)]_vars

\* The contents a block has for the callers of the cache.
view == [b \in {r \in Requests : Accepts(r)} |->
           IF hit(b) THEN pool[hash(b)].block ELSE dev[b]]

Store == INSTANCE BlockStore
           WITH Blocks <- {r \in Requests : Accepts(r)}, mem <- view

\* The cache and the device behind it are one array of blocks: reads return
\* the last block written in every interleaving of hits, misses, evictions
\* and write-throughs, also when requests for refused blocks come between.
ImplementsStore == Store!Spec
=============================================================================
