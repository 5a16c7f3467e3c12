---------------------------- MODULE CacheProofs -----------------------------
(***************************************************************************)
(* Proofs about Cache.tla, for any number of slots, any device size, any   *)
(* set of refused blocks and any block contents.                           *)
(***************************************************************************)
EXTENDS Cache, TLAPS

\* cache.c:14: the hash of a block number is the number of a slot.
LEMMA HashInSlot == \A b \in Nat : hash(b) \in Slot
  BY CacheAssumption DEF hash, Slot

\* block.c: writing a block leaves an image of the same device.
LEMMA WriteBlockType ==
  ASSUME NEW b \in Nat, NEW d \in Data, dev \in [0 .. devsize - 1 -> Data]
  PROVE  write_block(b, d) \in [0 .. devsize - 1 -> Data]
  BY DEF write_block

\* Giving up a slot writes at most the slot's own block, and never block 0.
LEMMA EvictedType ==
  ASSUME TypeOK, NEW s \in Slot
  PROVE  Evicted(s) \in [0 .. devsize - 1 -> Data]
  BY WriteBlockType DEF TypeOK, Evicted, Requests

LEMMA EvictedElsewhere ==
  ASSUME TypeOK, NEW s \in Slot, NEW b \in 0 .. devsize - 1, b # pool[s].num
  PROVE  Evicted(s)[b] = dev[b]
  BY DEF TypeOK, Evicted, write_block

LEMMA InitIInv == Init => IInv
  BY CacheAssumption
     DEF Init, IInv, TypeOK, OwnSlot, CleanAgrees, ZeroNeverDirty, Slot, Answer

LEMMA ReadMissIInv ==
  ASSUME IInv, NEW b \in Requests, ReadMiss(b)
  PROVE  IInv'
  <1> DEFINE s == hash(b)
  <1> DEFINE data == IF Accepts(b) THEN dev'[b] ELSE pool[s].block
  <1>0. s \in Slot /\ b \in Nat /\ b # 0 /\ b \in 0 .. LastRequest
    BY HashInSlot DEF Requests
  <1>1. dev' = Evicted(s) /\ dev' \in [0 .. devsize - 1 -> Data]
    BY <1>0, EvictedType DEF IInv, ReadMiss
  <1>2. data \in Data
    <2>1. pool[s].block \in Data
      BY <1>0 DEF IInv, TypeOK
    <2>2. Accepts(b) => dev'[b] \in Data
      BY <1>0, <1>1, CacheAssumption DEF Accepts
    <2>3. QED
      BY <2>1, <2>2
  <1>3. /\ pool' = [pool EXCEPT ![s] = [dirty |-> 0, num |-> b, block |-> data]]
        /\ out' = Answer(b, data, 0)
    BY DEF ReadMiss
  <1>4. TypeOK'
    BY <1>0, <1>1, <1>2, <1>3 DEF IInv, TypeOK, Answer
  <1>5. OwnSlot' /\ ZeroNeverDirty'
    BY <1>0, <1>3 DEF IInv, TypeOK, OwnSlot, ZeroNeverDirty, hash
  <1>6. CleanAgrees'
    <2> SUFFICES ASSUME NEW t \in Slot, pool'[t].dirty = 0, pool'[t].num # 0,
                        Accepts(pool'[t].num)
                 PROVE  pool'[t].block = dev'[pool'[t].num]
      BY DEF CleanAgrees, Accepts
    <2>1. CASE t = s
      BY <1>0, <1>3, <2>1 DEF IInv, TypeOK
    <2>2. CASE t # s
      <3>1. pool'[t] = pool[t] /\ pool[t].num \in 0 .. devsize - 1
        BY <1>0, <1>3, <2>2, CacheAssumption DEF IInv, TypeOK, Accepts
      <3>2. pool[t].num # pool[s].num
        BY <1>0, <2>2, <3>1 DEF IInv, OwnSlot
      <3>3. dev'[pool[t].num] = dev[pool[t].num]
        BY <1>0, <1>1, <3>1, <3>2, EvictedElsewhere DEF IInv
      <3>4. QED
        BY <3>1, <3>3 DEF IInv, CleanAgrees
    <2>3. QED
      BY <2>1, <2>2
  <1>7. QED
    BY <1>4, <1>5, <1>6 DEF IInv

LEMMA WriteMissIInv ==
  ASSUME IInv, NEW b \in Requests, NEW d \in Data, WriteMiss(b, d)
  PROVE  IInv'
  <1>1. b \in Nat /\ b \in 0 .. LastRequest
    BY DEF Requests
  <1>2. TypeOK'
    BY <1>1, WriteBlockType
       DEF IInv, TypeOK, WriteMiss, Answer, write_block_ret
  <1>3. OwnSlot' /\ ZeroNeverDirty'
    BY DEF IInv, OwnSlot, ZeroNeverDirty, WriteMiss, hash
  <1>4. CleanAgrees'
    <2> SUFFICES ASSUME NEW t \in Slot, pool[t].dirty = 0, pool[t].num # 0,
                        Accepts(pool[t].num)
                 PROVE  pool[t].block = dev'[pool[t].num]
      BY DEF CleanAgrees, Accepts, WriteMiss
    <2>1. pool[t].num # b
      BY DEF IInv, OwnSlot, WriteMiss, hit
    <2>2. dev'[pool[t].num] = dev[pool[t].num]
      BY <2>1, CacheAssumption
         DEF WriteMiss, write_block, Accepts, IInv, TypeOK
    <2>3. QED
      BY <2>2 DEF IInv, CleanAgrees
  <1>5. QED
    BY <1>2, <1>3, <1>4 DEF IInv

LEMMA WriteHitIInv ==
  ASSUME IInv, NEW b \in Requests, NEW d \in Data, WriteHit(b, d)
  PROVE  IInv'
  <1>1. hash(b) \in Slot /\ b \in 0 .. LastRequest /\ b # 0
    BY HashInSlot DEF Requests
  <1>2. pool' = [pool EXCEPT ![hash(b)] = [dirty |-> 1, num |-> b, block |-> d]]
    BY DEF WriteHit
  <1>3. TypeOK'
    <2>1. dev' = dev /\ out' = Answer(b, d, 0)
      BY DEF WriteHit
    <2>2. QED
      BY <1>1, <1>2, <2>1 DEF IInv, TypeOK, Answer
  <1>4. OwnSlot' /\ ZeroNeverDirty'
    BY <1>1, <1>2 DEF IInv, TypeOK, OwnSlot, ZeroNeverDirty, hash
  <1>5. CleanAgrees'
    BY <1>1, <1>2 DEF IInv, TypeOK, CleanAgrees, WriteHit, Accepts
  <1>6. QED
    BY <1>3, <1>4, <1>5 DEF IInv

LEMMA WriteSuperBlockIInv ==
  ASSUME IInv, NEW d \in Data, WriteSuperBlock(d)
  PROVE  IInv'
  <1>1. TypeOK'
    BY WriteBlockType DEF IInv, TypeOK, WriteSuperBlock
  <1>2. OwnSlot' /\ ZeroNeverDirty'
    BY DEF IInv, OwnSlot, ZeroNeverDirty, WriteSuperBlock, hash
  <1>3. CleanAgrees'
    BY CacheAssumption, SMTT(20)
       DEF IInv, TypeOK, CleanAgrees, WriteSuperBlock, write_block, Accepts
  <1>4. QED
    BY <1>1, <1>2, <1>3 DEF IInv

LEMMA ReadHitIInv ==
  ASSUME IInv, NEW b \in Requests, ReadHit(b)
  PROVE  IInv'
  <1>1. TypeOK'
    BY HashInSlot DEF IInv, TypeOK, ReadHit, Answer, Requests
  <1>2. QED
    BY <1>1 DEF IInv, OwnSlot, CleanAgrees, ZeroNeverDirty, ReadHit, hash, Accepts

LEMMA NextIInv == IInv /\ [Next]_vars => IInv'
  <1> SUFFICES ASSUME IInv, [Next]_vars
               PROVE  IInv'
    OBVIOUS
  <1>1. ASSUME NEW b \in Requests, cached_read_block(b)
        PROVE  IInv'
    BY <1>1, ReadMissIInv, ReadHitIInv DEF cached_read_block
  <1>2. ASSUME NEW b \in Requests, NEW d \in Data, cached_write_block(b, d)
        PROVE  IInv'
    BY <1>2, WriteMissIInv, WriteHitIInv DEF cached_write_block
  <1>3. ASSUME NEW d \in Data, WriteSuperBlock(d)
        PROVE  IInv'
    BY <1>3, WriteSuperBlockIInv
  <1>4. CASE UNCHANGED vars
    BY <1>4 DEF IInv, TypeOK, OwnSlot, CleanAgrees, ZeroNeverDirty, vars, hash, Accepts
  <1>5. QED
    BY <1>1, <1>2, <1>3, <1>4 DEF Next

LEMMA SpecIInv == Spec => []IInv
  BY InitIInv, NextIInv, PTL DEF Spec

\* Every reachable state of the cache is well-typed.
THEOREM CacheTypeCorrect == Spec => []TypeOK
  <1>1. IInv => TypeOK
    BY DEF IInv
  <1>2. QED
    BY <1>1, SpecIInv, PTL

\* A clean slot always agrees with the device, so dropping it loses nothing.
THEOREM CacheCleanAgrees == Spec => []CleanAgrees
  <1>1. IInv => CleanAgrees
    BY DEF IInv
  <1>2. QED
    BY <1>1, SpecIInv, PTL

-----------------------------------------------------------------------------
(* The cache implements the array of blocks of BlockStore.                 *)

\* The blocks the refinement speaks of: those the device accepts.
LEMMA AcceptedBlock ==
  ASSUME NEW b \in Requests, Accepts(b)
  PROVE  b \in 1 .. devsize - 1 /\ b \in Nat
  BY CacheAssumption DEF Requests, Accepts

LEMMA ViewType == IInv => view \in [{r \in Requests : Accepts(r)} -> Data]
  <1> SUFFICES ASSUME IInv, NEW b \in Requests, Accepts(b)
               PROVE  (IF hit(b) THEN pool[hash(b)].block ELSE dev[b]) \in Data
    BY DEF view
  <1>1. hash(b) \in Slot /\ b \in 0 .. devsize - 1
    BY HashInSlot, AcceptedBlock
  <1>2. QED
    BY <1>1 DEF IInv, TypeOK

LEMMA InitImplements == Init => Store!Init
  <1> SUFFICES ASSUME Init
               PROVE  Store!Init
    OBVIOUS
  <1>1. view \in [{r \in Requests : Accepts(r)} -> Data]
    BY InitIInv, ViewType
  <1>2. out = Store!Answer(0, Zero, 0)
    BY DEF Init, Answer, Store!Answer
  <1>3. QED
    BY <1>1, <1>2, CacheAssumption DEF Store!Init

\* A read miss moves blocks between the pool and the device and changes
\* nobody's view of them: the victim is written back, or agreed already.
LEMMA ReadMissView ==
  ASSUME IInv, NEW b \in Requests, ReadMiss(b)
  PROVE  view' = view /\ (Accepts(b) => out' = Answer(b, view[b], 0))
  <1> DEFINE s == hash(b)
  <1> DEFINE data == IF Accepts(b) THEN dev'[b] ELSE pool[s].block
  <1>0. s \in Slot /\ b \in Nat
    BY HashInSlot DEF Requests
  <1>1. /\ dev' = Evicted(s)
        /\ pool' = [pool EXCEPT ![s] = [dirty |-> 0, num |-> b, block |-> data]]
        /\ out' = Answer(b, data, 0)
        /\ pool[s].num # b
    BY DEF ReadMiss, hit
  <1>2. ASSUME NEW c \in Requests, Accepts(c)
        PROVE  (IF hit(c) THEN pool[hash(c)].block ELSE dev[c])' =
               (IF hit(c) THEN pool[hash(c)].block ELSE dev[c])
    <2>0. hash(c) \in Slot /\ c \in 0 .. devsize - 1 /\ c # 0
      BY <1>2, HashInSlot, AcceptedBlock
    <2>1. CASE c = b
      <3>1. hit(c)' /\ pool'[hash(c)].block = dev'[c]
        BY <1>0, <1>1, <1>2, <2>1 DEF hit, hash, IInv, TypeOK
      <3>2. dev'[c] = dev[c]
        BY <1>0, <1>1, <2>0, <2>1, EvictedElsewhere DEF IInv
      <3>3. QED
        BY <1>1, <2>1, <3>1, <3>2 DEF hit, hash
    <2>2. CASE c # b /\ pool[s].num = c
      <3>1. hash(c) = s
        BY <1>0, <2>0, <2>2 DEF IInv, OwnSlot
      <3>2. ~hit(c)' /\ hit(c)
        BY <1>0, <1>1, <2>2, <3>1 DEF hit, hash, IInv, TypeOK
      <3>3. dev'[c] = pool[s].block
        BY <1>0, <1>1, <1>2, <2>0, <2>2
           DEF Evicted, write_block, IInv, TypeOK, CleanAgrees
      <3>4. QED
        BY <3>1, <3>2, <3>3 DEF hash
    <2>3. CASE c # b /\ pool[s].num # c
      <3>1. dev'[c] = dev[c]
        BY <1>0, <1>1, <2>0, <2>3, EvictedElsewhere DEF IInv
      <3>2. hit(c)' <=> hit(c)
        BY <1>0, <1>1, <2>0, <2>3 DEF hit, hash, IInv, TypeOK
      <3>3. hit(c) => pool'[hash(c)] = pool[hash(c)]
        BY <1>0, <1>1, <2>0, <2>3 DEF hit, IInv, TypeOK
      <3>4. QED
        BY <3>1, <3>2, <3>3 DEF hash
    <2>4. QED
      BY <2>1, <2>2, <2>3
  <1>3. view' = view
    BY <1>2 DEF view, Accepts
  <1>4. Accepts(b) => data = view[b]
    <2>1. Accepts(b) => dev'[b] = dev[b]
      BY <1>0, <1>1, AcceptedBlock, EvictedElsewhere DEF IInv
    <2>2. QED
      BY <1>1, <2>1 DEF view, hit
  <1>5. QED
    BY <1>1, <1>3, <1>4

\* A write, hit or miss, changes the view of its own block only.
LEMMA WriteView ==
  ASSUME IInv, NEW b \in Requests, NEW d \in Data, cached_write_block(b, d)
  PROVE  view' = IF Accepts(b) THEN [view EXCEPT ![b] = d] ELSE view
  <1>0. hash(b) \in Slot /\ b \in Nat
    BY HashInSlot DEF Requests
  <1>1. CASE WriteMiss(b, d)
    <2> SUFFICES ASSUME NEW c \in Requests, Accepts(c)
                 PROVE  (IF hit(c) THEN pool[hash(c)].block ELSE dev[c])' =
                        IF c = b THEN d
                        ELSE IF hit(c) THEN pool[hash(c)].block ELSE dev[c]
      BY DEF view, Accepts
    <2>1. hash(c) \in Slot /\ c \in 0 .. devsize - 1
      BY HashInSlot, AcceptedBlock
    <2>2. (hit(c)' <=> hit(c)) /\ pool' = pool
      BY <1>1 DEF WriteMiss, hit, hash
    <2>3. dev'[c] = IF c = b THEN d ELSE dev[c]
      BY <1>1, <2>1 DEF WriteMiss, write_block, IInv, TypeOK
    <2>4. c = b => ~hit(c)
      BY <1>1 DEF WriteMiss
    <2>5. QED
      BY <2>2, <2>3, <2>4 DEF hash
  <1>2. CASE WriteHit(b, d)
    <2> SUFFICES ASSUME NEW c \in Requests, Accepts(c)
                 PROVE  (IF hit(c) THEN pool[hash(c)].block ELSE dev[c])' =
                        IF c = b THEN d
                        ELSE IF hit(c) THEN pool[hash(c)].block ELSE dev[c]
      BY DEF view, Accepts
    <2>1. hash(c) \in Slot
      BY HashInSlot, AcceptedBlock
    <2>2. /\ pool' = [pool EXCEPT ![hash(b)] = [dirty |-> 1, num |-> b, block |-> d]]
          /\ dev' = dev
          /\ pool[hash(b)].num = b
      BY <1>2 DEF WriteHit, hit
    <2>3. CASE hash(c) = hash(b)
      BY <1>0, <2>2, <2>3 DEF hit, hash, IInv, TypeOK
    <2>4. CASE hash(c) # hash(b)
      BY <1>0, <2>1, <2>2, <2>4 DEF hit, hash, IInv, TypeOK
    <2>5. QED
      BY <2>3, <2>4
  <1>3. QED
    BY <1>1, <1>2 DEF cached_write_block

LEMMA StepImplements == IInv /\ [Next]_vars => [Store!Next]_Store!vars
  <1> SUFFICES ASSUME IInv, [Next]_vars
               PROVE  [Store!Next]_Store!vars
    OBVIOUS
  <1>1. ASSUME NEW b \in Requests, ReadMiss(b)
        PROVE  Store!Next
    <2>1. view' = view /\ (Accepts(b) => out' = Answer(b, view[b], 0))
      BY <1>1, ReadMissView
    <2>2. CASE Accepts(b)
      BY <2>1, <2>2, CacheAssumption DEF Store!Next, Store!Read, Store!Answer, Answer
    <2>3. CASE ~Accepts(b)
      <3>1. pool[hash(b)].block \in Data
        BY HashInSlot DEF IInv, TypeOK, Requests
      <3>2. out' = Answer(b, pool[hash(b)].block, 0)
        BY <1>1, <2>3 DEF ReadMiss
      <3>3. Store!Lost(b, pool[hash(b)].block, 0)
        BY <2>1, <2>3, <3>2 DEF Store!Lost, Store!Answer, Answer
      <3>4. QED
        BY <3>1, <3>3 DEF Store!Next
    <2>4. QED
      BY <2>2, <2>3
  <1>2. ASSUME NEW b \in Requests, ReadHit(b)
        PROVE  Store!Next
    <2>1. view' = view /\ out' = Answer(b, pool[hash(b)].block, 0) /\ hit(b)
      BY <1>2 DEF ReadHit, view, hit, hash, Accepts
    <2>2. CASE Accepts(b)
      <3>1. out' = Answer(b, view[b], 0)
        BY <2>1, <2>2 DEF view
      <3>2. QED
        BY <2>1, <2>2, <3>1, CacheAssumption
           DEF Store!Next, Store!Read, Store!Answer, Answer
    <2>3. CASE ~Accepts(b)
      <3>1. pool[hash(b)].block \in Data
        BY HashInSlot DEF IInv, TypeOK, Requests
      <3>2. Store!Lost(b, pool[hash(b)].block, 0)
        BY <2>1, <2>3 DEF Store!Lost, Store!Answer, Answer
      <3>3. QED
        BY <3>1, <3>2 DEF Store!Next
    <2>4. QED
      BY <2>2, <2>3
  <1>3. ASSUME NEW b \in Requests, NEW d \in Data, cached_write_block(b, d)
        PROVE  Store!Next
    <2>1. view' = IF Accepts(b) THEN [view EXCEPT ![b] = d] ELSE view
      BY <1>3, WriteView
    <2>2. \E r \in {0, -1} : out' = Answer(b, d, r) /\ (Accepts(b) => r = 0)
      BY <1>3 DEF cached_write_block, WriteMiss, WriteHit, write_block_ret
    <2>3. CASE Accepts(b)
      BY <2>1, <2>2, <2>3 DEF Store!Next, Store!Write, Store!Answer, Answer
    <2>4. CASE ~Accepts(b)
      BY <2>1, <2>2, <2>4 DEF Store!Next, Store!Lost, Store!Answer, Answer
    <2>5. QED
      BY <2>3, <2>4
  <1>4. ASSUME NEW d \in Data, WriteSuperBlock(d)
        PROVE  UNCHANGED Store!vars
    <2>1. ASSUME NEW c \in Requests, Accepts(c)
          PROVE  dev'[c] = dev[c]
      BY <1>4, <2>1, AcceptedBlock
         DEF WriteSuperBlock, write_block, IInv, TypeOK
    <2>2. view' = view
      BY <1>4, <2>1 DEF view, WriteSuperBlock, hit, hash, Accepts
    <2>3. QED
      BY <1>4, <2>2 DEF Store!vars, WriteSuperBlock
  <1>5. CASE UNCHANGED vars
    BY <1>5 DEF vars, Store!vars, view, hit, hash, Accepts
  <1>6. QED
    BY <1>1, <1>2, <1>3, <1>4, <1>5 DEF Next, cached_read_block

\* For every geometry, the direct-mapped write-back cache over a device that
\* refuses some blocks is an array of the blocks it accepts.
THEOREM CacheImplementsStore == Spec => ImplementsStore
  BY InitImplements, StepImplements, SpecIInv, PTL
     DEF Spec, ImplementsStore, Store!Spec

\* No eviction and no write-through ever changes the super block.
THEOREM CacheSuperBlockKept == Spec => SuperBlockKept
  <1>1. ASSUME IInv, [Next]_vars, dev'[0] # dev[0]
        PROVE  \E d \in Data : WriteSuperBlock(d)
    <2>1. ASSUME NEW b \in Requests, ReadMiss(b)
          PROVE  dev'[0] = dev[0]
      <3>1. hash(b) \in Slot /\ 0 \in 0 .. devsize - 1
        BY HashInSlot, CacheAssumption DEF Requests
      <3>2. CASE pool[hash(b)].num = 0
        BY <1>1, <2>1, <3>1, <3>2 DEF ReadMiss, Evicted, IInv, ZeroNeverDirty
      <3>3. CASE pool[hash(b)].num # 0
        BY <1>1, <2>1, <3>1, <3>3, EvictedElsewhere DEF ReadMiss, IInv
      <3>4. QED
        BY <3>2, <3>3
    <2>2. ASSUME NEW b \in Requests, NEW d \in Data, cached_write_block(b, d)
          PROVE  dev'[0] = dev[0]
      BY <1>1, <2>2, CacheAssumption
         DEF cached_write_block, WriteMiss, WriteHit, write_block, Requests,
             IInv, TypeOK
    <2>3. QED
      BY <1>1, <2>1, <2>2 DEF Next, vars, cached_read_block, ReadHit
  <1>2. IInv /\ [Next]_vars
          => [dev'[0] # dev[0] => \E d \in Data : WriteSuperBlock(d)]_vars
    BY <1>1
  <1>3. QED
    BY <1>2, SpecIInv, PTL DEF Spec, SuperBlockKept
=============================================================================
