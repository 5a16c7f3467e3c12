--------------------------- MODULE ZoneMapProofs ----------------------------
(* Proofs about ZoneMap.tla, for every size of the bitmap and the device,  *)
(* and every set of zone contents.                                         *)
EXTENDS ZoneMap, BitmapProofs

\* zone.c:27: what the scan of the zone map answers.
LEMMA Scan ==
  ASSUME IInv
  PROVE  LET index == find_first_zero(zmap, bit_count)
         IN  /\ index \in Bit \cup {bit_count}
             /\ index \notin zmap
             /\ index = bit_count <=> zmap = Bit
  BY FindFirstZero, ZoneMapAssumption DEF IInv, TypeOK, Bit

LEMMA NumberOfBit == \A i \in Bit : i + 1 \in Number /\ i \in Nat /\ i # bit_count
  BY ZoneMapAssumption DEF Bit, Bits, Number

LEMMA BitOfNumber == \A n \in Number : n - 1 \in Bit /\ n \in Nat /\ n # 0
  BY ZoneMapAssumption DEF Bit, Bits, Number

\* Writing a content to a zone, stored or not, keeps the zones' type.
LEMMA WrittenType ==
  ASSUME TypeOK, NEW n, NEW c \in Content
  PROVE  /\ Written(n, c) \in [Stored -> Content]
         /\ n \in Stored => Written(n, c)[n] = c
  BY DEF TypeOK, Written

LEMMA InitIInv == Init => IInv
  BY ZoneMapAssumption DEF Init, IInv, TypeOK, HintFree, Bit, Bits

\* alloc_zone sets one clear bit and fills that zone with zeros, or answers
\* 0 and changes nothing; either way no hint is left.
LEMMA AllocEffect ==
  ASSUME IInv, NEW n \in Number \cup {0}, alloc_zone(n)
  PROVE  /\ last_free_zone_num' = 0
         /\ \/ /\ n \in Number
               /\ n - 1 \notin zmap
               /\ zmap' = zmap \cup {n - 1}
               /\ zones' = Written(n, zeros)
            \/ /\ n = 0
               /\ zmap = Bit
               /\ UNCHANGED <<zmap, zones>>
  <1>1. CASE AllocByScan(n)
    BY <1>1, Scan, NumberOfBit DEF AllocByScan, Take
  <1>2. CASE AllocFails(n)
    BY <1>2, Scan DEF AllocFails
  <1>3. CASE AllocByHint(n)
    BY <1>3, BitOfNumber DEF AllocByHint, Take, IInv, TypeOK, HintFree
  <1>4. QED
    BY <1>1, <1>2, <1>3 DEF alloc_zone

LEMMA NextIInv == IInv /\ [Next]_vars => IInv'
  <1> SUFFICES ASSUME IInv, [Next]_vars
               PROVE  IInv'
    OBVIOUS
  <1>1. ASSUME NEW n \in Number \cup {0}, alloc_zone(n), num' = n
        PROVE  IInv'
    <2>1. zones' \in [Stored -> Content]
      BY <1>1, AllocEffect, WrittenType, ZoneMapAssumption DEF IInv, TypeOK
    <2>2. QED
      BY <1>1, <2>1, AllocEffect, BitOfNumber DEF IInv, TypeOK, HintFree
  <1>2. ASSUME NEW n \in Number, free_zone(n), UNCHANGED num
        PROVE  IInv'
    BY <1>2, BitOfNumber DEF free_zone, IInv, TypeOK, HintFree
  <1>3. ASSUME NEW n \in Number, NEW c \in Content, write_zone(n, c),
               UNCHANGED num
        PROVE  IInv'
    BY <1>3, WrittenType DEF write_zone, IInv, TypeOK, HintFree
  <1>4. ASSUME clear_zones, UNCHANGED num
        PROVE  IInv'
    BY <1>4 DEF clear_zones, IInv, TypeOK, HintFree
  <1>5. ASSUME new_program, UNCHANGED num
        PROVE  IInv'
    BY <1>5 DEF new_program, IInv, TypeOK, HintFree
  <1>6. CASE UNCHANGED vars
    BY <1>6 DEF IInv, TypeOK, HintFree, vars
  <1>7. QED
    BY <1>1, <1>2, <1>3, <1>4, <1>5, <1>6 DEF Next

LEMMA SpecIInv == Spec => []IInv
  BY InitIInv, NextIInv, PTL DEF Spec

\* Every reachable state of the zone allocator is well-typed.
THEOREM ZoneMapTypeCorrect == Spec => []TypeOK
  <1>1. IInv => TypeOK
    BY DEF IInv
  <1>2. QED
    BY <1>1, SpecIInv, PTL

\* The remembered zone is always a free one: alloc_zone may set its bit
\* without looking at it.
THEOREM ZoneHintFree == Spec => []HintFree
  <1>1. IInv => HintFree
    BY DEF IInv
  <1>2. QED
    BY <1>1, SpecIInv, PTL

\* What a step of the allocator does to the set of zones in use.
LEMMA UsedEffect ==
  ASSUME IInv, NEW n \in Number, zmap' = zmap \cup {n - 1}, n - 1 \notin zmap
  PROVE  n \notin Used /\ Used' = Used \cup {n}
  BY BitOfNumber DEF Used

\* For every bitmap size the zone allocator is a pool of numbers: none in
\* use is handed out, and 0 is answered only when all are in use.
THEOREM ZoneMapImplementsPool == Spec => ImplementsPool
  <1>1. Init => Pool!Init
    BY DEF Init, Pool!Init, Used
  <1>2. IInv /\ [Next]_vars => [Pool!Next]_Pool!vars
    <2> SUFFICES ASSUME IInv, [Next]_vars
                 PROVE  [Pool!Next]_Pool!vars
      OBVIOUS
    <2>1. ASSUME NEW n \in Number \cup {0}, alloc_zone(n), num' = n
          PROVE  Pool!Next
      <3>1. CASE n \in Number /\ n - 1 \notin zmap /\ zmap' = zmap \cup {n - 1}
        BY <2>1, <3>1, UsedEffect DEF Pool!Next, Pool!Alloc
      <3>2. CASE n = 0 /\ zmap = Bit /\ zmap' = zmap
        BY <2>1, <3>2, BitOfNumber DEF Pool!Next, Pool!Exhausted, Used
      <3>3. QED
        BY <2>1, <3>1, <3>2, AllocEffect
    <2>2. ASSUME NEW n \in Number, free_zone(n), UNCHANGED num
          PROVE  Pool!Next
      <3>1. Used' = Used \ {n}
        BY <2>2, BitOfNumber DEF free_zone, Used
      <3>2. QED
        BY <2>2, <3>1 DEF Pool!Next, Pool!Release
    <2>3. ASSUME NEW n \in Number, NEW c \in Content, write_zone(n, c),
                 UNCHANGED num
          PROVE  UNCHANGED Pool!vars
      BY <2>3 DEF write_zone, Pool!vars, Used
    <2>4. ASSUME clear_zones, UNCHANGED num
          PROVE  Pool!Next
      BY <2>4 DEF clear_zones, Pool!Next, Pool!Reset, Used
    <2>5. ASSUME new_program, UNCHANGED num
          PROVE  Pool!Next
      BY <2>5 DEF new_program, Pool!Next, Pool!Reset, Used
    <2>6. CASE UNCHANGED vars
      BY <2>6 DEF vars, Pool!vars, Used
    <2>7. QED
      BY <2>1, <2>2, <2>3, <2>4, <2>5, <2>6 DEF Next
  <1>3. QED
    BY <1>1, <1>2, SpecIInv, PTL DEF Spec, ImplementsPool, Pool!Spec

\* Whatever a zone of the device held before, it holds zeros when it comes
\* into use: the index zones of dz.c are read under this assumption.
THEOREM ZoneMapFreshZoneIsZero == Spec => FreshZoneIsZero
  <1> DEFINE Fresh == \A n \in (Used' \ Used) \cap Stored : zones'[n] = zeros
  <1>1. IInv /\ [Next]_vars => [Fresh]_vars
    <2> SUFFICES ASSUME IInv, [Next]_vars
                 PROVE  Fresh \/ UNCHANGED vars
      OBVIOUS
    <2>1. ASSUME NEW n \in Number \cup {0}, alloc_zone(n), num' = n
          PROVE  Fresh
      <3>1. CASE /\ n \in Number
                 /\ n - 1 \notin zmap
                 /\ zmap' = zmap \cup {n - 1}
                 /\ zones' = Written(n, zeros)
        <4>1. Used' = Used \cup {n}
          BY <3>1, UsedEffect
        <4>2. n \in Stored => Written(n, zeros)[n] = zeros
          BY WrittenType, ZoneMapAssumption DEF IInv
        <4>3. QED
          BY <3>1, <4>1, <4>2
      <3>2. CASE n = 0 /\ zmap' = zmap
        BY <3>2 DEF Used
      <3>3. QED
        BY <2>1, <3>1, <3>2, AllocEffect
    <2>2. ASSUME NEW n \in Number, free_zone(n)
          PROVE  Fresh
      BY <2>2 DEF free_zone, Used
    <2>3. ASSUME NEW n \in Number, NEW c \in Content, write_zone(n, c)
          PROVE  Fresh
      BY <2>3 DEF write_zone, Used
    <2>4. ASSUME clear_zones
          PROVE  Fresh
      BY <2>4 DEF clear_zones, Used
    <2>5. ASSUME new_program
          PROVE  Fresh
      BY <2>5 DEF new_program, Used
    <2>6. QED
      BY <2>1, <2>2, <2>3, <2>4, <2>5 DEF Next
  <1>2. QED
    BY <1>1, SpecIInv, PTL DEF Spec, FreshZoneIsZero
=============================================================================
