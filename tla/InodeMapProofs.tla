--------------------------- MODULE InodeMapProofs ---------------------------
(* Proofs about InodeMap.tla, for every size of the bitmap.                *)
EXTENDS InodeMap, BitmapProofs

\* inode.c:54: what the scan of the inode map answers.
LEMMA Scan ==
  ASSUME IInv
  PROVE  LET index == find_first_zero(imap, bit_count)
         IN  /\ index \in Bit \cup {bit_count}
             /\ index \notin imap
             /\ index = bit_count <=> imap = Bit
  BY FindFirstZero, InodeMapAssumption DEF IInv, TypeOK, Bit

LEMMA NumberOfBit == \A i \in Bit : i + 1 \in Number /\ i \in Nat /\ i # bit_count
  BY InodeMapAssumption DEF Bit, Bits, Number

LEMMA BitOfNumber == \A n \in Number : n - 1 \in Bit /\ n \in Nat /\ n # 0
  BY InodeMapAssumption DEF Bit, Bits, Number

LEMMA InitIInv == Init => IInv
  BY InodeMapAssumption DEF Init, IInv, TypeOK, HintFree, Bit, Bits

\* alloc_inode sets one clear bit, or answers 0 and changes nothing.
LEMMA AllocEffect ==
  ASSUME IInv, NEW n \in Number \cup {0}, alloc_inode(n)
  PROVE  \/ /\ n \in Number
            /\ n - 1 \notin imap
            /\ imap' = imap \cup {n - 1}
            /\ first_zero_index' = bit_count
         \/ /\ n = 0
            /\ imap = Bit
            /\ UNCHANGED <<imap, first_zero_index>>
  <1>1. CASE AllocByScan(n)
    BY <1>1, Scan, NumberOfBit DEF AllocByScan
  <1>2. CASE AllocFails(n)
    BY <1>2, Scan DEF AllocFails
  <1>3. CASE AllocByHint(n)
    BY <1>3, NumberOfBit DEF AllocByHint, IInv, TypeOK, HintFree
  <1>4. QED
    BY <1>1, <1>2, <1>3 DEF alloc_inode

LEMMA NextIInv == IInv /\ [Next]_vars => IInv'
  <1> SUFFICES ASSUME IInv, [Next]_vars
               PROVE  IInv'
    OBVIOUS
  <1>1. ASSUME NEW n \in Number \cup {0}, alloc_inode(n), num' = n
        PROVE  IInv'
    <2>1. bit_count \notin Bit
      BY InodeMapAssumption DEF Bit, Bits
    <2>2. QED
      BY <1>1, <2>1, AllocEffect, BitOfNumber DEF IInv, TypeOK, HintFree
  <1>2. ASSUME NEW n \in Number, free_inode(n), UNCHANGED num
        PROVE  IInv'
    <2>1. n - 1 \in Bit
      BY BitOfNumber
    <2>2. QED
      BY <1>2, <2>1 DEF free_inode, IInv, TypeOK, HintFree
  <1>3. ASSUME clear_inodes, UNCHANGED num
        PROVE  IInv'
    BY <1>3, InodeMapAssumption
       DEF clear_inodes, IInv, TypeOK, HintFree, Bit, Bits
  <1>4. CASE UNCHANGED vars
    BY <1>4 DEF IInv, TypeOK, HintFree, vars
  <1>5. QED
    BY <1>1, <1>2, <1>3, <1>4 DEF Next

LEMMA SpecIInv == Spec => []IInv
  BY InitIInv, NextIInv, PTL DEF Spec

\* Every reachable state of the inode allocator is well-typed.
THEOREM InodeMapTypeCorrect == Spec => []TypeOK
  <1>1. IInv => TypeOK
    BY DEF IInv
  <1>2. QED
    BY <1>1, SpecIInv, PTL

\* The hint of the inode allocator never names an inode in use.
THEOREM InodeHintFree == Spec => []HintFree
  <1>1. IInv => HintFree
    BY DEF IInv
  <1>2. QED
    BY <1>1, SpecIInv, PTL

\* For every bitmap size the inode allocator is a pool of numbers: none in
\* use is handed out, and 0 is answered only when all are in use.
THEOREM InodeMapImplementsPool == Spec => ImplementsPool
  <1> DEFINE U == {n \in Number : n - 1 \in imap}
  <1>1. Init => Pool!Init
    BY DEF Init, Pool!Init
  <1>2. IInv /\ [Next]_vars => [Pool!Next]_Pool!vars
    <2> SUFFICES ASSUME IInv, [Next]_vars
                 PROVE  [Pool!Next]_Pool!vars
      OBVIOUS
    <2>1. ASSUME NEW n \in Number \cup {0}, alloc_inode(n), num' = n
          PROVE  Pool!Next
      <3>1. CASE n \in Number /\ n - 1 \notin imap /\ imap' = imap \cup {n - 1}
        <4>1. n \in Number \ U
          BY <3>1
        <4>2. U' = U \cup {n}
          BY <3>1, BitOfNumber
        <4>3. QED
          BY <2>1, <4>1, <4>2 DEF Pool!Next, Pool!Alloc
      <3>2. CASE n = 0 /\ imap = Bit /\ imap' = imap
        BY <2>1, <3>2, BitOfNumber DEF Pool!Next, Pool!Exhausted
      <3>3. QED
        BY <2>1, <3>1, <3>2, AllocEffect
    <2>2. ASSUME NEW n \in Number, free_inode(n), UNCHANGED num
          PROVE  Pool!Next
      <3>1. U' = U \ {n}
        BY <2>2, BitOfNumber DEF free_inode
      <3>2. QED
        BY <2>2, <3>1 DEF Pool!Next, Pool!Release
    <2>3. ASSUME clear_inodes, UNCHANGED num
          PROVE  Pool!Next
      BY <2>3 DEF clear_inodes, Pool!Next, Pool!Reset
    <2>4. CASE UNCHANGED vars
      BY <2>4 DEF vars, Pool!vars
    <2>5. QED
      BY <2>1, <2>2, <2>3, <2>4 DEF Next
  <1>3. QED
    BY <1>1, <1>2, SpecIInv, PTL DEF Spec, ImplementsPool, Pool!Spec
=============================================================================
