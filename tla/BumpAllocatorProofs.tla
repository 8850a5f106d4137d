------------------------ MODULE BumpAllocatorProofs ------------------------
(***************************************************************************)
(* The blocks of the heap are disjoint, usable and clear of the probing    *)
(* byte, for every heap, every set of alignments and sizes and every       *)
(* width of an address.                                                    *)
(***************************************************************************)
EXTENDS BumpAllocator, TLAPS

(* Blocks follow each other in the heap, the probed byte follows them all, *)
(* and while the program runs the position is there too.                   *)
Placed(b) ==
  /\ b \in Nat \X Sizes \X Alignments
  /\ b[1] >= HEAP_START_ADDRESS + Word
  /\ b[1] + b[2] <= zeroed
  /\ b[1] % b[3] = 0

HeapInv ==
  /\ pos \in 0..USIZE_MAX /\ zeroed \in Nat /\ aborted \in BOOLEAN
  /\ blocks \in Seq(Nat \X Sizes \X Alignments)
  /\ ~aborted => pos = zeroed
  /\ zeroed < HeapEnd
  /\ zeroed = 0 \/ zeroed >= HEAP_START_ADDRESS + Word
  /\ \A i \in DOMAIN blocks : Placed(blocks[i])
  /\ \A i, j \in DOMAIN blocks : i < j => blocks[i][1] + blocks[i][2] <= blocks[j][1]

(* Rounding down leaves a multiple, less than the divisor away.            *)
LEMMA Rounding ==
  ASSUME NEW p \in Nat, NEW a \in Nat \ {0}
  PROVE  /\ p % a \in 0..a - 1
         /\ p - (p % a) \in Nat
         /\ p - (p % a) >= p - (a - 1)
         /\ (p - (p % a)) % a = 0
<1>1. p % a \in 0..a - 1
  OBVIOUS
<1>2. p = a * (p \div a) + (p % a) /\ p \div a \in Nat
  OBVIOUS
<1>3. p - (p % a) = a * (p \div a)
  BY <1>1, <1>2
<1>4. \A q \in Nat : (a * q) % a = 0 /\ a * q \in Nat
  OBVIOUS
<1>5. p % a \in Int /\ a * (p \div a) \in Nat
  BY <1>1, <1>2, <1>4
<1>6. (p - (p % a)) % a = 0
  BY <1>2, <1>3, <1>4
<1>7. p - (p % a) \in Nat /\ p - (p % a) >= p - (a - 1)
  BY <1>1, <1>3, <1>5
<1> QED
  BY <1>1, <1>6, <1>7

LEMMA SaturatingBounds ==
  ASSUME NEW x \in Nat, NEW y \in Nat
  PROVE  /\ SaturatingAdd(x, y) \in 0..USIZE_MAX
         /\ x + y <= USIZE_MAX => SaturatingAdd(x, y) = x + y
         /\ SaturatingAdd(x, y) < USIZE_MAX => SaturatingAdd(x, y) = x + y
  BY AllocatorAssumption DEF SaturatingAdd

(* A block begins at or behind the position, and ends where its size says  *)
(* if its end is in the heap.                                              *)
LEMMA BlockPlaces ==
  ASSUME HeapInv, ~aborted, NEW align \in Alignments, NEW size \in Sizes
  PROVE  /\ Begin(align) \in Nat /\ Begin(align) % align = 0
         /\ Begin(align) >= zeroed /\ Begin(align) >= HEAP_START_ADDRESS + Word
         /\ End(align, size) \in 0..USIZE_MAX
         /\ Mapped(End(align, size)) =>
              End(align, size) = Begin(align) + size /\ End(align, size) < HeapEnd
<1>1. align \in Nat \ {0} /\ size \in Nat \ {0}
  BY AllocatorAssumption
<1>2. /\ Start \in Nat /\ Start <= HeapEnd /\ Start >= HEAP_START_ADDRESS + Word
      /\ Start >= zeroed
  BY AllocatorAssumption DEF HeapInv, Start, HeapEnd
<1>3. Start + (align - 1) <= USIZE_MAX
  BY <1>1, <1>2, AllocatorAssumption DEF HeapEnd
<1> DEFINE p == SaturatingAdd(Start, align - 1)
<1>4. p \in Nat /\ p = Start + (align - 1)
  <2>1. align - 1 \in Nat
    BY <1>1
  <2>2. SaturatingAdd(Start, align - 1) = Start + (align - 1)
    BY <1>2, <1>3, <2>1, SaturatingBounds
  <2> QED
    BY <1>2, <2>1, <2>2
<1>5. Begin(align) = p - (p % align)
  BY DEF Begin
<1> HIDE DEF p
<1>6. /\ Begin(align) \in Nat /\ Begin(align) % align = 0
      /\ Begin(align) >= p - (align - 1)
  BY <1>1, <1>4, <1>5, Rounding
<1>7. Begin(align) >= Start
  BY <1>1, <1>2, <1>4, <1>6
<1>8. /\ End(align, size) \in 0..USIZE_MAX
      /\ End(align, size) < USIZE_MAX => End(align, size) = Begin(align) + size
  BY <1>1, <1>6, SaturatingBounds DEF End
<1>9. Mapped(End(align, size)) => End(align, size) < HeapEnd /\ HeapEnd <= USIZE_MAX
  BY <1>8, AllocatorAssumption DEF Mapped, HeapEnd
<1>10. zeroed \in Nat /\ HEAP_START_ADDRESS + Word \in Nat /\ USIZE_MAX \in Nat /\ HeapEnd \in Nat
  BY AllocatorAssumption DEF HeapInv, HeapEnd
<1>11. Begin(align) >= zeroed /\ Begin(align) >= HEAP_START_ADDRESS + Word
  BY <1>2, <1>6, <1>7, <1>10
<1>12. ASSUME Mapped(End(align, size))
       PROVE  End(align, size) = Begin(align) + size /\ End(align, size) < HeapEnd
  BY <1>8, <1>9, <1>10, <1>12
<1> QED
  BY <1>6, <1>8, <1>11, <1>12

LEMMA HeapInitial == Init => HeapInv
<1> SUFFICES ASSUME Init
             PROVE  HeapInv
  OBVIOUS
<1>1. blocks \in Seq(Nat \X Sizes \X Alignments) /\ DOMAIN blocks = {}
  BY DEF Init
<1>2. 0 \in 0..USIZE_MAX /\ 0 < HeapEnd
  BY AllocatorAssumption DEF HeapEnd
<1> QED
  BY <1>1, <1>2 DEF Init, HeapInv

(* An allocation adds a block behind all others.                           *)
LEMMA AllocKeeps ==
  ASSUME HeapInv, NEW align \in Alignments, NEW size \in Sizes, Alloc(align, size)
  PROVE  HeapInv'
<1> DEFINE b == <<Begin(align), size, align>>
           e == End(align, size)
<1>1. /\ b \in Nat \X Sizes \X Alignments
      /\ b[1] % b[3] = 0 /\ b[1] >= zeroed /\ b[1] >= HEAP_START_ADDRESS + Word
      /\ e \in 0..USIZE_MAX /\ e = b[1] + b[2] /\ e < HeapEnd
      /\ b[2] \in Nat \ {0}
  BY BlockPlaces, AllocatorAssumption DEF Alloc
<1>2. /\ pos' = e /\ zeroed' = e /\ ~aborted /\ ~aborted'
      /\ blocks' = Append(blocks, b)
  BY DEF Alloc, HeapInv
<1> HIDE DEF b, e
<1>3. blocks \in Seq(Nat \X Sizes \X Alignments) /\ zeroed \in Nat
  BY DEF HeapInv
<1>4. /\ blocks' \in Seq(Nat \X Sizes \X Alignments)
      /\ DOMAIN blocks = 1..Len(blocks) /\ DOMAIN blocks' = 1..Len(blocks) + 1
      /\ Len(blocks) \in Nat
      /\ \A i \in DOMAIN blocks : blocks'[i] = blocks[i]
      /\ blocks'[Len(blocks) + 1] = b
  BY <1>1, <1>2, <1>3
<1> PICK n \in Nat : n = Len(blocks) + 1
  BY <1>4
<1>5. e \in Nat /\ e > zeroed
  BY <1>1, <1>3
<1>6. \A i \in DOMAIN blocks : Placed(blocks[i]) /\ Placed(blocks[i])'
  <2> SUFFICES ASSUME NEW i \in DOMAIN blocks
               PROVE  Placed(blocks[i]) /\ Placed(blocks[i])'
    OBVIOUS
  <2>1. Placed(blocks[i])
    BY DEF HeapInv
  <2>2. blocks[i][1] \in Nat /\ blocks[i][2] \in Nat
    BY <2>1, AllocatorAssumption DEF Placed
  <2>3. blocks'[i] = blocks[i]
    BY <1>4
  <2> QED
    BY <1>2, <1>3, <1>5, <2>1, <2>2, <2>3 DEF Placed
<1>7. Placed(blocks[n])'
  <2>1. blocks'[n] = b
    BY <1>4
  <2>2. b[1] + b[2] <= e
    BY <1>1
  <2> QED
    BY <1>1, <1>2, <2>1, <2>2 DEF Placed
<1>8. \A i \in DOMAIN blocks' : Placed(blocks[i])'
  <2> SUFFICES ASSUME NEW i \in DOMAIN blocks'
               PROVE  Placed(blocks[i])'
    OBVIOUS
  <2>1. i \in DOMAIN blocks \/ i = n
    BY <1>4
  <2> QED
    BY <1>6, <1>7, <2>1
<1>9. ASSUME NEW i \in DOMAIN blocks', NEW j \in DOMAIN blocks', i < j
      PROVE  blocks'[i][1] + blocks'[i][2] <= blocks'[j][1]
  <2>1. i \in DOMAIN blocks
    BY <1>4, <1>9
  <2>2. CASE j \in DOMAIN blocks
    BY <1>4, <1>9, <2>1, <2>2 DEF HeapInv
  <2>3. CASE j = Len(blocks) + 1
    <3>1. blocks[i][1] + blocks[i][2] <= zeroed /\ blocks[i] \in Nat \X Sizes \X Alignments
      BY <1>6, <2>1 DEF Placed
    <3>2. blocks[i][1] + blocks[i][2] \in Nat
      BY <3>1, AllocatorAssumption
    <3> QED
      BY <1>1, <1>3, <1>4, <2>1, <2>3, <3>1, <3>2
  <2> QED
    BY <1>4, <2>2, <2>3
<1>10. e \in 0..USIZE_MAX /\ e < HeapEnd /\ HeapEnd' = HeapEnd
  BY <1>1 DEF HeapEnd
<1>11. e >= HEAP_START_ADDRESS + Word
  BY <1>1, AllocatorAssumption
<1>a. aborted' \in BOOLEAN
  BY DEF Alloc, HeapInv
<1>12. /\ pos' \in 0..USIZE_MAX /\ zeroed' \in Nat /\ aborted' \in BOOLEAN
       /\ ~aborted' => pos' = zeroed'
       /\ zeroed' < HeapEnd'
       /\ zeroed' = 0 \/ zeroed' >= HEAP_START_ADDRESS + Word
  BY <1>a, <1>2, <1>5, <1>10, <1>11
<1>13. \A i, j \in DOMAIN blocks' :
         i < j => blocks'[i][1] + blocks'[i][2] <= blocks'[j][1]
  BY <1>9
<1> QED
  BY <1>4, <1>8, <1>12, <1>13 DEF HeapInv

LEMMA HeapStep == HeapInv /\ [Next]_vars => HeapInv'
<1> SUFFICES ASSUME HeapInv, [Next]_vars
             PROVE  HeapInv'
  OBVIOUS
<1>1. CASE UNCHANGED vars
  BY <1>1 DEF vars, HeapInv, Placed
<1>2. ASSUME NEW align \in Alignments, NEW size \in Sizes, Alloc(align, size)
      PROVE  HeapInv'
  BY <1>2, AllocKeeps
<1>3. ASSUME NEW align \in Alignments, NEW size \in Sizes, Abort(align, size)
      PROVE  HeapInv'
  <2>1. pos' \in 0..USIZE_MAX
    BY <1>3, BlockPlaces DEF Abort
  <2> QED
    BY <1>3, <2>1 DEF Abort, HeapInv, Placed
<1>4. CASE Dealloc
  BY <1>1, <1>4 DEF Dealloc
<1> QED
  BY <1>1, <1>2, <1>3, <1>4 DEF Next

LEMMA HeapInvariance == Spec => []HeapInv
  BY HeapInitial, HeapStep, PTL DEF Spec

(* The types of the heap, for every behaviour.                             *)
LEMMA HeapTypes == Spec => []TypeOK
<1>1. HeapInv => TypeOK
  BY DEF HeapInv, TypeOK
<1> QED
  BY <1>1, HeapInvariance, PTL

(* No byte of the heap is handed out twice, nor the stored position.       *)
LEMMA HeapBlocksDisjoint == Spec => []BlocksDisjoint
<1>1. HeapInv => BlocksDisjoint
  <2> SUFFICES ASSUME HeapInv PROVE BlocksDisjoint
    OBVIOUS
  <2>1. \A i \in DOMAIN blocks : /\ blocks[i][1] \in Nat /\ blocks[i][2] \in Nat
                                 /\ blocks[i][1] >= HEAP_START_ADDRESS + Word
    BY AllocatorAssumption DEF HeapInv, Placed
  <2>2. ASSUME NEW i \in DOMAIN blocks, NEW j \in DOMAIN blocks, i < j
        PROVE  Bytes(blocks[i]) \cap Bytes(blocks[j]) = {}
    <3>1. blocks[i][1] + blocks[i][2] <= blocks[j][1]
      BY <2>2 DEF HeapInv
    <3> QED
      BY <2>1, <3>1 DEF Bytes
  <2>3. ASSUME NEW i \in DOMAIN blocks, NEW j \in DOMAIN blocks, i # j
        PROVE  Bytes(blocks[i]) \cap Bytes(blocks[j]) = {}
    <3>1. i \in Nat /\ j \in Nat
      BY DEF HeapInv
    <3>2. i < j \/ j < i
      BY <2>3, <3>1
    <3> QED
      BY <2>2, <3>2
  <2> QED
    BY <2>1, <2>3 DEF BlocksDisjoint
<1> QED
  BY <1>1, HeapInvariance, PTL

(* Every block lies in the heap and is aligned.                            *)
LEMMA HeapBlocksUsable == Spec => []BlocksUsable
<1>1. HeapInv => BlocksUsable
  <2> SUFFICES ASSUME HeapInv, NEW i \in DOMAIN blocks
               PROVE  /\ blocks[i][1] + blocks[i][2] < HeapEnd
                      /\ blocks[i][1] % blocks[i][3] = 0
    BY DEF BlocksUsable
  <2>1. /\ Placed(blocks[i]) /\ zeroed \in Nat /\ zeroed < HeapEnd
        /\ HeapEnd \in Nat
    BY AllocatorAssumption DEF HeapInv, HeapEnd
  <2>2. blocks[i][1] \in Nat /\ blocks[i][2] \in Nat
    BY <2>1, AllocatorAssumption DEF Placed
  <2> QED
    BY <2>1, <2>2 DEF Placed
<1> QED
  BY <1>1, HeapInvariance, PTL

(* Every block is apart from the others and from the stored position, lies *)
(* in the heap and is aligned (BumpAllocator::alloc).                      *)
THEOREM HeapSoundness == Spec => []HeapSound
<1>1. TypeOK /\ BlocksDisjoint /\ BlocksUsable => HeapSound
  BY DEF HeapSound
<1> QED
  BY <1>1, HeapTypes, HeapBlocksDisjoint, HeapBlocksUsable, PTL

(* The byte that probes the end of the heap is in no block.                *)
THEOREM HeapProbeHitsNoBlock == Spec => []ProbeHitsNoBlock
<1>1. HeapInv => ProbeHitsNoBlock
  <2> SUFFICES ASSUME HeapInv, NEW i \in DOMAIN blocks
               PROVE  zeroed \notin Bytes(blocks[i])
    BY DEF ProbeHitsNoBlock
  <2>1. Placed(blocks[i]) /\ zeroed \in Nat
    BY DEF HeapInv
  <2>2. blocks[i][1] \in Nat /\ blocks[i][2] \in Nat
    BY <2>1, AllocatorAssumption DEF Placed
  <2> QED
    BY <2>1, <2>2 DEF Placed, Bytes
<1> QED
  BY <1>1, HeapInvariance, PTL

=============================================================================
