---------------------------- MODULE BumpAllocator ----------------------------
(***************************************************************************)
(* The program's heap: every block lies behind the last one, nothing is    *)
(* ever freed, and an allocation that leaves the heap aborts the program.  *)
(* The first bytes of the heap hold the position themselves, and a fresh   *)
(* heap is all zero.                                                       *)
(***************************************************************************)
EXTENDS Integers, Sequences

CONSTANTS
  HEAP_START_ADDRESS,
  Word,              \* the bytes the position takes: 8
  HeapLength,        \* the bytes the runtime maps
  USIZE_MAX,
  Alignments,        \* the alignments of the layouts: powers of 2 up to 2^63,
                     \* so that aligning a position of the heap never saturates
  Sizes              \* their sizes

ASSUME AllocatorAssumption ==
  /\ HEAP_START_ADDRESS \in Nat \ {0} /\ Word \in Nat \ {0}
  /\ HeapLength \in Nat /\ HeapLength >= Word
  /\ HEAP_START_ADDRESS + HeapLength \in 0..USIZE_MAX /\ USIZE_MAX \in Nat
  /\ Alignments \subseteq Nat \ {0} /\ Sizes \subseteq Nat \ {0}
  /\ \A a \in Alignments : HEAP_START_ADDRESS + HeapLength + a <= USIZE_MAX

VARIABLES
  pos,               \* the position in the first word of the heap
  blocks,            \* the blocks handed out, each <<first byte, size, align>>
  zeroed,            \* the byte the last allocation wrote, or 0
  aborted

vars == <<pos, blocks, zeroed, aborted>>

SaturatingAdd(x, y) == IF x + y > USIZE_MAX THEN USIZE_MAX ELSE x + y

HeapEnd == HEAP_START_ADDRESS + HeapLength

-----------------------------------------------------------------------------
Init == pos = 0 /\ blocks = <<>> /\ zeroed = 0 /\ aborted = FALSE

(* Mutant: the position itself is handed out. *)
StartOverWord == IF pos = 0 THEN HEAP_START_ADDRESS ELSE pos

Start == IF pos = 0 THEN HEAP_START_ADDRESS + Word ELSE pos

(* The next multiple of the alignment: & !mask clears the low bits.        *)
Begin(align) ==
  LET p == SaturatingAdd(Start, align - 1) IN p - (p % align)

(* Mutant: the position is the block's last byte. *)
EndShort(align, size) == SaturatingAdd(Begin(align), size - 1)

End(align, size) == SaturatingAdd(Begin(align), size)

(* Whether the byte at address a can be written.                           *)
Mapped(a) == a \in HEAP_START_ADDRESS .. HeapEnd - 1

(* The byte written behind the block aborts where it is not mapped.        *)
Alloc(align, size) ==
  /\ ~aborted
  /\ Mapped(End(align, size))
  /\ pos' = End(align, size)
  /\ zeroed' = End(align, size)
  /\ blocks' = Append(blocks, <<Begin(align), size, align>>)
  /\ UNCHANGED aborted

Abort(align, size) ==
  /\ ~aborted
  /\ ~Mapped(End(align, size))
  /\ pos' = End(align, size)
  /\ aborted' = TRUE
  /\ UNCHANGED <<blocks, zeroed>>

(* Nothing is freed.                                                       *)
Dealloc == ~aborted /\ UNCHANGED vars

Next ==
  \/ \E align \in Alignments, size \in Sizes : Alloc(align, size) \/ Abort(align, size)
  \/ Dealloc

Spec == Init /\ [][Next]_vars

-----------------------------------------------------------------------------
Bytes(b) == b[1] .. b[1] + b[2] - 1

(* TypeOK: what every variable ranges over.                                *)
TypeOK ==
  /\ pos \in 0..USIZE_MAX
  /\ blocks \in Seq(Nat \X Sizes \X Alignments)
  /\ zeroed \in Nat
  /\ aborted \in BOOLEAN

(* BlocksDisjoint: no byte belongs to two blocks, or to a block and the    *)
(* stored position, however alignments and sizes follow each other and     *)
(* although the sum that places a block saturates.                         *)
BlocksDisjoint ==
  /\ \A i \in DOMAIN blocks : blocks[i][1] >= HEAP_START_ADDRESS + Word
  /\ \A i, j \in DOMAIN blocks : i # j => Bytes(blocks[i]) \cap Bytes(blocks[j]) = {}

(* BlocksUsable: every block lies in the mapped heap and is aligned.       *)
BlocksUsable ==
  \A i \in DOMAIN blocks :
    /\ blocks[i][1] + blocks[i][2] < HeapEnd
    /\ blocks[i][1] % blocks[i][3] = 0

(* HeapSound: the types, and that what was handed out is apart, in the     *)
(* heap and aligned.                                                       *)
HeapSound == TypeOK /\ BlocksDisjoint /\ BlocksUsable

(* ProbeHitsNoBlock: the byte an allocation writes to find the end of the  *)
(* heap is in no block that was handed out, then or before.                *)
ProbeHitsNoBlock == \A i \in DOMAIN blocks : zeroed \notin Bytes(blocks[i])

=============================================================================
