SPECIFICATION Spec
CONSTANTS
  HEAP_START_ADDRESS = 8
  Word = 2
  HeapLength = 12
  USIZE_MAX = 31
  Alignments = {1, 2, 4}
  Sizes = {1, 2, 3, 16}
INVARIANTS HeapSound ProbeHitsNoBlock
CHECK_DEADLOCK FALSE
