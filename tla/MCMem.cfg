SPECIFICATION FairSpec
CONSTANTS
  heap_start = 16
  heap_end = 72
  Word = 128
  Sizes <- MCSizes
  Aligns <- MCAligns
INVARIANTS
  TypeOK
  HeapPartition
  FreeListSound
  RestoredWhenEmpty
PROPERTIES
  ImplementsMemSpec
  CallsReturn
