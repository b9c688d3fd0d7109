SPECIFICATION FairSpec
CONSTANTS
  WordBits = 8
  block_size = 16
  Sizes = {0, 5, 16, 24}
  Bases = {0, 40, 80}
  Extent = 128
INVARIANTS
  TypeOK
  LiveInChain
  ChainComplete
  NothingLeaked
  ShadowSound
PROPERTIES
  DestroyEnds
  ImplementsHeap
