SPECIFICATION FairSpec
CONSTANTS
  max_order = 8
  min_order = 5
  Sizes = {0, 1, 33, 100, 256, 257}
INVARIANTS
  TypeOK
  NoOverlap
  NoLeak
  LevelFromSize
  LinksConsistent
  ListsMatchBitset
  Coalesced
  NoFalseRefusal
  ShadowExact
PROPERTIES
  CallsReturn
  ImplementsHeap
