SPECIFICATION Spec
CONSTANTS
  WordBits = 7
  size = 44
  Sizes = {0, 1, 8, 12, 20, 37, 44, 45}
INVARIANTS
  BumpOrder
  ShadowSound
PROPERTIES
  ImplementsHeap
CHECK_DEADLOCK FALSE
