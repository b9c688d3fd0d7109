SPECIFICATION Spec
CONSTANTS
  requested = 20
  total_blocks = 5
  Sizes = {0, 1, 24, 25}
INVARIANTS
  ListSound
  ListComplete
  ShadowExact
  ChildBalanced
PROPERTY
  ImplementsHeap
