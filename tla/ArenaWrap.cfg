SPECIFICATION Spec
CONSTANTS
  WordBits = 8
  block_size = 16
  Sizes = {5, 16, 240}
  Bases = {0, 40, 80}
  Extent = 128
INVARIANT
  InsideChild
